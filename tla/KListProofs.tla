------------------------------ MODULE KListProofs ------------------------------
(***************************************************************************)
(* What holds of the list and its lock for every set of tasks and every    *)
(* number of pushes.                                                       *)
(***************************************************************************)
EXTENDS KList, NatRecursion, FiniteSetTheorems, TLAPS

\* A task that has its element in hand has one, and only Main prints and frees.
InHand == {"linkFirst", "setLast", "back", "link"}
HandIsFull ==
  \A t \in Tasks :
    pc[t] \in InHand \/ (pc[t] \in AtUnlock /\ call[t] = "push") => node[t] \in Nodes
CallFits ==
  \A t \in Tasks : /\ pc[t] = "print" => call[t] = "print"
                   /\ pc[t] \in {"check", "walk"} => call[t] = "free"

TypeInv == TypeOK /\ HandIsFull /\ CallFits

LEMMA InitTypes == Init => TypeInv
<1> SUFFICES ASSUME Init PROVE TypeInv
  OBVIOUS
<1>1. pushed \in Seq([node : Nodes, by : Tasks])
  BY DEF Init
<1>2. [t \in Tasks |-> MaxPushes] \in [Tasks -> 0 .. MaxPushes]
  BY NodesAssumption
<1>3. TypeOK
  <2>1. /\ {first, last} \subseteq Opt /\ {next, prev} \subseteq [Nodes -> Opt]
        /\ lock \in Int /\ loaded \in [Tasks -> Int]
    BY DEF Init, Opt
  <2>2. /\ owner \in [Nodes -> Tasks \cup {NULL}] /\ node \in [Tasks -> Opt]
        /\ pc \in [Tasks -> Places] /\ call \in [Tasks -> Calls]
    BY DEF Init, Opt, Places, Calls
  <2>3. overlapped \in BOOLEAN /\ reused \in BOOLEAN
    BY DEF Init
  <2>4. todo \in [Tasks -> 0 .. MaxPushes]
    BY <1>2 DEF Init
  <2> QED
    BY <1>1, <2>1, <2>2, <2>3, <2>4 DEF TypeOK
<1>4. HandIsFull /\ CallFits
  BY DEF Init, HandIsFull, CallFits, InHand, AtUnlock
<1> QED
  BY <1>3, <1>4 DEF TypeInv

\* Whether an element is in the list is a truth value.
LEMMA InChainType ==
  ASSUME NEW n \in Nodes PROVE InChain(n) \in BOOLEAN
BY DEF InChain

LEMMA InitialiseTypes ==
  ASSUME TypeInv, NEW t \in Tasks, NEW from, NEW to \in {"linkFirst", "back"},
         Initialise(t, from, to)
  PROVE  TypeInv'
<1> USE DEF TypeInv
<1>1. PICK n \in Unallocated :
        /\ reused' = InChain(n)
        /\ next' = [next EXCEPT ![n] = IF from = "initFirst" THEN NULL ELSE first]
        /\ prev' = [prev EXCEPT ![n] = NULL]
        /\ owner' = [owner EXCEPT ![n] = t]
        /\ node' = [node EXCEPT ![t] = n]
  BY DEF Initialise
<1>2. n \in Nodes
  BY DEF Unallocated
<1>3. /\ pc' = [pc EXCEPT ![t] = to]
      /\ UNCHANGED <<first, last, lock, call, loaded, todo, pushed, overlapped>>
  BY DEF Initialise, Goes
<1>4. TypeOK'
  <2>1. reused' \in BOOLEAN
    BY <1>1, <1>2, InChainType
  <2>2. next' \in [Nodes -> Opt] /\ prev' \in [Nodes -> Opt]
    BY <1>1, <1>2 DEF TypeOK, Opt
  <2>3. pc' \in [Tasks -> Places]
    BY <1>3 DEF TypeOK, Places, Working
  <2> QED
    BY <1>1, <1>2, <1>3, <2>1, <2>2, <2>3 DEF TypeOK, Opt
<1>5. HandIsFull'
  BY <1>1, <1>2, <1>3 DEF TypeOK, HandIsFull, InHand, AtUnlock
<1>6. CallFits'
  BY <1>3 DEF TypeOK, CallFits
<1> QED
  BY <1>4, <1>5, <1>6

LEMMA StoreUnlockTypes ==
  ASSUME TypeInv, NEW t \in Tasks, StoreUnlock(t)
  PROVE  TypeInv'
<1> USE DEF TypeInv
<1>1. pc \in [Tasks -> Places] /\ call \in [Tasks -> Calls] /\ pc[t] = "storeAgain"
  BY DEF TypeOK, StoreUnlock, At
<1>2. /\ lock' \in Int
      /\ UNCHANGED <<shared, owner, loaded, node, todo, overlapped, reused>>
  BY DEF StoreUnlock, TypeOK
<1>3. CASE call[t] = "push"
  <2>1. pushed' = <<[node |-> node[t], by |-> t]>> \o pushed
    BY <1>3 DEF StoreUnlock
  <2>2. [node |-> node[t], by |-> t] \in [node : Nodes, by : Tasks]
    BY <1>1, <1>3 DEF HandIsFull, AtUnlock
  <2>3. pushed' \in Seq([node : Nodes, by : Tasks])
    BY <2>1, <2>2 DEF TypeOK
  <2>4. pc' = [pc EXCEPT ![t] = "idle"] /\ call' = call
    BY <1>3 DEF StoreUnlock, Goes
  <2>5. TypeOK'
    BY <1>1, <1>2, <2>3, <2>4 DEF TypeOK, shared, Places
  <2>6. HandIsFull' /\ CallFits'
    BY <1>1, <1>2, <2>4 DEF HandIsFull, CallFits, InHand, AtUnlock, Places
  <2> QED
    BY <2>5, <2>6
<1>4. CASE call[t] # "push"
  <2>1. pushed' = pushed
    BY <1>1, <1>4 DEF StoreUnlock, Calls
  <2>2. \/ pc' = [pc EXCEPT ![t] = "test"] /\ call' = [call EXCEPT ![t] = "free"]
        \/ pc' = [pc EXCEPT ![t] = "done"] /\ call' = call
    BY <1>4 DEF StoreUnlock, Begins, Goes
  <2>3. TypeOK'
    BY <1>1, <1>2, <2>1, <2>2 DEF TypeOK, shared, Places, Calls
  <2>4. HandIsFull' /\ CallFits'
    BY <1>1, <1>2, <2>2 DEF HandIsFull, CallFits, InHand, AtUnlock, Places
  <2> QED
    BY <2>3, <2>4
<1> QED
  BY <1>3, <1>4

LEMMA StepTypes ==
  ASSUME TypeInv, NEW t \in Tasks, Step(t)
  PROVE  TypeInv'
<1> USE NodesAssumption
    DEF TypeInv, TypeOK, HandIsFull, CallFits, InHand, AtLock, AtUnlock, Working, Opt, Places,
        Calls, At, Goes, Begins, shared
<1>1. CASE Test(t)
  BY <1>1 DEF Test
<1>2. CASE Load(t, "load", "store")
  BY <1>2 DEF Load
<1>3. CASE StoreLock(t)
  BY <1>3 DEF StoreLock
<1>4. CASE Load(t, "loadAgain", "storeAgain")
  BY <1>4 DEF Load
<1>5. CASE StoreUnlock(t)
  BY <1>5, StoreUnlockTypes
<1>6. CASE Push(t)
  <2>1. reused' \in BOOLEAN
    BY <1>6 DEF Push
  <2>2. todo' \in [Tasks -> 0 .. MaxPushes]
    BY <1>6 DEF Push, Continues
  <2> QED
    BY <1>6, <2>1, <2>2 DEF Push
<1>7. CASE ReadFirst(t)
  BY <1>7 DEF ReadFirst
<1>8. CASE Initialise(t, "initFirst", "linkFirst")
  BY <1>8, InitialiseTypes
<1>9. CASE Link(t, "linkFirst", "setLast")
  BY <1>9 DEF Link
<1>10. CASE SetLast(t)
  BY <1>10 DEF SetLast
<1>11. CASE Initialise(t, "init", "back")
  BY <1>11, InitialiseTypes
<1>12. CASE Back(t)
  BY <1>12 DEF Back
<1>13. CASE Link(t, "link", "loadAgain")
  BY <1>13 DEF Link
<1>14. CASE Stop(t)
  BY <1>14 DEF Stop
<1>15. CASE Reap(t)
  BY <1>15 DEF Reap, FreesAll
<1>16. CASE Sleep(t)
  BY <1>16 DEF Sleep
<1>17. CASE Awake(t)
  BY <1>17 DEF Awake
<1> QED
  BY <1>1, <1>2, <1>3, <1>4, <1>5, <1>6, <1>7, <1>8, <1>9, <1>10, <1>11, <1>12, <1>13,
     <1>14, <1>15, <1>16, <1>17 DEF Step, Runs

LEMMA MainStepTypes ==
  ASSUME TypeInv, MainStep
  PROVE  TypeInv'
<1> USE DEF TypeInv, TypeOK, HandIsFull, CallFits, InHand, AtLock, AtUnlock, Working, Opt, Places,
        Calls, At, Goes, Begins, shared
<1>0. Main \in Tasks
  BY DEF Tasks
<1>1. CASE Step(Main)
  BY <1>0, <1>1, StepTypes
<1>2. CASE WaitIsOver
  BY <1>0, <1>2 DEF WaitIsOver
<1>3. CASE DebugPrint
  BY <1>0, <1>3 DEF DebugPrint
<1>4. CASE Check
  BY <1>0, <1>4 DEF Check
<1>5. CASE Walk
  <2>1. CASE IsEnd(node[Main])
    BY <1>0, <1>5, <2>1 DEF Walk
  <2>2. CASE ~IsEnd(node[Main])
    <3>1. node[Main] \in Nodes
      BY <1>0, <2>2 DEF IsEnd
    <3>2. owner' = [owner EXCEPT ![node[Main]] = IF @ = Main THEN NULL ELSE @]
      BY <1>5, <2>2 DEF Walk
    <3>3. owner' \in [Nodes -> Tasks \cup {NULL}]
      BY <3>1, <3>2
    <3>4. node' = [node EXCEPT ![Main] = next[node[Main]]] /\ UNCHANGED <<pc, call>>
      BY <1>5, <2>2 DEF Walk
    <3>5. node' \in [Tasks -> Opt]
      BY <1>0, <3>1, <3>4
    <3>6. pc[Main] = "walk" /\ call[Main] = "free"
      BY <1>0, <1>5 DEF Walk
    <3>7. HandIsFull' /\ CallFits'
      BY <1>0, <3>4, <3>5, <3>6
    <3>8. TypeOK'
      BY <1>5, <3>3, <3>4, <3>5 DEF Walk
    <3> QED
      BY <3>7, <3>8
  <2> QED
    BY <2>1, <2>2
<1> QED
  BY <1>1, <1>2, <1>3, <1>4, <1>5 DEF MainStep

\* No step lifts an element into a place where none is meant to be: pointers stay
\* elements or NULL, and pushes that are over have an element (klist.c).
THEOREM TypeCorrect == Spec => []TypeOK
<1>1. Init => TypeInv
  BY InitTypes
<1>2. TypeInv /\ [Next]_vars => TypeInv'
  <2>1. CASE Next
    BY <2>1, StepTypes, MainStepTypes DEF Next, Tasks
  <2>2. CASE UNCHANGED vars
    BY <2>2 DEF vars, shared, TypeInv, TypeOK, HandIsFull, CallFits
  <2> QED
    BY <2>1, <2>2
<1>3. TypeInv => TypeOK
  BY DEF TypeInv
<1> QED
  BY <1>1, <1>2, <1>3, PTL DEF Spec

-----------------------------------------------------------------------------
(***************************************************************************)
(* The lock.  LockKeepsOut is inductive with what the tasks have loaded:   *)
(* the one inside read 0 before it took the lock, and will read 1 before   *)
(* it gives it back.                                                       *)
(***************************************************************************)
AloneInside == \A s, t \in Tasks : Inside(s) /\ Inside(t) => s = t
LockTells == lock = IF \E t \in Tasks : Holds(t) THEN 1 ELSE 0
LoadsFit ==
  \A t \in Tasks : /\ pc[t] = "store" => loaded[t] = 0
                   /\ pc[t] = "storeAgain" => loaded[t] = 1
LockInv == ~overlapped => AloneInside /\ LockTells /\ LoadsFit

LEMMA InitLock == Init => LockInv
BY DEF Init, LockInv, AloneInside, LockTells, LoadsFit, Inside, Holds, AtLock, Working, AtUnlock,
       Kept

\* A task that moves on inside the list, or outside it, changes nothing.
LEMMA MovesLock ==
  ASSUME TypeInv, LockInv, NEW t \in Tasks, NEW q,
         pc' = [pc EXCEPT ![t] = q], UNCHANGED <<lock, loaded, overlapped>>,
         pc[t] \notin AtLock, q \notin AtLock \cup {"storeAgain"},
         Holds(t) <=> q \in Working \cup AtUnlock \cup Kept
  PROVE  LockInv'
<1> SUFFICES ASSUME ~overlapped PROVE AloneInside' /\ LockTells' /\ LoadsFit'
  BY DEF LockInv
<1> USE DEF LockInv, TypeInv, TypeOK
<1>1. pc'[t] = q /\ \A s \in Tasks : s # t => pc'[s] = pc[s]
  OBVIOUS
<1>2. \A s \in Tasks : Inside(s)' <=> Inside(s)
  BY <1>1 DEF Inside, Holds
<1>3. \A s \in Tasks : Holds(s)' <=> Holds(s)
  BY <1>1 DEF Holds
<1>4. AloneInside'
  BY <1>2 DEF AloneInside
<1>5. LockTells'
  BY <1>3 DEF LockTells
<1>6. LoadsFit'
  BY <1>1 DEF LoadsFit, AtLock
<1> QED
  BY <1>4, <1>5, <1>6

\* A task that passes the test of a free lock is alone, or somebody is between
\* the test and the store and the two overlap.
LEMMA TestLock ==
  ASSUME TypeInv, LockInv, NEW t \in Tasks, Test(t)
  PROVE  LockInv'
<1> SUFFICES ASSUME ~overlapped' PROVE AloneInside' /\ LockTells' /\ LoadsFit'
  BY DEF LockInv
<1> USE DEF TypeInv, TypeOK
<1>1. /\ ~overlapped /\ \A s \in Tasks : pc[s] \notin AtLock
      /\ lock = 0 /\ UNCHANGED <<lock, loaded>>
      /\ pc[t] = "test" /\ pc' = [pc EXCEPT ![t] = "load"]
  BY DEF Test, Unlocked, At, Goes
<1>2. \A s \in Tasks : ~Holds(s)
  BY <1>1 DEF LockInv, LockTells
<1>3. \A s \in Tasks : ~Inside(s)
  BY <1>1, <1>2 DEF Inside, Holds
<1>4. pc'[t] = "load" /\ \A s \in Tasks : s # t => pc'[s] = pc[s]
  BY <1>1
<1>5. AloneInside'
  BY <1>3, <1>4 DEF AloneInside, Inside
<1>6. LockTells'
  BY <1>1, <1>2, <1>4 DEF LockTells, Holds, Working, AtUnlock, Kept
<1>7. LoadsFit'
  BY <1>1, <1>4 DEF LoadsFit, LockInv
<1> QED
  BY <1>5, <1>6, <1>7

LEMMA LoadLock ==
  ASSUME TypeInv, LockInv, NEW t \in Tasks,
         Load(t, "load", "store") \/ Load(t, "loadAgain", "storeAgain")
  PROVE  LockInv'
<1> SUFFICES ASSUME ~overlapped' PROVE AloneInside' /\ LockTells' /\ LoadsFit'
  BY DEF LockInv
<1> USE DEF TypeInv, TypeOK
<1>1. /\ ~overlapped /\ UNCHANGED lock
      /\ loaded' = [loaded EXCEPT ![t] = lock]
      /\ \/ pc[t] = "load" /\ pc' = [pc EXCEPT ![t] = "store"]
         \/ pc[t] = "loadAgain" /\ pc' = [pc EXCEPT ![t] = "storeAgain"]
  BY DEF Load, At, Goes
<1>2. \A s \in Tasks : /\ Inside(s)' <=> Inside(s)
                       /\ Holds(s)' <=> Holds(s)
  BY <1>1 DEF Inside, Holds, AtLock, Working, AtUnlock, Kept
<1>3. AloneInside' /\ LockTells'
  BY <1>1, <1>2 DEF LockInv, AloneInside, LockTells
<1>4. pc[t] = "load" => lock = 0
  <2> SUFFICES ASSUME pc[t] = "load" PROVE \A s \in Tasks : ~Holds(s)
    BY <1>1 DEF LockInv, LockTells
  <2>1. Inside(t) /\ ~Holds(t)
    BY DEF Inside, Holds, AtLock, Working, AtUnlock, Kept
  <2>2. \A s \in Tasks : Holds(s) => Inside(s)
    BY DEF Inside, Holds
  <2> QED
    BY <1>1, <2>1, <2>2 DEF LockInv, AloneInside
<1>5. pc[t] = "loadAgain" => lock = 1
  BY <1>1 DEF LockInv, LockTells, Holds, AtUnlock
<1>6. LoadsFit'
  BY <1>1, <1>4, <1>5 DEF LoadsFit, LockInv
<1> QED
  BY <1>3, <1>6

LEMMA StoreLockLock ==
  ASSUME TypeInv, LockInv, NEW t \in Tasks, StoreLock(t)
  PROVE  LockInv'
<1> SUFFICES ASSUME ~overlapped' PROVE AloneInside' /\ LockTells' /\ LoadsFit'
  BY DEF LockInv
<1> USE DEF TypeInv, TypeOK
<1>1. ~overlapped /\ pc[t] = "store" /\ lock' = loaded[t] + 1 /\ loaded' = loaded
  BY DEF StoreLock, At
<1>2. PICK q \in {"read", "print", "check"} : pc' = [pc EXCEPT ![t] = q]
  <2>1. call[t] \in Calls
    OBVIOUS
  <2>2. CASE call[t] = "push"
    BY <2>2 DEF StoreLock, Goes
  <2>3. CASE call[t] = "print"
    BY <2>3 DEF StoreLock, Goes
  <2>4. CASE call[t] = "free"
    BY <2>4 DEF StoreLock, Goes
  <2> QED
    BY <2>1, <2>2, <2>3, <2>4 DEF Calls
<1>3. pc'[t] = q /\ \A s \in Tasks : s # t => pc'[s] = pc[s]
  BY <1>2
<1>4. \A s \in Tasks : Inside(s)' <=> Inside(s)
  BY <1>1, <1>3 DEF Inside, AtLock, Working
<1>5. AloneInside'
  BY <1>1, <1>4 DEF LockInv, AloneInside
<1>6. lock' = 1 /\ Holds(t)'
  BY <1>1, <1>3 DEF LockInv, LoadsFit, Holds, Working
<1>7. LockTells'
  BY <1>6 DEF LockTells
<1>8. LoadsFit'
  BY <1>1, <1>3 DEF LockInv, LoadsFit
<1> QED
  BY <1>5, <1>7, <1>8

LEMMA StoreUnlockLock ==
  ASSUME TypeInv, LockInv, NEW t \in Tasks, StoreUnlock(t)
  PROVE  LockInv'
<1> SUFFICES ASSUME ~overlapped' PROVE AloneInside' /\ LockTells' /\ LoadsFit'
  BY DEF LockInv
<1> USE DEF TypeInv, TypeOK
<1>1. ~overlapped /\ pc[t] = "storeAgain" /\ lock' = loaded[t] - 1 /\ loaded' = loaded
  BY DEF StoreUnlock, At
<1>2. PICK q \in {"idle", "test", "done"} : pc' = [pc EXCEPT ![t] = q]
  BY DEF StoreUnlock, Begins, Goes
<1>3. pc'[t] = q /\ \A s \in Tasks : s # t => pc'[s] = pc[s]
  BY <1>2
<1>4. Inside(t)
  BY <1>1 DEF Inside, AtUnlock
<1>5. \A s \in Tasks : ~Inside(s)'
  <2>1. ~Inside(t)'
    BY <1>3 DEF Inside, AtLock, Working, AtUnlock, Kept
  <2>2. ASSUME NEW s \in Tasks, s # t PROVE ~Inside(s)'
    BY <1>1, <1>3, <1>4, <2>2 DEF LockInv, AloneInside, Inside
  <2> QED
    BY <2>1, <2>2
<1>6. lock' = 0 /\ \A s \in Tasks : ~Holds(s)'
  BY <1>1, <1>5 DEF LockInv, LoadsFit, Inside, Holds
<1>7. AloneInside' /\ LockTells'
  BY <1>5, <1>6 DEF AloneInside, LockTells
<1>8. LoadsFit'
  BY <1>1, <1>3 DEF LockInv, LoadsFit
<1> QED
  BY <1>7, <1>8

LEMMA StepLock ==
  ASSUME TypeInv, LockInv, NEW t \in Tasks, Step(t)
  PROVE  LockInv'
<1> USE DEF At, Goes, Begins, AtLock, Working, AtUnlock, Kept, Holds
<1>1. CASE Test(t)
  BY <1>1, TestLock
<1>2. CASE Load(t, "load", "store") \/ Load(t, "loadAgain", "storeAgain")
  BY <1>2, LoadLock
<1>3. CASE StoreLock(t)
  BY <1>3, StoreLockLock
<1>4. CASE StoreUnlock(t)
  BY <1>4, StoreUnlockLock
<1>5. CASE Push(t)
  BY <1>5, MovesLock DEF Push
<1>6. CASE ReadFirst(t)
  BY <1>6, MovesLock DEF ReadFirst
<1>7. CASE Initialise(t, "initFirst", "linkFirst")
  BY <1>7, MovesLock DEF Initialise
<1>8. CASE Initialise(t, "init", "back")
  BY <1>8, MovesLock DEF Initialise
<1>9. CASE Link(t, "linkFirst", "setLast")
  BY <1>9, MovesLock DEF Link
<1>10. CASE Link(t, "link", "loadAgain")
  BY <1>10, MovesLock DEF Link
<1>11. CASE SetLast(t)
  BY <1>11, MovesLock DEF SetLast
<1>12. CASE Back(t)
  BY <1>12, MovesLock DEF Back
<1>13. CASE Stop(t)
  BY <1>13, MovesLock DEF Stop
<1>14. CASE Reap(t)
  BY <1>14, MovesLock DEF Reap
<1>15. CASE Sleep(t)
  BY <1>15, MovesLock DEF Sleep
<1>16. CASE Awake(t)
  BY <1>16, MovesLock DEF Awake
<1> QED
  BY <1>1, <1>2, <1>3, <1>4, <1>5, <1>6, <1>7, <1>8, <1>9, <1>10, <1>11, <1>12, <1>13,
     <1>14, <1>15, <1>16 DEF Step, Runs

LEMMA MainStepLock ==
  ASSUME TypeInv, LockInv, MainStep
  PROVE  LockInv'
<1> USE DEF At, Goes, Begins, AtLock, Working, AtUnlock, Kept, Holds
<1>0. Main \in Tasks
  BY DEF Tasks
<1>1. CASE Step(Main)
  BY <1>0, <1>1, StepLock
<1>2. CASE WaitIsOver
  BY <1>0, <1>2, MovesLock DEF WaitIsOver
<1>3. CASE DebugPrint
  BY <1>0, <1>3, MovesLock DEF DebugPrint
<1>4. CASE Check
  BY <1>0, <1>4, MovesLock DEF Check
<1>5. CASE Walk
  <2>1. CASE pc' = [pc EXCEPT ![Main] = "loadAgain"]
    BY <1>0, <1>5, <2>1, MovesLock DEF Walk
  <2>2. CASE UNCHANGED pc
    BY <1>5, <2>2
       DEF Walk, LockInv, AloneInside, LockTells, LoadsFit, Inside
  <2> QED
    BY <1>5, <2>1, <2>2 DEF Walk
<1> QED
  BY <1>1, <1>2, <1>3, <1>4, <1>5 DEF MainStep

\* The lock of klist_lock and klist_unlock keeps all but one task out, and tells
\* whether one is inside, as long as no two tasks were between its test and its
\* store at the same time: that window is the only way in.
THEOREM LockWorks == Spec => []LockKeepsOut
<1>1. Init => TypeInv /\ LockInv
  BY InitTypes, InitLock
<1>2. TypeInv /\ LockInv /\ [Next]_vars => (TypeInv /\ LockInv)'
  <2> SUFFICES ASSUME TypeInv, LockInv, [Next]_vars PROVE (TypeInv /\ LockInv)'
    OBVIOUS
  <2>1. CASE Next
    BY <2>1, StepTypes, MainStepTypes, StepLock, MainStepLock DEF Next, Tasks
  <2>2. CASE UNCHANGED vars
    <3>1. TypeInv'
      BY <2>2 DEF vars, shared, TypeInv, TypeOK, HandIsFull, CallFits
    <3>2. LockInv'
      BY <2>2 DEF vars, LockInv, AloneInside, LockTells, LoadsFit, Inside, Holds
    <3> QED
      BY <3>1, <3>2
  <2> QED
    BY <2>1, <2>2
<1>3. LockInv => LockKeepsOut
  BY DEF LockInv, LockKeepsOut, AloneInside, LockTells
<1> QED
  BY <1>1, <1>2, <1>3, PTL DEF Spec
-----------------------------------------------------------------------------
(***************************************************************************)
(* The chain of elements that starts at f: the k values of a walk along    *)
(* the next pointers that are not NULL.                                    *)
(***************************************************************************)
Steps(nth, k, f, nx) ==
  /\ nth \in [0 .. Cardinality(Nodes) -> Opt] /\ k \in 0 .. Cardinality(Nodes) + 1
  /\ nth[0] = f
  /\ \A n \in 0 .. Cardinality(Nodes) - 1 :
       nth[n + 1] = IF nth[n] = NULL THEN NULL ELSE nx[nth[n]]
  /\ \A n \in 0 .. Cardinality(Nodes) : nth[n] # NULL <=> n < k

LEMMA NodesCount == Cardinality(Nodes) \in Nat /\ NULL \notin Nodes
BY NodesAssumption, FS_CardinalityType

LEMMA ChainSteps ==
  ASSUME NEW f \in Opt, NEW nx \in [Nodes -> Opt]
  PROVE  \E nth, k : Steps(nth, k, f, nx) /\ ChainOf(f, nx) = [i \in 1 .. k |-> nth[i - 1]]
<1> DEFINE N == Cardinality(Nodes)
           step == [x \in Opt |-> IF x = NULL THEN NULL ELSE nx[x]]
           nth[n \in 0 .. N] ==
             IF n = 0 THEN f ELSE IF nth[n - 1] = NULL THEN NULL ELSE nx[nth[n - 1]]
           Once(g) == [n \in 0 .. N |->
                         IF n = 0 THEN f ELSE IF g[n - 1] = NULL THEN NULL ELSE nx[g[n - 1]]]
           Set == {n \in 0 .. N : nth[n] # NULL}
<1>1. N \in Nat /\ NULL \notin Nodes /\ NULL \in Opt
  BY NodesCount DEF Opt
<1>2. step \in [Opt -> Opt]
  BY DEF Opt
<1>3. PICK g : Iterates(g, N, Opt, f, step)
  <2> HIDE DEF step, N
  <2> QED
    BY <1>1, <1>2, IterationExists
<1>4. g = Once(g)
  <2>0. g = [n \in 0 .. N |-> g[n]]
    BY <1>3 DEF Iterates
  <2> SUFFICES ASSUME NEW n \in 0 .. N
               PROVE  g[n] = IF n = 0 THEN f
                             ELSE IF g[n - 1] = NULL THEN NULL ELSE nx[g[n - 1]]
    BY <2>0
  <2>1. CASE n = 0
    BY <1>3, <2>1 DEF Iterates
  <2>2. CASE n # 0
    <3>1. n - 1 \in 0 .. N - 1 /\ (n - 1) + 1 = n /\ n - 1 \in 0 .. N
      BY <1>1, <2>2
    <3>2. g[n] = step[g[n - 1]] /\ g[n - 1] \in Opt
      BY <1>3, <3>1 DEF Iterates
    <3> QED
      BY <2>2, <3>2
  <2> QED
    BY <2>1, <2>2
<1>5. nth = Once(nth)
  <2>1. nth = CHOOSE h : h = Once(h)
    OBVIOUS
  <2> QED
    BY <1>4, <2>1
<1>6. ChainOf(f, nx) = [i \in 1 .. Cardinality(Set) |-> nth[i - 1]]
  BY DEF ChainOf
<1> HIDE DEF nth
<1>7. /\ nth[0] = f
      /\ \A n \in 0 .. N - 1 : nth[n + 1] = IF nth[n] = NULL THEN NULL ELSE nx[nth[n]]
  BY <1>1, <1>5
<1>8. \A n \in 0 .. N : nth[n] \in Opt
  <2> DEFINE S == {n \in 0 .. N : nth[n] \in Opt}
  <2>1. 0 \in S
    BY <1>1, <1>7
  <2>2. ASSUME NEW n \in 0 .. N - 1, n \in S PROVE n + 1 \in S
    <3>1. n + 1 \in 0 .. N
      BY <1>1
    <3> QED
      BY <1>7, <2>2, <3>1 DEF Opt
  <2> HIDE DEF S
  <2>3. 0 .. N \subseteq S
    BY <1>1, <2>1, <2>2, BoundedInduction
  <2> QED
    BY <2>3 DEF S
<1>9. nth \in [0 .. N -> Opt]
  <2>1. nth = [n \in 0 .. N |-> nth[n]]
    BY <1>5
  <2> QED
    BY <1>8, <2>1
<1>10. \E k \in 0 .. N + 1 : \A n \in 0 .. N : nth[n] # NULL <=> n < k
  <2> HIDE DEF N
  <2> DEFINE Nulls == {n \in 0 .. N : nth[n] = NULL}
  <2>1. CASE Nulls = {}
    <3>1. N + 1 \in 0 .. N + 1 /\ \A n \in 0 .. N : nth[n] # NULL /\ n < N + 1
      BY <1>1, <2>1
    <3> QED
      BY <3>1
  <2>2. CASE Nulls # {}
    <3>1. PICK k \in Nulls : \A n \in Nulls : k <= n
      <4>1. Nulls \subseteq Nat
        BY <1>1
      <4> HIDE DEF Nulls
      <4> QED
        BY <2>2, <4>1, LeastExists
    <3> DEFINE S == {d \in 0 .. N - k : nth[k + d] = NULL}
    <3>2. 0 \in S
      BY <1>1, <3>1
    <3>3. ASSUME NEW d \in 0 .. (N - k) - 1, d \in S PROVE d + 1 \in S
      <4>1. k + d \in 0 .. N - 1 /\ k + (d + 1) = (k + d) + 1 /\ d + 1 \in 0 .. N - k
        BY <1>1, <3>1
      <4> QED
        BY <1>7, <3>3, <4>1
    <3>4. N - k \in Nat
      BY <1>1, <3>1
    <3> HIDE DEF S
    <3>5. 0 .. N - k \subseteq S
      BY <3>2, <3>3, <3>4, BoundedInduction
    <3>6. ASSUME NEW n \in 0 .. N PROVE nth[n] # NULL <=> n < k
      <4>1. CASE n < k
        BY <1>1, <3>1, <4>1
      <4>2. CASE ~(n < k)
        <5>1. n - k \in 0 .. N - k /\ k + (n - k) = n
          BY <1>1, <3>1, <4>2
        <5>2. n - k \in S
          BY <3>5, <5>1
        <5> QED
          BY <4>2, <5>1, <5>2 DEF S
      <4> QED
        BY <4>1, <4>2
    <3>7. k \in 0 .. N + 1
      BY <1>1, <3>1
    <3> QED
      BY <3>6, <3>7
  <2> QED
    BY <2>1, <2>2
<1>11. PICK k \in 0 .. N + 1 : \A n \in 0 .. N : nth[n] # NULL <=> n < k
  BY <1>10
<1>12. Cardinality(Set) = k
  <2> HIDE DEF N
  <2>1. Set = 0 .. k - 1
    BY <1>1, <1>11
  <2>2. Cardinality(0 .. k - 1) = IF 0 > k - 1 THEN 0 ELSE (k - 1) - 0 + 1
    BY <1>1, FS_Interval
  <2> HIDE DEF Set
  <2> QED
    BY <1>1, <1>11, <2>1, <2>2
<1>13. Steps(nth, k, f, nx)
  BY <1>7, <1>9, <1>11 DEF Steps
<1>14. ChainOf(f, nx) = [i \in 1 .. k |-> nth[i - 1]]
  <2> HIDE DEF Set
  <2> QED
    BY <1>6, <1>12
<1> QED
  BY <1>13, <1>14

\* A chain that comes to its end has with each element the one behind it.
LEMMA ChainGoesOn ==
  ASSUME NEW f \in Opt, NEW nx \in [Nodes -> Opt],
         Len(ChainOf(f, nx)) <= Cardinality(Nodes)
  PROVE  /\ ToSet(ChainOf(f, nx)) \subseteq Nodes
         /\ f # NULL => f \in ToSet(ChainOf(f, nx))
         /\ \A n \in ToSet(ChainOf(f, nx)) : nx[n] # NULL => nx[n] \in ToSet(ChainOf(f, nx))
<1> DEFINE N == Cardinality(Nodes)
           C == ChainOf(f, nx)
<1>1. PICK nth, k : Steps(nth, k, f, nx) /\ C = [i \in 1 .. k |-> nth[i - 1]]
  BY ChainSteps
<1>2. N \in Nat /\ NULL \notin Nodes
  BY NodesCount
<1>3. k \in 0 .. N
  <2>1. Len(C) = k
    BY <1>1, <1>2 DEF Steps
  <2> QED
    BY <1>1, <1>2, <2>1 DEF Steps
<1>4. ToSet(C) = {nth[n] : n \in 0 .. k - 1}
  <2>1. ToSet(C) = {nth[i - 1] : i \in 1 .. k}
    BY <1>1 DEF ToSet
  <2>2. ASSUME NEW n \in 0 .. k - 1 PROVE \E i \in 1 .. k : nth[n] = nth[i - 1]
    <3>1. n + 1 \in 1 .. k /\ (n + 1) - 1 = n
      BY <1>3
    <3> QED
      BY <3>1
  <2>3. ASSUME NEW i \in 1 .. k PROVE i - 1 \in 0 .. k - 1
    BY <1>3
  <2> QED
    BY <2>1, <2>2, <2>3
<1> HIDE DEF C, N
<1>s. /\ nth \in [0 .. N -> Opt] /\ nth[0] = f
      /\ \A n \in 0 .. N - 1 : nth[n + 1] = IF nth[n] = NULL THEN NULL ELSE nx[nth[n]]
      /\ \A n \in 0 .. N : nth[n] # NULL <=> n < k
  BY <1>1 DEF Steps, N
<1>5. ToSet(C) \subseteq Nodes
  BY <1>2, <1>3, <1>4, <1>s DEF Opt
<1>6. f # NULL => f \in ToSet(C)
  <2>1. f # NULL => 0 \in 0 .. k - 1
    BY <1>2, <1>3, <1>s
  <2> QED
    BY <1>4, <1>s, <2>1
<1>7. ASSUME NEW n \in 0 .. k - 1, nx[nth[n]] # NULL PROVE nx[nth[n]] \in ToSet(C)
  <2>1. n \in 0 .. N - 1 /\ n \in 0 .. N /\ n + 1 \in 0 .. N /\ n < k
    BY <1>2, <1>3
  <2>2. nth[n + 1] = nx[nth[n]]
    BY <1>s, <2>1
  <2>3. n + 1 \in 0 .. k - 1
    BY <1>3, <1>7, <1>s, <2>1, <2>2
  <2> QED
    BY <1>4, <2>2, <2>3
<1> QED
  BY <1>4, <1>5, <1>6, <1>7 DEF C

\* What a sequence of different elements links is a chain.
Links(s, f, nx) ==
  /\ s \in Seq(Nodes) /\ \A i, j \in 1 .. Len(s) : s[i] = s[j] => i = j
  /\ f = IF s = <<>> THEN NULL ELSE s[1]
  /\ \A i \in 1 .. Len(s) : nx[s[i]] = IF i = Len(s) THEN NULL ELSE s[i + 1]

LEMMA LinksAreFew ==
  ASSUME NEW s \in Seq(Nodes), \A i, j \in 1 .. Len(s) : s[i] = s[j] => i = j
  PROVE  Len(s) <= Cardinality(Nodes)
<1> DEFINE N == Cardinality(Nodes)
<1>1. N \in Nat
  BY NodesCount
<1> HIDE DEF N
<1> SUFFICES ASSUME Len(s) > N PROVE FALSE
  BY <1>1 DEF N
<1> DEFINE g == [n \in 0 .. N |-> s[n + 1]]
<1>2. \A n \in 0 .. N : n + 1 \in 1 .. Len(s)
  BY <1>1
<1>3. g \in [0 .. N -> Nodes]
  BY <1>2
<1>4. \A m, n \in 0 .. N : m # n => g[m] # g[n]
  <2> SUFFICES ASSUME NEW m \in 0 .. N, NEW n \in 0 .. N, g[m] = g[n] PROVE m = n
    OBVIOUS
  <2>1. m + 1 = n + 1
    BY <1>2
  <2> QED
    BY <1>1, <2>1
<1> HIDE DEF g
<1>5. IsFiniteSet(Nodes) /\ Cardinality(Nodes) = N
  BY NodesAssumption DEF N
<1> QED
  BY <1>1, <1>3, <1>4, <1>5, PigeonHole

LEMMA LinksAreChain ==
  ASSUME NEW f \in Opt, NEW nx \in [Nodes -> Opt], NEW s, Links(s, f, nx)
  PROVE  ChainOf(f, nx) = s
<1> DEFINE N == Cardinality(Nodes)
           L == Len(s)
<1>1. PICK nth, k : Steps(nth, k, f, nx) /\ ChainOf(f, nx) = [i \in 1 .. k |-> nth[i - 1]]
  BY ChainSteps
<1>2. N \in Nat /\ NULL \notin Nodes /\ L \in 0 .. N
  BY NodesCount, LinksAreFew DEF Links
<1>s. /\ nth \in [0 .. N -> Opt] /\ nth[0] = f /\ k \in 0 .. N + 1
      /\ \A n \in 0 .. N - 1 : nth[n + 1] = IF nth[n] = NULL THEN NULL ELSE nx[nth[n]]
      /\ \A n \in 0 .. N : nth[n] # NULL <=> n < k
  BY <1>1 DEF Steps
<1>t. /\ s \in [1 .. L -> Nodes] /\ f = IF L = 0 THEN NULL ELSE s[1]
      /\ \A i \in 1 .. L : nx[s[i]] = IF i = L THEN NULL ELSE s[i + 1]
  BY DEF Links
<1> HIDE DEF N, L
<1> DEFINE T == {n \in 0 .. N : nth[n] = IF n < L THEN s[n + 1] ELSE NULL}
<1>3. 0 \in T
  BY <1>2, <1>s, <1>t
<1>4. ASSUME NEW n \in 0 .. N - 1, n \in T PROVE n + 1 \in T
  <2>1. n \in 0 .. N /\ n + 1 \in 0 .. N
    BY <1>2
  <2>2. CASE n < L
    <3>1. n + 1 \in 1 .. L
      BY <1>2, <2>2
    <3>2. nth[n] = s[n + 1] /\ s[n + 1] \in Nodes
      BY <1>4, <1>t, <2>2, <3>1
    <3>3. nth[n + 1] = nx[s[n + 1]]
      BY <1>2, <1>s, <3>2
    <3>4. nth[n + 1] = IF n + 1 = L THEN NULL ELSE s[(n + 1) + 1]
      BY <1>t, <3>1, <3>3
    <3>5. n + 1 = L <=> ~(n + 1 < L)
      BY <1>2, <3>1
    <3> QED
      BY <2>1, <3>4, <3>5
  <2>3. CASE ~(n < L)
    <3>1. nth[n] = NULL /\ ~(n + 1 < L)
      BY <1>2, <1>4, <2>3
    <3>2. nth[n + 1] = NULL
      BY <1>s, <3>1
    <3> QED
      BY <2>1, <3>1, <3>2
  <2> QED
    BY <2>2, <2>3
<1> HIDE DEF T
<1>5. 0 .. N \subseteq T
  BY <1>2, <1>3, <1>4, BoundedInduction
<1>6. \A n \in 0 .. N : nth[n] = IF n < L THEN s[n + 1] ELSE NULL
  BY <1>5 DEF T
<1>7. \A n \in 0 .. N : n < L <=> n < k
  <2> SUFFICES ASSUME NEW n \in 0 .. N PROVE n < L <=> nth[n] # NULL
    BY <1>s
  <2>1. n < L => n + 1 \in 1 .. L
    BY <1>2
  <2>2. n < L => s[n + 1] \in Nodes
    BY <1>t, <2>1
  <2> QED
    BY <1>2, <1>6, <2>2
<1>8. k = L
  <2>1. CASE k < L
    BY <1>2, <1>7, <1>s, <2>1
  <2>2. CASE L < k
    <3>1. L < L <=> L < k
      BY <1>2, <1>7
    <3> QED
      BY <1>2, <2>2, <3>1
  <2> QED
    BY <1>2, <1>s, <2>1, <2>2
<1>9. \A i \in 1 .. k : nth[i - 1] = s[i]
  <2> SUFFICES ASSUME NEW i \in 1 .. k PROVE nth[i - 1] = s[i]
    OBVIOUS
  <2>1. i - 1 \in 0 .. N /\ i - 1 < L /\ (i - 1) + 1 = i
    BY <1>2, <1>8
  <2> QED
    BY <1>6, <2>1
<1>10. s = [i \in 1 .. k |-> s[i]]
  BY <1>8, <1>t
<1> QED
  BY <1>1, <1>9, <1>10

\* A chain along which a rank falls comes to its end: its elements are different,
\* and there are not more than all.
LEMMA FallingChainEnds ==
  ASSUME NEW f \in Opt, NEW nx \in [Nodes -> Opt], NEW r \in [Nodes -> Nat],
         \A n \in Nodes : nx[n] # NULL => r[nx[n]] < r[n]
  PROVE  Len(ChainOf(f, nx)) <= Cardinality(Nodes)
<1> DEFINE N == Cardinality(Nodes)
<1>1. PICK nth, k : Steps(nth, k, f, nx) /\ ChainOf(f, nx) = [i \in 1 .. k |-> nth[i - 1]]
  BY ChainSteps
<1>2. N \in Nat /\ NULL \notin Nodes
  BY NodesCount
<1>s. /\ nth \in [0 .. N -> Opt] /\ k \in 0 .. N + 1
      /\ \A n \in 0 .. N - 1 : nth[n + 1] = IF nth[n] = NULL THEN NULL ELSE nx[nth[n]]
      /\ \A n \in 0 .. N : nth[n] # NULL <=> n < k
  BY <1>1 DEF Steps
<1>3. Len(ChainOf(f, nx)) = k
  BY <1>1, <1>2, <1>s
<1> HIDE DEF N
<1> SUFFICES ASSUME k = N + 1 PROVE FALSE
  BY <1>2, <1>3, <1>s DEF N
<1>4. \A n \in 0 .. N : nth[n] \in Nodes /\ r[nth[n]] \in Nat
  BY <1>2, <1>s DEF Opt
<1>5. \A n \in 0 .. N - 1 : r[nth[n + 1]] < r[nth[n]]
  <2> SUFFICES ASSUME NEW n \in 0 .. N - 1 PROVE r[nth[n + 1]] < r[nth[n]]
    OBVIOUS
  <2>1. n \in 0 .. N /\ n + 1 \in 0 .. N
    BY <1>2
  <2>2. nth[n + 1] = nx[nth[n]] /\ nth[n + 1] # NULL
    BY <1>2, <1>4, <1>s, <2>1
  <2> QED
    BY <1>4, <2>1, <2>2
<1>6. \A m, n \in 0 .. N : m < n => r[nth[n]] < r[nth[m]]
  <2> DEFINE S == {n \in 0 .. N : \A m \in 0 .. N : m < n => r[nth[n]] < r[nth[m]]}
  <2>1. 0 \in S
    BY <1>2
  <2>2. ASSUME NEW n \in 0 .. N - 1, n \in S PROVE n + 1 \in S
    <3>1. n \in 0 .. N /\ n + 1 \in 0 .. N
      BY <1>2
    <3>2. ASSUME NEW m \in 0 .. N, m < n + 1 PROVE r[nth[n + 1]] < r[nth[m]]
      <4>1. m = n \/ m < n
        BY <3>2
      <4>2. m < n => r[nth[n]] < r[nth[m]]
        BY <2>2
      <4>3. r[nth[m]] \in Nat /\ r[nth[n]] \in Nat /\ r[nth[n + 1]] \in Nat
        BY <1>4, <3>1
      <4> HIDE DEF S
      <4> QED
        BY <1>5, <4>1, <4>2, <4>3
    <3> QED
      BY <3>1, <3>2
  <2> HIDE DEF S
  <2>3. 0 .. N \subseteq S
    BY <1>2, <2>1, <2>2, BoundedInduction
  <2> QED
    BY <2>3 DEF S
<1>7. \A m, n \in 0 .. N : m # n => nth[m] # nth[n]
  <2> SUFFICES ASSUME NEW m \in 0 .. N, NEW n \in 0 .. N, m < n PROVE nth[m] # nth[n]
    OBVIOUS
  <2> QED
    BY <1>4, <1>6
<1>8. nth \in [0 .. N -> Nodes]
  BY <1>4, <1>s
<1>9. IsFiniteSet(Nodes) /\ Cardinality(Nodes) = N
  BY NodesAssumption DEF N
<1> QED
  BY <1>2, <1>7, <1>8, <1>9, PigeonHole
-----------------------------------------------------------------------------
(***************************************************************************)
(* Who is in which function.  Only Main prints and frees, and it does when *)
(* the others are gone.                                                    *)
(***************************************************************************)
PlacesOf(f) ==
  CASE f = "push"  -> Places \ {"print", "check", "walk", "done", "left"}
    [] f = "print" -> {"test", "asleep", "print"} \cup AtLock \cup AtUnlock
    [] f = "free"  -> {"test", "asleep", "check", "walk", "done", "left"}
                        \cup AtLock \cup AtUnlock

CallsInv ==
  /\ \A t \in Tasks : pc[t] \in PlacesOf(call[t])
  /\ \A t \in Pushers : /\ call[t] = "push" /\ pc[t] # "wait"
                        /\ call[Main] # "push" => pc[t] = "gone"
  /\ pc[Main] \notin {"over", "gone"}

LEMMA InitCalls == Init => CallsInv
BY DEF Init, CallsInv, PlacesOf, Places, Tasks

LEMMA MovesCalls ==
  ASSUME TypeInv, CallsInv, NEW t \in Tasks, NEW q,
         pc' = [pc EXCEPT ![t] = q], call' = call,
         q \in PlacesOf(call[t]), pc[t] # "gone",
         q = "wait" => t = Main, q \in {"over", "gone"} => t # Main
  PROVE  CallsInv'
<1> USE DEF TypeInv, TypeOK
<1>1. \A s \in Tasks : pc'[s] = IF s = t THEN q ELSE pc[s]
  OBVIOUS
<1>2. Main \in Tasks /\ Pushers \subseteq Tasks /\ Main \notin Pushers
  BY TasksAssumption DEF Tasks
<1>3. \A s \in Tasks : PlacesOf(call[s])' = PlacesOf(call[s])
  BY DEF PlacesOf
<1>4. \A s \in Tasks : pc'[s] \in PlacesOf(call[s])'
  BY <1>1, <1>3 DEF CallsInv
<1>5. \A s \in Pushers : call'[s] = "push" /\ pc'[s] # "wait"
  BY <1>1, <1>2 DEF CallsInv
<1>6. ASSUME call[Main] # "push", NEW s \in Pushers PROVE pc'[s] = "gone"
  BY <1>1, <1>2, <1>6 DEF CallsInv
<1>7. pc'[Main] \notin {"over", "gone"}
  BY <1>1, <1>2 DEF CallsInv
<1> QED
  BY <1>4, <1>5, <1>6, <1>7 DEF CallsInv

LEMMA StepCalls ==
  ASSUME TypeInv, CallsInv, NEW t \in Tasks, Step(t)
  PROVE  CallsInv'
<1> USE TasksAssumption DEF At, Goes, AtLock, Working, AtUnlock, Places, PlacesOf, Calls
<1>0. /\ pc[t] \in PlacesOf(call[t]) /\ call[t] \in Calls
      /\ t \in Pushers => call[t] = "push" /\ pc[t] # "wait"
      /\ t = Main => pc[t] \notin {"over", "gone"}
  BY DEF CallsInv, TypeInv, TypeOK
<1>1. CASE Test(t)
  BY <1>0, <1>1, MovesCalls DEF Test
<1>2. CASE Load(t, "load", "store")
  BY <1>0, <1>2, MovesCalls DEF Load
<1>3. CASE StoreLock(t)
  <2>1. CASE call[t] = "push"
    BY <1>3, <2>1, MovesCalls DEF StoreLock
  <2>2. CASE call[t] = "print"
    BY <1>3, <2>2, MovesCalls DEF StoreLock
  <2>3. CASE call[t] = "free"
    BY <1>3, <2>3, MovesCalls DEF StoreLock
  <2> QED
    BY <1>0, <2>1, <2>2, <2>3
<1>4. CASE Load(t, "loadAgain", "storeAgain")
  BY <1>0, <1>4, MovesCalls DEF Load
<1>5. CASE StoreUnlock(t)
  <2>1. CASE call[t] # "print"
    BY <1>0, <1>5, <2>1, MovesCalls DEF StoreUnlock
  <2>2. CASE call[t] = "print"
    <3>1. /\ pc' = [pc EXCEPT ![t] = "test"] /\ call' = [call EXCEPT ![t] = "free"]
          /\ t = Main /\ t \notin Pushers
      BY <1>0, <1>5, <2>2 DEF StoreUnlock, Begins, Tasks
    <3>2. \A s \in Tasks : s # t => pc'[s] = pc[s] /\ call'[s] = call[s]
      BY <3>1 DEF TypeInv, TypeOK
    <3>3. pc'[t] = "test" /\ call'[t] = "free"
      BY <3>1 DEF TypeInv, TypeOK
    <3>4. Pushers \subseteq Tasks
      BY DEF Tasks
    <3>5. \A s \in Tasks : (pc[s] \in PlacesOf(call[s]))'
      BY <3>2, <3>3 DEF CallsInv
    <3>6. \A s \in Pushers : (/\ call[s] = "push" /\ pc[s] # "wait" /\ pc[s] = "gone")'
      BY <2>2, <3>1, <3>2, <3>4 DEF CallsInv
    <3> QED
      BY <3>1, <3>3, <3>5, <3>6 DEF CallsInv
  <2> QED
    BY <2>1, <2>2
<1>6. CASE Push(t)
  <2>1. call[t] = "push"
    BY <1>0, <1>6 DEF Push
  <2>2. call' = call
    BY <1>6, <2>1 DEF Push, Begins, TypeInv, TypeOK
  <2> QED
    BY <1>6, <2>1, <2>2, MovesCalls DEF Push, Begins
<1>7. CASE ReadFirst(t)
  BY <1>0, <1>7, MovesCalls DEF ReadFirst
<1>8. CASE Initialise(t, "initFirst", "linkFirst")
  BY <1>0, <1>8, MovesCalls DEF Initialise
<1>9. CASE Link(t, "linkFirst", "setLast")
  BY <1>0, <1>9, MovesCalls DEF Link
<1>10. CASE SetLast(t)
  BY <1>0, <1>10, MovesCalls DEF SetLast
<1>11. CASE Initialise(t, "init", "back")
  BY <1>0, <1>11, MovesCalls DEF Initialise
<1>12. CASE Back(t)
  BY <1>0, <1>12, MovesCalls DEF Back
<1>13. CASE Link(t, "link", "loadAgain")
  BY <1>0, <1>13, MovesCalls DEF Link
<1>14. CASE Stop(t)
  BY <1>0, <1>14, MovesCalls DEF Stop
<1>15. CASE t \in Pushers /\ Reap(t)
  BY <1>0, <1>15, MovesCalls DEF Reap
<1>16. CASE Sleep(t)
  BY <1>0, <1>16, MovesCalls DEF Sleep
<1>17. CASE Awake(t)
  BY <1>0, <1>17, MovesCalls DEF Awake
<1> QED
  BY <1>1, <1>2, <1>3, <1>4, <1>5, <1>6, <1>7, <1>8, <1>9, <1>10, <1>11, <1>12, <1>13,
     <1>14, <1>15, <1>16, <1>17 DEF Step, Runs

LEMMA MainStepCalls ==
  ASSUME TypeInv, CallsInv, MainStep
  PROVE  CallsInv'
<1> USE TasksAssumption DEF At, Goes, AtLock, Working, AtUnlock, Places, PlacesOf, Calls
<1>0. Main \in Tasks /\ pc[Main] \in PlacesOf(call[Main]) /\ call[Main] \in Calls
  BY DEF CallsInv, TypeInv, TypeOK, Tasks
<1>1. CASE Step(Main)
  BY <1>0, <1>1, StepCalls
<1>2. CASE WaitIsOver
  <2>1. PICK f \in {"print", "free"} : call' = [call EXCEPT ![Main] = f]
    BY <1>2 DEF WaitIsOver, Begins
  <2>2. pc' = [pc EXCEPT ![Main] = "test"] /\ \A t \in Pushers : pc[t] = "gone"
    BY <1>2 DEF WaitIsOver, Begins
  <2>3. \A s \in Tasks : s # Main => pc'[s] = pc[s] /\ call'[s] = call[s]
    BY <2>1, <2>2 DEF TypeInv, TypeOK
  <2>4. pc'[Main] = "test" /\ call'[Main] = f
    BY <1>0, <2>1, <2>2 DEF TypeInv, TypeOK
  <2>5. Pushers \subseteq Tasks
    BY DEF Tasks
  <2>6. \A s \in Tasks : (pc[s] \in PlacesOf(call[s]))'
    BY <2>3, <2>4 DEF CallsInv
  <2>7. \A s \in Pushers : (call[s] = "push" /\ pc[s] # "wait" /\ pc[s] = "gone")'
    BY <2>2, <2>3, <2>5 DEF CallsInv
  <2> QED
    BY <2>4, <2>6, <2>7 DEF CallsInv
<1>3. CASE DebugPrint
  BY <1>0, <1>3, MovesCalls DEF DebugPrint
<1>4. CASE Check
  BY <1>0, <1>4, MovesCalls DEF Check
<1>5. CASE Walk
  <2>1. CASE pc' = [pc EXCEPT ![Main] = "loadAgain"]
    BY <1>0, <1>5, <2>1, MovesCalls DEF Walk
  <2>2. CASE UNCHANGED pc
    BY <1>5, <2>2 DEF Walk, CallsInv
  <2> QED
    BY <1>5, <2>1, <2>2 DEF Walk
<1> QED
  BY <1>1, <1>2, <1>3, <1>4, <1>5 DEF MainStep

-----------------------------------------------------------------------------
(***************************************************************************)
(* ChainEnds.  The elements can be ranked so that next leads down: an      *)
(* element points to what was the first before it, and a new one is not in *)
(* the list, so that those outside may be lifted above it.                 *)
(***************************************************************************)
Falls(r) == \A n \in Nodes : next[n] # NULL => r[next[n]] < r[n]
FallInv == ~reused => \E r \in [Nodes -> Nat] : Falls(r)

LEMMA InitFalls == Init => FallInv
<1> SUFFICES ASSUME Init PROVE FallInv
  OBVIOUS
<1> DEFINE r == [n \in Nodes |-> 0]
<1>1. r \in [Nodes -> Nat] /\ Falls(r)
  BY DEF Init, Falls
<1> QED
  BY <1>1 DEF FallInv

LEMMA FallsEnd ==
  ASSUME TypeInv, FallInv
  PROVE  ChainEnds
BY FallingChainEnds DEF TypeInv, TypeOK, FallInv, Falls, ChainEnds, Ends, Chain

LEMMA InitialiseFalls ==
  ASSUME TypeInv, FallInv, NEW t \in Tasks, NEW from, NEW to, Initialise(t, from, to)
  PROVE  FallInv'
<1> SUFFICES ASSUME ~reused' PROVE \E r \in [Nodes -> Nat] : Falls(r)'
  BY DEF FallInv
<1>0. ~reused /\ first \in Opt /\ next \in [Nodes -> Opt] /\ NULL \notin Nodes
  BY NodesAssumption DEF Initialise, At, TypeInv, TypeOK
<1>1. PICK n \in Unallocated :
        /\ reused' = InChain(n)
        /\ next' = [next EXCEPT ![n] = IF from = "initFirst" THEN NULL ELSE first]
  BY DEF Initialise
<1>2. n \in Nodes /\ n \notin ToSet(Chain)
  BY <1>1 DEF Unallocated, InChain
<1>3. PICK r \in [Nodes -> Nat] : Falls(r)
  BY <1>0 DEF FallInv
<1> DEFINE C == ToSet(Chain)
<1>4. /\ C \subseteq Nodes
      /\ first # NULL => first \in C
      /\ \A m \in C : next[m] # NULL => next[m] \in C
  BY <1>0, FallsEnd, ChainGoesOn DEF Chain, ChainEnds, Ends
<1> HIDE DEF C
<1>c. n \notin C
  BY <1>2 DEF C
<1>5. PICK up \in Nat : up > 0 /\ (first # NULL => first \in Nodes /\ r[first] < up)
  <2>1. CASE first = NULL
    <3>1. 1 \in Nat /\ 1 > 0
      OBVIOUS
    <3> QED
      BY <2>1, <3>1
  <2>2. CASE first # NULL
    <3>1. first \in Nodes /\ r[first] + 1 \in Nat /\ r[first] + 1 > 0 /\ r[first] < r[first] + 1
      BY <1>0, <2>2 DEF Opt
    <3> QED
      BY <3>1
  <2> QED
    BY <2>1, <2>2
<1>6. PICK q \in [Nodes -> Nat] : \A m \in Nodes : q[m] = IF m \in C THEN r[m] ELSE r[m] + up
  <2> DEFINE p == [m \in Nodes |-> IF m \in C THEN r[m] ELSE r[m] + up]
  <2>1. p \in [Nodes -> Nat]
    OBVIOUS
  <2> QED
    BY <2>1
<1>7. ASSUME NEW m \in Nodes, next'[m] # NULL PROVE q[next'[m]] < q[m]
  <2>1. CASE m = n
    <3>1. next'[m] = first /\ first # NULL
      BY <1>0, <1>1, <1>2, <1>7, <2>1
    <3>2. q[first] = r[first] /\ q[n] = r[n] + up
      BY <1>2, <1>4, <1>5, <1>6, <1>c, <3>1
    <3>3. r[n] \in Nat /\ r[first] \in Nat
      BY <1>2, <1>5, <3>1
    <3> QED
      BY <1>5, <2>1, <3>1, <3>2, <3>3
  <2>2. CASE m # n
    <3>1. next'[m] = next[m] /\ next[m] \in Nodes /\ r[next[m]] < r[m]
      BY <1>0, <1>1, <1>3, <1>7, <2>2 DEF Falls, Opt
    <3>2. m \in C => next[m] \in C
      BY <1>4, <1>7, <3>1
    <3>3. /\ q[next[m]] = IF next[m] \in C THEN r[next[m]] ELSE r[next[m]] + up
          /\ q[m] = IF m \in C THEN r[m] ELSE r[m] + up
          /\ r[m] \in Nat /\ r[next[m]] \in Nat
      BY <1>6, <3>1
    <3> QED
      BY <1>5, <3>1, <3>2, <3>3
  <2> QED
    BY <2>1, <2>2
<1>8. Falls(q)'
  BY <1>7 DEF Falls
<1> QED
  BY <1>8

LEMMA StepFalls ==
  ASSUME TypeInv, FallInv, NEW t \in Tasks, Step(t)
  PROVE  FallInv'
<1>1. CASE Initialise(t, "initFirst", "linkFirst") \/ Initialise(t, "init", "back")
  BY <1>1, InitialiseFalls
<1>2. CASE ~(Initialise(t, "initFirst", "linkFirst") \/ Initialise(t, "init", "back"))
  <2>1. ~reused /\ next' = next
    BY <1>2 DEF Step, Runs, Test, Sleep, Awake, Load, StoreLock, StoreUnlock, Push, ReadFirst,
                Link, SetLast, Back, Stop, Reap, At, shared
  <2> QED
    BY <2>1 DEF FallInv, Falls
<1> QED
  BY <1>1, <1>2

LEMMA NextFalls ==
  ASSUME TypeInv, FallInv, [Next]_vars
  PROVE  FallInv'
<1>1. CASE \E t \in Tasks : Step(t)
  BY <1>1, StepFalls
<1>2. CASE WaitIsOver \/ DebugPrint \/ Check \/ Walk
  BY <1>2 DEF WaitIsOver, DebugPrint, Check, Walk, At, shared, FallInv, Falls
<1>3. CASE UNCHANGED vars
  BY <1>3 DEF vars, shared, FallInv, Falls
<1> QED
  BY <1>1, <1>2, <1>3 DEF Next, MainStep, Tasks

LEMMA NextTypes ==
  ASSUME TypeInv, [Next]_vars
  PROVE  TypeInv'
<1>1. CASE Next
  BY <1>1, StepTypes, MainStepTypes DEF Next, Tasks
<1>2. CASE UNCHANGED vars
  BY <1>2 DEF vars, shared, TypeInv, TypeOK, HandIsFull, CallFits
<1> QED
  BY <1>1, <1>2

\* Printing and freeing the list come to an end, even if two tasks pushed at the
\* same time and elements were lost: klist_push never makes the next pointers go
\* round in a circle.
THEOREM NoCycle == Spec => []ChainEnds
<1>1. Init => TypeInv /\ FallInv
  BY InitTypes, InitFalls
<1>2. TypeInv /\ FallInv /\ [Next]_vars => (TypeInv /\ FallInv)'
  BY NextTypes, NextFalls
<1>3. TypeInv /\ FallInv => ChainEnds
  BY FallsEnd
<1> QED
  BY <1>1, <1>2, <1>3, PTL DEF Spec
-----------------------------------------------------------------------------
(***************************************************************************)
(* ListIsWhole.  A task that works on the list is at a stage of its push;  *)
(* at each the pointers have a known shape, and the elements whose push is *)
(* over are linked in both directions throughout.                          *)
(***************************************************************************)
PushPlaces == {"initFirst", "linkFirst", "setLast", "init", "back", "link"}
Stage(t) ==
  IF pc[t] \in PushPlaces THEN pc[t]
  ELSE IF pc[t] \in AtUnlock /\ call[t] = "push" THEN "linked" ELSE "none"

ElementAt(i) == pushed[i].node
Elements == [i \in DOMAIN pushed |-> pushed[i].node]
Newest == IF pushed = <<>> THEN NULL ELSE ElementAt(1)

Shape(stage, n) ==
  /\ stage \in {"initFirst", "linkFirst", "setLast"} => pushed = <<>>
  /\ stage \in {"init", "back", "link"} => pushed # <<>>
  /\ stage \notin {"none", "initFirst", "init"} =>
       /\ \A i \in DOMAIN pushed : ElementAt(i) # n
       /\ next[n] = Newest /\ prev[n] = NULL
  /\ first = IF stage \in {"setLast", "linked"} THEN n ELSE Newest
  /\ pushed = <<>> => last = IF stage = "linked" THEN n ELSE NULL
  /\ pushed # <<>> => /\ last = ElementAt(Len(pushed))
                      /\ prev[Newest] = IF stage \in {"link", "linked"} THEN n ELSE NULL

PushedLinked ==
  /\ \A i, j \in DOMAIN pushed : ElementAt(i) = ElementAt(j) => i = j
  /\ \A i \in DOMAIN pushed :
       next[ElementAt(i)] = IF i = Len(pushed) THEN NULL ELSE ElementAt(i + 1)
  /\ \A i \in DOMAIN pushed : i > 1 => prev[ElementAt(i)] = ElementAt(i - 1)

Whole ==
  /\ PushedLinked
  /\ \A t \in Tasks : Stage(t) # "none" => Shape(Stage(t), node[t])
  /\ (\A t \in Tasks : Stage(t) = "none") => Shape("none", NULL)

LinksInv == ~overlapped /\ ~reused => Whole

LEMMA InitLinks == Init => LinksInv
BY DEF Init, LinksInv, Whole, PushedLinked, Shape, Newest, Stage, PushPlaces, AtUnlock, Tasks

LEMMA PushedTypes ==
  ASSUME TypeInv
  PROVE  /\ DOMAIN pushed = 1 .. Len(pushed) /\ Len(pushed) \in Nat
         /\ \A i \in DOMAIN pushed : ElementAt(i) \in Nodes /\ pushed[i].by \in Tasks
         /\ pushed # <<>> <=> Len(pushed) > 0
         /\ Newest \in Opt /\ (Newest = NULL <=> pushed = <<>>)
         /\ pushed # <<>> => Newest \in Nodes /\ 1 \in DOMAIN pushed
<1>1. pushed \in Seq([node : Nodes, by : Tasks]) /\ NULL \notin Nodes
  BY NodesAssumption DEF TypeInv, TypeOK
<1>2. /\ DOMAIN pushed = 1 .. Len(pushed) /\ Len(pushed) \in Nat
      /\ pushed # <<>> <=> Len(pushed) > 0
  BY <1>1
<1>3. \A i \in DOMAIN pushed : ElementAt(i) \in Nodes /\ pushed[i].by \in Tasks
  <2> DEFINE S == [node : Nodes, by : Tasks]
  <2>1. pushed \in Seq(S)
    BY <1>1
  <2> SUFFICES ASSUME NEW i \in 1 .. Len(pushed) PROVE pushed[i] \in S
    BY <1>2 DEF ElementAt
  <2> HIDE DEF S
  <2> QED
    BY <2>1
<1>4. pushed # <<>> => 1 \in DOMAIN pushed
  BY <1>2
<1> QED
  BY <1>1, <1>2, <1>3, <1>4 DEF Newest, Opt

\* What is not at a stage is not inside, or not for a push.
LEMMA StageInside ==
  ASSUME NEW t \in Tasks, Stage(t) # "none"
  PROVE  Inside(t)
BY DEF Stage, Inside, Working, AtUnlock, PushPlaces

\* A step that leaves the list and everybody's stage as they were.
LEMMA MovesLinks ==
  ASSUME TypeInv, LinksInv, NEW t \in Tasks, NEW q,
         ~reused, overlapped' \/ ~overlapped,
         pc' = [pc EXCEPT ![t] = q], Stage(t)' = Stage(t),
         UNCHANGED <<shared, pushed>>,
         \A s \in Tasks : s # t => call'[s] = call[s] /\ node'[s] = node[s],
         Stage(t) = "none" \/ node'[t] = node[t]
  PROVE  LinksInv'
<1> SUFFICES ASSUME ~overlapped' PROVE Whole'
  BY DEF LinksInv
<1>1. Whole
  BY DEF LinksInv
<1>2. \A s \in Tasks : Stage(s)' = Stage(s)
  <2>1. \A s \in Tasks : s # t => pc'[s] = pc[s]
    BY DEF TypeInv, TypeOK
  <2> QED
    BY <2>1 DEF Stage
<1>3. PushedLinked'
  BY <1>1 DEF Whole, PushedLinked, ElementAt, shared
<1>4. ASSUME NEW s \in Tasks, Stage(s) # "none" PROVE Shape(Stage(s), node[s])'
  <2>1. node'[s] = node[s] /\ Stage(s)' = Stage(s)
    BY <1>2, <1>4
  <2>2. Shape(Stage(s), node[s])
    BY <1>1, <1>4 DEF Whole
  <2> QED
    BY <2>1, <2>2 DEF Shape, Newest, ElementAt, shared
<1>5. Shape("none", NULL) => Shape("none", NULL)'
  BY DEF Shape, Newest, ElementAt, shared
<1> QED
  BY <1>1, <1>2, <1>3, <1>4, <1>5 DEF Whole

\* A step of the one task that is inside, which leaves the elements that are
\* pushed and their links as they were, and takes it on to the next stage.
LEMMA StageLinks ==
  ASSUME TypeInv, LockInv, LockInv', NEW t \in Tasks, NEW q,
         ~overlapped', pc' = [pc EXCEPT ![t] = q], call' = call, Inside(t), ~overlapped,
         PushedLinked',
         Stage(t)' # "none" => Shape(Stage(t), node[t])',
         Stage(t)' = "none" => Shape("none", NULL)'
  PROVE  Whole'
<1>1. \A s \in Tasks : s # t => pc'[s] = pc[s] /\ call'[s] = call[s]
  BY DEF TypeInv, TypeOK
<1>2. \A s \in Tasks : s # t => Stage(s) = "none"
  BY StageInside DEF LockInv, AloneInside
<1>3. \A s \in Tasks : s # t => Stage(s)' = "none"
  BY <1>1, <1>2 DEF Stage
<1> QED
  BY <1>3 DEF Whole

LEMMA ReadFirstLinks ==
  ASSUME TypeInv, LockInv, LockInv', LinksInv, NEW t \in Tasks, ReadFirst(t)
  PROVE  LinksInv'
<1> SUFFICES ASSUME ~overlapped', ~reused' PROVE Whole'
  BY DEF LinksInv
<1>1. /\ pc[t] = "read" /\ ~overlapped /\ ~reused
      /\ UNCHANGED <<shared, call, node, pushed>>
  BY DEF ReadFirst, At
<1>2. PICK q : /\ q = IF first = NULL THEN "initFirst" ELSE "init"
               /\ pc' = [pc EXCEPT ![t] = q]
  BY DEF ReadFirst, Goes
<1>3. Inside(t) /\ Stage(t) = "none"
  BY <1>1 DEF Inside, Working, Stage, AtUnlock, PushPlaces
<1>4. \A s \in Tasks : Stage(s) = "none"
  BY <1>1, <1>3, StageInside DEF LockInv, AloneInside
<1>5. PushedLinked /\ Shape("none", NULL)
  BY <1>1, <1>4 DEF LinksInv, Whole
<1>6. PushedLinked'
  BY <1>1, <1>5 DEF PushedLinked, ElementAt, shared
<1>7. Stage(t)' = q /\ q \in {"initFirst", "init"}
  BY <1>2 DEF Stage, PushPlaces, TypeInv, TypeOK
<1>8. first = NULL <=> pushed = <<>>
  BY <1>5, PushedTypes DEF Shape
<1>9. Shape(q, node[t])'
  BY <1>1, <1>2, <1>5, <1>7, <1>8 DEF Shape, Newest, ElementAt, shared
<1>10. Stage(t)' # "none" /\ Shape(Stage(t), node[t])'
  BY <1>7, <1>9 DEF Shape, Newest, ElementAt
<1> QED
  BY <1>1, <1>2, <1>3, <1>6, <1>10, StageLinks

\* The elements are different, and they are what k->first leads to.
LEMMA ChainWhenFirst ==
  ASSUME TypeInv, PushedLinked, first = Newest
  PROVE  Chain = Elements
<1>1. /\ DOMAIN pushed = 1 .. Len(pushed) /\ Len(pushed) \in Nat
      /\ \A i \in DOMAIN pushed : ElementAt(i) \in Nodes
      /\ pushed # <<>> <=> Len(pushed) > 0
  BY PushedTypes
<1>2. Elements \in Seq(Nodes) /\ Len(Elements) = Len(pushed)
  <2>1. Elements \in [1 .. Len(pushed) -> Nodes]
    BY <1>1 DEF Elements, ElementAt
  <2> QED
    BY <1>1, <2>1
<1>3. \A i \in 1 .. Len(pushed) : Elements[i] = ElementAt(i)
  BY <1>1 DEF Elements, ElementAt
<1>4. Links(Elements, first, next)
  <2>1. \A i, j \in 1 .. Len(Elements) : Elements[i] = Elements[j] => i = j
    BY <1>1, <1>2, <1>3 DEF PushedLinked
  <2>2. first = IF Elements = <<>> THEN NULL ELSE Elements[1]
    BY <1>1, <1>2, <1>3 DEF Newest
  <2>3. ASSUME NEW i \in 1 .. Len(Elements)
        PROVE  next[Elements[i]] = IF i = Len(Elements) THEN NULL ELSE Elements[i + 1]
    <3>0. i \in 1 .. Len(pushed) /\ Len(pushed) \in Nat
      BY <1>1, <1>2
    <3>1. i # Len(pushed) => i + 1 \in 1 .. Len(pushed)
      BY <3>0
    <3> QED
      BY <1>1, <1>2, <1>3, <3>1 DEF PushedLinked
  <2> QED
    BY <1>2, <2>1, <2>2, <2>3 DEF Links
<1> QED
  BY <1>4, LinksAreChain DEF Chain, TypeInv, TypeOK

LEMMA InitialiseLinks ==
  ASSUME TypeInv, LockInv, LockInv', LinksInv, NEW t \in Tasks,
         NEW from \in {"initFirst", "init"}, NEW to, Initialise(t, from, to),
         to = IF from = "initFirst" THEN "linkFirst" ELSE "back"
  PROVE  LinksInv'
<1> SUFFICES ASSUME ~overlapped', ~reused' PROVE Whole'
  BY DEF LinksInv
<1>1. /\ pc[t] = from /\ ~overlapped /\ ~reused /\ pc' = [pc EXCEPT ![t] = to]
      /\ UNCHANGED <<first, last, call, pushed>>
  BY DEF Initialise, At, Goes
<1>2. PICK n \in Unallocated :
        /\ reused' = InChain(n)
        /\ next' = [next EXCEPT ![n] = IF from = "initFirst" THEN NULL ELSE first]
        /\ prev' = [prev EXCEPT ![n] = NULL]
        /\ node' = [node EXCEPT ![t] = n]
  BY DEF Initialise
<1>3. Inside(t) /\ Stage(t) = from
  BY <1>1 DEF Inside, Working, Stage, PushPlaces
<1>4. PushedLinked /\ Shape(from, node[t])
  BY <1>1, <1>3 DEF LinksInv, Whole
<1>5. first = Newest
  BY <1>4 DEF Shape
<1>6. /\ DOMAIN pushed = 1 .. Len(pushed) /\ Len(pushed) \in Nat
      /\ \A i \in DOMAIN pushed : ElementAt(i) \in Nodes
      /\ pushed # <<>> => Newest \in Nodes /\ 1 \in DOMAIN pushed
  BY PushedTypes
<1>7. n \in Nodes /\ \A i \in DOMAIN pushed : ElementAt(i) # n
  <2>1. Chain = Elements
    BY <1>4, <1>5, ChainWhenFirst
  <2>2. n \notin ToSet(Elements)
    BY <1>2, <2>1 DEF InChain
  <2>3. DOMAIN Elements = DOMAIN pushed /\ \A i \in DOMAIN pushed : Elements[i] = ElementAt(i)
    BY DEF Elements, ElementAt
  <2> QED
    BY <1>2, <2>2, <2>3 DEF ToSet, Unallocated
<1>8. /\ next'[n] = (IF from = "initFirst" THEN NULL ELSE first) /\ prev'[n] = NULL
      /\ \A m \in Nodes : m # n => next'[m] = next[m] /\ prev'[m] = prev[m]
      /\ node'[t] = n
  BY <1>2, <1>7 DEF TypeInv, TypeOK
<1>9. PushedLinked'
  <2>1. \A i \in DOMAIN pushed : next'[ElementAt(i)] = next[ElementAt(i)]
                                 /\ prev'[ElementAt(i)] = prev[ElementAt(i)]
    BY <1>6, <1>7, <1>8
  <2> QED
    BY <1>1, <1>4, <2>1 DEF PushedLinked, ElementAt
<1>10. Stage(t)' = to
  BY <1>1 DEF Stage, PushPlaces, TypeInv, TypeOK
<1>11. pushed = <<>> <=> from = "initFirst"
  BY <1>4 DEF Shape
<1>12. Newest' = Newest /\ \A i \in DOMAIN pushed : ElementAt(i)' = ElementAt(i)
  BY <1>1 DEF Newest, ElementAt
<1>13. next'[n] = Newest /\ prev'[n] = NULL
  BY <1>5, <1>8, <1>11 DEF Newest
<1>14. pushed # <<>> => last = ElementAt(Len(pushed)) /\ prev'[Newest] = NULL
  <2>1. pushed # <<>> => Newest # n
    BY <1>6, <1>7 DEF Newest
  <2> QED
    BY <1>4, <1>6, <1>8, <2>1 DEF Shape
<1>15. pushed = <<>> => last = NULL
  BY <1>4 DEF Shape
<1>16. Shape(to, n)'
  <2>1. to \in {"linkFirst", "back"} /\ (to = "linkFirst" <=> from = "initFirst")
    OBVIOUS
  <2>2. ElementAt(Len(pushed))' = ElementAt(Len(pushed))
    BY <1>1 DEF ElementAt
  <2> QED
    BY <1>1, <1>5, <1>7, <1>11, <1>12, <1>13, <1>14, <1>15, <2>1, <2>2 DEF Shape
<1>17. Shape(Stage(t), node[t])'
  BY <1>8, <1>10, <1>16
<1>18. Stage(t)' # "none"
  BY <1>10
<1> QED
  BY <1>1, <1>3, <1>9, <1>17, <1>18, StageLinks
LEMMA LinkLinks ==
  ASSUME TypeInv, LockInv, LockInv', CallsInv, LinksInv, NEW t \in Tasks,
         Link(t, "linkFirst", "setLast") \/ Link(t, "link", "loadAgain")
  PROVE  LinksInv'
<1> SUFFICES ASSUME ~overlapped', ~reused' PROVE Whole'
  BY DEF LinksInv
<1>1. PICK q : /\ \/ pc[t] = "linkFirst" /\ q = "setLast"
                  \/ pc[t] = "link" /\ q = "loadAgain"
               /\ pc' = [pc EXCEPT ![t] = q]
  BY DEF Link, At, Goes
<1>2. /\ ~overlapped /\ ~reused /\ first' = node[t]
      /\ UNCHANGED <<last, next, prev, call, pushed, node>>
  BY DEF Link, At
<1>3. Inside(t) /\ Stage(t) = pc[t] /\ pc[t] # "none"
  BY <1>1 DEF Inside, Working, Stage, PushPlaces
<1>4. PushedLinked /\ Shape(pc[t], node[t])
  BY <1>2, <1>3 DEF LinksInv, Whole
<1>5. PushedLinked'
  BY <1>2, <1>4 DEF PushedLinked, ElementAt
<1>6. call[t] = "push"
  BY <1>1 DEF CallsInv, PlacesOf, TypeInv, TypeOK, Calls, AtLock, AtUnlock
<1>7. Stage(t)' = IF q = "setLast" THEN "setLast" ELSE "linked"
  BY <1>1, <1>2, <1>6 DEF Stage, PushPlaces, AtUnlock, TypeInv, TypeOK
<1>8. Shape(IF q = "setLast" THEN "setLast" ELSE "linked", node[t])'
  <2>1. CASE q = "setLast"
    BY <1>1, <1>2, <1>4, <2>1 DEF Shape, Newest, ElementAt
  <2>2. CASE q # "setLast"
    BY <1>1, <1>2, <1>4, <2>2 DEF Shape, Newest, ElementAt
  <2> QED
    BY <2>1, <2>2
<1>9. Stage(t)' # "none" /\ Shape(Stage(t), node[t])'
  BY <1>7, <1>8
<1> QED
  BY <1>1, <1>2, <1>3, <1>5, <1>9, StageLinks

LEMMA SetLastLinks ==
  ASSUME TypeInv, LockInv, LockInv', CallsInv, LinksInv, NEW t \in Tasks, SetLast(t)
  PROVE  LinksInv'
<1> SUFFICES ASSUME ~overlapped', ~reused' PROVE Whole'
  BY DEF LinksInv
<1>1. /\ pc[t] = "setLast" /\ ~overlapped /\ ~reused /\ last' = node[t]
      /\ pc' = [pc EXCEPT ![t] = "loadAgain"]
      /\ UNCHANGED <<first, next, prev, call, pushed, node>>
  BY DEF SetLast, At, Goes
<1>2. Inside(t) /\ Stage(t) = "setLast"
  BY <1>1 DEF Inside, Working, Stage, PushPlaces
<1>3. PushedLinked /\ Shape("setLast", node[t])
  BY <1>1, <1>2 DEF LinksInv, Whole
<1>4. PushedLinked'
  BY <1>1, <1>3 DEF PushedLinked, ElementAt
<1>5. call[t] = "push"
  BY <1>1 DEF CallsInv, PlacesOf, TypeInv, TypeOK, Calls, AtLock, AtUnlock
<1>6. Stage(t)' = "linked"
  BY <1>1, <1>5 DEF Stage, PushPlaces, AtUnlock, TypeInv, TypeOK
<1>7. Shape("linked", node[t])'
  BY <1>1, <1>3 DEF Shape, Newest, ElementAt
<1>8. Stage(t)' # "none" /\ Shape(Stage(t), node[t])'
  BY <1>6, <1>7
<1> QED
  BY <1>1, <1>2, <1>4, <1>8, StageLinks

LEMMA BackLinks ==
  ASSUME TypeInv, LockInv, LockInv', LinksInv, NEW t \in Tasks, Back(t)
  PROVE  LinksInv'
<1> SUFFICES ASSUME ~overlapped', ~reused' PROVE Whole'
  BY DEF LinksInv
<1>1. /\ pc[t] = "back" /\ ~overlapped /\ ~reused
      /\ prev' = [prev EXCEPT ![first] = node[t]]
      /\ pc' = [pc EXCEPT ![t] = "link"]
      /\ UNCHANGED <<first, last, next, call, pushed, node>>
  BY DEF Back, At, Goes
<1>2. Inside(t) /\ Stage(t) = "back"
  BY <1>1 DEF Inside, Working, Stage, PushPlaces
<1>3. PushedLinked /\ Shape("back", node[t])
  BY <1>1, <1>2 DEF LinksInv, Whole
<1>4. /\ \A i \in DOMAIN pushed : ElementAt(i) \in Nodes
      /\ Newest \in Nodes /\ 1 \in DOMAIN pushed /\ DOMAIN pushed = 1 .. Len(pushed)
      /\ Newest = ElementAt(1) /\ first = Newest /\ pushed # <<>>
  BY <1>3, PushedTypes DEF Shape, Newest
<1>5. /\ prev'[Newest] = node[t]
      /\ \A m \in Nodes : m # Newest => prev'[m] = prev[m]
  BY <1>1, <1>4 DEF TypeInv, TypeOK
<1>6. node[t] \in Nodes /\ node[t] # Newest /\ next[node[t]] = Newest /\ prev[node[t]] = NULL
  <2>1. node[t] \in Nodes
    BY <1>1 DEF TypeInv, HandIsFull, InHand
  <2> QED
    BY <1>3, <1>4, <2>1 DEF Shape
<1>7. \A i \in DOMAIN pushed : i > 1 => prev'[ElementAt(i)] = ElementAt(i - 1)
  BY <1>3, <1>4, <1>5 DEF PushedLinked
<1>8. PushedLinked'
  BY <1>1, <1>3, <1>7 DEF PushedLinked, ElementAt
<1>9. Newest' = Newest /\ \A i \in DOMAIN pushed : ElementAt(i)' = ElementAt(i)
  BY <1>1 DEF Newest, ElementAt
<1>10. ElementAt(Len(pushed))' = ElementAt(Len(pushed))
  BY <1>1 DEF ElementAt
<1>11. Shape("link", node[t])'
  BY <1>1, <1>3, <1>4, <1>5, <1>6, <1>9, <1>10 DEF Shape
<1>12. Stage(t)' = "link"
  BY <1>1 DEF Stage, PushPlaces, TypeInv, TypeOK
<1>13. Stage(t)' # "none" /\ Shape(Stage(t), node[t])'
  BY <1>11, <1>12
<1> QED
  BY <1>1, <1>2, <1>8, <1>13, StageLinks

\* What was pushed stands one place further back.
LEMMA PushedGrows ==
  ASSUME TypeInv, NEW rec, pushed' = <<rec>> \o pushed
  PROVE  /\ DOMAIN pushed' = 1 .. Len(pushed) + 1 /\ Len(pushed') = Len(pushed) + 1
         /\ pushed' # <<>> /\ pushed'[1] = rec
         /\ \A i \in 2 .. Len(pushed) + 1 : i - 1 \in DOMAIN pushed /\ pushed'[i] = pushed[i - 1]
<1>1. pushed \in Seq([node : Nodes, by : Tasks])
  BY DEF TypeInv, TypeOK
<1> DEFINE p == pushed
<1>2. p \in Seq([node : Nodes, by : Tasks]) /\ Len(p) \in Nat
  BY <1>1
<1>3. /\ Len(<<rec>> \o p) = Len(p) + 1 /\ DOMAIN (<<rec>> \o p) = 1 .. Len(p) + 1
      /\ (<<rec>> \o p)[1] = rec
      /\ \A i \in 2 .. Len(p) + 1 : i - 1 \in DOMAIN p /\ (<<rec>> \o p)[i] = p[i - 1]
  <2> HIDE DEF p
  <2> QED
    BY <1>2
<1> QED
  BY <1>2, <1>3

LEMMA StoreUnlockLinks ==
  ASSUME TypeInv, LockInv, LockInv', CallsInv, LinksInv, NEW t \in Tasks, StoreUnlock(t),
         call[t] = "push"
  PROVE  LinksInv'
<1> SUFFICES ASSUME ~overlapped', ~reused' PROVE Whole'
  BY DEF LinksInv
<1> DEFINE rec == [node |-> node[t], by |-> t]
<1>0. PICK L \in Nat : L = Len(pushed)
  BY PushedTypes
<1>1. /\ pc[t] = "storeAgain" /\ ~overlapped /\ ~reused
      /\ pc' = [pc EXCEPT ![t] = "idle"]
      /\ pushed' = <<rec>> \o pushed
      /\ UNCHANGED <<first, last, next, prev, call, node>>
  BY DEF StoreUnlock, At, Goes, shared
<1>2. Inside(t) /\ Stage(t) = "linked"
  BY <1>1 DEF Inside, AtUnlock, Stage, PushPlaces
<1>3. PushedLinked /\ Shape("linked", node[t])
  BY <1>1, <1>2 DEF LinksInv, Whole
<1>4. /\ DOMAIN pushed' = 1 .. L + 1 /\ Len(pushed') = L + 1 /\ pushed' # <<>>
      /\ ElementAt(1)' = node[t] /\ Newest' = node[t]
      /\ \A i \in 2 .. L + 1 : i - 1 \in DOMAIN pushed /\ ElementAt(i)' = ElementAt(i - 1)
  BY <1>0, <1>1, PushedGrows DEF ElementAt, Newest
<1>5. /\ DOMAIN pushed = 1 .. L /\ L \in Nat /\ (pushed # <<>> <=> L > 0)
      /\ \A i \in DOMAIN pushed : ElementAt(i) \in Nodes
      /\ pushed # <<>> => Newest = ElementAt(1)
  BY <1>0, PushedTypes DEF Newest
<1>6. /\ \A i \in DOMAIN pushed : ElementAt(i) # node[t]
      /\ next[node[t]] = Newest /\ prev[node[t]] = NULL /\ first = node[t]
      /\ pushed = <<>> => last = node[t]
      /\ pushed # <<>> => last = ElementAt(L) /\ prev[Newest] = node[t]
  BY <1>0, <1>3 DEF Shape
<1>7. \A i, j \in 1 .. L + 1 : ElementAt(i)' = ElementAt(j)' => i = j
  <2> SUFFICES ASSUME NEW i \in 1 .. L + 1, NEW j \in 1 .. L + 1, ElementAt(i)' = ElementAt(j)'
               PROVE  i = j
    OBVIOUS
  <2>1. CASE i = 1
    BY <1>4, <1>5, <1>6, <2>1
  <2>2. CASE j = 1
    BY <1>4, <1>5, <1>6, <2>2
  <2>3. CASE i # 1 /\ j # 1
    <3>1. i \in 2 .. L + 1 /\ j \in 2 .. L + 1
      BY <1>5, <2>3
    <3>2. /\ i - 1 \in DOMAIN pushed /\ j - 1 \in DOMAIN pushed
          /\ ElementAt(i - 1) = ElementAt(j - 1)
      BY <1>4, <3>1
    <3>3. i - 1 = j - 1
      BY <1>3, <3>2 DEF PushedLinked
    <3> QED
      BY <3>1, <3>3
  <2> QED
    BY <2>1, <2>2, <2>3
<1>8. ASSUME NEW i \in 1 .. L + 1
      PROVE  next[ElementAt(i)'] = IF i = L + 1 THEN NULL ELSE ElementAt(i + 1)'
  <2>1. CASE i = 1
    <3>1. CASE L = 0
      BY <1>4, <1>5, <1>6, <2>1, <3>1 DEF Newest
    <3>2. CASE L # 0
      <4>1. 2 \in 2 .. L + 1 /\ i + 1 = 2 /\ 2 - 1 = 1 /\ i # L + 1
        BY <1>5, <2>1, <3>2
      <4>2. ElementAt(2)' = ElementAt(1)
        BY <1>4, <4>1
      <4> QED
        BY <1>4, <1>5, <1>6, <2>1, <3>2, <4>1, <4>2
    <3> QED
      BY <3>1, <3>2
  <2>2. CASE i # 1
    <3>1. i \in 2 .. L + 1 /\ (i # L + 1 => i + 1 \in 2 .. L + 1) /\ (i + 1) - 1 = i
      BY <1>5, <2>2
    <3>2. i - 1 \in DOMAIN pushed /\ ElementAt(i)' = ElementAt(i - 1)
      BY <1>4, <3>1
    <3>3. next[ElementAt(i - 1)] = IF i - 1 = L THEN NULL ELSE ElementAt((i - 1) + 1)
      BY <1>0, <1>3, <3>2 DEF PushedLinked
    <3>4. (i - 1) + 1 = i /\ (i - 1 = L <=> i = L + 1)
      BY <1>5, <3>1
    <3>5. i # L + 1 => ElementAt(i + 1)' = ElementAt(i)
      BY <1>4, <3>1
    <3> QED
      BY <3>2, <3>3, <3>4, <3>5
  <2> QED
    BY <2>1, <2>2
<1>9. ASSUME NEW i \in 1 .. L + 1, i > 1 PROVE prev[ElementAt(i)'] = ElementAt(i - 1)'
  <2>1. i \in 2 .. L + 1
    BY <1>5, <1>9
  <2>2. i - 1 \in DOMAIN pushed /\ ElementAt(i)' = ElementAt(i - 1)
    BY <1>4, <2>1
  <2>3. CASE i = 2
    BY <1>4, <1>5, <1>6, <2>2, <2>3
  <2>4. CASE i # 2
    <3>1. i - 1 \in 2 .. L + 1 /\ i - 1 > 1
      BY <1>5, <2>1, <2>4
    <3>2. prev[ElementAt(i - 1)] = ElementAt((i - 1) - 1)
      BY <1>3, <2>2, <3>1 DEF PushedLinked
    <3>3. ElementAt(i - 1)' = ElementAt((i - 1) - 1)
      BY <1>4, <3>1
    <3> QED
      BY <2>2, <3>2, <3>3
  <2> QED
    BY <2>3, <2>4
<1>10. PushedLinked'
  BY <1>1, <1>4, <1>7, <1>8, <1>9 DEF PushedLinked
<1>11. last = ElementAt(L + 1)'
  <2>1. CASE L = 0
    BY <1>4, <1>5, <1>6, <2>1
  <2>2. CASE L # 0
    <3>1. L + 1 \in 2 .. L + 1 /\ (L + 1) - 1 = L
      BY <1>5, <2>2
    <3> QED
      BY <1>4, <1>5, <1>6, <2>2, <3>1
  <2> QED
    BY <2>1, <2>2
<1>12. ElementAt(Len(pushed))' = ElementAt(L + 1)'
  BY <1>4 DEF ElementAt
<1>13. Shape("none", NULL)'
  BY <1>1, <1>4, <1>6, <1>11, <1>12 DEF Shape
<1>14. Stage(t)' = "none"
  BY <1>1 DEF Stage, PushPlaces, AtUnlock, TypeInv, TypeOK
<1> QED
  BY <1>1, <1>2, <1>10, <1>13, <1>14, StageLinks

LEMMA StepLinks ==
  ASSUME TypeInv, LockInv, LockInv', CallsInv, LinksInv, NEW t \in Tasks, Step(t)
  PROVE  LinksInv'
<1> USE DEF At, Goes, Begins, AtLock, AtUnlock, Stage, PushPlaces
<1>0. pc \in [Tasks -> Places] /\ call \in [Tasks -> Calls]
  BY DEF TypeInv, TypeOK
<1>1. CASE Test(t)
  BY <1>0, <1>1, MovesLinks DEF Test
<1>2. CASE Load(t, "load", "store")
  BY <1>0, <1>2, MovesLinks DEF Load
<1>3. CASE StoreLock(t)
  <2>1. PICK q \in {"read", "print", "check"} : pc' = [pc EXCEPT ![t] = q]
    <3>1. CASE call[t] = "push"
      BY <1>3, <3>1 DEF StoreLock
    <3>2. CASE call[t] = "print"
      BY <1>3, <3>2 DEF StoreLock
    <3>3. CASE call[t] = "free"
      BY <1>3, <3>3 DEF StoreLock
    <3> QED
      BY <1>0, <3>1, <3>2, <3>3 DEF Calls
  <2> QED
    BY <1>0, <1>3, <2>1, MovesLinks DEF StoreLock
<1>4. CASE Load(t, "loadAgain", "storeAgain")
  BY <1>0, <1>4, MovesLinks DEF Load
<1>5. CASE StoreUnlock(t)
  <2>1. CASE call[t] = "push"
    BY <1>5, <2>1, StoreUnlockLinks
  <2>2. CASE call[t] = "print"
    BY <1>0, <1>5, <2>2, MovesLinks DEF StoreUnlock
  <2>3. CASE call[t] = "free"
    BY <1>0, <1>5, <2>3, MovesLinks DEF StoreUnlock
  <2> QED
    BY <1>0, <2>1, <2>2, <2>3 DEF Calls
<1>6. CASE Push(t)
  BY <1>0, <1>6, MovesLinks DEF Push
<1>7. CASE ReadFirst(t)
  BY <1>7, ReadFirstLinks
<1>8. CASE Initialise(t, "initFirst", "linkFirst") \/ Initialise(t, "init", "back")
  BY <1>8, InitialiseLinks
<1>9. CASE Link(t, "linkFirst", "setLast") \/ Link(t, "link", "loadAgain")
  BY <1>9, LinkLinks
<1>10. CASE SetLast(t)
  BY <1>10, SetLastLinks
<1>11. CASE Back(t)
  BY <1>11, BackLinks
<1>12. CASE Stop(t)
  BY <1>0, <1>12, MovesLinks DEF Stop
<1>13. CASE Reap(t)
  BY <1>0, <1>13, MovesLinks DEF Reap
<1>14. CASE Sleep(t)
  BY <1>0, <1>14, MovesLinks DEF Sleep
<1>15. CASE Awake(t)
  BY <1>0, <1>15, MovesLinks DEF Awake
<1> QED
  BY <1>1, <1>2, <1>3, <1>4, <1>5, <1>6, <1>7, <1>8, <1>9, <1>10, <1>11, <1>12, <1>13,
     <1>14, <1>15 DEF Step, Runs

LEMMA MainStepLinks ==
  ASSUME TypeInv, CallsInv, LinksInv, WaitIsOver \/ DebugPrint \/ Check \/ Walk
  PROVE  LinksInv'
<1> USE DEF At, Goes, Begins, AtLock, AtUnlock, Stage, PushPlaces
<1>0. Main \in Tasks /\ pc \in [Tasks -> Places] /\ call \in [Tasks -> Calls]
  BY DEF TypeInv, TypeOK, Tasks
<1>2. CASE WaitIsOver
  BY <1>0, <1>2, MovesLinks DEF WaitIsOver
<1>3. CASE DebugPrint
  <2>1. call[Main] = "print"
    BY <1>0, <1>3 DEF DebugPrint, TypeInv, CallFits
  <2> QED
    BY <1>0, <1>3, <2>1, MovesLinks DEF DebugPrint
<1>4. CASE Check
  <2>1. \A s \in Tasks : s # Main => node'[s] = node[s]
    BY <1>0, <1>4 DEF Check, TypeInv, TypeOK
  <2> QED
    BY <1>0, <1>4, <2>1, MovesLinks DEF Check
<1>5. CASE Walk
  <2>0. \A s \in Tasks : s # Main => node'[s] = node[s]
    BY <1>0, <1>5 DEF Walk, TypeInv, TypeOK
  <2>1. call[Main] = "free" /\ pc[Main] = "walk"
    BY <1>0, <1>5 DEF Walk, TypeInv, CallFits
  <2>2. PICK q \in {"walk", "loadAgain"} : pc' = [pc EXCEPT ![Main] = q]
    <3>1. UNCHANGED pc => pc' = [pc EXCEPT ![Main] = "walk"]
      BY <1>0, <2>1
    <3> QED
      BY <1>5, <3>1 DEF Walk
  <2> QED
    BY <1>0, <1>5, <2>0, <2>1, <2>2, MovesLinks DEF Walk
<1> QED
  BY <1>2, <1>3, <1>4, <1>5

-----------------------------------------------------------------------------
ListInv == TypeInv /\ LockInv /\ CallsInv /\ LinksInv

LEMMA InitList == Init => ListInv
BY InitTypes, InitLock, InitCalls, InitLinks DEF ListInv

LEMMA NextList ==
  ASSUME ListInv, [Next]_vars
  PROVE  ListInv'
<1> USE DEF ListInv
<1>1. CASE \E t \in Tasks : Step(t)
  BY <1>1, StepTypes, StepLock, StepCalls, StepLinks
<1>2. CASE WaitIsOver \/ DebugPrint \/ Check \/ Walk
  BY <1>2, MainStepTypes, MainStepLock, MainStepCalls, MainStepLinks DEF MainStep
<1>3. CASE UNCHANGED vars
  <2>1. TypeInv'
    BY <1>3, NextTypes
  <2>2. LockInv'
    BY <1>3 DEF vars, LockInv, AloneInside, LockTells, LoadsFit, Inside, Holds
  <2>3. CallsInv'
    BY <1>3 DEF vars, CallsInv, PlacesOf
  <2>4. LinksInv'
    BY <1>3 DEF vars, shared, LinksInv, Whole, PushedLinked, Shape, Newest, Stage, ElementAt
  <2> QED
    BY <2>1, <2>2, <2>3, <2>4
<1> QED
  BY <1>1, <1>2, <1>3 DEF Next, MainStep, Tasks

\* The chain is what has been pushed, behind the element that is being pushed once
\* that is linked.
ChainFits ==
  ~overlapped /\ ~reused =>
    /\ first = Newest => Chain = Elements
    /\ \A t \in Tasks :
         Stage(t) \in {"setLast", "linked"} => Chain = <<node[t]>> \o Elements

LEMMA ElementsSeq ==
  ASSUME TypeInv
  PROVE  /\ Elements \in Seq(Nodes) /\ Len(Elements) = Len(pushed) /\ Len(pushed) \in Nat
         /\ \A i \in 1 .. Len(pushed) : Elements[i] = ElementAt(i)
<1>1. /\ DOMAIN pushed = 1 .. Len(pushed) /\ Len(pushed) \in Nat
      /\ \A i \in DOMAIN pushed : ElementAt(i) \in Nodes
  BY PushedTypes
<1>2. Elements \in [1 .. Len(pushed) -> Nodes]
  BY <1>1 DEF Elements, ElementAt
<1>3. \A i \in 1 .. Len(pushed) : Elements[i] = ElementAt(i)
  BY <1>1 DEF Elements, ElementAt
<1> QED
  BY <1>1, <1>2, <1>3

LEMMA ListFits ==
  ASSUME ListInv
  PROVE  ChainFits
<1> SUFFICES ASSUME ~overlapped, ~reused
             PROVE  /\ first = Newest => Chain = Elements
                    /\ \A t \in Tasks :
                         Stage(t) \in {"setLast", "linked"} => Chain = <<node[t]>> \o Elements
  BY DEF ChainFits
<1>1. TypeInv /\ Whole
  BY DEF ListInv, LinksInv
<1>2. first = Newest => Chain = Elements
  BY <1>1, ChainWhenFirst DEF Whole
<1>3. ASSUME NEW t \in Tasks, Stage(t) \in {"setLast", "linked"}
      PROVE  Chain = <<node[t]>> \o Elements
  <2>1. PushedLinked /\ Shape(Stage(t), node[t])
    BY <1>1, <1>3 DEF Whole
  <2>2. /\ \A i \in DOMAIN pushed : ElementAt(i) # node[t]
        /\ next[node[t]] = Newest /\ first = node[t]
    BY <1>3, <2>1 DEF Shape
  <2>3. node[t] \in Nodes
    BY <1>1, <1>3 DEF TypeInv, HandIsFull, InHand, Stage, PushPlaces
  <2>4. PICK E, L : /\ E = Elements /\ L = Len(pushed) /\ L \in Nat
                    /\ E \in Seq(Nodes) /\ Len(E) = L
                    /\ \A i \in 1 .. L : E[i] = ElementAt(i)
    BY <1>1, ElementsSeq
  <2>5. DOMAIN pushed = 1 .. L /\ (pushed = <<>> <=> L = 0)
    BY <1>1, <2>4, PushedTypes
  <2> DEFINE n == node[t]
             s == <<n>> \o E
  <2>6. /\ s \in Seq(Nodes) /\ Len(s) = L + 1 /\ s[1] = n /\ s # <<>>
        /\ \A i \in 2 .. L + 1 : i - 1 \in 1 .. L /\ s[i] = E[i - 1]
    <3> HIDE DEF n
    <3>1. n \in Nodes
      BY <2>3 DEF n
    <3> QED
      BY <2>4, <3>1
  <2> HIDE DEF s
  <2>7. ASSUME NEW i \in 1 .. L + 1, NEW j \in 1 .. L + 1, s[i] = s[j] PROVE i = j
    <3>1. CASE i = 1 /\ j = 1
      BY <3>1
    <3>2. CASE i = 1 /\ j # 1
      <4>1. j \in 2 .. L + 1
        BY <2>4, <3>2
      <4> QED
        BY <2>2, <2>4, <2>5, <2>6, <2>7, <3>2, <4>1
    <3>3. CASE i # 1 /\ j = 1
      <4>1. i \in 2 .. L + 1
        BY <2>4, <3>3
      <4> QED
        BY <2>2, <2>4, <2>5, <2>6, <2>7, <3>3, <4>1
    <3>4. CASE i # 1 /\ j # 1
      <4>1. i \in 2 .. L + 1 /\ j \in 2 .. L + 1
        BY <2>4, <3>4
      <4>2. ElementAt(i - 1) = ElementAt(j - 1) /\ i - 1 \in 1 .. L /\ j - 1 \in 1 .. L
        BY <2>4, <2>6, <2>7, <4>1
      <4>3. i - 1 = j - 1
        BY <2>1, <2>5, <4>2 DEF PushedLinked
      <4> QED
        BY <4>1, <4>3
    <3> QED
      BY <3>1, <3>2, <3>3, <3>4
  <2>8. ASSUME NEW i \in 1 .. L + 1 PROVE next[s[i]] = IF i = L + 1 THEN NULL ELSE s[i + 1]
    <3>1. CASE i = 1
      <4>1. next[s[i]] = Newest
        BY <2>2, <2>6, <3>1
      <4>2. CASE L = 0
        BY <2>5, <3>1, <4>1, <4>2 DEF Newest
      <4>3. CASE L # 0
        <5>1. i + 1 \in 2 .. L + 1 /\ (i + 1) - 1 = 1 /\ 1 \in 1 .. L /\ i # L + 1
          BY <2>4, <3>1, <4>3
        <5>2. s[i + 1] = ElementAt(1)
          BY <2>4, <2>6, <5>1
        <5> QED
          BY <2>5, <4>1, <4>3, <5>1, <5>2 DEF Newest
      <4> QED
        BY <4>2, <4>3
    <3>2. CASE i # 1
      <4>1. /\ i \in 2 .. L + 1 /\ i - 1 \in 1 .. L /\ (i - 1) + 1 = i
            /\ i - 1 = L <=> i = L + 1
            /\ i # L + 1 => i + 1 \in 2 .. L + 1 /\ (i + 1) - 1 = i /\ i \in 1 .. L
        BY <2>4, <3>2
      <4>2. s[i] = ElementAt(i - 1)
        BY <2>4, <2>6, <4>1
      <4>3. next[ElementAt(i - 1)] = IF i - 1 = L THEN NULL ELSE ElementAt((i - 1) + 1)
        BY <2>1, <2>4, <2>5, <4>1 DEF PushedLinked
      <4>4. i # L + 1 => s[i + 1] = ElementAt(i)
        BY <2>4, <2>6, <4>1
      <4> QED
        BY <4>1, <4>2, <4>3, <4>4
    <3> QED
      BY <3>1, <3>2
  <2>9. Links(s, first, next)
    BY <2>2, <2>6, <2>7, <2>8 DEF Links
  <2>10. Chain = s
    BY <1>1, <2>9, LinksAreChain DEF Chain, TypeInv, TypeOK
  <2> QED
    BY <2>4, <2>10 DEF s
<1> QED
  BY <1>2, <1>3

\* Pushes are not lost and not doubled, whoever pushes in between and wherever the
\* timer comes in klist_push: between the calls the list has what was pushed, in
\* both directions, unless two tasks came through the window of klist_lock.
THEOREM NothingLost == Spec => []ListIsWhole
<1>1. Init => ListInv
  BY InitList
<1>2. ListInv /\ [Next]_vars => ListInv'
  BY NextList
<1>3. ListInv => ListIsWhole
  <2> SUFFICES ASSUME ListInv, ~overlapped, ~reused, Quiet
               PROVE  /\ Chain = Elements
                      /\ \A i \in DOMAIN Elements :
                           prev[Elements[i]] = IF i = 1 THEN NULL ELSE Elements[i - 1]
                      /\ last = IF Elements = <<>> THEN NULL ELSE Last(Elements)
    BY DEF ListIsWhole, Elements
  <2>1. TypeInv /\ Whole /\ ChainFits
    BY ListFits DEF ListInv, LinksInv
  <2>2. PushedLinked /\ Shape("none", NULL)
    BY <2>1, StageInside DEF Quiet, Whole
  <2>3. Chain = Elements
    BY <2>1, <2>2 DEF ChainFits, Shape
  <2>4. /\ DOMAIN pushed = 1 .. Len(pushed) /\ Len(pushed) \in Nat
        /\ pushed # <<>> <=> Len(pushed) > 0
    BY <2>1, PushedTypes
  <2>5. /\ Len(Elements) = Len(pushed) /\ DOMAIN Elements = 1 .. Len(pushed)
        /\ \A i \in 1 .. Len(pushed) : Elements[i] = ElementAt(i)
        /\ Elements = <<>> <=> pushed = <<>>
    BY <2>1, <2>4, ElementsSeq
  <2>6. ASSUME NEW i \in 1 .. Len(pushed)
        PROVE  prev[Elements[i]] = IF i = 1 THEN NULL ELSE Elements[i - 1]
    <3>1. CASE i = 1
      BY <2>2, <2>4, <2>5, <3>1 DEF Shape, Newest
    <3>2. CASE i # 1
      <4>1. i > 1 /\ i - 1 \in 1 .. Len(pushed)
        BY <2>4, <3>2
      <4> QED
        BY <2>2, <2>4, <2>5, <3>2, <4>1 DEF PushedLinked
    <3> QED
      BY <3>1, <3>2
  <2>7. last = IF Elements = <<>> THEN NULL ELSE Last(Elements)
    <3>1. pushed # <<>> => Len(pushed) \in 1 .. Len(pushed)
      BY <2>4
    <3> QED
      BY <2>2, <2>5, <3>1 DEF Shape, Last
  <2> QED
    BY <2>3, <2>5, <2>6, <2>7
<1> QED
  BY <1>1, <1>2, <1>3, PTL DEF Spec

LEMMA SuffixOfGrown ==
  ASSUME NEW S, NEW s \in Seq(S), NEW e \in S
  PROVE  IsSuffix(s, s) /\ IsSuffix(s, <<e>> \o s)
<1> DEFINE L == Len(s)
           g == <<e>> \o s
           r == Reverse(s)
           q == Reverse(g)
<1>1. L \in Nat /\ g \in Seq(S) /\ Len(g) = L + 1 /\ \A i \in 1 .. L : g[i + 1] = s[i]
  OBVIOUS
<1> HIDE DEF g
<1>2. /\ r \in Seq(S) /\ Len(r) = L /\ \A i \in 1 .. L : r[i] = s[L - i + 1]
      /\ q \in Seq(S) /\ Len(q) = L + 1 /\ \A i \in 1 .. L + 1 : q[i] = g[(L + 1) - i + 1]
  <2>1. r = [i \in 1 .. L |-> s[(L - i) + 1]] /\ q = [i \in 1 .. L + 1 |-> g[((L + 1) - i) + 1]]
    BY <1>1 DEF Reverse
  <2>2. \A i \in 1 .. L : s[(L - i) + 1] \in S
    <3>1. \A i \in 1 .. L : (L - i) + 1 \in 1 .. L
      BY <1>1
    <3> QED
      BY <3>1
  <2>3. \A i \in 1 .. L + 1 : g[((L + 1) - i) + 1] \in S
    <3>1. \A i \in 1 .. L + 1 : ((L + 1) - i) + 1 \in 1 .. L + 1
      BY <1>1
    <3> QED
      BY <1>1, <3>1
  <2>4. r \in [1 .. L -> S] /\ q \in [1 .. L + 1 -> S]
    BY <2>1, <2>2, <2>3
  <2> HIDE DEF r, q, L
  <2>5. r \in Seq(S) /\ q \in Seq(S) /\ Len(r) = L /\ Len(q) = L + 1
    BY <1>1, <2>4
  <2> QED
    BY <2>1, <2>5
<1>3. \A i \in 1 .. L : q[i] = r[i]
  <2> SUFFICES ASSUME NEW i \in 1 .. L PROVE q[i] = r[i]
    OBVIOUS
  <2>1. (L + 1) - i + 1 = (L - i + 1) + 1 /\ L - i + 1 \in 1 .. L /\ i \in 1 .. L + 1
    BY <1>1
  <2> HIDE DEF r, q, L
  <2> QED
    BY <1>1, <1>2, <2>1
<1> HIDE DEF r, q, L
<1>4. SubSeq(r, 1, L) = SubSeq(q, 1, L)
  <2>1. SubSeq(r, 1, L) = [i \in 1 .. L |-> r[i]]
    BY <1>1, <1>2
  <2>2. SubSeq(q, 1, L) = [i \in 1 .. L |-> q[i]]
    BY <1>1, <1>2
  <2> QED
    BY <1>3, <2>1, <2>2
<1>5. IsPrefix(r, r) /\ IsPrefix(r, q)
  BY <1>1, <1>2, <1>4 DEF IsPrefix
<1> QED
  BY <1>5 DEF IsSuffix, r, q, g

\* What a task has pushed is never taken out of the list by the others, nor put
\* in another order (klist_push, klist_debug_print, klist_free).
THEOREM StaysInList == Spec => OnlyPrepends
<1>1. Init => ListInv
  BY InitList
<1>2. ListInv /\ [Next]_vars => ListInv'
  BY NextList
<1>3. ListInv => ChainFits
  BY ListFits
<1>4. ListInv /\ ListInv' /\ ChainFits /\ ChainFits' /\ [Next]_vars
        => [~overlapped' /\ ~reused' => IsSuffix(Chain, Chain')]_vars
  <2> SUFFICES ASSUME ListInv, ListInv', ChainFits, ChainFits', Next, ~overlapped', ~reused'
               PROVE  IsSuffix(Chain, Chain')
    BY DEF vars
  <2> USE DEF ListInv
  <2>1. PICK nth, k : Steps(nth, k, first, next) /\ Chain = [i \in 1 .. k |-> nth[i - 1]]
    BY ChainSteps DEF TypeInv, TypeOK, Chain
  <2>2. Chain \in Seq(Opt)
    <3>1. Cardinality(Nodes) \in Nat
      BY NodesCount
    <3>2. /\ k \in 0 .. Cardinality(Nodes) + 1
          /\ nth \in [0 .. Cardinality(Nodes) -> Opt]
      BY <2>1 DEF Steps
    <3>3. k \in Nat /\ \A i \in 1 .. k : i - 1 \in 0 .. Cardinality(Nodes)
      BY <3>1, <3>2
    <3>4. \A i \in 1 .. k : nth[i - 1] \in Opt
      BY <3>2, <3>3
    <3> QED
      BY <2>1, <3>3, <3>4
  <2>3. CASE UNCHANGED <<first, next>>
    <3>1. Chain' = Chain
      BY <2>3 DEF Chain
    <3>2. NULL \in Opt
      BY DEF Opt
    <3> QED
      BY <2>2, <3>1, <3>2, SuffixOfGrown
  <2>4. ASSUME NEW t \in Tasks,
               Initialise(t, "initFirst", "linkFirst") \/ Initialise(t, "init", "back")
        PROVE  IsSuffix(Chain, Chain')
    <3>1. /\ pc[t] \in {"initFirst", "init"} /\ ~overlapped /\ ~reused /\ pushed' = pushed
          /\ \/ pc' = [pc EXCEPT ![t] = "linkFirst"]
             \/ pc' = [pc EXCEPT ![t] = "back"]
      BY <2>4 DEF Initialise, At, Goes
    <3>2. pc'[t] \in {"linkFirst", "back"}
      BY <3>1 DEF TypeInv, TypeOK
    <3>3. Stage(t) \in {"initFirst", "init"} /\ Stage(t)' \in {"linkFirst", "back"}
      BY <3>1, <3>2 DEF Stage, PushPlaces
    <3>4. Shape(Stage(t), node[t]) /\ Shape(Stage(t), node[t])'
      BY <3>1, <3>3 DEF LinksInv, Whole
    <3>5. first = Newest /\ first' = Newest'
      BY <3>3, <3>4 DEF Shape
    <3>6. Chain = Elements /\ Chain' = Elements' /\ Elements' = Elements
      BY <3>1, <3>5 DEF ChainFits, Elements
    <3>7. NULL \in Opt
      BY DEF Opt
    <3> QED
      BY <2>2, <3>6, <3>7, SuffixOfGrown
  <2>5. ASSUME NEW t \in Tasks,
               Link(t, "linkFirst", "setLast") \/ Link(t, "link", "loadAgain")
        PROVE  IsSuffix(Chain, Chain')
    <3>1. /\ pc[t] \in {"linkFirst", "link"} /\ ~overlapped /\ ~reused
          /\ UNCHANGED <<pushed, node, call>>
          /\ \/ pc' = [pc EXCEPT ![t] = "setLast"]
             \/ pc' = [pc EXCEPT ![t] = "loadAgain"]
      BY <2>5 DEF Link, At, Goes
    <3>2. pc'[t] \in {"setLast", "loadAgain"}
      BY <3>1 DEF TypeInv, TypeOK
    <3>3. call[t] = "push" /\ node[t] \in Opt
      BY <3>1 DEF CallsInv, PlacesOf, TypeInv, TypeOK, Calls, AtLock, AtUnlock
    <3>4. Stage(t) \in {"linkFirst", "link"} /\ Stage(t)' \in {"setLast", "linked"}
      BY <3>1, <3>2, <3>3 DEF Stage, PushPlaces, AtUnlock
    <3>5. Shape(Stage(t), node[t])
      BY <3>1, <3>4 DEF LinksInv, Whole
    <3>6. Chain = Elements
      BY <3>1, <3>4, <3>5 DEF ChainFits, Shape
    <3>7. Chain' = <<node[t]>> \o Elements
      BY <3>1, <3>4 DEF ChainFits, Elements
    <3> QED
      BY <2>2, <3>3, <3>6, <3>7, SuffixOfGrown
  <2>6. \/ UNCHANGED <<first, next>>
        \/ \E t \in Tasks : \/ Initialise(t, "initFirst", "linkFirst")
                            \/ Initialise(t, "init", "back")
                            \/ Link(t, "linkFirst", "setLast")
                            \/ Link(t, "link", "loadAgain")
    BY DEF Next, MainStep, Step, Runs, Tasks, Test, Sleep, Awake, Load, StoreLock, StoreUnlock,
           Push, ReadFirst, SetLast, Back, Stop, Reap, WaitIsOver, DebugPrint, Check, Walk, shared
  <2> QED
    BY <2>3, <2>4, <2>5, <2>6
<1> QED
  BY <1>1, <1>2, <1>3, <1>4, PTL DEF Spec, OnlyPrepends

-----------------------------------------------------------------------------
(***************************************************************************)
(* Whose memory an element is, and what klist_free gives back.             *)
(***************************************************************************)
Has(t) == Stage(t) \notin {"none", "initFirst", "init"}
IsPushed(n) == \E i \in DOMAIN pushed : n = ElementAt(i)

Owners ==
  /\ \A t \in Tasks : Has(t) => owner[node[t]] = t
  /\ call[Main] # "free" =>
       \A i \in DOMAIN pushed :
         owner[ElementAt(i)] = IF pc[pushed[i].by] = "gone" THEN NULL ELSE pushed[i].by
  /\ \A n \in Nodes : owner[n] # NULL =>
       /\ pc[owner[n]] # "gone"
       /\ (Has(owner[n]) /\ n = node[owner[n]]) \/ IsPushed(n)

OwnersInv == ~overlapped /\ ~reused => Owners

\* klist_free has come to the k-th element of the list.
Walked(k) ==
  /\ node[Main] = IF k \in DOMAIN pushed THEN ElementAt(k) ELSE NULL
  /\ \A j \in 1 .. k - 1 : owner[ElementAt(j)] = NULL

Freeing ==
  /\ pc[Main] = "walk" => pushed # <<>> /\ \E k \in 1 .. Len(pushed) + 1 : Walked(k)
  /\ call[Main] = "free" /\ pc[Main] \in AtUnlock \cup {"done"} =>
       pushed # <<>> /\ \A n \in Nodes : owner[n] = NULL
  /\ pc[Main] = "left" => pushed = <<>>

FreeInv == ~overlapped /\ ~reused => Freeing

LEMMA InitOwners == Init => OwnersInv /\ FreeInv
BY DEF Init, OwnersInv, Owners, FreeInv, Freeing, Has, Stage, PushPlaces, AtUnlock, Tasks

LEMMA MovesOwners ==
  ASSUME TypeInv, OwnersInv, NEW t \in Tasks, NEW q,
         ~reused, overlapped' \/ ~overlapped,
         pc' = [pc EXCEPT ![t] = q], Has(t)' <=> Has(t),
         UNCHANGED <<owner, pushed>>,
         \A s \in Tasks : s # t => call'[s] = call[s] /\ node'[s] = node[s],
         ~Has(t) \/ node'[t] = node[t],
         q # "gone", pc[t] # "gone", call[Main] = "free" => call'[Main] = "free"
  PROVE  OwnersInv'
<1> SUFFICES ASSUME ~overlapped' PROVE Owners'
  BY DEF OwnersInv
<1>1. Owners
  BY DEF OwnersInv
<1>2. \A s \in Tasks : s # t => pc'[s] = pc[s]
  BY DEF TypeInv, TypeOK
<1>3. \A s \in Tasks : /\ Has(s)' <=> Has(s)
                       /\ Has(s) => node'[s] = node[s]
  BY <1>2 DEF Has, Stage
<1>4. \A s \in Tasks : (pc[s] = "gone")' <=> pc[s] = "gone"
  BY <1>2 DEF TypeInv, TypeOK
<1>5. \A i \in DOMAIN pushed : /\ ElementAt(i) \in Nodes /\ pushed[i].by \in Tasks
                               /\ ElementAt(i)' = ElementAt(i)
  BY PushedTypes DEF ElementAt
<1>6. \A n : IsPushed(n)' <=> IsPushed(n)
  BY <1>5 DEF IsPushed
<1>7. \A s \in Tasks : Has(s)' => owner'[node'[s]] = s
  BY <1>1, <1>3 DEF Owners
<1>8. ASSUME call'[Main] # "free", NEW i \in DOMAIN pushed
      PROVE  owner'[ElementAt(i)'] = IF pc'[pushed[i].by] = "gone" THEN NULL ELSE pushed[i].by
  BY <1>1, <1>4, <1>5, <1>8 DEF Owners
<1>9. ASSUME NEW n \in Nodes, owner[n] # NULL
      PROVE  /\ pc'[owner[n]] # "gone"
             /\ (Has(owner[n])' /\ n = node'[owner[n]]) \/ IsPushed(n)
  <2>1. owner[n] \in Tasks
    BY <1>9 DEF TypeInv, TypeOK
  <2>2. pc[owner[n]] # "gone" /\ ((Has(owner[n]) /\ n = node[owner[n]]) \/ IsPushed(n))
    BY <1>1, <1>9 DEF Owners
  <2>3. PICK s \in Tasks : s = owner[n]
    BY <2>1
  <2>4. pc'[s] # "gone" /\ (Has(s) /\ n = node[s] => Has(s)' /\ n = node'[s])
    BY <1>3, <1>4, <2>2, <2>3
  <2>5. owner'[n] = s
    BY <2>3
  <2>6. Has(owner[n])' <=> Has(s)'
    BY <2>5 DEF Has, Stage
  <2> QED
    BY <2>2, <2>3, <2>4, <2>5, <2>6 DEF Has, Stage
<1> QED
  BY <1>6, <1>7, <1>8, <1>9 DEF Owners

LEMMA InitialiseOwners ==
  ASSUME TypeInv, LockInv, LinksInv, LinksInv', OwnersInv, NEW t \in Tasks,
         NEW from \in {"initFirst", "init"}, NEW to, Initialise(t, from, to),
         to = IF from = "initFirst" THEN "linkFirst" ELSE "back"
  PROVE  OwnersInv'
<1> SUFFICES ASSUME ~overlapped', ~reused' PROVE Owners'
  BY DEF OwnersInv
<1>1. /\ pc[t] = from /\ ~overlapped /\ ~reused /\ pc' = [pc EXCEPT ![t] = to]
      /\ UNCHANGED <<call, pushed>>
  BY DEF Initialise, At, Goes
<1>2. PICK n \in Unallocated :
        /\ owner' = [owner EXCEPT ![n] = t]
        /\ node' = [node EXCEPT ![t] = n]
  BY DEF Initialise
<1>3. /\ \A s \in Tasks : s # t => pc'[s] = pc[s] /\ node'[s] = node[s]
      /\ pc'[t] = to /\ node'[t] = n /\ n \in Nodes /\ owner'[n] = t
      /\ \A m \in Nodes : m # n => owner'[m] = owner[m]
  BY <1>1, <1>2 DEF TypeInv, TypeOK, Unallocated
<1>4. Inside(t) /\ Stage(t) = from
  BY <1>1 DEF Inside, Working, Stage, PushPlaces
<1>5. \A s \in Tasks : s # t => Stage(s) = "none"
  BY <1>1, <1>4, StageInside DEF LockInv, AloneInside
<1>6. \A s \in Tasks : ~Has(s)
  BY <1>4, <1>5 DEF Has
<1>7. Stage(t)' = to /\ Has(t)' /\ \A s \in Tasks : s # t => ~Has(s)'
  BY <1>1, <1>3, <1>5 DEF Has, Stage, PushPlaces
<1>8. \A i \in DOMAIN pushed : /\ ElementAt(i) # n /\ ElementAt(i) \in Nodes
                               /\ pushed[i].by \in Tasks
                               /\ ElementAt(i)' = ElementAt(i)
  <2>1. Shape(Stage(t), node[t])'
    BY <1>7 DEF LinksInv, Whole
  <2>2. \A i \in DOMAIN pushed : ElementAt(i)' # n
    BY <1>1, <1>3, <1>7, <2>1 DEF Shape
  <2> QED
    BY <1>1, <2>2, PushedTypes DEF ElementAt
<1>9. Owners
  BY <1>1 DEF OwnersInv
<1>10. \A s \in Tasks : Has(s)' => owner'[node'[s]] = s
  BY <1>3, <1>7
<1>11. ASSUME call'[Main] # "free", NEW i \in DOMAIN pushed
       PROVE  owner'[ElementAt(i)'] = IF pc'[pushed[i].by] = "gone" THEN NULL ELSE pushed[i].by
  <2>1. pc'[pushed[i].by] = "gone" <=> pc[pushed[i].by] = "gone"
    BY <1>1, <1>3, <1>8
  <2> QED
    BY <1>1, <1>3, <1>8, <1>9, <1>11, <2>1 DEF Owners
<1>12. ASSUME NEW m \in Nodes, owner'[m] # NULL
       PROVE  /\ pc'[owner'[m]] # "gone"
              /\ (Has(owner[m])' /\ m = node'[owner'[m]]) \/ IsPushed(m)'
  <2>1. CASE m = n
    <3>1. owner'[m] = t
      BY <1>3, <2>1
    <3>2. Has(owner[m])'
      BY <1>7, <3>1 DEF Has, Stage
    <3> QED
      BY <1>3, <2>1, <3>1, <3>2
  <2>2. CASE m # n
    <3>1. owner'[m] = owner[m] /\ owner[m] \in Tasks
      BY <1>3, <1>12, <2>2 DEF TypeInv, TypeOK
    <3>2. pc[owner[m]] # "gone" /\ IsPushed(m)
      BY <1>6, <1>9, <1>12, <3>1 DEF Owners
    <3>3. pc'[owner[m]] # "gone"
      BY <1>3, <3>1, <3>2
    <3>4. IsPushed(m)'
      BY <1>1, <1>8, <3>2 DEF IsPushed
    <3> QED
      BY <3>1, <3>3, <3>4
  <2> QED
    BY <2>1, <2>2
<1> QED
  BY <1>1, <1>10, <1>11, <1>12 DEF Owners

LEMMA StoreUnlockOwners ==
  ASSUME TypeInv, LockInv, OwnersInv, NEW t \in Tasks, StoreUnlock(t), call[t] = "push"
  PROVE  OwnersInv'
<1> SUFFICES ASSUME ~overlapped', ~reused' PROVE Owners'
  BY DEF OwnersInv
<1> DEFINE rec == [node |-> node[t], by |-> t]
<1>0. PICK L \in Nat : L = Len(pushed) /\ DOMAIN pushed = 1 .. L
  BY PushedTypes
<1>1. /\ pc[t] = "storeAgain" /\ ~overlapped /\ ~reused
      /\ pc' = [pc EXCEPT ![t] = "idle"]
      /\ pushed' = <<rec>> \o pushed
      /\ UNCHANGED <<owner, call, node>>
  BY DEF StoreUnlock, At, Goes
<1>2. /\ DOMAIN pushed' = 1 .. L + 1 /\ pushed'[1] = rec
      /\ \A i \in 2 .. L + 1 : i - 1 \in DOMAIN pushed /\ pushed'[i] = pushed[i - 1]
  BY <1>0, <1>1, PushedGrows
<1>3. pc'[t] = "idle" /\ \A s \in Tasks : s # t => pc'[s] = pc[s]
  BY <1>1 DEF TypeInv, TypeOK
<1>4. Has(t) /\ ~Has(t)'
  BY <1>1, <1>3 DEF Has, Stage, PushPlaces, AtUnlock
<1>5. \A s \in Tasks : s # t => (Has(s)' <=> Has(s))
  BY <1>1, <1>3 DEF Has, Stage
<1>6. \A s \in Tasks : pc'[s] = "gone" <=> pc[s] = "gone"
  BY <1>1, <1>3
<1>7. Owners
  BY <1>1 DEF OwnersInv
<1>8. \A s \in Tasks : Has(s)' => owner'[node'[s]] = s
  BY <1>1, <1>4, <1>5, <1>7 DEF Owners
<1>9. ASSUME call'[Main] # "free", NEW i \in 1 .. L + 1
      PROVE  owner'[ElementAt(i)'] = IF pc'[pushed'[i].by] = "gone" THEN NULL ELSE pushed'[i].by
  <2>1. CASE i = 1
    <3>1. ElementAt(i)' = node[t] /\ pushed'[i].by = t
      BY <1>2, <2>1 DEF ElementAt
    <3> QED
      BY <1>1, <1>3, <1>4, <1>7, <3>1 DEF Owners
  <2>2. CASE i # 1
    <3>1. i \in 2 .. L + 1
      BY <2>2
    <3>2. PICK j \in DOMAIN pushed : pushed'[i] = pushed[j]
      BY <1>2, <3>1
    <3>3. ElementAt(i)' = ElementAt(j) /\ pushed[j].by \in Tasks
      BY <3>2, PushedTypes DEF ElementAt
    <3> QED
      BY <1>1, <1>6, <1>7, <1>9, <3>2, <3>3 DEF Owners
  <2> QED
    BY <2>1, <2>2
<1>10. \A n : IsPushed(n) \/ n = node[t] => IsPushed(n)'
  <2>1. ASSUME NEW n, IsPushed(n) PROVE IsPushed(n)'
    <3>1. PICK i \in DOMAIN pushed : n = pushed[i].node
      BY <2>1 DEF IsPushed, ElementAt
    <3>2. i + 1 \in 2 .. L + 1 /\ (i + 1) - 1 = i /\ i + 1 \in 1 .. L + 1
      BY <1>0
    <3>3. pushed'[i + 1].node = pushed[i].node
      BY <1>2, <3>2
    <3> QED
      BY <1>2, <3>1, <3>2, <3>3 DEF IsPushed, ElementAt
  <2>2. ASSUME NEW n, n = node[t] PROVE IsPushed(n)'
    <3>1. 1 \in 1 .. L + 1 /\ pushed'[1].node = n
      BY <1>2, <2>2
    <3> QED
      BY <1>2, <3>1 DEF IsPushed, ElementAt
  <2> QED
    BY <2>1, <2>2
<1>11. ASSUME NEW n \in Nodes, owner[n] # NULL
       PROVE  /\ pc'[owner[n]] # "gone"
              /\ (Has(owner[n])' /\ n = node[owner[n]]) \/ IsPushed(n)'
  <2>1. PICK s \in Tasks : s = owner[n]
    BY <1>11 DEF TypeInv, TypeOK
  <2>2. pc[s] # "gone" /\ ((Has(s) /\ n = node[s]) \/ IsPushed(n))
    BY <1>7, <1>11, <2>1 DEF Owners
  <2>3. owner'[n] = s
    BY <1>1, <2>1
  <2>4. Has(owner[n])' <=> Has(s)'
    BY <2>3 DEF Has, Stage
  <2>5. (Has(s)' /\ n = node[s]) \/ IsPushed(n)'
    BY <1>5, <1>10, <2>2
  <2> QED
    BY <1>6, <2>1, <2>2, <2>4, <2>5
<1> QED
  BY <1>1, <1>2, <1>8, <1>9, <1>11 DEF Owners

LEMMA ReapOwners ==
  ASSUME TypeInv, OwnersInv, NEW t \in Pushers, Reap(t)
  PROVE  OwnersInv'
<1> SUFFICES ASSUME ~overlapped', ~reused' PROVE Owners'
  BY DEF OwnersInv
<1>0. t \in Tasks
  BY DEF Tasks
<1>1. /\ pc[t] = "over" /\ ~overlapped /\ ~reused
      /\ pc' = [pc EXCEPT ![t] = "gone"]
      /\ owner' = [n \in Nodes |-> IF owner[n] = t THEN NULL ELSE owner[n]]
      /\ UNCHANGED <<call, node, pushed>>
  BY DEF Reap, FreesAll, At, Goes
<1>2. pc'[t] = "gone" /\ \A s \in Tasks : s # t => pc'[s] = pc[s]
  BY <1>0, <1>1 DEF TypeInv, TypeOK
<1>3. ~Has(t) /\ \A s \in Tasks : Has(s)' <=> Has(s)
  BY <1>1, <1>2 DEF Has, Stage, PushPlaces, AtUnlock
<1>4. Owners
  BY <1>1 DEF OwnersInv
<1>5. \A s \in Tasks : Has(s) => node[s] \in Nodes
  BY DEF TypeInv, HandIsFull, InHand, Has, Stage, PushPlaces
<1>6. \A s \in Tasks : Has(s)' => owner'[node'[s]] = s
  BY <1>1, <1>3, <1>4, <1>5 DEF Owners
<1>7. \A i \in DOMAIN pushed : /\ ElementAt(i) \in Nodes /\ pushed[i].by \in Tasks
                               /\ ElementAt(i)' = ElementAt(i)
  BY <1>1, PushedTypes DEF ElementAt
<1>8. ASSUME call'[Main] # "free", NEW i \in DOMAIN pushed
      PROVE  owner'[ElementAt(i)'] = IF pc'[pushed[i].by] = "gone" THEN NULL ELSE pushed[i].by
  <2>1. owner[ElementAt(i)] = IF pc[pushed[i].by] = "gone" THEN NULL ELSE pushed[i].by
    BY <1>1, <1>4, <1>8 DEF Owners
  <2>2. owner'[ElementAt(i)'] = IF owner[ElementAt(i)] = t THEN NULL ELSE owner[ElementAt(i)]
    BY <1>1, <1>7
  <2> QED
    BY <1>1, <1>2, <1>7, <2>1, <2>2
<1>9. \A n : IsPushed(n)' <=> IsPushed(n)
  BY <1>1, <1>7 DEF IsPushed
<1>10. ASSUME NEW n \in Nodes, owner'[n] # NULL
       PROVE  /\ pc'[owner'[n]] # "gone"
              /\ (Has(owner[n])' /\ n = node'[owner'[n]]) \/ IsPushed(n)'
  <2>1. owner'[n] = owner[n] /\ owner[n] # t /\ owner[n] # NULL
    BY <1>1, <1>10
  <2>2. PICK s \in Tasks : s = owner[n]
    BY <2>1 DEF TypeInv, TypeOK
  <2>3. pc[s] # "gone" /\ ((Has(s) /\ n = node[s]) \/ IsPushed(n))
    BY <1>4, <2>1, <2>2 DEF Owners
  <2>4. Has(owner[n])' <=> Has(s)'
    BY <2>1, <2>2 DEF Has, Stage
  <2> QED
    BY <1>1, <1>2, <1>3, <1>9, <2>1, <2>2, <2>3, <2>4
<1> QED
  BY <1>1, <1>6, <1>8, <1>10 DEF Owners

LEMMA WalkOwners ==
  ASSUME TypeInv, CallsInv, OwnersInv, Walk
  PROVE  OwnersInv'
<1> SUFFICES ASSUME ~overlapped', ~reused' PROVE Owners'
  BY DEF OwnersInv
<1>0. Main \in Tasks
  BY DEF Tasks
<1>1. /\ pc[Main] = "walk" /\ ~overlapped /\ ~reused /\ call[Main] = "free"
      /\ UNCHANGED <<call, pushed>>
  BY <1>0 DEF Walk, At, TypeInv, CallFits
<1>2. pc'[Main] \in {"walk", "loadAgain"} /\ \A s \in Tasks : s # Main => pc'[s] = pc[s]
  BY <1>0, <1>1 DEF Walk, Goes, TypeInv, TypeOK
<1>3. \A s \in Tasks : ~Has(s) /\ ~Has(s)'
  <2>1. \A s \in Tasks : s # Main => pc[s] = "gone"
    BY <1>1 DEF CallsInv, Tasks
  <2> QED
    BY <1>1, <1>2, <2>1 DEF Has, Stage, PushPlaces, AtUnlock
<1>4. \A n \in Nodes : owner'[n] = owner[n] \/ owner'[n] = NULL
  <2>1. CASE IsEnd(node[Main])
    BY <2>1 DEF Walk
  <2>2. CASE ~IsEnd(node[Main])
    BY <2>2 DEF Walk, TypeInv, TypeOK
  <2> QED
    BY <2>1, <2>2
<1>5. Owners
  BY <1>1 DEF OwnersInv
<1>6. \A n : IsPushed(n)' <=> IsPushed(n)
  BY <1>1 DEF IsPushed, ElementAt
<1>7. ASSUME NEW n \in Nodes, owner'[n] # NULL
      PROVE  pc'[owner'[n]] # "gone" /\ IsPushed(n)'
  <2>1. owner'[n] = owner[n] /\ owner[n] \in Tasks
    BY <1>4, <1>7 DEF TypeInv, TypeOK
  <2>2. pc[owner[n]] # "gone" /\ IsPushed(n)
    BY <1>3, <1>5, <1>7, <2>1 DEF Owners
  <2> QED
    BY <1>1, <1>2, <1>6, <2>1, <2>2
<1> QED
  BY <1>1, <1>3, <1>7 DEF Owners

LEMMA StepOwners ==
  ASSUME TypeInv, LockInv, CallsInv, LinksInv, LinksInv', OwnersInv, NEW t \in Tasks, Step(t)
  PROVE  OwnersInv'
<1> USE DEF At, Goes, Begins, AtLock, AtUnlock, Has, Stage, PushPlaces
<1>0. /\ pc \in [Tasks -> Places] /\ call \in [Tasks -> Calls] /\ Main \in Tasks
      /\ node \in [Tasks -> Opt]
  BY DEF TypeInv, TypeOK, Tasks
<1>1. CASE Test(t)
  BY <1>0, <1>1, MovesOwners DEF Test
<1>2. CASE Load(t, "load", "store")
  BY <1>0, <1>2, MovesOwners DEF Load
<1>3. CASE StoreLock(t)
  <2>1. PICK q \in {"read", "print", "check"} : pc' = [pc EXCEPT ![t] = q]
    <3>1. CASE call[t] = "push"
      BY <1>3, <3>1 DEF StoreLock
    <3>2. CASE call[t] = "print"
      BY <1>3, <3>2 DEF StoreLock
    <3>3. CASE call[t] = "free"
      BY <1>3, <3>3 DEF StoreLock
    <3> QED
      BY <1>0, <3>1, <3>2, <3>3 DEF Calls
  <2> QED
    BY <1>0, <1>3, <2>1, MovesOwners DEF StoreLock
<1>4. CASE Load(t, "loadAgain", "storeAgain")
  BY <1>0, <1>4, MovesOwners DEF Load
<1>5. CASE StoreUnlock(t)
  <2>1. CASE call[t] = "push"
    BY <1>5, <2>1, StoreUnlockOwners
  <2>2. CASE call[t] = "print"
    BY <1>0, <1>5, <2>2, MovesOwners DEF StoreUnlock
  <2>3. CASE call[t] = "free"
    BY <1>0, <1>5, <2>3, MovesOwners DEF StoreUnlock
  <2> QED
    BY <1>0, <2>1, <2>2, <2>3 DEF Calls
<1>6. CASE Push(t)
  <2>1. call[t] = "push"
    BY <1>0, <1>6 DEF Push, CallsInv, PlacesOf, Calls
  <2> QED
    BY <1>0, <1>6, <2>1, MovesOwners DEF Push
<1>7. CASE ReadFirst(t)
  BY <1>0, <1>7, MovesOwners DEF ReadFirst
<1>8. CASE Initialise(t, "initFirst", "linkFirst") \/ Initialise(t, "init", "back")
  BY <1>8, InitialiseOwners
<1>9. CASE Link(t, "linkFirst", "setLast")
  BY <1>0, <1>9, MovesOwners DEF Link
<1>10. CASE Link(t, "link", "loadAgain")
  <2>1. call[t] = "push"
    BY <1>0, <1>10 DEF Link, CallsInv, PlacesOf, Calls
  <2> QED
    BY <1>0, <1>10, <2>1, MovesOwners DEF Link
<1>11. CASE SetLast(t)
  <2>1. call[t] = "push"
    BY <1>0, <1>11 DEF SetLast, CallsInv, PlacesOf, Calls
  <2> QED
    BY <1>0, <1>11, <2>1, MovesOwners DEF SetLast
<1>12. CASE Back(t)
  BY <1>0, <1>12, MovesOwners DEF Back
<1>13. CASE Stop(t)
  BY <1>0, <1>13, MovesOwners DEF Stop
<1>14. CASE t \in Pushers /\ Reap(t)
  BY <1>14, ReapOwners
<1>15. CASE Sleep(t)
  BY <1>0, <1>15, MovesOwners DEF Sleep
<1>16. CASE Awake(t)
  BY <1>0, <1>16, MovesOwners DEF Awake
<1> QED
  BY <1>1, <1>2, <1>3, <1>4, <1>5, <1>6, <1>7, <1>8, <1>9, <1>10, <1>11, <1>12, <1>13,
     <1>14, <1>15, <1>16 DEF Step, Runs

LEMMA MainStepOwners ==
  ASSUME TypeInv, CallsInv, OwnersInv, WaitIsOver \/ DebugPrint \/ Check \/ Walk
  PROVE  OwnersInv'
<1> USE DEF At, Goes, Begins, AtLock, AtUnlock, Has, Stage, PushPlaces
<1>0. Main \in Tasks /\ pc \in [Tasks -> Places] /\ call \in [Tasks -> Calls]
  BY DEF TypeInv, TypeOK, Tasks
<1>1. CASE WaitIsOver
  <2>1. call[Main] # "free"
    BY <1>0, <1>1 DEF WaitIsOver, CallsInv, PlacesOf
  <2> QED
    BY <1>0, <1>1, <2>1, MovesOwners DEF WaitIsOver
<1>2. CASE DebugPrint
  <2>1. call[Main] = "print"
    BY <1>0, <1>2 DEF DebugPrint, TypeInv, CallFits
  <2> QED
    BY <1>0, <1>2, <2>1, MovesOwners DEF DebugPrint
<1>3. CASE Check
  <2>1. \A s \in Tasks : s # Main => node'[s] = node[s]
    BY <1>0, <1>3 DEF Check, TypeInv, TypeOK
  <2> QED
    BY <1>0, <1>3, <2>1, MovesOwners DEF Check
<1>4. CASE Walk
  BY <1>4, WalkOwners
<1> QED
  BY <1>1, <1>2, <1>3, <1>4

-----------------------------------------------------------------------------
\* As long as Main is not about to free, or done with it, there is nothing to say.
LEMMA NotFreeing ==
  ASSUME TypeInv', CallsInv',
         call'[Main] = "free" => pc'[Main] \notin {"walk", "left", "done"} \cup AtUnlock
  PROVE  Freeing'
<1>1. Main \in Tasks /\ pc'[Main] \in PlacesOf(call'[Main]) /\ call'[Main] \in Calls
  BY DEF CallsInv, Tasks, TypeInv, TypeOK, PlacesOf
<1>2. pc'[Main] \in {"walk", "left"} => call'[Main] = "free"
  BY <1>1 DEF PlacesOf, AtLock, AtUnlock, Calls
<1> QED
  BY <1>2 DEF Freeing

\* A task that makes a step is not gone, so that if it is not Main, Main is not
\* printing or freeing yet.
LEMMA OthersStep ==
  ASSUME TypeInv, CallsInv, NEW t \in Tasks, t # Main, Step(t)
  PROVE  call'[Main] = "push"
<1>1. pc[t] # "gone"
  BY DEF Step, Runs, Test, Sleep, Awake, Load, StoreLock, StoreUnlock, Push, ReadFirst,
         Initialise, Link, SetLast, Back, Stop, Reap, At
<1>2. Main \in Tasks /\ call \in [Tasks -> Calls]
  BY DEF Tasks, TypeInv, TypeOK
<1>3. call' = call \/ \E f : call' = [call EXCEPT ![t] = f]
  <2>1. CASE StoreUnlock(t)
    BY <2>1 DEF StoreUnlock, Begins
  <2>2. CASE Push(t)
    BY <2>2 DEF Push, Begins
  <2>3. CASE ~(StoreUnlock(t) \/ Push(t))
    BY <2>3 DEF Step, Runs, Test, Sleep, Awake, Load, StoreLock, ReadFirst,
         Initialise, Link, SetLast, Back, Stop, Reap
  <2> QED
    BY <2>1, <2>2, <2>3
<1> QED
  BY <1>1, <1>2, <1>3 DEF CallsInv, Tasks

LEMMA StepFrees ==
  ASSUME TypeInv, TypeInv', CallsInv, CallsInv', FreeInv, NEW t \in Tasks, Step(t)
  PROVE  FreeInv'
<1> SUFFICES ASSUME ~overlapped', ~reused' PROVE Freeing'
  BY DEF FreeInv
<1>1. CASE t # Main
  BY <1>1, OthersStep, NotFreeing
<1>2. CASE t = Main
  <2> USE DEF At, Goes, Begins
  <2>0. /\ Main \in Tasks /\ pc \in [Tasks -> Places] /\ call \in [Tasks -> Calls]
        /\ pc[Main] \in PlacesOf(call[Main]) /\ call[Main] \in Calls
    BY DEF Tasks, TypeInv, TypeOK, CallsInv
  <2>1. CASE /\ ~reused /\ ~overlapped /\ UNCHANGED <<call, owner, pushed>>
             /\ call[Main] = "free" /\ pc[Main] \in AtUnlock
             /\ pc'[Main] \in AtUnlock \cup {"done"}
    BY <2>1 DEF FreeInv, Freeing, AtUnlock
  <2>2. CASE Load(Main, "loadAgain", "storeAgain") /\ call[Main] = "free"
    <3>1. /\ ~reused /\ ~overlapped /\ UNCHANGED <<call, owner, pushed>>
          /\ pc[Main] = "loadAgain" /\ pc'[Main] = "storeAgain"
      BY <2>0, <2>2 DEF Load
    <3> QED
      BY <2>1, <2>2, <3>1 DEF AtUnlock
  <2>3. CASE StoreUnlock(Main) /\ call[Main] = "free"
    <3>1. /\ ~reused /\ ~overlapped /\ UNCHANGED <<call, owner, pushed>>
          /\ pc[Main] = "storeAgain" /\ pc'[Main] = "done"
      BY <2>0, <2>3 DEF StoreUnlock
    <3> QED
      BY <2>1, <2>3, <3>1 DEF AtUnlock
  <2>4. CASE StoreUnlock(Main) /\ call[Main] # "free"
    <3>1. call'[Main] = "free" => pc'[Main] = "test"
      BY <2>0, <2>4 DEF StoreUnlock
    <3> QED
      BY <3>1, NotFreeing DEF AtUnlock
  <2>5. CASE /\ call[Main] # "free"
             /\ ~StoreUnlock(Main)
    <3>1. call'[Main] # "free"
      <4>1. CASE Push(Main)
        BY <2>0, <4>1 DEF Push
      <4>2. CASE ~Push(Main)
        BY <1>2, <2>5, <4>2 DEF Step, Runs, Test, Sleep, Awake, Load, StoreLock, ReadFirst,
             Initialise, Link, SetLast, Back, Stop, Reap
      <4> QED
        BY <4>1, <4>2
    <3> QED
      BY <3>1, NotFreeing
  <2>6. CASE /\ call[Main] = "free"
             /\ Test(Main) \/ Sleep(Main) \/ Awake(Main) \/ Load(Main, "load", "store")
                  \/ StoreLock(Main)
    <3>1. pc'[Main] \in {"load", "asleep", "test", "store", "check"}
      BY <2>0, <2>6 DEF Test, Sleep, Awake, Load, StoreLock
    <3> QED
      BY <3>1, NotFreeing DEF AtUnlock
  <2>7. call[Main] = "free" =>
          pc[Main] \notin {"idle", "read", "initFirst", "linkFirst", "setLast", "init", "back",
                           "link", "over"}
    BY <2>0 DEF PlacesOf, AtLock, AtUnlock
  <2>8. call[Main] = "free" =>
          Test(Main) \/ Sleep(Main) \/ Awake(Main) \/ Load(Main, "load", "store")
            \/ StoreLock(Main) \/ Load(Main, "loadAgain", "storeAgain") \/ StoreUnlock(Main)
    BY <1>2, <2>7 DEF Step, Runs, Push, ReadFirst, Initialise, Link, SetLast, Back, Stop, Reap
  <2> QED
    BY <2>2, <2>3, <2>4, <2>5, <2>6, <2>8
<1> QED
  BY <1>1, <1>2

\* Main alone works on the list: nobody is at a stage of a push.
LEMMA NobodyPushes ==
  ASSUME TypeInv, CallsInv, call[Main] = "free"
  PROVE  /\ \A s \in Tasks : Stage(s) = "none" /\ ~Has(s)
         /\ \A s \in Tasks : s # Main => pc[s] = "gone"
<1>1. Main \in Tasks /\ pc[Main] \in PlacesOf("free")
  BY DEF CallsInv, Tasks
<1>2. \A s \in Tasks : s # Main => pc[s] = "gone"
  BY DEF CallsInv, Tasks
<1>3. \A s \in Tasks : Stage(s) = "none"
  BY <1>1, <1>2 DEF Stage, PushPlaces, AtUnlock, AtLock, PlacesOf
<1> QED
  BY <1>2, <1>3 DEF Has

LEMMA CheckFrees ==
  ASSUME TypeInv, TypeInv', CallsInv, LinksInv, Check
  PROVE  FreeInv'
<1> SUFFICES ASSUME ~overlapped', ~reused' PROVE Freeing'
  BY DEF FreeInv
<1>0. Main \in Tasks /\ pc \in [Tasks -> Places] /\ node \in [Tasks -> Opt]
  BY DEF Tasks, TypeInv, TypeOK
<1>1. /\ pc[Main] = "check" /\ ~overlapped /\ ~reused /\ call[Main] = "free"
      /\ pc'[Main] = IF NULL \in {first, last} THEN "left" ELSE "walk"
      /\ node'[Main] = first /\ pushed' = pushed
  BY <1>0 DEF Check, At, Goes, TypeInv, CallFits
<1>2. Shape("none", NULL)
  BY <1>1, NobodyPushes DEF LinksInv, Whole
<1>3. /\ DOMAIN pushed = 1 .. Len(pushed) /\ Len(pushed) \in Nat /\ NULL \notin Nodes
      /\ \A i \in DOMAIN pushed : ElementAt(i) \in Nodes
      /\ pushed # <<>> <=> Len(pushed) > 0
      /\ Newest = NULL <=> pushed = <<>>
  BY PushedTypes, NodesAssumption
<1>4. NULL \in {first, last} <=> pushed = <<>>
  <2>1. pushed # <<>> => Len(pushed) \in DOMAIN pushed
    BY <1>3
  <2> QED
    BY <1>2, <1>3, <2>1 DEF Shape
<1>5. CASE pushed = <<>>
  BY <1>1, <1>4, <1>5 DEF Freeing, AtUnlock
<1>6. CASE pushed # <<>>
  <2>1. pc'[Main] = "walk" /\ pushed' # <<>>
    BY <1>1, <1>4, <1>6
  <2>2. 1 \in DOMAIN pushed /\ 1 \in 1 .. Len(pushed) + 1
    BY <1>3, <1>6
  <2>3. first = ElementAt(1) /\ ElementAt(1)' = ElementAt(1)
    BY <1>1, <1>2, <1>6 DEF Shape, Newest, ElementAt
  <2>4. \A j \in 1 .. 1 - 1 : FALSE
    OBVIOUS
  <2>5. Walked(1)'
    BY <1>1, <2>2, <2>3, <2>4 DEF Walked
  <2>6. \E k \in 1 .. Len(pushed') + 1 : Walked(k)'
    BY <1>1, <2>2, <2>5
  <2> QED
    BY <2>1, <2>6 DEF Freeing, AtUnlock
<1> QED
  BY <1>5, <1>6

LEMMA WalkFrees ==
  ASSUME TypeInv, TypeInv', CallsInv, LinksInv, OwnersInv, FreeInv, Walk
  PROVE  FreeInv'
<1> SUFFICES ASSUME ~overlapped', ~reused' PROVE Freeing'
  BY DEF FreeInv
<1>0. Main \in Tasks /\ pc \in [Tasks -> Places] /\ node \in [Tasks -> Opt]
  BY DEF Tasks, TypeInv, TypeOK
<1>1. /\ pc[Main] = "walk" /\ ~overlapped /\ ~reused /\ call[Main] = "free"
      /\ UNCHANGED <<pushed, call>>
  BY <1>0 DEF Walk, At, TypeInv, CallFits
<1>2. PICK L \in Nat : L = Len(pushed) /\ DOMAIN pushed = 1 .. L
  BY PushedTypes
<1>3. /\ \A i \in 1 .. L : ElementAt(i) \in Nodes /\ ElementAt(i)' = ElementAt(i)
      /\ NULL \notin Nodes
  BY <1>1, <1>2, PushedTypes, NodesAssumption DEF ElementAt
<1>4. pushed # <<>> /\ \E k \in 1 .. L + 1 : Walked(k)
  BY <1>1, <1>2 DEF FreeInv, Freeing
<1>5. PICK k \in 1 .. L + 1 : Walked(k)
  BY <1>4
<1>6. /\ node[Main] = IF k \in 1 .. L THEN ElementAt(k) ELSE NULL
      /\ \A j \in 1 .. k - 1 : owner[ElementAt(j)] = NULL
  BY <1>2, <1>5 DEF Walked
<1>7. Owners /\ PushedLinked
  BY <1>1 DEF OwnersInv, LinksInv, Whole
<1>8. \A n \in Nodes : owner[n] # NULL => owner[n] = Main /\ IsPushed(n)
  <2> SUFFICES ASSUME NEW n \in Nodes, owner[n] # NULL PROVE owner[n] = Main /\ IsPushed(n)
    OBVIOUS
  <2>1. owner[n] \in Tasks
    BY DEF TypeInv, TypeOK
  <2>2. pc[owner[n]] # "gone" /\ (Has(owner[n]) \/ IsPushed(n))
    BY <1>7 DEF Owners
  <2>3. ~Has(owner[n]) /\ (owner[n] # Main => pc[owner[n]] = "gone")
    BY <1>1, <2>1, NobodyPushes
  <2> QED
    BY <2>2, <2>3
<1>9. CASE node[Main] = NULL
  <2>1. k = L + 1
    BY <1>3, <1>6, <1>9
  <2>2. pc'[Main] = "loadAgain" /\ owner' = owner
    BY <1>0, <1>9 DEF Walk, IsEnd, Goes
  <2>3. \A n \in Nodes : owner[n] = NULL
    <3> SUFFICES ASSUME NEW n \in Nodes, owner[n] # NULL PROVE FALSE
      OBVIOUS
    <3>1. PICK j \in 1 .. L : n = ElementAt(j)
      BY <1>2, <1>8 DEF IsPushed
    <3>2. j \in 1 .. k - 1
      BY <2>1
    <3> QED
      BY <1>6, <3>1, <3>2
  <2> QED
    BY <1>1, <1>4, <2>2, <2>3 DEF Freeing, AtUnlock
<1>10. CASE node[Main] # NULL
  <2>1. k \in 1 .. L /\ node[Main] = ElementAt(k) /\ ElementAt(k) \in Nodes
    BY <1>3, <1>6, <1>10
  <2> DEFINE n == ElementAt(k)
  <2>2. /\ owner' = [owner EXCEPT ![n] = IF @ = Main THEN NULL ELSE @]
        /\ node' = [node EXCEPT ![Main] = next[n]]
        /\ pc' = pc
    BY <1>10, <2>1 DEF Walk, IsEnd
  <2>3. owner'[n] = NULL /\ \A m \in Nodes : owner[m] = NULL => owner'[m] = NULL
    BY <1>8, <2>1, <2>2 DEF TypeInv, TypeOK
  <2>4. node'[Main] = IF k = L THEN NULL ELSE ElementAt(k + 1)
    BY <1>0, <1>2, <1>7, <2>1, <2>2 DEF PushedLinked
  <2>5. k + 1 \in 1 .. L + 1 /\ (k + 1 \in 1 .. L <=> k # L)
    BY <1>2, <2>1
  <2>6. ASSUME NEW j \in 1 .. (k + 1) - 1 PROVE owner'[ElementAt(j)'] = NULL
    <3>1. j \in 1 .. L /\ (j = k \/ j \in 1 .. k - 1)
      BY <2>1
    <3> QED
      BY <1>3, <1>6, <2>3, <3>1
  <2>7. Walked(k + 1)'
    <3>1. k + 1 \in 1 .. L => ElementAt(k + 1)' = ElementAt(k + 1)
      BY <1>3
    <3> QED
      BY <1>1, <1>2, <2>4, <2>5, <2>6, <3>1 DEF Walked
  <2>8. \E i \in 1 .. Len(pushed') + 1 : Walked(i)'
    BY <1>1, <1>2, <2>5, <2>7
  <2> QED
    BY <1>1, <1>4, <2>2, <2>8 DEF Freeing, AtUnlock
<1> QED
  BY <1>9, <1>10

-----------------------------------------------------------------------------
FullInv == ListInv /\ OwnersInv /\ FreeInv

LEMMA NextFull ==
  ASSUME FullInv, [Next]_vars
  PROVE  FullInv'
<1> USE DEF FullInv, ListInv
<1>1. ListInv'
  BY NextList
<1>2. CASE \E t \in Tasks : Step(t)
  BY <1>1, <1>2, StepOwners, StepFrees
<1>3. CASE WaitIsOver \/ DebugPrint \/ Check \/ Walk
  <2>0. Main \in Tasks /\ pc \in [Tasks -> Places] /\ call \in [Tasks -> Calls]
    BY DEF Tasks, TypeInv, TypeOK
  <2>1. OwnersInv'
    BY <1>3, MainStepOwners
  <2>2. CASE WaitIsOver
    <3>1. pc'[Main] = "test"
      BY <2>0, <2>2 DEF WaitIsOver, Begins, Goes
    <3>2. FreeInv'
      BY <1>1, <3>1, NotFreeing DEF FreeInv, AtUnlock
    <3> QED
      BY <1>1, <2>1, <3>2
  <2>3. CASE DebugPrint
    <3>1. call'[Main] = "print"
      BY <2>0, <2>3 DEF DebugPrint, At, TypeInv, CallFits
    <3>2. FreeInv'
      BY <1>1, <3>1, NotFreeing DEF FreeInv
    <3> QED
      BY <1>1, <2>1, <3>2
  <2>4. CASE Check
    BY <1>1, <2>1, <2>4, CheckFrees
  <2>5. CASE Walk
    BY <1>1, <2>1, <2>5, WalkFrees
  <2> QED
    BY <1>3, <2>2, <2>3, <2>4, <2>5
<1>4. CASE UNCHANGED vars
  <2>1. OwnersInv'
    BY <1>4 DEF vars, shared, OwnersInv, Owners, Has, Stage, IsPushed, ElementAt
  <2>2. FreeInv'
    BY <1>4 DEF vars, shared, FreeInv, Freeing, Walked, ElementAt
  <2> QED
    BY <1>1, <2>1, <2>2
<1> QED
  BY <1>2, <1>3, <1>4 DEF Next, MainStep, Tasks

\* An element is kfree'd with the task that pushed it, and not before klist_free:
\* what the others have pushed hangs in the list when they are gone (task.c, klist.c).
THEOREM ElementsFollowTasks == Spec => []ElementsGoWithTheirTask
<1>1. Init => FullInv
  BY InitList, InitOwners DEF FullInv
<1>2. FullInv /\ [Next]_vars => FullInv'
  BY NextFull
<1>3. FullInv => ElementsGoWithTheirTask
  BY DEF FullInv, OwnersInv, Owners, ElementsGoWithTheirTask, ElementAt
<1> QED
  BY <1>1, <1>2, <1>3, PTL DEF Spec

\* klist_free gives back every element that is still allocated, and the lock, but
\* for the lock of an empty list (klist.c).
THEOREM FreeIsComplete == Spec => []AllFreed
<1>1. Init => FullInv
  BY InitList, InitOwners DEF FullInv
<1>2. FullInv /\ [Next]_vars => FullInv'
  BY NextFull
<1>3. FullInv => AllFreed
  <2> SUFFICES ASSUME FullInv, pc[Main] \in {"done", "left"}, ~overlapped, ~reused
               PROVE  /\ \A n \in Nodes : owner[n] = NULL
                      /\ lock = IF pushed = <<>> THEN 1 ELSE 0
    BY DEF AllFreed, Unallocated
  <2> USE DEF FullInv, ListInv
  <2>1. Main \in Tasks /\ call[Main] = "free"
    BY DEF CallsInv, Tasks, TypeInv, TypeOK, PlacesOf, Calls, AtLock, AtUnlock
  <2>2. \A s \in Tasks : ~Has(s) /\ (s # Main => pc[s] = "gone")
    BY <2>1, NobodyPushes
  <2>3. Freeing /\ Owners /\ LockTells
    BY DEF FreeInv, OwnersInv, LockInv
  <2>4. CASE pc[Main] = "done"
    <3>1. pushed # <<>> /\ \A n \in Nodes : owner[n] = NULL
      BY <2>1, <2>3, <2>4 DEF Freeing
    <3>2. \A s \in Tasks : ~Holds(s)
      BY <2>2, <2>4 DEF Holds, Working, AtUnlock, Kept
    <3> QED
      BY <2>3, <3>1, <3>2 DEF LockTells
  <2>5. CASE pc[Main] = "left"
    <3>1. pushed = <<>>
      BY <2>3, <2>5 DEF Freeing
    <3>2. \A n : ~IsPushed(n)
      BY <3>1 DEF IsPushed
    <3>3. ASSUME NEW n \in Nodes, owner[n] # NULL PROVE FALSE
      <4>1. owner[n] \in Tasks
        BY <3>3 DEF TypeInv, TypeOK
      <4> QED
        BY <2>2, <2>3, <3>2, <3>3, <4>1 DEF Owners
    <3>4. Holds(Main)
      BY <2>5 DEF Holds, Kept
    <3> QED
      BY <2>1, <2>3, <3>1, <3>3, <3>4 DEF LockTells
  <2> QED
    BY <2>4, <2>5
<1> QED
  BY <1>1, <1>2, <1>3, PTL DEF Spec
=============================================================================
