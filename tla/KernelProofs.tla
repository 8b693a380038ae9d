------------------------------ MODULE KernelProofs ------------------------------
(***************************************************************************)
(* Theorems about the kernel, for every table size, number of stacks,      *)
(* mask and tick width.  Some hold of every interleaving: the types, and   *)
(* the contexts and roles of a fixed set of tasks that sleep, block and    *)
(* unblock each other.  The others are about any calls in the calm         *)
(* executions, in which no interrupt lands inside a critical section.      *)
(***************************************************************************)
EXTENDS Scheduler, TLAPS

(* What the functions on control blocks return is a control block.         *)

\* Every update the kernel makes to a control block yields a control block.
LEMMA TcbTypes ==
  ASSUME NEW tcb \in Tcbs
  PROVE  /\ ZeroTcb \in Tcbs
         /\ \A state \in States : [tcb EXCEPT !.state = state] \in Tcbs
         /\ \A n \in Nat : /\ [tcb EXCEPT !.task_id = n] \in Tcbs
                           /\ [tcb EXCEPT !.sleep_until_tick = n] \in Tcbs
         /\ \A block \in Stacks \union {NULL} : /\ [tcb EXCEPT !.stack_ptr = block] \in Tcbs
                                                /\ [tcb EXCEPT !.psp = block] \in Tcbs
         /\ Reclaimed(tcb) \in Tcbs
         /\ \A now \in Nat : WakeTcb(tcb, now) \in Tcbs
         /\ \A context \in Stacks \union {NULL} : Preempted(tcb, context) \in Tcbs
  BY DEF Tcbs, States, ZeroTcb, Reclaimed, WakeTcb, Expired, Preempted

\* A control block filled in by task_create is a control block.
LEMMA NewTcbType ==
  ASSUME NEW stack \in Stacks \union {NULL}, NEW id \in Nat
  PROVE  NewTcb(stack, id) \in Tcbs
  BY DEF Tcbs, States, NewTcb

\* BASEPRI keeps eight bits.
LEMMA BasepriType == Basepri(MAX_SYSCALL_PRIORITY) \in 0..255
  BY PriorityAssumption DEF Basepri

-----------------------------------------------------------------------------
(* Type correctness.  Compaction stays inside the table because its write  *)
(* index never overtakes its read index and one thread at most compacts,   *)
(* and the scan stays inside because the table is not empty while PendSV   *)
(* scans it.                                                               *)

\* Places in task_garbage_collection, and in task_idle_function, which calls it.
Compacting == {"gc", "gc_clear"} \union Following
Idling     == {"idle"} \union Compacting

\* One thread at most is in the idle function, and what it moves is in the table.
OneIdler ==
  /\ \A t, u \in Stacks : pc[t] \in Idling /\ pc[u] \in Idling => t = u
  /\ \A t \in Stacks : pc[t] \in Following => gc_read \in Slots

TypeInv ==
  /\ TypeOK
  /\ OneIdler
  /\ gc_write <= gc_read
  /\ sv = "scan" => task_count > 0

LEMMA TypeInit == Init => TypeInv
<1> SUFFICES ASSUME Init PROVE TypeInv
  OBVIOUS
<1>1. PICK stack \in [0 .. BootCount - 1 -> Stacks] :
        /\ task_list = [i \in Slots |->
                          IF i < BootCount THEN BootTcb(i, stack[i]) ELSE ZeroTcb]
        /\ heap = {stack[i] : i \in 0 .. BootCount - 1}
        /\ cpu = stack[0]
        /\ pc = [t \in Stacks |-> IF HasIdle /\ t = stack[BootCount - 1] THEN "idle" ELSE "run"]
  BY DEF Init
<1>2. BootCount \in 1..MAX_TASKS /\ BootTasks \in Nat /\ MAX_TASKS \in Nat
  BY TableAssumption DEF BootCount, HasIdle
<1>3. task_list \in [Slots -> Tcbs]
  <2>1. ASSUME NEW i \in Slots, i < BootCount PROVE BootTcb(i, stack[i]) \in Tcbs
    <3>1. i \in 0 .. BootCount - 1 /\ i + 1 \in Nat
      BY <1>2, <2>1 DEF Slots
    <3>2. stack[i] \in Stacks
      BY <3>1
    <3>3. NewTcb(stack[i], i + 1) \in Tcbs
      BY <3>1, <3>2, NewTcbType
    <3>4. (i = BootTasks) \in BOOLEAN
      OBVIOUS
    <3> QED
      BY <3>3, <3>4 DEF BootTcb, Tcbs, States
  <2>2. ZeroTcb \in Tcbs
    BY DEF ZeroTcb, Tcbs, States
  <2> QED BY <1>1, <2>1, <2>2
<1>4. idle_task \in Slots \union {NULL}
  BY <1>2 DEF Init, HasIdle, Slots
<1>5. pc \in [Stacks -> Labels]
  BY <1>1 DEF Labels
<1>6. loc \in [Stacks -> [slot : Nat, block : Stacks \union {NULL}]]
  BY DEF Init, NoLocals
<1>7. heap \subseteq Stacks /\ cpu \in Stacks
  BY <1>1, <1>2
<1>8. /\ task_count \in Nat /\ next_task_id \in Nat
      /\ task_current \in Slots /\ task_current_index \in Slots /\ task_next \in Slots
  BY <1>2 DEF Init, Slots
<1>9. /\ systick_ticks = 0 /\ last_gc_tick = 0 /\ basepri = 0 /\ pendsv = FALSE
      /\ sv = "none" /\ sv_next = 0 /\ sv_left = 0 /\ gc_read = 0 /\ gc_write = 0
  BY DEF Init
<1>10. 0 \in Slots
  BY <1>2 DEF Slots
<1>11. pendsv \in BOOLEAN
  BY <1>9
<1>12. /\ systick_ticks \in Nat /\ last_gc_tick \in Nat /\ basepri \in 0..255
       /\ cpu \in Stacks \union {NULL} /\ sv \in {"none", "scan", "restore"}
       /\ sv_next \in Slots /\ sv_left \in Nat /\ gc_read \in Nat /\ gc_write \in Nat
  BY <1>7, <1>9, <1>10
<1>13. TypeOK
  BY <1>3, <1>4, <1>5, <1>6, <1>7, <1>8, <1>11, <1>12 DEF TypeOK
<1>14. OneIdler
  BY <1>1 DEF OneIdler, Idling, Compacting, Following
<1> QED
  BY <1>9, <1>13, <1>14 DEF TypeInv

\* A step of thread t from one place to another, which enters neither the idle
\* function nor the middle of a move, and leaves the indices of compaction alone.
LEMMA WalkStep ==
  ASSUME TypeInv, NEW t \in Stacks, NEW label \in Labels, Goto(t, label),
         label \in Idling => pc[t] \in Idling,
         label \in Following => gc_read' \in Slots,
         gc_read' = gc_read \/ pc[t] \in Idling
  PROVE  pc' \in [Stacks -> Labels] /\ OneIdler'
<1>1. pc \in [Stacks -> Labels] /\ pc' = [pc EXCEPT ![t] = label]
  BY DEF TypeInv, TypeOK, Goto
<1>2. pc' \in [Stacks -> Labels] /\ pc'[t] = label /\ \A u \in Stacks \ {t} : pc'[u] = pc[u]
  BY <1>1
<1>3. \A u \in Stacks : pc'[u] \in Idling => pc[u] \in Idling
  BY <1>2
<1>4. ASSUME NEW u \in Stacks, pc'[u] \in Following PROVE gc_read' \in Slots
  <2>1. CASE u = t
    BY <1>2, <1>4, <2>1
  <2>2. CASE u # t
    <3>1. pc[u] \in Following /\ pc[u] \in Idling
      BY <1>2, <1>4, <2>2 DEF Idling, Compacting
    <3>2. gc_read' = gc_read
      BY <2>2, <3>1 DEF TypeInv, OneIdler
    <3> QED
      BY <3>1, <3>2 DEF TypeInv, OneIdler
  <2> QED
    BY <2>1, <2>2
<1> QED
  BY <1>2, <1>3, <1>4 DEF TypeInv, OneIdler

LEMMA WalkNone ==
  ASSUME TypeInv, UNCHANGED <<pc, gc_read>>
  PROVE  pc' \in [Stacks -> Labels] /\ OneIdler'
  BY DEF TypeInv, TypeOK, OneIdler

\* A step that replaces one control block by another leaves the table a table.
LEMMA TableOne ==
  ASSUME TypeInv, NEW k, NEW tcb, k \in Slots => tcb \in Tcbs,
         task_list' = [task_list EXCEPT ![k] = tcb]
  PROVE  task_list' \in [Slots -> Tcbs]
  BY DEF TypeInv, TypeOK

\* A step of the compacting thread that stays where it is.
LEMMA WalkStay ==
  ASSUME TypeInv, NEW t \in Stacks, pc[t] \in Idling \ Following, UNCHANGED pc
  PROVE  pc' \in [Stacks -> Labels] /\ OneIdler'
<1>1. \A u \in Stacks : pc[u] \notin Following
  BY DEF TypeInv, OneIdler, Idling, Compacting
<1> QED
  BY <1>1 DEF TypeInv, TypeOK, OneIdler

LEMMA TypeStep == TypeInv /\ [Next]_vars => TypeInv'
<1> SUFFICES ASSUME TypeInv, [Next]_vars PROVE TypeInv'
  OBVIOUS
<1> USE DEF TypeInv, TypeOK, table, ptrs, switch, threads, gc
<1> USE BasepriType
<1>t. \A i \in Slots : task_list[i] \in Tcbs
  OBVIOUS
<1>l. \A t \in Stacks : loc[t] \in [slot : Nat, block : Stacks \union {NULL}]
  OBVIOUS
<1>g. \A t \in Stacks, label \in Labels \ Idling :
        Goto(t, label) /\ gc_read' = gc_read => pc' \in [Stacks -> Labels] /\ OneIdler'
  BY WalkStep DEF Idling, Compacting
<1>r. \A t \in Stacks : Return(t) /\ gc_read' = gc_read =>
        /\ pc' \in [Stacks -> Labels] /\ OneIdler'
        /\ loc' \in [Stacks -> [slot : Nat, block : Stacks \union {NULL}]]
  BY <1>g DEF Return, NoLocals, Labels, Idling, Compacting, Following, Critical
<1>e. /\ Enter => basepri' \in 0..255
      /\ Exit => basepri' \in 0..255
  BY DEF Enter, Exit
<1> DEFINE Places == Labels \ Idling
<1>p. {"run", "yield", "exited", "create_find", "create_alloc", "create_fill", "create_ready",
       "create_id", "create_wake", "create_commit", "delete_mark", "delete_clear", "exit_clear",
       "self_check", "self_block", "block_set", "unblock_set"} \subseteq Places
  BY DEF Labels, Idling, Compacting, Following, Critical, Filling
<1> HIDE DEF Places
<1>q. \A t \in Stacks, label \in Places :
        Goto(t, label) /\ gc_read' = gc_read => pc' \in [Stacks -> Labels] /\ OneIdler'
  BY <1>g DEF Places
<1>1. ASSUME NEW t \in Stacks, CreateCheck(t) PROVE TypeInv'
  BY <1>1, <1>q, <1>p DEF CreateCheck
<1>2. ASSUME NEW t \in Stacks, CreateFind(t) PROVE TypeInv'
  <2>1. PICK i \in Handles : loc' = [loc EXCEPT ![t].slot = i]
    BY <1>2 DEF CreateFind
  <2>2. loc' \in [Stacks -> [slot : Nat, block : Stacks \union {NULL}]]
    BY <1>l, <2>1 DEF Handles
  <2> QED
    BY <1>2, <1>q, <1>p, <1>e, <2>2 DEF CreateFind
<1>3. ASSUME NEW t \in Stacks, CreateAlloc(t) PROVE TypeInv'
  <2>1. PICK block \in Stacks \ heap :
          /\ heap' = heap \union {block}
          /\ task_list' = [task_list EXCEPT ![loc[t].slot].stack_ptr = block]
          /\ loc' = [loc EXCEPT ![t].block = block]
    BY <1>3 DEF CreateAlloc
  <2>2. task_list' \in [Slots -> Tcbs]
    BY <1>t, <2>1, TcbTypes, TableOne
  <2>3. loc' \in [Stacks -> [slot : Nat, block : Stacks \union {NULL}]]
    BY <1>l, <2>1
  <2> QED
    BY <1>3, <1>q, <1>p, <2>1, <2>2, <2>3 DEF CreateAlloc
<1>4. ASSUME NEW t \in Stacks, CreateFail(t) PROVE TypeInv'
  BY <1>4, <1>r, <1>e DEF CreateFail
<1>5. ASSUME NEW t \in Stacks, CreateFill(t) PROVE TypeInv'
  <2>1. task_list' \in [Slots -> Tcbs]
    BY <1>5, <1>t, <1>l, TcbTypes, TableOne DEF CreateFill, Fill
  <2>2. pc' = [pc EXCEPT ![loc[t].block] = "run", ![t] = "create_ready"] /\ gc_read' = gc_read
    BY <1>5 DEF CreateFill
  <2>3. \A u \in Stacks : pc'[u] = pc[u] \/ pc'[u] \in {"run", "create_ready"}
    BY <2>2
  <2>4. pc' \in [Stacks -> Labels] /\ OneIdler'
    BY <2>2, <2>3 DEF OneIdler, Labels, Idling, Compacting, Following, Critical, Filling
  <2> QED
    BY <1>5, <2>1, <2>4 DEF CreateFill
<1>6. ASSUME NEW t \in Stacks, CreateReady(t) PROVE TypeInv'
  <2>1. task_list' \in [Slots -> Tcbs]
    BY <1>6, <1>t, TcbTypes, TableOne DEF CreateReady, Fill, States
  <2> QED
    BY <1>6, <1>q, <1>p, <2>1 DEF CreateReady
<1>7. ASSUME NEW t \in Stacks, CreateId(t) PROVE TypeInv'
  <2>1. next_task_id' \in Nat
    BY <1>7 DEF CreateId
  <2>2. task_list' \in [Slots -> Tcbs]
    BY <1>7, <1>t, <2>1, TcbTypes, TableOne DEF CreateId, Fill
  <2> QED
    BY <1>7, <1>q, <1>p, <2>1, <2>2 DEF CreateId
<1>8. ASSUME NEW t \in Stacks, CreateWake(t) PROVE TypeInv'
  <2>1. task_list' \in [Slots -> Tcbs]
    BY <1>8, <1>t, TcbTypes, TableOne DEF CreateWake, Fill
  <2> QED
    BY <1>8, <1>q, <1>p, <2>1 DEF CreateWake
<1>9. ASSUME NEW t \in Stacks, CreateCommit(t) PROVE TypeInv'
  BY <1>9, <1>r, <1>e DEF CreateCommit, At, OnCpu
<1>10. ASSUME NEW t \in Stacks, NEW id \in 0 .. MAX_ID, DeleteFind(t, id) PROVE TypeInv'
  <2>1. PICK i \in Slots : loc' = [loc EXCEPT ![t].slot = i]
    BY <1>10 DEF DeleteFind
  <2>3. i \in Nat
    BY DEF Slots
  <2>2. loc' \in [Stacks -> [slot : Nat, block : Stacks \union {NULL}]]
    BY <1>l, <2>1, <2>3
  <2> QED
    BY <1>10, <1>q, <1>p, <1>e, <2>2 DEF DeleteFind
<1>11. ASSUME NEW t \in Stacks, DeleteMark(t) PROVE TypeInv'
  <2>1. task_list' \in [Slots -> Tcbs]
    BY <1>11, <1>t, TcbTypes, TableOne DEF DeleteMark, States
  <2> QED
    BY <1>11, <1>q, <1>p, <2>1 DEF DeleteMark
<1>12. ASSUME NEW t \in Stacks, DeleteClear(t) PROVE TypeInv'
  <2>1. task_list' \in [Slots -> Tcbs]
    BY <1>12, <1>t, TcbTypes, TableOne DEF DeleteClear
  <2> QED
    BY <1>12, <1>r, <1>e, <2>1 DEF DeleteClear
<1>13. ASSUME NEW t \in Stacks, ExitMark(t) PROVE TypeInv'
  <2>1. task_list' \in [Slots -> Tcbs]
    BY <1>13, <1>t, TcbTypes, TableOne DEF ExitMark, States
  <2> QED
    BY <1>13, <1>q, <1>p, <1>e, <2>1 DEF ExitMark
<1>14. ASSUME NEW t \in Stacks, ExitClear(t) PROVE TypeInv'
  <2>1. task_list' \in [Slots -> Tcbs]
    BY <1>14, <1>t, TcbTypes, TableOne DEF ExitClear
  <2> QED
    BY <1>14, <1>q, <1>p, <1>e, <2>1 DEF ExitClear
<1>15. ASSUME NEW t \in Stacks, ExitYield(t) PROVE TypeInv'
  BY <1>15, WalkNone DEF ExitYield
<1>16. ASSUME NEW t \in Stacks, NEW n \in SleepTicks, SleepSet(t, n) PROVE TypeInv'
  <2>1. WakeTime(n) \in Nat
    BY TickAssumption DEF WakeTime
  <2>2. task_list' \in [Slots -> Tcbs]
    BY <1>16, <1>t, <2>1, TcbTypes, TableOne DEF SleepSet
  <2> QED
    BY <1>16, <1>q, <1>p, <1>e, <2>2 DEF SleepSet
<1>17. ASSUME NEW t \in Stacks, BlockCurrent(t) \/ SelfCheck(t) PROVE TypeInv'
  <2>1. UNCHANGED <<table, ptrs, next_task_id, heap, systick_ticks, pendsv, switch, loc, gc>>
        /\ basepri' \in 0..255
    BY <1>17, <1>e DEF BlockCurrent, SelfCheck
  <2>2. PICK label \in Places : Goto(t, label)
    BY <1>17, <1>p DEF BlockCurrent, SelfCheck
  <2> QED
    BY <1>q, <2>1, <2>2
<1>18. ASSUME NEW t \in Stacks, SelfBlock(t) PROVE TypeInv'
  <2>1. task_list' \in [Slots -> Tcbs]
    BY <1>18, <1>t, TcbTypes, TableOne DEF SelfBlock, States
  <2> QED
    BY <1>18, <1>q, <1>p, <1>e, <2>1 DEF SelfBlock
<1>19. ASSUME NEW t \in Stacks, Yield(t) PROVE TypeInv'
  BY <1>19, <1>q, <1>p DEF Yield
<1>20. ASSUME NEW t \in Stacks, NEW i \in Slots, BlockCheck(t, i) \/ UnblockCheck(t, i) PROVE TypeInv'
  <2>4. i \in Nat /\ loc' = [loc EXCEPT ![t].slot = i]
    BY <1>20 DEF BlockCheck, UnblockCheck, Slots
  <2>1. loc' \in [Stacks -> [slot : Nat, block : Stacks \union {NULL}]]
    BY <1>l, <2>4
  <2>2. UNCHANGED <<table, ptrs, next_task_id, heap, systick_ticks, pendsv, switch, gc>>
        /\ basepri' \in 0..255
    BY <1>20, <1>e DEF BlockCheck, UnblockCheck
  <2>3. PICK label \in Places : Goto(t, label)
    BY <1>20, <1>p DEF BlockCheck, UnblockCheck
  <2> QED
    BY <1>q, <2>1, <2>2, <2>3
<1>21. ASSUME NEW t \in Stacks, BlockSet(t) \/ UnblockSet(t) PROVE TypeInv'
  <2>1. task_list' \in [Slots -> Tcbs]
    BY <1>21, <1>t, TcbTypes, TableOne DEF BlockSet, UnblockSet, States
  <2> QED
    BY <1>21, <1>r, <1>e, <2>1 DEF BlockSet, UnblockSet
<1>22. ASSUME NEW t \in Stacks, GcStart(t) PROVE TypeInv'
  <2>1. pc' \in [Stacks -> Labels] /\ OneIdler'
    BY <1>22, WalkStep DEF GcStart, At, Labels, Critical, Idling, Compacting, Following
  <2> QED
    BY <1>22, <1>e, <2>1 DEF GcStart, At, OnCpu
<1>23. ASSUME NEW t \in Stacks, GcReap(t) PROVE TypeInv'
  <2>1. task_list' \in [Slots -> Tcbs]
    BY <1>23, <1>t, TcbTypes, TableOne DEF GcReap
  <2>2. pc' \in [Stacks -> Labels] /\ OneIdler'
    BY <1>23, WalkStay DEF GcReap, At, Idling, Compacting, Following
  <2>3. heap' \subseteq Stacks /\ gc_read' \in Nat /\ gc_write <= gc_read'
    BY <1>23 DEF GcReap
  <2> QED
    BY <1>23, <2>1, <2>2, <2>3 DEF GcReap
<1>24. ASSUME NEW t \in Stacks, GcKeep(t) PROVE TypeInv'
  <2>1. pc' \in [Stacks -> Labels] /\ OneIdler'
    BY <1>24, WalkStay DEF GcKeep, At, Idling, Compacting, Following
  <2> QED
    BY <1>24, <2>1 DEF GcKeep, At, OnCpu
<1>25. ASSUME InBounds, NEW t \in Stacks, GcCopy(t) PROVE TypeInv'
  <2>1. gc_read \in Slots
    BY <1>25, TableAssumption DEF GcCopy, InBounds, Slots
  <2>2. task_list' \in [Slots -> Tcbs]
    BY <1>25, <1>t, <2>1, TableOne DEF GcCopy
  <2>3. pc' \in [Stacks -> Labels] /\ OneIdler'
    BY <1>25, <2>1, WalkStep DEF GcCopy, At, Labels, Critical, Idling, Compacting, Following
  <2> QED
    BY <1>25, <2>2, <2>3 DEF GcCopy
<1>26. ASSUME NEW t \in Stacks, GcCurrent(t) \/ GcIndex(t) \/ GcNext(t) \/ GcIdle(t) PROVE TypeInv'
  <2>1. pc[t] \in Following /\ pc[t] \in Idling
    BY <1>26 DEF GcCurrent, GcIndex, GcNext, GcIdle, At, Idling, Compacting, Following
  <2>2. gc_read \in Slots /\ gc_write \in Slots
    BY <2>1, TableAssumption DEF OneIdler, Slots
  <2>3. \A ptr : (ptr \in Slots => Follow(ptr) \in Slots)
                 /\ (ptr \in Slots \union {NULL} => Follow(ptr) \in Slots \union {NULL})
    BY <2>2 DEF Follow
  <2>4. /\ task_current' \in Slots /\ task_current_index' \in Slots /\ task_next' \in Slots
        /\ idle_task' \in Slots \union {NULL}
    BY <1>26, <2>2, <2>3 DEF GcCurrent, GcIndex, GcNext, GcIdle, FollowIndex
  <2>5. /\ UNCHANGED <<task_list, task_count, next_task_id, heap, systick_ticks, basepri, pendsv,
                       cpu, sv, sv_next, sv_left, loc, last_gc_tick>>
        /\ \/ UNCHANGED <<gc_read, gc_write>>
           \/ gc_read' = gc_read + 1 /\ gc_write' = gc_write + 1
    BY <1>26 DEF GcCurrent, GcIndex, GcNext, GcIdle
  <2>6. pc' \in [Stacks -> Labels] /\ OneIdler'
    <3>1. CASE GcIdle(t)
      BY <2>1, <3>1, WalkStep DEF GcIdle, Labels, Critical, Following
    <3>2. CASE ~GcIdle(t)
      <4>1. PICK label \in Following : Goto(t, label)
        BY <1>26, <3>2 DEF GcCurrent, GcIndex, GcNext, Following
      <4>2. gc_read' = gc_read
        BY <1>26, <3>2 DEF GcCurrent, GcIndex, GcNext
      <4> QED
        BY <2>1, <2>2, <4>1, <4>2, WalkStep DEF Labels, Critical
    <3> QED
      BY <3>1, <3>2
  <2> QED
    BY <2>4, <2>5, <2>6
<1>27. ASSUME NEW t \in Stacks, GcCount(t) PROVE TypeInv'
  <2>1. pc' \in [Stacks -> Labels] /\ OneIdler'
    BY <1>27, WalkStep DEF GcCount, At, Labels, Critical, Idling, Compacting, Following
  <2> QED
    BY <1>27, <2>1 DEF GcCount, At, OnCpu
<1>28. ASSUME NEW t \in Stacks, GcClear(t) PROVE TypeInv'
  <2>1. task_list' \in [Slots -> Tcbs]
    BY <1>28, <1>t, TcbTypes DEF GcClear
  <2>2. pc' \in [Stacks -> Labels] /\ OneIdler'
    BY <1>28, WalkStep DEF GcClear, At, Labels, Critical, Idling, Compacting, Following
  <2> QED
    BY <1>28, <1>e, <2>1, <2>2 DEF GcClear, At, OnCpu
<1>29. ASSUME InBounds, PendSVEnter PROVE TypeInv'
  <2>1. ScanFrom \in Slots
    BY <1>29, TableAssumption DEF PendSVEnter, ScanFrom, InBounds, Slots
  <2>2. task_list' \in [Slots -> Tcbs]
    BY <1>29, <1>t, TcbTypes, TableOne DEF PendSVEnter
  <2>3. pendsv' \in BOOLEAN
    BY <1>29 DEF PendSVEnter
  <2> QED
    BY <1>29, <2>1, <2>2, <2>3, WalkNone DEF PendSVEnter
<1>30. ASSUME NEW i \in Slots, Select(i) PROVE TypeInv'
  <2>1. task_list' \in [Slots -> Tcbs]
    BY <1>30, <1>t, TcbTypes, TableOne DEF Select, States
  <2>2. sv_next' \in Slots
    BY <1>30, TableAssumption DEF Select, Slots
  <2> QED
    BY <1>30, <2>1, <2>2, WalkNone DEF Select
<1>31. ASSUME InBounds, PendSVSkip PROVE TypeInv'
  <2>1. sv_next' \in Slots /\ sv_left' \in Nat
    BY <1>31, TableAssumption DEF PendSVSkip, InBounds, Slots
  <2> QED
    BY <1>31, <2>1, WalkNone DEF PendSVSkip
<1>32. ASSUME PendSVRestore PROVE TypeInv'
  <2>1. cpu' \in Stacks \union {NULL}
    BY <1>32, <1>t DEF PendSVRestore, Tcbs
  <2> QED
    BY <1>32, <2>1, WalkNone DEF PendSVRestore
<1>33. ASSUME SysTick PROVE TypeInv'
  <2>1. systick_ticks' \in Nat
    BY <1>33, TickAssumption DEF SysTick
  <2>2. task_list' \in [Slots -> Tcbs]
    BY <1>33, <1>t, <2>1, TcbTypes DEF SysTick
  <2> QED
    BY <1>33, <2>1, <2>2, WalkNone DEF SysTick
<1>34. CASE UNCHANGED vars
  BY <1>34, WalkNone DEF vars
<1>35. ASSUME NEW t \in Stacks, ThreadContinues(t), InBounds PROVE TypeInv'
  BY <1>2, <1>3, <1>4, <1>5, <1>6, <1>7, <1>8, <1>9, <1>11, <1>12, <1>14, <1>15, <1>17, <1>18,
     <1>19, <1>21, <1>22, <1>23, <1>24, <1>25, <1>26, <1>27, <1>28, <1>35 DEF ThreadContinues
<1>36. ASSUME NEW t \in Stacks, ThreadCalls(t) PROVE TypeInv'
  BY <1>1, <1>10, <1>13, <1>16, <1>17, <1>20, <1>36 DEF ThreadCalls
<1>37. ASSUME PendSV, InBounds PROVE TypeInv'
  <2>1. PendSVIdle => idle_task \in Slots
    BY DEF PendSVIdle, IdleReady
  <2> QED
    BY <1>29, <1>30, <1>31, <1>32, <1>37, <2>1 DEF PendSV, PendSVPick, PendSVIdle, PendSVStay
<1> QED
  BY <1>33, <1>34, <1>35, <1>36, <1>37 DEF Next, Threads

\* Every variable keeps its type, and every table access of the scheduler and
\* of the garbage collector is inside task_list, whatever sections mask.
THEOREM TypeCorrect == Spec => []TypeOK
<1>1. TypeInv => TypeOK
  BY DEF TypeInv
<1> QED
  BY <1>1, TypeInit, TypeStep, PTL DEF Spec

-----------------------------------------------------------------------------
(* Critical sections.  No thread loses the CPU inside one: in the calm      *)
(* executions because no interrupt lands there, and with a mask that masks  *)
(* because none can.                                                        *)

\* A critical section keeps every other thread and the context switch out: a
\* thread inside one is the thread on the CPU, and PendSV is not running.
CriticalExclusive ==
  \A t \in Stacks : pc[t] \in Critical => cpu = t /\ sv = "none"

ExclusionInv == pc \in [Stacks -> Labels] /\ CriticalExclusive

\* Inside a section BASEPRI is what enter_critical_basepri made it.
Masked == \A t \in Stacks : pc[t] \in Critical => basepri = Basepri(MAX_SYSCALL_PRIORITY)

\* While thread t runs no other thread is in a critical section.
LEMMA OthersOutside ==
  ASSUME ExclusionInv, NEW t \in Stacks, OnCpu(t)
  PROVE  \A u \in Stacks \ {t} : pc[u] \notin Critical
  BY DEF ExclusionInv, CriticalExclusive, OnCpu

LEMMA ExclusionInit == Init => ExclusionInv /\ Masked
<1> SUFFICES ASSUME Init PROVE ExclusionInv /\ Masked
  OBVIOUS
<1>1. PICK stack \in [0 .. BootCount - 1 -> Stacks] :
        pc = [t \in Stacks |-> IF HasIdle /\ t = stack[BootCount - 1] THEN "idle" ELSE "run"]
  BY DEF Init
<1> QED
  BY <1>1 DEF ExclusionInv, Masked, CriticalExclusive, Critical, Labels, Following, Filling

\* A thread that runs goes into a section, on inside it, or out of it.
LEMMA ExclusionThread ==
  ASSUME ExclusionInv, NEW t \in Stacks, ThreadContinues(t) \/ ThreadCalls(t)
  PROVE  CriticalExclusive' /\ (Masked => Masked')
<1> USE DEF switch, threads, gc
<1> DEFINE Good == CriticalExclusive' /\ (Masked => Masked')
<1>0. \A u \in Stacks \ {t} : OnCpu(t) => pc[u] \notin Critical
  BY OthersOutside
<1>1. ASSUME OnCpu(t), UNCHANGED <<cpu, sv>>, NEW label, Goto(t, label), Enter
      PROVE  Good
  <2>1. \A u \in Stacks \ {t} : pc'[u] \notin Critical
    BY <1>0, <1>1 DEF Goto, ExclusionInv
  <2> QED
    BY <1>1, <2>1 DEF Masked, CriticalExclusive, OnCpu, Enter
<1>2. ASSUME OnCpu(t), UNCHANGED <<cpu, sv, basepri>>, pc[t] \in Critical,
             \A u \in Stacks \ {t} : pc'[u] = pc[u] \/ pc'[u] \notin Critical
      PROVE  Good
  <2>1. \A u \in Stacks \ {t} : pc'[u] \notin Critical
    BY <1>0, <1>2
  <2> QED
    BY <1>2, <2>1 DEF Masked, CriticalExclusive, OnCpu
<1>3. ASSUME OnCpu(t), NEW label, label \notin Critical, Goto(t, label)
      PROVE  Good
  <2>1. \A u \in Stacks : pc'[u] \notin Critical
    BY <1>0, <1>3 DEF Goto, ExclusionInv
  <2> QED
    BY <2>1 DEF Masked, CriticalExclusive
<1> HIDE DEF Good
<1>4. ASSUME CreateFind(t) \/ GcStart(t) \/ ExitMark(t) \/ BlockCurrent(t) PROVE Good
  BY <1>1, <1>4 DEF CreateFind, GcStart, ExitMark, BlockCurrent, At
<1>5. ASSUME \/ \E id \in 0 .. MAX_ID : DeleteFind(t, id)
             \/ \E n \in SleepTicks : SleepSet(t, n)
             \/ \E i \in Slots : BlockCheck(t, i) \/ UnblockCheck(t, i)
      PROVE  Good
  BY <1>1, <1>5 DEF DeleteFind, SleepSet, BlockCheck, UnblockCheck, At
<1>6. ASSUME CreateAlloc(t) \/ CreateReady(t) \/ CreateId(t) \/ CreateWake(t) \/ DeleteMark(t)
      PROVE  Good
  <2>1. /\ OnCpu(t) /\ UNCHANGED <<cpu, sv, basepri>> /\ pc[t] \in Critical
        /\ \A u \in Stacks \ {t} : pc'[u] = pc[u]
    BY <1>6 DEF CreateAlloc, CreateReady, CreateId, CreateWake, DeleteMark, At, Goto, ExclusionInv,
                Critical, Filling
  <2> QED
    BY <1>2, <2>1
<1>7. ASSUME CreateFill(t) PROVE Good
  <2>1. pc' = [pc EXCEPT ![loc[t].block] = "run", ![t] = "create_ready"]
    BY <1>7 DEF CreateFill
  <2>2. \A u \in Stacks \ {t} : pc'[u] = pc[u] \/ pc'[u] = "run"
    BY <2>1 DEF ExclusionInv
  <2>3. OnCpu(t) /\ UNCHANGED <<cpu, sv, basepri>> /\ pc[t] \in Critical
    BY <1>7 DEF CreateFill, At, Critical, Filling
  <2>4. "run" \notin Critical
    BY DEF Critical, Filling, Following
  <2> QED
    BY <1>2, <2>2, <2>3, <2>4
<1>8. ASSUME GcReap(t) \/ GcKeep(t) \/ GcCopy(t) \/ GcCurrent(t) \/ GcIndex(t) \/ GcNext(t)
             \/ GcIdle(t) \/ GcCount(t)
      PROVE  Good
  <2>1. OnCpu(t) /\ UNCHANGED <<cpu, sv, basepri>> /\ pc[t] \in Critical
    BY <1>8 DEF GcReap, GcKeep, GcCopy, GcCurrent, GcIndex, GcNext, GcIdle, GcCount, At, Critical,
                Following
  <2>2. \A u \in Stacks \ {t} : pc'[u] = pc[u]
    BY <1>8 DEF GcReap, GcKeep, GcCopy, GcCurrent, GcIndex, GcNext, GcIdle, GcCount, Goto,
                ExclusionInv
  <2> QED
    BY <1>2, <2>1, <2>2
<1>9. ASSUME \/ CreateCheck(t) \/ CreateFail(t) \/ CreateCommit(t) \/ DeleteClear(t)
             \/ ExitClear(t) \/ SelfBlock(t) \/ Yield(t) \/ BlockSet(t) \/ UnblockSet(t)
             \/ GcClear(t)
      PROVE  Good
  <2>1. PICK label \in {"run", "create_find", "exited", "yield", "idle"} : Goto(t, label)
    BY <1>9 DEF CreateCheck, CreateFail, CreateCommit, DeleteClear, ExitClear, SelfBlock, Yield,
                BlockSet, UnblockSet, GcClear, Return
  <2>2. OnCpu(t) /\ label \notin Critical
    BY <1>9 DEF CreateCheck, CreateFail, CreateCommit, DeleteClear, ExitClear, SelfBlock, Yield,
                BlockSet, UnblockSet, GcClear, At, Critical, Filling, Following
  <2> QED
    BY <1>3, <2>1, <2>2
<1>10. ASSUME SelfCheck(t) PROVE Good
  <2>1. OnCpu(t) /\ UNCHANGED <<cpu, sv>> /\ pc[t] \in Critical
    BY <1>10 DEF SelfCheck, At, Critical
  <2>2. CASE Goto(t, "self_block") /\ UNCHANGED basepri
    <3>1. \A u \in Stacks \ {t} : pc'[u] = pc[u]
      BY <2>2 DEF Goto, ExclusionInv
    <3> QED
      BY <1>2, <2>1, <2>2, <3>1
  <2>3. CASE Goto(t, "yield")
    <3>1. "yield" \notin Critical
      BY DEF Critical, Filling, Following
    <3> QED
      BY <1>3, <2>1, <2>3, <3>1
  <2> QED
    BY <1>10, <2>2, <2>3 DEF SelfCheck
<1>11. ASSUME ExitYield(t) PROVE Good
  BY <1>11 DEF ExitYield, Good, ExclusionInv, CriticalExclusive, Masked
<1> QED
  BY <1>4, <1>5, <1>6, <1>7, <1>8, <1>9, <1>10, <1>11 DEF ThreadContinues, ThreadCalls, Good

\* The switch and the tick move no thread.
LEMMA HandlersLeave ==
  ASSUME PendSV \/ SysTick
  PROVE  UNCHANGED <<pc, loc, basepri, gc_read, gc_write, heap, task_count, next_task_id, idle_task>>
  BY DEF PendSV, PendSVEnter, PendSVPick, PendSVSkip, PendSVIdle, PendSVStay, PendSVRestore, Select,
         SysTick, table, ptrs, threads, gc

LEMMA ExclusionStep ==
  ASSUME ExclusionInv, [CalmNext]_vars
  PROVE  CriticalExclusive'
<1>1. ASSUME NEW t \in Stacks, ThreadContinues(t) \/ ThreadCalls(t) PROVE CriticalExclusive'
  BY <1>1, ExclusionThread
<1>2. ASSUME Outside, PendSV \/ SysTick PROVE CriticalExclusive'
  BY <1>2, HandlersLeave DEF Outside, CriticalExclusive
<1>3. CASE UNCHANGED vars
  BY <1>3 DEF ExclusionInv, CriticalExclusive, vars, threads, switch
<1> QED
  BY <1>1, <1>2, <1>3 DEF CalmNext, Threads

\* The calm executions are executions.
LEMMA CalmIsNext == [CalmNext]_vars => [Next]_vars
  BY DEF CalmNext, Next

\* What a mask would have to keep for the sections to exclude anything: the tick.
MaskWorks == Basepri(MAX_SYSCALL_PRIORITY) \in 1..SYSTICK_PRIO

\* With a mask that keeps out the tick all executions are calm.  The one that
\* project_config.h configures keeps nothing out.
LEMMA MaskedIsCalm ==
  ASSUME MaskWorks
  PROVE  Spec => CalmSpec
<1> DEFINE Inv == TypeInv /\ ExclusionInv /\ Masked
<1>1. Init => Inv
  BY TypeInit, ExclusionInit
<1>2. Inv /\ [Next]_vars => [CalmNext]_vars /\ Inv'
  <2> SUFFICES ASSUME Inv, [Next]_vars PROVE [CalmNext]_vars /\ Inv'
    OBVIOUS
  <2>1. TypeInv' /\ pc' \in [Stacks -> Labels]
    BY TypeStep DEF TypeInv, TypeOK
  <2>2. CASE InBounds /\ Threads
    BY <2>1, <2>2, ExclusionThread DEF Threads, ExclusionInv, CalmNext
  <2>3. CASE InBounds /\ (PendSV \/ SysTick)
    <3>1. Outside
      <4>1. CASE sv # "none"
        BY <4>1 DEF Outside, ExclusionInv, CriticalExclusive
      <4>2. CASE Unmasked(PENDSV_PRIO) \/ Unmasked(SYSTICK_PRIO)
        BY <4>2 DEF Outside, Masked, MaskWorks, Unmasked, PENDSV_PRIO, SYSTICK_PRIO
      <4> QED
        BY <2>3, <4>1, <4>2 DEF PendSV, PendSVEnter, PendSVPick, PendSVSkip, PendSVIdle, PendSVStay,
                                PendSVRestore, SysTick
    <3>2. [CalmNext]_vars
      BY <2>3, <3>1 DEF CalmNext
    <3>3. Masked'
      BY <2>3, <3>1, HandlersLeave DEF Masked, Outside
    <3> QED
      BY <2>1, <3>2, <3>3, ExclusionStep DEF ExclusionInv
  <2>4. CASE UNCHANGED vars
    BY <2>1, <2>4, ExclusionStep DEF ExclusionInv, Masked, vars, threads
  <2> QED
    BY <2>2, <2>3, <2>4 DEF Next
<1> QED
  BY <1>1, <1>2, PTL DEF Spec, CalmSpec

-----------------------------------------------------------------------------
(* The middle of a move: the four steps from the copy of a control block to *)
(* the last pointer that follows it.                                        *)

Follows(t) == GcCurrent(t) \/ GcIndex(t) \/ GcNext(t) \/ GcIdle(t)

\* The other steps that thread t makes, by what they do to its place.
Enters(t) ==
  \/ CreateFind(t) \/ GcStart(t) \/ ExitMark(t) \/ BlockCurrent(t)
  \/ \E id \in 0 .. MAX_ID : DeleteFind(t, id)
  \/ \E n \in SleepTicks : SleepSet(t, n)
  \/ \E i \in Slots : BlockCheck(t, i) \/ UnblockCheck(t, i)

GoesOn(t) ==
  \/ CreateAlloc(t) \/ CreateReady(t) \/ CreateId(t) \/ CreateWake(t) \/ DeleteMark(t)
  \/ SelfCheck(t) \/ GcReap(t) \/ GcKeep(t) \/ GcCount(t) \/ ExitYield(t)

Leaves(t) ==
  \/ CreateCheck(t) \/ CreateFail(t) \/ CreateCommit(t) \/ DeleteClear(t)
  \/ ExitClear(t) \/ SelfBlock(t) \/ Yield(t) \/ BlockSet(t) \/ UnblockSet(t) \/ GcClear(t)

LEMMA ThreadStepIs ==
  ASSUME NEW t, ThreadContinues(t) \/ ThreadCalls(t)
  PROVE  Enters(t) \/ GoesOn(t) \/ Leaves(t) \/ CreateFill(t) \/ GcCopy(t) \/ Follows(t)
  BY DEF ThreadContinues, ThreadCalls, Enters, GoesOn, Leaves, Follows

\* Who runs, where it is, and where it goes.
LEMMA ThreadPlaces ==
  ASSUME ExclusionInv, NEW t \in Stacks, ThreadContinues(t) \/ ThreadCalls(t)
  PROVE  /\ OnCpu(t) /\ UNCHANGED <<cpu, sv, sv_next, sv_left>>
         /\ \A u \in Stacks \ {t} : pc[u] \notin Critical /\ (pc'[u] = pc[u] \/ pc'[u] = "run")
         /\ Follows(t) \/ pc[t] \notin Following
         /\ GcCopy(t) \/ Follows(t) \/ pc'[t] \notin Following
<1> USE DEF switch, threads, gc
<1> DEFINE Good == /\ OnCpu(t) /\ UNCHANGED <<cpu, sv, sv_next, sv_left>>
                   /\ \A u \in Stacks \ {t} : pc'[u] = pc[u] \/ pc'[u] = "run"
                   /\ Follows(t) \/ pc[t] \notin Following
                   /\ GcCopy(t) \/ Follows(t) \/ pc'[t] \notin Following
<1>1. ASSUME Enters(t) PROVE Good
  <2>1. PICK label \in {"create_alloc", "gc", "exit_clear", "self_check", "delete_mark", "block_set",
                        "unblock_set"} : Goto(t, label)
    BY <1>1 DEF Enters, CreateFind, GcStart, ExitMark, BlockCurrent, DeleteFind, SleepSet,
                BlockCheck, UnblockCheck
  <2>2. /\ OnCpu(t) /\ UNCHANGED <<cpu, sv, sv_next, sv_left>>
        /\ pc[t] \in {"create_find", "idle", "run"}
    BY <1>1 DEF Enters, CreateFind, GcStart, ExitMark, BlockCurrent, DeleteFind, SleepSet,
                BlockCheck, UnblockCheck, At
  <2> QED
    BY <2>1, <2>2 DEF Goto, ExclusionInv, Following
<1>2. ASSUME GoesOn(t) PROVE Good
  <2>1. PICK label \in {"create_fill", "create_id", "create_wake", "create_commit", "delete_clear",
                        "self_block", "yield", "gc", "gc_clear", "exited"} :
          pc' = [pc EXCEPT ![t] = label]
    BY <1>2 DEF GoesOn, CreateAlloc, CreateReady, CreateId, CreateWake, DeleteMark, SelfCheck,
                GcReap, GcKeep, GcCount, ExitYield, At, Goto, ExclusionInv
  <2>2. /\ OnCpu(t) /\ UNCHANGED <<cpu, sv, sv_next, sv_left>>
        /\ pc[t] \in {"create_alloc", "create_ready", "create_id", "create_wake", "delete_mark",
                      "self_check", "gc", "exited"}
    BY <1>2 DEF GoesOn, CreateAlloc, CreateReady, CreateId, CreateWake, DeleteMark, SelfCheck,
                GcReap, GcKeep, GcCount, ExitYield, At
  <2> QED
    BY <2>1, <2>2 DEF ExclusionInv, Following
<1>3. ASSUME Leaves(t) PROVE Good
  <2>1. PICK label \in {"run", "create_find", "exited", "yield", "idle"} : Goto(t, label)
    BY <1>3 DEF Leaves, CreateCheck, CreateFail, CreateCommit, DeleteClear, ExitClear, SelfBlock,
                Yield, BlockSet, UnblockSet, GcClear, Return
  <2>2. /\ OnCpu(t) /\ UNCHANGED <<cpu, sv, sv_next, sv_left>>
        /\ pc[t] \in {"run", "create_alloc", "create_commit", "delete_clear", "exit_clear",
                      "self_block", "yield", "block_set", "unblock_set", "gc_clear"}
    BY <1>3 DEF Leaves, CreateCheck, CreateFail, CreateCommit, DeleteClear, ExitClear, SelfBlock,
                Yield, BlockSet, UnblockSet, GcClear, At
  <2> QED
    BY <2>1, <2>2 DEF Goto, ExclusionInv, Following
<1>4. ASSUME CreateFill(t) PROVE Good
  <2>1. pc' = [pc EXCEPT ![loc[t].block] = "run", ![t] = "create_ready"]
    BY <1>4 DEF CreateFill
  <2>2. OnCpu(t) /\ UNCHANGED <<cpu, sv, sv_next, sv_left>> /\ pc[t] = "create_fill"
    BY <1>4 DEF CreateFill, At
  <2> QED
    BY <2>1, <2>2 DEF ExclusionInv, Following
<1>5. ASSUME GcCopy(t) PROVE Good
  BY <1>5 DEF GcCopy, At, Goto, ExclusionInv, Following
<1>6. ASSUME Follows(t) PROVE Good
  BY <1>6 DEF Follows, GcCurrent, GcIndex, GcNext, GcIdle, At, Goto, ExclusionInv
<1>7. Good
  BY <1>1, <1>2, <1>3, <1>4, <1>5, <1>6, ThreadStepIs
<1> QED
  BY <1>7, OthersOutside

\* Only the copy begins a move.
LEMMA StaysWhole ==
  ASSUME ExclusionInv, ~Moving, [CalmNext]_vars, \A t \in Stacks : ~GcCopy(t)
  PROVE  ~Moving'
<1>1. ASSUME NEW t \in Stacks, ThreadContinues(t) \/ ThreadCalls(t) PROVE ~Moving'
  <2>1. pc[t] \notin Following /\ ~GcCopy(t)
    BY DEF Moving
  <2>2. ~Follows(t)
    BY <2>1 DEF Follows, GcCurrent, GcIndex, GcNext, GcIdle, At, Following
  <2>3. pc'[t] \notin Following
    BY <1>1, <2>1, <2>2, ThreadPlaces
  <2>4. \A u \in Stacks \ {t} : pc[u] \notin Critical /\ (pc'[u] = pc[u] \/ pc'[u] = "run")
    BY <1>1, ThreadPlaces
  <2>5. Following \subseteq Critical /\ "run" \notin Critical
    BY DEF Critical, Following, Filling
  <2> QED
    BY <2>3, <2>4, <2>5 DEF Moving
<1>2. ASSUME PendSV \/ SysTick PROVE ~Moving'
  BY <1>2, HandlersLeave DEF Moving
<1>3. CASE UNCHANGED vars
  BY <1>3 DEF Moving, vars, threads
<1> QED
  BY <1>1, <1>2, <1>3 DEF CalmNext, Threads

-----------------------------------------------------------------------------
(* The round-robin cursor.  It is moved with the control block it belongs   *)
(* to, and by the switch in two steps, Select and PendSVRestore.            *)

CursorInv ==
  /\ (\A t \in Stacks : pc[t] # "gc_index") =>
       task_current_index = IF sv = "restore" THEN task_next ELSE task_current
  /\ \A t \in Stacks : pc[t] = "gc_index" => task_current = gc_write

LEMMA CursorStep ==
  ASSUME ExclusionInv, CursorInv, [CalmNext]_vars
  PROVE  CursorInv'
<1> USE DEF ptrs, switch, threads, gc
\* Where no thread is at gc_index, before or after.
<1>1. ASSUME UNCHANGED <<task_current, task_current_index, task_next, sv>>,
             \A t \in Stacks : pc[t] # "gc_index" /\ pc'[t] # "gc_index"
      PROVE  CursorInv'
  BY <1>1 DEF CursorInv
<1>c. "gc_index" \in Following /\ Following \subseteq Critical /\ "run" \notin Critical
  BY DEF Following, Filling, Critical
<1>2. ASSUME NEW t \in Stacks, ThreadContinues(t) \/ ThreadCalls(t), ~Follows(t) PROVE CursorInv'
  <2>1. UNCHANGED <<task_current, task_current_index, task_next>>
    <3>1. CASE Enters(t)
      BY <3>1 DEF Enters, CreateFind, GcStart, ExitMark, BlockCurrent, DeleteFind, SleepSet,
                  BlockCheck, UnblockCheck
    <3>2. CASE GoesOn(t)
      BY <3>2 DEF GoesOn, CreateAlloc, CreateReady, CreateId, CreateWake, DeleteMark, SelfCheck,
                  GcReap, GcKeep, GcCount, ExitYield
    <3>3. CASE Leaves(t)
      BY <3>3 DEF Leaves, CreateCheck, CreateFail, CreateCommit, DeleteClear, ExitClear, SelfBlock,
                  Yield, BlockSet, UnblockSet, GcClear
    <3>4. CASE CreateFill(t) \/ GcCopy(t)
      BY <3>4 DEF CreateFill, GcCopy
    <3> QED
      BY <1>2, <3>1, <3>2, <3>3, <3>4, ThreadStepIs
  <2>2. /\ UNCHANGED sv /\ pc[t] \notin Following /\ (GcCopy(t) \/ pc'[t] \notin Following)
        /\ \A u \in Stacks \ {t} : pc[u] \notin Critical /\ (pc'[u] = pc[u] \/ pc'[u] = "run")
    BY <1>2, ThreadPlaces
  <2>3. GcCopy(t) => pc'[t] = "gc_current"
    BY DEF GcCopy, Goto, ExclusionInv
  <2>4. \A u \in Stacks : pc[u] # "gc_index" /\ pc'[u] # "gc_index"
    BY <1>c, <2>2, <2>3
  <2> QED
    BY <1>1, <2>1, <2>2, <2>4
<1>3. ASSUME NEW t \in Stacks, Follows(t) PROVE CursorInv'
  <2>1. /\ sv = "none" /\ sv' = "none"
        /\ \A u \in Stacks \ {t} : pc'[u] = pc[u] /\ pc[u] # "gc_index"
    <3>1. OnCpu(t) /\ UNCHANGED sv /\ \A u \in Stacks \ {t} : pc'[u] = pc[u]
      BY <1>3 DEF Follows, GcCurrent, GcIndex, GcNext, GcIdle, At, Goto, ExclusionInv
    <3> QED
      BY <1>c, <3>1, OthersOutside DEF OnCpu
  <2>2. CASE GcCurrent(t)
    BY <2>1, <2>2 DEF GcCurrent, At, Goto, Follow, CursorInv, ExclusionInv
  <2>3. CASE GcIndex(t)
    BY <2>1, <2>3 DEF GcIndex, At, Goto, FollowIndex, CursorInv, ExclusionInv
  <2>4. CASE GcNext(t) \/ GcIdle(t)
    BY <2>1, <2>4 DEF GcNext, GcIdle, At, Goto, CursorInv, ExclusionInv
  <2> QED
    BY <1>3, <2>2, <2>3, <2>4 DEF Follows
<1>4. ASSUME Outside, PendSV \/ SysTick PROVE CursorInv'
  <2>1. \A t \in Stacks : pc[t] # "gc_index" /\ pc'[t] # "gc_index"
    BY <1>4, <1>c, HandlersLeave DEF Outside
  <2>2. CASE PendSVEnter \/ PendSVSkip
    BY <2>1, <2>2 DEF PendSVEnter, PendSVSkip, CursorInv
  <2>3. ASSUME NEW i, Select(i) PROVE CursorInv'
    BY <2>1, <2>3 DEF Select, CursorInv
  <2>4. CASE PendSVRestore
    BY <2>1, <2>4 DEF PendSVRestore, CursorInv
  <2>5. CASE SysTick
    BY <1>1, <2>1, <2>5 DEF SysTick
  <2> QED
    BY <1>4, <2>2, <2>3, <2>4, <2>5 DEF PendSV, PendSVPick, PendSVIdle, PendSVStay
<1>5. CASE UNCHANGED vars
  BY <1>5 DEF CursorInv, vars
<1> QED
  BY <1>2, <1>3, <1>4, <1>5 DEF CalmNext, Threads

\* In the calm executions the round-robin cursor is the index of the current
\* task (the chosen one while the switch is completed), also after garbage
\* collection has moved that task.  (schedule_next_task, task_garbage_collection)
THEOREM CursorFollows == CalmSpec => []CursorAgrees
<1>1. Init => TypeInv /\ ExclusionInv /\ CursorInv
  BY TypeInit, ExclusionInit DEF Init, CursorInv
<1>2. TypeInv /\ ExclusionInv /\ CursorInv /\ [CalmNext]_vars
        => (TypeInv /\ ExclusionInv /\ CursorInv)'
  BY TypeStep, CalmIsNext, ExclusionStep, CursorStep DEF ExclusionInv, TypeInv, TypeOK
<1>3. CursorInv => CursorAgrees
  BY DEF CursorInv, CursorAgrees, Moving, Following
<1> QED
  BY <1>1, <1>2, <1>3, PTL DEF CalmSpec


-----------------------------------------------------------------------------
(* Threads and their slots.  The inductive invariant has three parts.       *)
(* Layout is about which slots hold a task and whose stacks they name,      *)
(* Context about the pointers and saved contexts of the switch, Roles about *)
(* the states of the tasks.  Between the copy of a control block and the    *)
(* last pointer that follows it, Halfway takes the place of the last two.   *)

\* A slot in front of the end that is not a leftover copy.
InUse(i) == i < task_count /\ ~(gc_write <= i /\ i < gc_read)

Holding(t)  == pc[t] \in Filling
Creating(t) == pc[t] = "create_alloc" \/ Holding(t)

\* A block that is handed out to a creation under way.
Held(block) == \E t \in Stacks : Holding(t) /\ loc[t].block = block

\* Compaction is not under way.
Settled == gc_read = 0 /\ gc_write = 0

Compaction ==
  /\ (\A t \in Stacks : pc[t] \notin Compacting) => Settled
  /\ gc_write <= gc_read
  /\ (\A t \in Stacks : pc[t] # "gc_clear") => gc_read <= task_count
  /\ (\E t \in Stacks : pc[t] = "gc_clear") => task_count = gc_write
  /\ \A i \in Slots : InUse(i) => task_list[i].state # "UNUSED"

OwnStacks ==
  /\ \A i \in Slots : Live(i) => task_list[i].stack_ptr \in Stacks
  /\ \A i, j \in Slots : Live(i) /\ Live(j) /\ i # j =>
                           task_list[i].stack_ptr # task_list[j].stack_ptr

\* What the creation by thread t has stored in its slot.
Filled(t) ==
  /\ task_list[task_count].stack_ptr = loc[t].block
  /\ pc[t] # "create_fill" => task_list[task_count].psp = loc[t].block
  /\ pc[t] \notin {"create_fill", "create_ready"} => task_list[task_count].state = "READY"
  /\ pc[t] = "create_commit" => task_list[task_count].sleep_until_tick = 0

Creations ==
  \A t \in Stacks :
    /\ Creating(t) => loc[t].slot = task_count
    /\ Holding(t) => loc[t].block \in Stacks /\ ~HasTcb(loc[t].block)
    /\ Holding(t) /\ task_count < MAX_TASKS => Filled(t)

\* No slot behind the last task was the idle task's, once compaction has cleared it.
Behind ==
  (\A t \in Stacks : pc[t] # "gc_clear") =>
    \A i \in Slots : i >= task_count => ~task_list[i].is_idle

HeapInv == InBounds => \A block \in Stacks : block \in heap <=> HasTcb(block) \/ Held(block)

Layout == Compaction /\ OwnStacks /\ Creations /\ Behind /\ HeapInv

Context ==
  /\ Live(task_current)
  /\ RunsOwnContext
  /\ sv = "scan" => sv_next < task_count
  /\ sv = "restore" => Live(task_next)

\* The thread of the idle task is the one in task_idle_function.
IdleThread ==
  \A t \in Stacks : pc[t] \in Idling <=> t = task_list[idle_task].stack_ptr

\* A call that has checked a task goes on with the task it checked.
Aimed(t) ==
  /\ pc[t] \in {"delete_mark", "delete_clear"} =>
       /\ loc[t].slot < task_count
       /\ ~task_list[loc[t].slot].is_idle /\ loc[t].slot # task_current
  /\ pc[t] = "block_set" => MayBlock(loc[t].slot) /\ Blockable(task_list[loc[t].slot])
  /\ pc[t] = "unblock_set" => MayUnblock(loc[t].slot) /\ task_list[loc[t].slot].state = "BLOCKED"

Targets == \A t \in Stacks : Aimed(t)

\* An ended task runs only in task_exit, and is not chosen to run.
EndedLast ==
  /\ sv = "none" /\ task_list[task_current].state = "ZOMBIE" => pc[cpu] \in {"exit_clear", "exited"}
  /\ sv = "restore" => task_list[task_next].state # "ZOMBIE"

Roles == RunningIsCurrent /\ IdleAvailable /\ IdleThread /\ Targets /\ EndedLast

\* What every step lemma starts from.
Base == TypeInv /\ ExclusionInv

Orderly == Layout /\ Context /\ Roles
Steady  == ~Moving /\ Orderly

\* The idle task is moving a task, itself perhaps: task_current is the first
\* pointer to follow, idle_task the last.
Halfway ==
  /\ sv = "none" /\ gc_write < gc_read /\ gc_read < task_count
  /\ task_list[gc_write] = task_list[gc_read]
  /\ idle_task # NULL /\ Holds(idle_task, cpu)
  /\ task_list[idle_task].state \in {"READY", "RUNNING"}
  /\ \A i \in Slots : Live(i) =>
       /\ task_list[i].is_idle <=> i = idle_task
       /\ i # idle_task => /\ task_list[i].psp = task_list[i].stack_ptr
                           /\ task_list[i].state # "RUNNING"
  /\ IdleThread
  /\ \A t \in Stacks : pc[t] \in Following =>
       task_current = IF pc[t] = "gc_current" THEN idle_task ELSE Follow(idle_task)

KernelInv == Steady \/ (Moving /\ Layout /\ Halfway)

\* In Layout, a slot holds a task when it is in use.
LEMMA LiveInUse ==
  ASSUME Compaction, NEW i \in Slots
  PROVE  Live(i) <=> InUse(i)
  BY DEF Compaction, Live, InUse

\* Places in the critical section of one call are not in that of another.
LEMMA Sections ==
  /\ Compacting \subseteq Critical /\ Compacting \subseteq Idling /\ Following \subseteq Compacting
  /\ Filling \subseteq Critical /\ "create_alloc" \in Critical
  /\ {"delete_mark", "delete_clear", "block_set", "unblock_set"} \subseteq Critical
  /\ {"run", "yield", "exited", "create_find", "idle"} \intersect Critical = {}
  /\ {"run", "yield", "exited", "create_find", "idle"} \intersect Filling = {}
  /\ (Filling \union {"run", "yield", "exited", "create_find", "create_alloc"}) \intersect Idling = {}
  /\ Critical \subseteq Labels /\ Idling \subseteq Labels
  BY DEF Critical, Compacting, Following, Filling, Idling, Labels

\* A thread that runs outside compaction finds none under way.
LEMMA SettledOutside ==
  ASSUME ExclusionInv, Compaction, NEW t \in Stacks, OnCpu(t), pc[t] \notin Compacting
  PROVE  Settled /\ \A u \in Stacks : pc[u] \notin Compacting
  BY OthersOutside, Sections DEF Compaction

\* So does the switch.
LEMMA SettledSwitch ==
  ASSUME Compaction, Outside
  PROVE  Settled
  BY Sections DEF Outside, Compaction

-----------------------------------------------------------------------------
(* Layout: steps that change states and contexts only.                      *)

\* A control block still describes the same task.
Same(new, old) ==
  /\ new.stack_ptr = old.stack_ptr /\ new.is_idle = old.is_idle
  /\ new.state = "UNUSED" <=> old.state = "UNUSED"

\* The functions that schedule, block and end a task do not change which it is.
LEMMA SameTask ==
  ASSUME NEW tcb \in Tcbs
  PROVE  /\ Same(tcb, tcb)
         /\ tcb.state # "UNUSED" =>
              \A state \in States \ {"UNUSED"} : Same([tcb EXCEPT !.state = state], tcb)
         /\ \A n : /\ Same([tcb EXCEPT !.task_id = n], tcb)
                   /\ Same([tcb EXCEPT !.sleep_until_tick = n], tcb)
         /\ \A now \in Nat : Same(WakeTcb(tcb, now), tcb)
         /\ \A context \in Stacks \union {NULL} : Same(Preempted(tcb, context), tcb)
  BY DEF Same, Tcbs, States, WakeTcb, Expired, Preempted

Relabel ==
  /\ UNCHANGED <<task_count, gc_read, gc_write, heap>>
  /\ \A i \in Slots : Same(task_list'[i], task_list[i])

LEMMA RelabelLive ==
  ASSUME Relabel
  PROVE  /\ \A i \in Slots : Live(i)' <=> Live(i)
         /\ \A block : HasTcb(block)' <=> HasTcb(block)
<1>1. \A i \in Slots : Live(i)' <=> Live(i)
  BY DEF Relabel, Same, Live
<1>2. ASSUME NEW block PROVE HasTcb(block)' <=> HasTcb(block)
  BY <1>1 DEF Relabel, Same, HasTcb, Holds
<1> QED
  BY <1>1, <1>2

\* Such a step keeps Layout when no creation holds a block and no compaction is
\* under way.
LEMMA LayoutRelabel ==
  ASSUME Layout, Relabel, Settled, task_count \in Nat,
         \A t \in Stacks : ~Holding(t) /\ ~Holding(t)',
         \A t \in Stacks : pc[t] # "gc_clear" /\ pc'[t] # "gc_clear",
         \A t \in Stacks : Creating(t)' => loc'[t].slot = task_count
  PROVE  Layout'
<1>1. Compaction'
  BY DEF Layout, Compaction, Relabel, Same, InUse, Settled
<1>2. OwnStacks'
  BY RelabelLive DEF Layout, OwnStacks, Relabel, Same
<1>3. Creations'
  BY DEF Creations, Relabel
<1>4. Behind'
  BY DEF Layout, Behind, Relabel, Same
<1>5. HeapInv'
  BY RelabelLive DEF Layout, HeapInv, Held, Relabel, InBounds
<1> QED
  BY <1>1, <1>2, <1>3, <1>4, <1>5 DEF Layout

\* A step of thread t outside compaction that starts and ends with no block held.
LEMMA LayoutThread ==
  ASSUME Base, Layout, Relabel, NEW t \in Stacks, OnCpu(t), pc[t] \notin Compacting, ~Holding(t),
         \A u \in Stacks \ {t} : pc'[u] = pc[u], ~Creating(t)', pc'[t] # "gc_clear"
  PROVE  Layout'
<1>1. Settled /\ task_count \in Nat
  BY SettledOutside DEF Base, Layout, TypeInv, TypeOK
<1>2. \A u \in Stacks \ {t} : pc[u] \notin Critical /\ pc'[u] = pc[u]
  BY OthersOutside DEF Base
<1>3. \A u \in Stacks : ~Holding(u) /\ ~Holding(u)' /\ ~Creating(u)'
  BY <1>2, Sections DEF Holding, Creating
<1>4. \A u \in Stacks : pc[u] # "gc_clear" /\ pc'[u] # "gc_clear"
  BY <1>2, Sections DEF Compacting
<1> QED
  BY <1>1, <1>3, <1>4, LayoutRelabel

\* A step that replaces one control block by one of the same task.
LEMMA RelabelOne ==
  ASSUME TypeInv, UNCHANGED <<task_count, gc_read, gc_write, heap>>,
         NEW k, NEW tcb, k \in Slots => Same(tcb, task_list[k]),
         task_list' = [task_list EXCEPT ![k] = tcb]
  PROVE  Relabel
  BY DEF TypeInv, TypeOK, Relabel, Same

LEMMA RelabelNone ==
  ASSUME UNCHANGED <<task_list, task_count, gc_read, gc_write, heap>>
  PROVE  Relabel
  BY DEF Relabel, Same

-----------------------------------------------------------------------------
(* Layout: the steps of task_create.                                        *)

\* With a full table outside compaction the search ends one past the last task.
LEMMA LayoutCreateFind ==
  ASSUME Base, Layout, InBounds, NEW t \in Stacks, CreateFind(t)
  PROVE  Layout'
<1> USE DEF Base, gc, switch, table, ptrs
<1>1. OnCpu(t) /\ pc[t] = "create_find" /\ pc[t] \notin Compacting
  BY Sections DEF CreateFind, At
<1>2. Settled
  BY <1>1, SettledOutside DEF Layout
<1>3. PICK i \in Handles : FirstUnused(i) /\ loc' = [loc EXCEPT ![t].slot = i]
  BY DEF CreateFind
<1>4. i = task_count
  <2>1. i \in Nat /\ task_count \in Nat /\ i <= task_count /\ task_count <= MAX_TASKS
    BY <1>3 DEF TypeInv, TypeOK, FirstUnused, Handles, InBounds
  <2>2. i < task_count => i \in Slots /\ InUse(i) /\ task_list[i].state = "UNUSED"
    BY <1>2, <1>3, <2>1, TableAssumption DEF FirstUnused, Settled, InUse, Slots
  <2> QED
    BY <2>1, <2>2 DEF Layout, Compaction
<1>5. Relabel
  BY RelabelNone DEF CreateFind
<1>6. \A u \in Stacks \ {t} : pc[u] \notin Critical /\ pc'[u] = pc[u]
  BY <1>1, OthersOutside DEF CreateFind, Goto, ExclusionInv
<1>7. pc'[t] = "create_alloc" /\ loc'[t].slot = task_count
  BY <1>3, <1>4 DEF CreateFind, Goto, ExclusionInv, TypeInv, TypeOK
<1>8. \A u \in Stacks : ~Holding(u) /\ ~Holding(u)' /\ pc[u] # "gc_clear" /\ pc'[u] # "gc_clear"
  BY <1>1, <1>6, <1>7 DEF Holding, Critical, Filling
<1>9. \A u \in Stacks : Creating(u)' => loc'[u].slot = task_count
  BY <1>6, <1>7, <1>8 DEF Creating, Critical
<1>10. task_count \in Nat
  BY DEF TypeInv, TypeOK
<1> QED
  BY <1>2, <1>5, <1>8, <1>9, <1>10, LayoutRelabel

\* Where task t is the only one in a critical section, outside compaction.
LEMMA AloneCreating ==
  ASSUME Base, Layout, NEW t \in Stacks, OnCpu(t), Creating(t)
  PROVE  /\ Settled /\ task_count \in Nat
         /\ loc[t].slot = task_count
         /\ \A u \in Stacks : pc[u] \notin Compacting
         /\ \A u \in Stacks \ {t} : ~Creating(u) /\ ~Holding(u)
<1>1. pc[t] \notin Compacting
  BY Sections DEF Creating, Holding
<1>2. Settled /\ \A u \in Stacks : pc[u] \notin Compacting
  BY <1>1, SettledOutside DEF Base, Layout
<1>3. \A u \in Stacks \ {t} : pc[u] \notin Critical
  BY OthersOutside DEF Base
<1> QED
  BY <1>2, <1>3, Sections DEF Creating, Holding, Layout, Creations, Base, TypeInv, TypeOK

LEMMA LayoutCreateAlloc ==
  ASSUME Base, Layout, InBounds, NEW t \in Stacks, CreateAlloc(t)
  PROVE  Layout'
<1> USE DEF gc, table
<1>1. OnCpu(t) /\ pc[t] = "create_alloc" /\ Creating(t)
  BY DEF CreateAlloc, At, Creating
<1>2. /\ Settled /\ task_count \in Nat /\ loc[t].slot = task_count
      /\ \A u \in Stacks : pc[u] \notin Compacting
      /\ \A u \in Stacks \ {t} : ~Creating(u) /\ ~Holding(u)
  BY <1>1, AloneCreating
<1>3. PICK block \in Stacks \ heap :
        /\ heap' = heap \union {block}
        /\ task_list' = [task_list EXCEPT ![loc[t].slot].stack_ptr = block]
        /\ loc' = [loc EXCEPT ![t].block = block]
  BY DEF CreateAlloc
<1>4. UNCHANGED <<task_count, gc_read, gc_write, next_task_id>>
  BY DEF CreateAlloc
<1>5. /\ pc'[t] = "create_fill" /\ loc'[t].slot = task_count /\ loc'[t].block = block
      /\ \A u \in Stacks \ {t} : pc'[u] = pc[u]
  BY <1>2, <1>3 DEF CreateAlloc, Goto, Base, ExclusionInv, TypeInv, TypeOK
<1>6. /\ \A i \in Slots : i < task_count => task_list'[i] = task_list[i]
      /\ \A i \in Slots : task_list'[i].is_idle = task_list[i].is_idle
  BY <1>2, <1>3 DEF Base, TypeInv, TypeOK, Slots
<1>7. \A i \in Slots : Live(i)' <=> Live(i)
  BY <1>4, <1>6 DEF Live
<1>8. \A b : HasTcb(b)' <=> HasTcb(b)
  BY <1>6, <1>7 DEF HasTcb, Holds, Live
<1>c. \A u \in Stacks : pc[u] # "gc_clear" /\ pc'[u] # "gc_clear"
  BY <1>2, <1>5 DEF Compacting
<1>9. Compaction'
  BY <1>2, <1>4, <1>6, <1>c DEF Layout, Compaction, InUse, Settled
<1>10. OwnStacks'
  BY <1>6, <1>7 DEF Layout, OwnStacks, Live
<1>11. Creations'
  <2>1. ~HasTcb(block)
    BY <1>3 DEF Layout, HeapInv
  <2>2. task_count < MAX_TASKS => Filled(t)'
    <3>1. task_count < MAX_TASKS => task_count \in Slots
      BY <1>2, TableAssumption DEF Slots
    <3>2. task_count \in Slots => task_list'[task_count].stack_ptr = block
      BY <1>2, <1>3 DEF Base, TypeInv, TypeOK, Tcbs
    <3> QED
      BY <1>4, <1>5, <3>1, <3>2 DEF Filled
  <2>3. \A u \in Stacks \ {t} : ~Creating(u)' /\ ~Holding(u)'
    BY <1>2, <1>5 DEF Creating, Holding
  <2> QED
    BY <1>3, <1>4, <1>5, <1>8, <2>1, <2>2, <2>3 DEF Creations
<1>12. Behind'
  BY <1>4, <1>6, <1>c DEF Layout, Behind
<1>13. HeapInv'
  <2>1. \A b : ~Held(b)
    BY <1>1, <1>2 DEF Held, Holding, Filling
  <2>2. \A b : Held(b)' <=> b = block
    BY <1>2, <1>5 DEF Held, Holding, Filling
  <2> QED
    BY <1>3, <1>8, <2>1, <2>2 DEF Layout, HeapInv
<1> QED
  BY <1>9, <1>10, <1>11, <1>12, <1>13 DEF Layout

\* The fields of the new control block, one by one.
Fills(t) == CreateFill(t) \/ CreateReady(t) \/ CreateId(t) \/ CreateWake(t)

LEMMA FillsSlot ==
  ASSUME Base, Layout, NEW t \in Stacks, Fills(t)
  PROVE  /\ OnCpu(t) /\ Holding(t) /\ Creating(t)
         /\ UNCHANGED <<task_count, task_current, task_next, idle_task, gc_read, gc_write, heap, loc,
                        cpu, sv, sv_next>>
         /\ pc'[t] \in Filling \ {"create_fill"}
         /\ \A u \in Stacks \ {t} : pc'[u] = pc[u] \/ (u = loc[t].block /\ pc'[u] = "run")
         /\ \A i \in Slots : i # task_count => task_list'[i] = task_list[i]
         /\ task_count \in Slots => /\ task_list'[task_count].is_idle = task_list[task_count].is_idle
                                    /\ Filled(t)'
<1> USE DEF Base, ptrs, switch, gc
<1>1. OnCpu(t) /\ Holding(t) /\ Creating(t)
  BY DEF Fills, CreateFill, CreateReady, CreateId, CreateWake, At, Holding, Creating, Filling
<1>2. loc[t].slot = task_count
  BY <1>1 DEF Layout, Creations
<1>3. UNCHANGED <<task_count, task_current, task_next, idle_task, gc_read, gc_write, heap, loc,
                  cpu, sv, sv_next>>
  BY DEF Fills, CreateFill, CreateReady, CreateId, CreateWake
<1>4. PICK field, value : task_list' = [task_list EXCEPT ![task_count][field] = value]
  BY <1>2 DEF Fills, CreateFill, CreateReady, CreateId, CreateWake, Fill
<1>5. \A i \in Slots : i # task_count => task_list'[i] = task_list[i]
  BY <1>4 DEF TypeInv, TypeOK
<1>6. task_count \in Slots => task_list[task_count] \in Tcbs /\ (task_count < MAX_TASKS => Filled(t))
  BY <1>1 DEF TypeInv, TypeOK, Layout, Creations
<1>7. task_count \in Slots => task_count < MAX_TASKS
  BY TableAssumption DEF Slots
<1>8. pc[t] \in Labels /\ pc \in [Stacks -> Labels]
  BY DEF ExclusionInv
<1>9. CASE CreateFill(t)
  <2>1. /\ pc[t] = "create_fill" /\ pc' = [pc EXCEPT ![loc[t].block] = "run", ![t] = "create_ready"]
        /\ task_list' = [task_list EXCEPT ![task_count]["psp"] = loc[t].block]
    BY <1>2, <1>9 DEF CreateFill, At, Fill
  <2>2. /\ pc'[t] = "create_ready"
        /\ \A u \in Stacks \ {t} : pc'[u] = pc[u] \/ (u = loc[t].block /\ pc'[u] = "run")
    BY <1>8, <2>1
  <2>3. task_count \in Slots => /\ task_list'[task_count].is_idle = task_list[task_count].is_idle
                                /\ task_list'[task_count].stack_ptr = task_list[task_count].stack_ptr
                                /\ task_list'[task_count].psp = loc[t].block
    BY <1>6, <2>1 DEF TypeInv, TypeOK, Tcbs
  <2> QED
    BY <1>1, <1>3, <1>5, <1>6, <1>7, <2>2, <2>3 DEF Filled, Filling
<1>10. CASE CreateReady(t)
  <2>1. /\ pc[t] = "create_ready" /\ pc' = [pc EXCEPT ![t] = "create_id"]
        /\ task_list' = [task_list EXCEPT ![task_count]["state"] = "READY"]
    BY <1>2, <1>10 DEF CreateReady, At, Fill, Goto
  <2>2. pc'[t] = "create_id" /\ \A u \in Stacks \ {t} : pc'[u] = pc[u]
    BY <1>8, <2>1
  <2>3. task_count \in Slots => /\ task_list'[task_count].is_idle = task_list[task_count].is_idle
                                /\ task_list'[task_count].stack_ptr = task_list[task_count].stack_ptr
                                /\ task_list'[task_count].psp = task_list[task_count].psp
                                /\ task_list'[task_count].state = "READY"
    BY <1>6, <2>1 DEF TypeInv, TypeOK, Tcbs
  <2> QED
    BY <1>1, <1>3, <1>5, <1>6, <1>7, <2>1, <2>2, <2>3 DEF Filled, Filling
<1>11. CASE CreateId(t)
  <2>1. /\ pc[t] = "create_id" /\ pc' = [pc EXCEPT ![t] = "create_wake"]
        /\ task_list' = [task_list EXCEPT ![task_count]["task_id"] = next_task_id']
    BY <1>2, <1>11 DEF CreateId, At, Fill, Goto
  <2>2. pc'[t] = "create_wake" /\ \A u \in Stacks \ {t} : pc'[u] = pc[u]
    BY <1>8, <2>1
  <2>3. task_count \in Slots => /\ task_list'[task_count].is_idle = task_list[task_count].is_idle
                                /\ task_list'[task_count].stack_ptr = task_list[task_count].stack_ptr
                                /\ task_list'[task_count].psp = task_list[task_count].psp
                                /\ task_list'[task_count].state = task_list[task_count].state
    BY <1>6, <2>1 DEF TypeInv, TypeOK, Tcbs
  <2> QED
    BY <1>1, <1>3, <1>5, <1>6, <1>7, <2>1, <2>2, <2>3 DEF Filled, Filling
<1>12. CASE CreateWake(t)
  <2>1. /\ pc[t] = "create_wake" /\ pc' = [pc EXCEPT ![t] = "create_commit"]
        /\ task_list' = [task_list EXCEPT ![task_count]["sleep_until_tick"] = 0]
    BY <1>2, <1>12 DEF CreateWake, At, Fill, Goto
  <2>2. pc'[t] = "create_commit" /\ \A u \in Stacks \ {t} : pc'[u] = pc[u]
    BY <1>8, <2>1
  <2>3. task_count \in Slots => /\ task_list'[task_count].is_idle = task_list[task_count].is_idle
                                /\ task_list'[task_count].stack_ptr = task_list[task_count].stack_ptr
                                /\ task_list'[task_count].psp = task_list[task_count].psp
                                /\ task_list'[task_count].state = task_list[task_count].state
                                /\ task_list'[task_count].sleep_until_tick = 0
    BY <1>6, <2>1 DEF TypeInv, TypeOK, Tcbs
  <2> QED
    BY <1>1, <1>3, <1>5, <1>6, <1>7, <2>1, <2>2, <2>3 DEF Filled, Filling
<1> QED
  BY <1>9, <1>10, <1>11, <1>12 DEF Fills

LEMMA LayoutFills ==
  ASSUME Base, Layout, InBounds, NEW t \in Stacks, Fills(t)
  PROVE  Layout'
<1>1. /\ OnCpu(t) /\ Holding(t) /\ Creating(t)
      /\ UNCHANGED <<task_count, gc_read, gc_write, heap, loc>>
      /\ pc'[t] \in Filling \ {"create_fill"}
      /\ \A u \in Stacks \ {t} : pc'[u] = pc[u] \/ (u = loc[t].block /\ pc'[u] = "run")
      /\ \A i \in Slots : i # task_count => task_list'[i] = task_list[i]
      /\ task_count \in Slots => /\ task_list'[task_count].is_idle = task_list[task_count].is_idle
                                 /\ Filled(t)'
  BY FillsSlot
<1>2. /\ Settled /\ task_count \in Nat /\ loc[t].slot = task_count
      /\ \A u \in Stacks : pc[u] \notin Compacting
      /\ \A u \in Stacks \ {t} : ~Creating(u) /\ ~Holding(u)
  BY <1>1, AloneCreating
<1>3. \A u \in Stacks \ {t} : ~Creating(u)' /\ ~Holding(u)'
  BY <1>1, <1>2, Sections DEF Creating, Holding
<1>4. \A u \in Stacks : pc[u] # "gc_clear" /\ pc'[u] # "gc_clear"
  BY <1>1, <1>2, Sections DEF Compacting, Filling
<1>5. \A i \in Slots : i < task_count => task_list'[i] = task_list[i]
  BY <1>1, <1>2 DEF Slots
<1>6. \A i \in Slots : Live(i)' <=> Live(i)
  BY <1>1, <1>5 DEF Live
<1>7. \A b : HasTcb(b)' <=> HasTcb(b)
  BY <1>5, <1>6 DEF HasTcb, Holds, Live
<1>8. Compaction'
  BY <1>1, <1>2, <1>4, <1>5 DEF Layout, Compaction, InUse, Settled
<1>9. OwnStacks'
  BY <1>5, <1>6 DEF Layout, OwnStacks, Live
<1>10. Creations'
  <2>1. task_count < MAX_TASKS => task_count \in Slots
    BY <1>2, TableAssumption DEF Slots
  <2>2. loc[t].block \in Stacks /\ ~HasTcb(loc[t].block)
    BY <1>1 DEF Layout, Creations
  <2> QED
    BY <1>1, <1>2, <1>3, <1>7, <2>1, <2>2 DEF Creations
<1>11. Behind'
  BY <1>1, <1>2, <1>4 DEF Layout, Behind
<1>12. HeapInv'
  <2>1. \A b : Held(b)' <=> Held(b)
    BY <1>1, <1>2, <1>3 DEF Held, Holding
  <2> QED
    BY <1>1, <1>7, <2>1 DEF Layout, HeapInv, InBounds
<1> QED
  BY <1>8, <1>9, <1>10, <1>11, <1>12 DEF Layout

LEMMA LayoutCreateCommit ==
  ASSUME Base, Layout, InBounds, NEW t \in Stacks, CreateCommit(t)
  PROVE  Layout'
<1> USE DEF gc, ptrs, switch
<1>1. OnCpu(t) /\ pc[t] = "create_commit" /\ Creating(t) /\ Holding(t)
  BY DEF CreateCommit, At, Creating, Holding, Filling
<1>2. /\ Settled /\ task_count \in Nat /\ loc[t].slot = task_count
      /\ \A u \in Stacks : pc[u] \notin Compacting
      /\ \A u \in Stacks \ {t} : ~Creating(u) /\ ~Holding(u)
  BY <1>1, AloneCreating
<1>3. task_count' = task_count + 1 /\ UNCHANGED <<task_list, gc_read, gc_write, heap>>
  BY <1>2 DEF CreateCommit
<1>4. /\ \A u \in Stacks \ {t} : pc'[u] = pc[u]
      /\ pc'[t] = "run"
  BY DEF CreateCommit, Return, Goto, Base, ExclusionInv
<1>c. \A u \in Stacks : ~Creating(u)' /\ ~Holding(u)' /\ pc[u] # "gc_clear" /\ pc'[u] # "gc_clear"
  BY <1>2, <1>4, Sections DEF Creating, Holding, Compacting
<1>5. task_count \in Slots => /\ task_list[task_count].state = "READY"
                              /\ task_list[task_count].stack_ptr = loc[t].block
  <2>1. task_count \in Slots => task_count < MAX_TASKS
    BY TableAssumption DEF Slots
  <2>2. task_count < MAX_TASKS => Filled(t)
    BY <1>1 DEF Layout, Creations
  <2> QED
    BY <1>1, <2>1, <2>2 DEF Filled
<1>6. \A i \in Slots : Live(i)' <=> Live(i) \/ i = task_count
  <2>1. \A i \in Slots : i < task_count' <=> i < task_count \/ i = task_count
    BY <1>2, <1>3, TableAssumption DEF Slots
  <2> QED
    BY <1>2, <1>3, <1>5, <2>1 DEF Live, Settled, Slots
<1>7. loc[t].block \in Stacks /\ ~HasTcb(loc[t].block)
  BY <1>1 DEF Layout, Creations
<1>8. Compaction'
  BY <1>2, <1>3, <1>5, <1>c DEF Layout, Compaction, InUse, Settled, Slots
<1>9. OwnStacks'
  BY <1>3, <1>5, <1>6, <1>7 DEF Layout, OwnStacks, HasTcb, Holds
<1>10. Creations'
  BY <1>c DEF Creations
<1>11. Behind'
  BY <1>2, <1>3, <1>c, TableAssumption DEF Layout, Behind, Slots
<1>12. HeapInv'
  <2> SUFFICES ASSUME InBounds' PROVE \A b \in Stacks : b \in heap' <=> HasTcb(b)' \/ Held(b)'
    BY DEF HeapInv
  <2>1. task_count \in Slots
    BY <1>2, <1>3, TableAssumption DEF InBounds, Slots
  <2>2. \A b : HasTcb(b)' <=> HasTcb(b) \/ b = loc[t].block
    BY <1>3, <1>5, <1>6, <2>1 DEF HasTcb, Holds
  <2>3. \A b : ~Held(b)'
    BY <1>c DEF Held
  <2>4. \A b : Held(b) <=> b = loc[t].block
    BY <1>1, <1>2 DEF Held
  <2> QED
    BY <1>3, <2>2, <2>3, <2>4 DEF Layout, HeapInv
<1> QED
  BY <1>8, <1>9, <1>10, <1>11, <1>12 DEF Layout

-----------------------------------------------------------------------------
(* Layout: the steps of task_garbage_collection.                            *)

\* While a thread compacts, nothing is being created.
LEMMA AloneCompacting ==
  ASSUME Base, NEW t \in Stacks, OnCpu(t), pc[t] \in Compacting
  PROVE  \A u \in Stacks : /\ ~Creating(u) /\ ~Holding(u)
                           /\ u # t => pc[u] \notin Critical
<1>1. \A u \in Stacks \ {t} : pc[u] \notin Critical
  BY OthersOutside DEF Base
<1> QED
  BY <1>1, Sections DEF Creating, Holding

\* The slot compaction reads holds a task.
LEMMA ReadLive ==
  ASSUME Base, Layout, InBounds, gc_read < task_count
  PROVE  gc_read \in Slots /\ Live(gc_read) /\ task_list[gc_read] \in Tcbs
<1>1. gc_read \in Slots
  BY TableAssumption DEF Base, TypeInv, TypeOK, InBounds, Slots
<1>2. InUse(gc_read)
  BY <1>1, TableAssumption DEF InUse, Slots
<1> QED
  BY <1>1, <1>2, LiveInUse DEF Layout, Base, TypeInv, TypeOK

\* A step of the compacting thread that leaves the tasks in the slots they are in.
LEMMA LayoutCompact ==
  ASSUME Base, Layout, NEW t \in Stacks, OnCpu(t), pc[t] \in Compacting,
         UNCHANGED <<heap, loc>>, InBounds,
         \A u \in Stacks \ {t} : pc'[u] = pc[u],
         pc'[t] \in Compacting \union {"idle"},
         \A i \in Slots : Live(i)' <=> Live(i),
         \A i \in Slots : Live(i) => task_list'[i] = task_list[i],
         Compaction', Behind'
  PROVE  Layout'
<1>1. \A u \in Stacks : ~Creating(u) /\ ~Holding(u)
  BY AloneCompacting
<1>2. \A u \in Stacks : ~Creating(u)' /\ ~Holding(u)'
  BY <1>1, Sections DEF Creating, Holding
<1>3. OwnStacks'
  BY DEF Layout, OwnStacks
<1>4. Creations'
  BY <1>2 DEF Creations
<1>5. HeapInv'
  <2>1. \A b : HasTcb(b)' <=> HasTcb(b)
    BY DEF HasTcb, Holds
  <2>2. \A b : ~Held(b) /\ ~Held(b)'
    BY <1>1, <1>2 DEF Held
  <2> QED
    BY <2>1, <2>2 DEF Layout, HeapInv
<1> QED
  BY <1>3, <1>4, <1>5 DEF Layout

LEMMA LayoutGcReap ==
  ASSUME Base, Layout, InBounds, NEW t \in Stacks, GcReap(t)
  PROVE  Layout'
<1> USE DEF ptrs, switch, threads
<1>1. /\ OnCpu(t) /\ pc[t] = "gc" /\ pc[t] \in Compacting
      /\ gc_read < task_count /\ Dead(task_list[gc_read])
  BY DEF GcReap, At, Compacting
<1>2. gc_read \in Slots /\ Live(gc_read)
  BY <1>1, ReadLive
<1>3. task_list[gc_read].state = "ZOMBIE"
  BY <1>1, <1>2 DEF Dead, Live
<1>4. /\ UNCHANGED <<task_count, gc_write, pc, loc, next_task_id>>
      /\ gc_read' = gc_read + 1
      /\ heap' = heap \ {task_list[gc_read].stack_ptr}
  BY <1>3 DEF GcReap, Freed
<1>5. /\ \A i \in Slots : i # gc_read => task_list'[i] = task_list[i]
      /\ task_list'[gc_read].is_idle = task_list[gc_read].is_idle
  BY <1>2 DEF GcReap, Reclaimed, Base, TypeInv, TypeOK, Tcbs
<1>6. gc_read \in Nat /\ gc_write \in Nat /\ task_count \in Nat /\ gc_write <= gc_read
  BY DEF Base, TypeInv, TypeOK
<1>7. \A i \in Slots : Live(i)' <=> Live(i) /\ i # gc_read
  <2>1. \A i \in Slots : InUse(i)' <=> InUse(i) /\ i # gc_read
    BY <1>1, <1>4, <1>6, TableAssumption DEF InUse, Slots
  <2> QED
    BY <1>4, <1>5, <2>1 DEF Live, InUse
<1>c. \A u \in Stacks : pc[u] # "gc_clear"
  BY <1>1, AloneCompacting, Sections DEF Compacting
<1>8. Compaction'
  <2>1. \A i \in Slots : InUse(i)' => InUse(i) /\ i # gc_read
    BY <1>1, <1>4, <1>6, TableAssumption DEF InUse, Slots
  <2>2. gc_write' <= gc_read' /\ gc_read' <= task_count'
    BY <1>1, <1>4, <1>6
  <2> QED
    BY <1>1, <1>4, <1>5, <1>c, <2>1, <2>2 DEF Layout, Compaction
<1>9. OwnStacks'
  BY <1>5, <1>7 DEF Layout, OwnStacks
<1>10. Creations'
  BY <1>1, <1>4, AloneCompacting DEF Creations, Creating, Holding
<1>11. Behind'
  BY <1>1, <1>4, <1>5, <1>6, <1>c DEF Layout, Behind
<1>12. HeapInv'
  <2>1. \A b : HasTcb(b)' <=> HasTcb(b) /\ b # task_list[gc_read].stack_ptr
    BY <1>2, <1>5, <1>7 DEF HasTcb, Holds, Layout, OwnStacks
  <2>2. \A b : ~Held(b) /\ ~Held(b)'
    BY <1>1, <1>4, AloneCompacting DEF Held, Holding
  <2> QED
    BY <1>4, <2>1, <2>2 DEF Layout, HeapInv, InBounds
<1> QED
  BY <1>8, <1>9, <1>10, <1>11, <1>12 DEF Layout

\* The copy is to a slot that holds no task, and does not yet hold one.
LEMMA CopyKeeps ==
  ASSUME Base, Layout, InBounds, NEW t \in Stacks, GcCopy(t)
  PROVE  /\ OnCpu(t) /\ pc[t] = "gc" /\ pc'[t] = "gc_current"
         /\ \A u \in Stacks \ {t} : pc'[u] = pc[u]
         /\ gc_read \in Slots /\ gc_write \in Slots
         /\ gc_write < gc_read /\ gc_read < task_count
         /\ task_list'[gc_write] = task_list[gc_read]
         /\ \A i \in Slots : i # gc_write => task_list'[i] = task_list[i]
         /\ \A i \in Slots : Live(i)' <=> Live(i)
         /\ \A i \in Slots : Live(i) => task_list'[i] = task_list[i]
<1> USE DEF gc
<1>1. /\ OnCpu(t) /\ pc[t] = "gc" /\ gc_read < task_count /\ gc_read # gc_write
      /\ pc'[t] = "gc_current" /\ \A u \in Stacks \ {t} : pc'[u] = pc[u]
      /\ task_list' = [task_list EXCEPT ![gc_write] = task_list[gc_read]]
      /\ UNCHANGED <<task_count, gc_read, gc_write>>
  BY DEF GcCopy, At, Goto, Base, ExclusionInv
<1>2. gc_read \in Nat /\ gc_write \in Nat /\ task_count \in Nat /\ gc_write < gc_read
  BY <1>1 DEF Base, TypeInv, TypeOK
<1>3. gc_read \in Slots /\ gc_write \in Slots
  BY <1>1, <1>2, ReadLive, TableAssumption DEF Slots
<1>4. /\ task_list'[gc_write] = task_list[gc_read]
      /\ \A i \in Slots : i # gc_write => task_list'[i] = task_list[i]
  BY <1>1, <1>3 DEF Base, TypeInv, TypeOK
<1>5. \A i \in Slots : i = gc_write => ~Live(i) /\ ~Live(i)'
  BY <1>1, <1>2 DEF Live
<1>6. \A i \in Slots : Live(i)' <=> Live(i)
  <2>1. \A i \in Slots : i # gc_write => (Live(i)' <=> Live(i))
    BY <1>1, <1>4 DEF Live
  <2> QED
    BY <1>5, <2>1
<1> QED
  BY <1>1, <1>2, <1>3, <1>4, <1>5, <1>6

LEMMA LayoutGcCopy ==
  ASSUME Base, Layout, InBounds, NEW t \in Stacks, GcCopy(t)
  PROVE  Layout'
<1> USE DEF gc
<1>1. /\ OnCpu(t) /\ pc[t] = "gc" /\ pc'[t] = "gc_current"
      /\ \A u \in Stacks \ {t} : pc'[u] = pc[u]
      /\ gc_read \in Slots /\ gc_write \in Slots
      /\ gc_write < gc_read /\ gc_read < task_count
      /\ \A i \in Slots : i # gc_write => task_list'[i] = task_list[i]
      /\ \A i \in Slots : Live(i)' <=> Live(i)
      /\ \A i \in Slots : Live(i) => task_list'[i] = task_list[i]
  BY CopyKeeps
<1>2. UNCHANGED <<task_count, gc_read, gc_write, heap, loc>>
  BY DEF GcCopy
<1>3. pc[t] \in Compacting /\ pc'[t] \in Compacting
  BY <1>1 DEF Compacting, Following
<1>4. \A u \in Stacks : pc[u] # "gc_clear" /\ pc'[u] # "gc_clear"
  BY <1>1, <1>3, AloneCompacting, Sections DEF Compacting
<1>5. Compaction'
  <2>1. \A i \in Slots : InUse(i)' => Live(i)
    BY <1>2, LiveInUse DEF InUse, Layout
  <2>2. gc_read <= task_count /\ gc_write <= gc_read
    BY <1>4 DEF Layout, Compaction
  <2>3. \A i \in Slots : Live(i) => task_list'[i].state # "UNUSED"
    BY <1>1 DEF Live
  <2> QED
    BY <1>1, <1>2, <1>3, <1>4, <2>1, <2>2, <2>3 DEF Compaction
<1>6. Behind'
  <2>1. \A i \in Slots : i >= task_count => task_list'[i] = task_list[i]
    BY <1>1 DEF Slots, Base, TypeInv, TypeOK
  <2> QED
    BY <1>2, <1>4, <2>1 DEF Layout, Behind
<1> QED
  BY <1>1, <1>2, <1>3, <1>5, <1>6, LayoutCompact

\* The steps that turn task_current, its index and task_next to the copy.
LEMMA LayoutFollow ==
  ASSUME Base, Layout, InBounds, NEW t \in Stacks, GcCurrent(t) \/ GcIndex(t) \/ GcNext(t)
  PROVE  Layout'
<1> USE DEF table, gc
<1>1. /\ OnCpu(t) /\ pc[t] \in Following
      /\ UNCHANGED <<task_list, task_count, gc_read, gc_write, heap, loc>>
  BY DEF GcCurrent, GcIndex, GcNext, At, Following
<1>2. pc'[t] \in Following /\ \A u \in Stacks \ {t} : pc'[u] = pc[u]
  BY DEF GcCurrent, GcIndex, GcNext, Goto, Following, Base, ExclusionInv
<1>3. pc[t] \in Compacting /\ pc'[t] \in Compacting
  BY <1>1, <1>2, Sections
<1>4. \A u \in Stacks : pc[u] # "gc_clear" /\ pc'[u] # "gc_clear"
  BY <1>1, <1>2, <1>3, AloneCompacting, Sections DEF Compacting, Following
<1>5. Compaction'
  BY <1>1, <1>3, <1>4 DEF Layout, Compaction, InUse
<1>6. Behind'
  BY <1>1, <1>4 DEF Layout, Behind
<1>7. \A i \in Slots : Live(i)' <=> Live(i)
  BY <1>1 DEF Live
<1> QED
  BY <1>1, <1>2, <1>3, <1>5, <1>6, <1>7, LayoutCompact

\* The slot that the task in slot i had before compaction moved one.
Origin(i) == IF i = gc_write THEN gc_read ELSE i

\* A step of compaction past a task that is where it should be, or that has been
\* copied: each task is in one slot before and in one slot after.
Passes == gc_read' = gc_read + 1 /\ gc_write' = gc_write + 1 /\ UNCHANGED <<task_list, task_count>>

LEMMA MoveKeeps ==
  ASSUME Base, Layout, InBounds, Passes,
         gc_read < task_count, task_list[gc_write] = task_list[gc_read]
  PROVE  /\ \A i \in Slots : Live(i)' => /\ Origin(i) \in Slots /\ Live(Origin(i))
                                         /\ task_list'[i] = task_list[Origin(i)]
         /\ \A i, j \in Slots : Live(i)' /\ Live(j)' /\ i # j => Origin(i) # Origin(j)
         /\ \A i \in Slots : Live(i) =>
              \E j \in Slots : j = Follow(i) /\ Live(j)' /\ Origin(j) = i
<1>1. /\ UNCHANGED <<task_list, task_count>>
      /\ gc_read' = gc_read + 1 /\ gc_write' = gc_write + 1
  BY DEF Passes
<1>2. gc_read \in Slots /\ Live(gc_read)
  BY <1>1, ReadLive
<1>3. gc_read \in Nat /\ gc_write \in Nat /\ task_count \in Nat /\ gc_write <= gc_read
  BY DEF Base, TypeInv, TypeOK
<1>4. gc_write \in Slots
  BY <1>2, <1>3, TableAssumption DEF Slots
<1>6. \A i \in Slots : InUse(i)' <=> (InUse(i) /\ i # gc_read) \/ i = gc_write
  BY <1>1, <1>3, TableAssumption DEF InUse, Slots
<1>7. InUse(gc_write) => gc_write = gc_read
  BY <1>3 DEF InUse
<1>8. \A i \in Slots : Live(i)' <=> (Live(i) /\ i # gc_read) \/ i = gc_write
  <2>1. ASSUME NEW i \in Slots, i # gc_write PROVE Live(i)' <=> Live(i) /\ i # gc_read
    BY <1>1, <1>6, <2>1 DEF Live, InUse
  <2>2. ASSUME NEW i \in Slots, i = gc_write PROVE Live(i)'
    BY <1>1, <1>2, <1>6, <2>2 DEF Live, InUse
  <2> QED
    BY <2>1, <2>2
<1>9. Live(gc_write) => gc_write = gc_read
  BY <1>7 DEF Live, InUse
<1>10. ASSUME NEW i \in Slots, Live(i)'
       PROVE  /\ Origin(i) \in Slots /\ Live(Origin(i))
              /\ task_list'[i] = task_list[Origin(i)]
  BY <1>1, <1>2, <1>8, <1>10 DEF Origin
<1>11. ASSUME NEW i \in Slots, NEW j \in Slots, Live(i)', Live(j)', i # j
       PROVE  Origin(i) # Origin(j)
  BY <1>8, <1>9, <1>11 DEF Origin
<1>12. ASSUME NEW i \in Slots, Live(i)
       PROVE  \E j \in Slots : j = Follow(i) /\ Live(j)' /\ Origin(j) = i
  BY <1>4, <1>8, <1>9, <1>12 DEF Origin, Follow
<1> QED
  BY <1>10, <1>11, <1>12

LEMMA LayoutPasses ==
  ASSUME Base, Layout, InBounds, Passes, UNCHANGED <<heap, loc>>,
         gc_read < task_count, task_list[gc_write] = task_list[gc_read],
         NEW t \in Stacks, OnCpu(t), pc[t] \in Compacting, pc'[t] = "gc",
         \A u \in Stacks \ {t} : pc'[u] = pc[u]
  PROVE  Layout'
<1>1. /\ UNCHANGED <<task_list, task_count>>
      /\ gc_read' = gc_read + 1 /\ gc_write' = gc_write + 1
  BY DEF Passes
<1>2. \A u \in Stacks : ~Creating(u) /\ ~Holding(u) /\ (u # t => pc[u] # "gc_clear")
  BY AloneCompacting, Sections DEF Compacting
<1>3. \A u \in Stacks : ~Creating(u)' /\ ~Holding(u)' /\ pc'[u] # "gc_clear"
  BY <1>2 DEF Creating, Holding, Filling
<1>4. gc_read \in Nat /\ gc_write \in Nat /\ task_count \in Nat /\ gc_write <= gc_read
  BY DEF Base, TypeInv, TypeOK
<1>5. \A u \in Stacks : pc[u] # "gc_clear"
  BY <1>1, <1>2, <1>4 DEF Layout, Compaction
<1>6. Compaction'
  <2>1. ASSUME NEW i \in Slots, InUse(i)' PROVE task_list'[i].state # "UNUSED"
    <3>1. InUse(i) \/ i = gc_write
      BY <1>1, <1>4, <2>1, TableAssumption DEF InUse, Slots
    <3>2. gc_read \in Slots /\ Live(gc_read)
      BY ReadLive
    <3> QED
      BY <1>1, <3>1, <3>2 DEF Live, Layout, Compaction
  <2>2. gc_write' <= gc_read' /\ gc_read' <= task_count'
    BY <1>1, <1>4
  <2>3. pc'[t] \in Compacting
    BY DEF Compacting
  <2> QED
    BY <1>3, <2>1, <2>2, <2>3 DEF Compaction
<1>7. OwnStacks'
  BY MoveKeeps DEF Layout, OwnStacks
<1>8. Creations'
  BY <1>3 DEF Creations
<1>9. Behind'
  BY <1>1, <1>5 DEF Layout, Behind
<1>10. HeapInv'
  <2>1. \A b : HasTcb(b)' <=> HasTcb(b)
    BY MoveKeeps DEF HasTcb, Holds
  <2>2. \A b : ~Held(b) /\ ~Held(b)'
    BY <1>2, <1>3 DEF Held
  <2> QED
    BY <1>1, <2>1, <2>2 DEF Layout, HeapInv, InBounds
<1> QED
  BY <1>6, <1>7, <1>8, <1>9, <1>10 DEF Layout

\* At the end of compaction the tasks are the slots written.
LEMMA CountKeeps ==
  ASSUME Base, Layout, NEW t \in Stacks, GcCount(t) \/ GcClear(t)
  PROVE  /\ OnCpu(t) /\ pc[t] \in {"gc", "gc_clear"}
         /\ GcCount(t) => pc'[t] = "gc_clear"
         /\ GcClear(t) => pc[t] = "gc_clear" /\ pc'[t] = "idle"
         /\ \A u \in Stacks \ {t} : pc'[u] = pc[u]
         /\ gc_write <= task_count /\ task_count' = gc_write
         /\ \A i \in Slots : InUse(i) <=> i < gc_write
         /\ \A i \in Slots : Live(i)' <=> Live(i)
         /\ \A i \in Slots : Live(i) => task_list'[i] = task_list[i]
<1> USE DEF gc
<1>1. /\ OnCpu(t) /\ pc[t] \in {"gc", "gc_clear"} /\ \A u \in Stacks \ {t} : pc'[u] = pc[u]
      /\ GcCount(t) => pc'[t] = "gc_clear"
      /\ GcClear(t) => pc[t] = "gc_clear" /\ pc'[t] = "idle"
  BY DEF GcCount, GcClear, At, Goto, Base, ExclusionInv
<1>2. gc_read \in Nat /\ gc_write \in Nat /\ task_count \in Nat /\ gc_write <= gc_read
  BY DEF Base, TypeInv, TypeOK
<1>3. /\ GcCount(t) => gc_read >= task_count /\ gc_read <= task_count
      /\ GcClear(t) => task_count = gc_write
  <2>1. GcCount(t) => \A u \in Stacks : pc[u] # "gc_clear"
    <3>1. GcCount(t) => pc[t] = "gc"
      BY DEF GcCount, At
    <3> QED
      BY <1>1, <3>1, AloneCompacting, Sections DEF Compacting
  <2> QED
    BY <1>1, <2>1 DEF GcCount, Layout, Compaction
<1>4. gc_write <= task_count /\ task_count' = gc_write
  BY <1>2, <1>3 DEF GcCount, GcClear
<1>5. \A i \in Slots : InUse(i) <=> i < gc_write
  BY <1>2, <1>3, TableAssumption DEF InUse, Slots
<1>6. \A i \in Slots : i < gc_write => task_list'[i] = task_list[i]
  BY <1>3 DEF GcCount, GcClear
<1>7. \A i \in Slots : Live(i)' <=> Live(i)
  <2>1. CASE GcCount(t)
    <3>1. UNCHANGED <<gc_read, gc_write, task_list>>
      BY <2>1 DEF GcCount
    <3> QED
      BY <1>2, <1>4, <1>5, <3>1, TableAssumption DEF Live, InUse, Slots
  <2>2. CASE GcClear(t)
    <3>1. gc_read' = 0 /\ gc_write' = 0
      BY <2>2 DEF GcClear
    <3> QED
      BY <1>2, <1>4, <1>5, <1>6, <3>1, TableAssumption DEF Live, InUse, Slots
  <2> QED
    BY <2>1, <2>2
<1> QED
  BY <1>1, <1>4, <1>5, <1>6, <1>7 DEF Live, InUse

LEMMA LayoutGcCount ==
  ASSUME Base, Layout, InBounds, NEW t \in Stacks, GcCount(t) \/ GcClear(t)
  PROVE  Layout'
<1> USE DEF gc
<1>1. /\ OnCpu(t) /\ pc[t] \in {"gc", "gc_clear"}
      /\ GcCount(t) => pc'[t] = "gc_clear"
      /\ GcClear(t) => pc[t] = "gc_clear" /\ pc'[t] = "idle"
      /\ \A u \in Stacks \ {t} : pc'[u] = pc[u]
      /\ gc_write <= task_count /\ task_count' = gc_write
      /\ \A i \in Slots : InUse(i) <=> i < gc_write
      /\ \A i \in Slots : Live(i)' <=> Live(i)
      /\ \A i \in Slots : Live(i) => task_list'[i] = task_list[i]
  BY CountKeeps
<1>2. pc[t] \in Compacting /\ pc'[t] \in Compacting \union {"idle"} /\ UNCHANGED <<heap, loc>>
  BY <1>1 DEF Compacting, GcCount, GcClear
<1>3. gc_read \in Nat /\ gc_write \in Nat /\ task_count \in Nat /\ gc_write <= gc_read
  BY DEF Base, TypeInv, TypeOK
<1>4. \A i \in Slots : i < gc_write => Live(i)' /\ task_list'[i].state # "UNUSED"
  BY <1>1, LiveInUse DEF Layout, Live
<1>5. Compaction' /\ Behind'
  <2>1. CASE GcCount(t)
    <3>1. UNCHANGED <<gc_read, gc_write>> /\ pc'[t] = "gc_clear" /\ pc'[t] \in Compacting
      BY <1>1, <2>1 DEF GcCount, Compacting
    <3>2. \A i \in Slots : InUse(i)' => i < gc_write
      BY <1>1 DEF InUse
    <3> QED
      BY <1>1, <1>3, <1>4, <3>1, <3>2 DEF Compaction, Behind
  <2>2. CASE GcClear(t)
    <3>1. /\ gc_read' = 0 /\ gc_write' = 0 /\ pc'[t] = "idle"
          /\ task_list' = [i \in Slots |-> IF i < gc_write THEN task_list[i] ELSE ZeroTcb]
          /\ task_count = gc_write
      <4>1. task_count' = task_count /\ gc_read' = 0 /\ gc_write' = 0
            /\ task_list' = [i \in Slots |-> IF i < task_count THEN task_list[i] ELSE ZeroTcb]
        BY <2>2 DEF GcClear
      <4> QED
        BY <1>1, <2>2, <4>1
    <3>2. \A u \in Stacks : pc'[u] # "gc_clear" /\ pc'[u] \notin Compacting
      BY <1>1, <1>2, <3>1, AloneCompacting, Sections DEF Compacting
    <3>3. \A i \in Slots : InUse(i)' => i < gc_write
      BY <1>1 DEF InUse
    <3>4. \A i \in Slots : i >= gc_write => ~task_list'[i].is_idle
      BY <1>3, <3>1, TableAssumption DEF Slots, ZeroTcb
    <3> QED
      BY <1>1, <1>3, <1>4, <3>1, <3>2, <3>3, <3>4 DEF Compaction, Behind, Settled
  <2> QED
    BY <2>1, <2>2
<1> QED
  BY <1>1, <1>2, <1>5, LayoutCompact

-----------------------------------------------------------------------------
(* Context and Roles: steps that leave each task in its slot and make none  *)
(* RUNNING.                                                                 *)

\* Slot i holds the same task as before, and it has not been made to run.
Kept(i) ==
  /\ Live(i)' <=> Live(i)
  /\ Live(i) => /\ task_list'[i].stack_ptr = task_list[i].stack_ptr
                /\ task_list'[i].is_idle = task_list[i].is_idle
                /\ task_list'[i].psp = task_list[i].psp
                /\ task_list'[i].state # task_list[i].state =>
                     ~task_list[i].is_idle /\ task_list'[i].state # "RUNNING"

\* Places of a thread whose task has ended.
Ending == {"exit_clear", "exited"}

\* The thread on the CPU is the current task's.
LEMMA CurrentRuns ==
  ASSUME Base, Steady, NEW t \in Stacks, OnCpu(t)
  PROVE  /\ t = cpu /\ sv = "none" /\ Live(task_current)
         /\ task_list[task_current].stack_ptr = t
         /\ pc[t] \in Idling <=> task_current = idle_task
<1>1. t = cpu /\ sv = "none"
  BY DEF OnCpu
<1>2. Live(task_current) /\ task_list[task_current].stack_ptr = t
  BY <1>1 DEF Steady, Orderly, Context, RunsOwnContext, Holds
<1>3. pc[t] \in Idling <=> t = task_list[idle_task].stack_ptr
  BY DEF Steady, Orderly, Roles, IdleThread
<1>4. task_current \in Slots /\ idle_task \in Slots /\ Live(idle_task)
  BY DEF Base, TypeInv, TypeOK, Steady, Orderly, Roles, IdleAvailable
<1>5. t = task_list[idle_task].stack_ptr <=> task_current = idle_task
  BY <1>2, <1>4 DEF Steady, Orderly, Layout, OwnStacks
<1> QED
  BY <1>1, <1>2, <1>3, <1>5

\* Tasks that keep their slots keep their contexts.
LEMMA ContextKept ==
  ASSUME Base, Steady, \A i \in Slots : Kept(i),
         UNCHANGED <<task_current, task_next, cpu, sv, sv_next>>,
         sv = "scan" => UNCHANGED task_count
  PROVE  Context'
<1>1. task_current \in Slots /\ task_next \in Slots
  BY DEF Base, TypeInv, TypeOK
<1>2. \A i \in Slots : Live(i)' <=> Live(i)
  BY DEF Kept
<1>3. Live(task_current)'
  BY <1>1, <1>2 DEF Steady, Orderly, Context
<1>4. sv = "restore" => Live(task_next)'
  BY <1>1, <1>2 DEF Steady, Orderly, Context
<1>5. RunsOwnContext'
  BY <1>1, <1>2 DEF Steady, Orderly, Context, RunsOwnContext, Holds, Kept
<1> QED
  BY <1>3, <1>4, <1>5 DEF Steady, Orderly, Context

\* They keep their roles, when threads stay in or out of the idle function, and
\* checked calls and calls of task_exit go on as they should.
LEMMA RolesKept ==
  ASSUME Base, Steady, \A i \in Slots : Kept(i),
         UNCHANGED <<task_current, task_next, idle_task, cpu, sv>>,
         \A t \in Stacks : pc'[t] \in Idling <=> pc[t] \in Idling,
         Targets', EndedLast'
  PROVE  Roles'
<1>1. idle_task \in Slots /\ Live(idle_task)
  BY DEF Base, TypeInv, TypeOK, Steady, Orderly, Roles, IdleAvailable
<1>2. \A i \in Slots : Live(i)' <=> Live(i)
  BY DEF Kept
<1>3. task_list[idle_task].is_idle
  BY <1>1 DEF Steady, Orderly, Roles, IdleAvailable
<1>4. RunningIsCurrent'
  BY <1>2 DEF Steady, Orderly, Roles, RunningIsCurrent, Kept
<1>5. IdleAvailable'
  <2>1. task_list'[idle_task].state \in {"READY", "RUNNING"}
    BY <1>1, <1>3 DEF Steady, Orderly, Roles, IdleAvailable, Kept
  <2>2. Live(idle_task)'
    BY <1>1, <1>2
  <2>3. \A i \in Slots : Live(i)' => (task_list'[i].is_idle <=> i = idle_task)
    BY <1>2 DEF Steady, Orderly, Roles, IdleAvailable, Kept
  <2> QED
    BY <2>1, <2>2, <2>3 DEF Steady, Orderly, Roles, IdleAvailable
<1>6. IdleThread'
  BY <1>1 DEF Steady, Orderly, Roles, IdleThread, Kept
<1> QED
  BY <1>4, <1>5, <1>6 DEF Roles

\* A step of thread t that neither enters nor leaves the idle function and moves
\* no task.
LEMMA ThreadKept ==
  ASSUME Base, Steady, NEW t \in Stacks, OnCpu(t), \A i \in Slots : Kept(i),
         UNCHANGED <<task_current, task_next, idle_task, cpu, sv, sv_next>>,
         \A u \in Stacks \ {t} :
           pc'[u] = pc[u] \/ (pc[u] \notin Idling /\ pc'[u] = "run"),
         pc'[t] \in Idling <=> pc[t] \in Idling,
         Aimed(t)',
         task_list'[task_current].state = "ZOMBIE" => pc'[t] \in Ending
  PROVE  Context' /\ Roles'
<1>1. t = cpu /\ sv = "none"
  BY DEF OnCpu
<1>2. \A u \in Stacks \ {t} : pc'[u] \notin Critical
  BY OthersOutside, Sections DEF Base
<1>3. Targets'
  BY <1>2, Sections DEF Targets, Aimed
<1>4. EndedLast'
  BY <1>1 DEF EndedLast, Ending
<1>5. \A u \in Stacks : pc'[u] \in Idling <=> pc[u] \in Idling
  BY Sections
<1> QED
  BY <1>1, <1>3, <1>4, <1>5, ContextKept, RolesKept

\* A thread that is not in task_exit is not that of an ended task.
LEMMA CurrentAlive ==
  ASSUME Base, Steady, NEW t \in Stacks, OnCpu(t), pc[t] \notin Ending
  PROVE  task_list[task_current].state # "ZOMBIE"
  BY CurrentRuns DEF Steady, Orderly, Roles, EndedLast, Ending

\* A step that replaces the control block in slot k and moves no task.
LEMMA KeptOne ==
  ASSUME TypeInv, UNCHANGED <<task_count, gc_read, gc_write>>, NEW k, NEW tcb,
         k \in Slots => Same(tcb, task_list[k]),
         k \in Slots /\ Live(k) => /\ tcb.psp = task_list[k].psp
                                   /\ tcb.state # task_list[k].state =>
                                        ~task_list[k].is_idle /\ tcb.state # "RUNNING",
         task_list' = [task_list EXCEPT ![k] = tcb]
  PROVE  \A i \in Slots : Kept(i)
<1> SUFFICES ASSUME NEW i \in Slots PROVE Kept(i)
  OBVIOUS
<1>1. i # k => task_list'[i] = task_list[i]
  BY DEF TypeInv, TypeOK
<1>2. i = k => task_list'[i] = tcb
  BY DEF TypeInv, TypeOK
<1>3. Live(i)' <=> Live(i)
  BY <1>1, <1>2 DEF Live, Same
<1> QED
  BY <1>1, <1>2, <1>3 DEF Kept, Same

LEMMA KeptNone ==
  ASSUME UNCHANGED <<task_list, task_count, gc_read, gc_write>>
  PROVE  \A i \in Slots : Kept(i)
  BY DEF Kept, Live

LEMMA KeptAhead ==
  ASSUME UNCHANGED <<task_count, gc_read, gc_write>>,
         \A i \in Slots : i < task_count => task_list'[i] = task_list[i]
  PROVE  \A i \in Slots : Kept(i)
  BY DEF Kept, Live

-----------------------------------------------------------------------------
(* The steps of a thread, one lemma for each call.                          *)

\* A call that has checked nothing has no target.
LEMMA Aimless ==
  ASSUME NEW t \in Stacks,
         pc'[t] \notin {"delete_mark", "delete_clear", "block_set", "unblock_set"}
  PROVE  Aimed(t)'
  BY DEF Aimed

\* task_create writes behind the last task until it counts the new one.
LEMMA CreatesAhead ==
  ASSUME Base, Layout, NEW t \in Stacks,
         CreateCheck(t) \/ CreateFind(t) \/ CreateAlloc(t) \/ CreateFail(t) \/ Fills(t)
  PROVE  \A i \in Slots : i < task_count => task_list'[i] = task_list[i]
<1> USE DEF table
<1>1. CASE CreateCheck(t) \/ CreateFind(t) \/ CreateFail(t)
  BY <1>1 DEF CreateCheck, CreateFind, CreateFail
<1>2. CASE CreateAlloc(t)
  <2>1. loc[t].slot = task_count
    BY <1>2 DEF CreateAlloc, At, Layout, Creations, Creating
  <2>2. PICK block : task_list' = [task_list EXCEPT ![loc[t].slot].stack_ptr = block]
    BY <1>2 DEF CreateAlloc
  <2> QED
    BY <2>1, <2>2 DEF Base, TypeInv, TypeOK, Slots
<1>3. CASE Fills(t)
  <2>1. \A i \in Slots : i # task_count => task_list'[i] = task_list[i]
    BY <1>3, FillsSlot
  <2> QED
    BY <2>1 DEF Base, TypeInv, TypeOK, Slots
<1> QED
  BY <1>1, <1>2, <1>3

\* The block of a new stack is not the idle task's.
LEMMA NotIdleBlock ==
  ASSUME Base, Steady, NEW t \in Stacks, Holding(t), NEW u \in Stacks, u = loc[t].block
  PROVE  pc[u] \notin Idling
<1>1. ~HasTcb(loc[t].block)
  BY DEF Steady, Orderly, Layout, Creations
<1>2. HasTcb(task_list[idle_task].stack_ptr)
  BY DEF Base, TypeInv, TypeOK, Steady, Orderly, Roles, IdleAvailable, HasTcb, Holds
<1> QED
  BY <1>1, <1>2 DEF Steady, Orderly, Roles, IdleThread

LEMMA OrderCreate ==
  ASSUME Base, Steady, InBounds, NEW t \in Stacks,
         CreateCheck(t) \/ CreateFind(t) \/ CreateAlloc(t) \/ CreateFail(t) \/ Fills(t)
  PROVE  Orderly'
<1> USE DEF table, ptrs, switch, gc
<1>0. Layout
  BY DEF Steady, Orderly
<1>1. /\ OnCpu(t)
      /\ UNCHANGED <<task_count, task_current, task_next, idle_task, cpu, sv, sv_next, gc_read, gc_write>>
  BY <1>0, FillsSlot DEF CreateCheck, CreateFind, CreateAlloc, CreateFail, At
<1>2. pc[t] \in Filling \union {"run", "create_find", "create_alloc"}
  BY <1>0, FillsSlot DEF CreateCheck, CreateFind, CreateAlloc, CreateFail, At, Holding
<1>3. pc[t] \notin Idling /\ pc[t] \notin Compacting /\ pc[t] \notin Ending
  BY <1>2, Sections DEF Ending, Filling
<1>4. task_list[task_current].state # "ZOMBIE" /\ task_current \in Slots /\ Live(task_current)
  BY <1>1, <1>3, CurrentAlive DEF Base, TypeInv, TypeOK, Steady, Orderly, Context
<1>5. /\ \A u \in Stacks \ {t} :
           pc'[u] = pc[u] \/ (pc[u] \notin Idling /\ pc'[u] = "run")
      /\ pc'[t] \in Filling \union {"run", "create_find", "create_alloc"}
  <2>1. CASE ~Fills(t)
    BY <2>1 DEF CreateCheck, CreateFind, CreateAlloc, CreateFail, Return, Goto, Base, ExclusionInv,
                Filling
  <2>2. CASE Fills(t)
    <3>1. Holding(t) /\ pc'[t] \in Filling
      BY <1>0, <2>2, FillsSlot
    <3>2. \A u \in Stacks \ {t} : pc'[u] = pc[u] \/ (u = loc[t].block /\ pc'[u] = "run")
      BY <1>0, <2>2, FillsSlot
    <3> QED
      BY <3>1, <3>2, NotIdleBlock
  <2> QED
    BY <2>1, <2>2
<1>6. pc'[t] \notin Idling /\ Aimed(t)'
  BY <1>5, Sections, Aimless DEF Filling
<1>7. \A i \in Slots : i < task_count => task_list'[i] = task_list[i]
  BY <1>0, CreatesAhead
<1>8. (\A i \in Slots : Kept(i)) /\ task_list'[task_current].state # "ZOMBIE"
  BY <1>1, <1>4, <1>7, KeptAhead DEF Live
<1>9. Context' /\ Roles'
  BY <1>1, <1>3, <1>5, <1>6, <1>8, ThreadKept
<1>10. Layout'
  <2>1. CASE CreateCheck(t) \/ CreateFail(t)
    <3>1. Relabel
      BY <2>1, RelabelNone DEF CreateCheck, CreateFail
    <3>2. pc'[t] \in {"run", "create_find"} /\ \A u \in Stacks \ {t} : pc'[u] = pc[u]
      BY <2>1 DEF CreateCheck, CreateFail, Return, Goto, Base, ExclusionInv
    <3>3. pc[t] \in {"run", "create_alloc"}
      BY <2>1 DEF CreateCheck, CreateFail, At
    <3>4. ~Holding(t) /\ ~Creating(t)' /\ pc'[t] # "gc_clear"
      BY <3>2, <3>3 DEF Holding, Creating, Filling
    <3> QED
      BY <1>0, <1>1, <1>3, <3>1, <3>2, <3>4, LayoutThread
  <2> QED
    BY <1>0, <2>1, LayoutCreateFind, LayoutCreateAlloc, LayoutFills
<1> QED
  BY <1>9, <1>10 DEF Orderly

\* A creation ends: the slot at the end of the table becomes a task.
LEMMA OrderCommit ==
  ASSUME Base, Steady, InBounds, NEW t \in Stacks, CreateCommit(t)
  PROVE  Orderly'
<1> USE DEF ptrs, switch, gc
<1>0. Layout
  BY DEF Steady, Orderly
<1>1. OnCpu(t) /\ pc[t] = "create_commit" /\ Holding(t) /\ Creating(t) /\ pc[t] \notin Ending
  BY DEF CreateCommit, At, Holding, Creating, Filling, Ending
<1>2. /\ Settled /\ loc[t].slot = task_count /\ task_count \in Nat
      /\ \A u \in Stacks : pc[u] \notin Compacting
  BY <1>0, <1>1, AloneCreating
<1>3. /\ task_count' = task_count + 1
      /\ UNCHANGED <<task_list, task_current, task_next, idle_task, cpu, sv, sv_next,
                     gc_read, gc_write>>
  BY <1>2 DEF CreateCommit
<1>4. /\ pc'[t] = "run"
      /\ \A u \in Stacks \ {t} : pc'[u] = pc[u] /\ pc[u] \notin Critical
  BY <1>1, OthersOutside DEF CreateCommit, Return, Goto, Base, ExclusionInv
<1>5. task_count \in Slots => /\ task_list[task_count].state = "READY"
                              /\ task_list[task_count].psp = task_list[task_count].stack_ptr
                              /\ ~task_list[task_count].is_idle
  <2>1. task_count \in Slots => task_count < MAX_TASKS
    BY TableAssumption DEF Slots
  <2>2. task_count < MAX_TASKS => Filled(t)
    BY <1>0, <1>1 DEF Layout, Creations
  <2>3. task_count \in Slots => ~task_list[task_count].is_idle
    <3>1. \A u \in Stacks : pc[u] # "gc_clear"
      BY <1>2 DEF Compacting
    <3> QED
      BY <1>0, <1>2, <3>1 DEF Layout, Behind
  <2> QED
    BY <1>1, <2>1, <2>2, <2>3 DEF Filled
<1>6. /\ t = cpu /\ sv = "none" /\ task_current \in Slots
      /\ task_list[task_current].state # "ZOMBIE"
  BY <1>1, CurrentRuns, CurrentAlive DEF Base, TypeInv, TypeOK
<1>7. \A i \in Slots : Live(i)' <=> Live(i) \/ i = task_count
  <2>1. \A i \in Slots : i < task_count' <=> i < task_count \/ i = task_count
    BY <1>2, <1>3, TableAssumption DEF Slots
  <2> QED
    BY <1>2, <1>3, <1>5, <2>1 DEF Live, Settled, Slots
<1>8. ~Live(task_count)
  BY <1>2 DEF Live
<1>9. /\ task_current # task_count /\ idle_task # task_count
      /\ idle_task \in Slots /\ Live(idle_task)
  BY <1>8 DEF Steady, Orderly, Context, Roles, IdleAvailable, Base, TypeInv, TypeOK
<1>10. Context'
  <2>1. RunsOwnContext'
    BY <1>3, <1>5, <1>6, <1>7, <1>9 DEF Steady, Orderly, Context, RunsOwnContext, Holds
  <2> QED
    BY <1>3, <1>6, <1>7, <2>1 DEF Steady, Orderly, Context
<1>11. Roles'
  <2>1. RunningIsCurrent'
    BY <1>3, <1>5, <1>7 DEF Steady, Orderly, Roles, RunningIsCurrent
  <2>2. IdleAvailable'
    BY <1>3, <1>5, <1>7, <1>9 DEF Steady, Orderly, Roles, IdleAvailable
  <2>3. IdleThread'
    <3>1. pc[t] \notin Idling /\ pc'[t] \notin Idling
      BY <1>1, <1>4, Sections DEF Holding
    <3> QED
      BY <1>3, <1>4, <3>1 DEF Steady, Orderly, Roles, IdleThread
  <2>4. Targets'
    BY <1>4, Sections DEF Targets, Aimed
  <2>5. EndedLast'
    BY <1>3, <1>6 DEF EndedLast
  <2> QED
    BY <2>1, <2>2, <2>3, <2>4, <2>5 DEF Roles
<1> QED
  BY <1>0, <1>10, <1>11, LayoutCreateCommit DEF Orderly

\* A step of a thread outside its creations and the idle function that replaces
\* one control block by one of the same task, not RUNNING when it was not.
LEMMA ThreadOne ==
  ASSUME Base, Steady, NEW t \in Stacks, OnCpu(t), pc[t] \notin Idling, ~Holding(t),
         UNCHANGED <<task_count, task_current, task_next, idle_task, heap, cpu, sv, sv_next,
                     gc_read, gc_write>>,
         NEW label \in {"run", "yield", "self_check", "delete_clear", "exit_clear", "exited"},
         pc' = [pc EXCEPT ![t] = label], Aimed(t)',
         NEW k \in Slots, NEW tcb,
         task_list' = [task_list EXCEPT ![k] = tcb],
         Same(tcb, task_list[k]),
         tcb.psp = task_list[k].psp,
         Live(k) /\ tcb.state # task_list[k].state =>
           ~task_list[k].is_idle /\ tcb.state # "RUNNING",
         tcb.state = "ZOMBIE" /\ k = task_current => label \in Ending,
         pc[t] \in Ending => label \in Ending
  PROVE  Orderly'
<1>1. Relabel
  BY RelabelOne DEF Base
<1>2. \A i \in Slots : Kept(i)
  BY KeptOne DEF Base
<1>3. pc'[t] = label /\ \A u \in Stacks \ {t} : pc'[u] = pc[u]
  BY DEF Base, ExclusionInv
<1>4. pc'[t] \notin Idling /\ ~Creating(t)' /\ pc'[t] # "gc_clear" /\ pc[t] \notin Compacting
  BY <1>3 DEF Idling, Compacting, Following, Creating, Holding, Filling
<1>5. task_list'[task_current].state = "ZOMBIE" => pc'[t] \in Ending
  <2>1. task_list[task_current].state = "ZOMBIE" => pc[t] \in Ending
    BY CurrentAlive
  <2> QED
    BY <1>3, <2>1 DEF Base, TypeInv, TypeOK
<1>6. Layout'
  BY <1>1, <1>3, <1>4, LayoutThread DEF Steady, Orderly
<1>7. Context' /\ Roles'
  BY <1>2, <1>3, <1>4, <1>5, ThreadKept
<1> QED
  BY <1>6, <1>7 DEF Orderly

\* A step of such a thread, or into compaction, that replaces none.
LEMMA ThreadNone ==
  ASSUME Base, Steady, NEW t \in Stacks, OnCpu(t), pc[t] \notin Compacting, ~Holding(t),
         UNCHANGED <<task_list, task_count, task_current, task_next, idle_task, heap, cpu, sv,
                     sv_next, gc_read, gc_write>>,
         NEW label \in Labels, pc' = [pc EXCEPT ![t] = label], Aimed(t)',
         label \notin Filling \union {"create_alloc", "gc_clear"},
         label \in Idling <=> pc[t] = "idle",
         pc[t] \in Ending => label \in Ending
  PROVE  Orderly'
<1>1. Relabel /\ \A i \in Slots : Kept(i)
  BY RelabelNone, KeptNone
<1>2. pc'[t] = label /\ \A u \in Stacks \ {t} : pc'[u] = pc[u]
  BY DEF Base, ExclusionInv
<1>3. ~Creating(t)' /\ (pc[t] \in Idling <=> pc[t] = "idle")
  BY <1>2 DEF Creating, Holding, Idling
<1>4. task_list'[task_current].state = "ZOMBIE" => pc'[t] \in Ending
  BY <1>2, CurrentAlive
<1>5. Layout'
  BY <1>1, <1>2, <1>3, LayoutThread DEF Steady, Orderly
<1>6. Context' /\ Roles'
  BY <1>1, <1>2, <1>3, <1>4, ThreadKept
<1> QED
  BY <1>5, <1>6 DEF Orderly

\* Such a step gives a task that is not the idle task a new state.
LEMMA ThreadState ==
  ASSUME Base, Steady, NEW t \in Stacks, OnCpu(t), pc[t] \notin Idling, ~Holding(t),
         UNCHANGED <<task_count, task_current, task_next, idle_task, heap, cpu, sv, sv_next,
                     gc_read, gc_write>>,
         NEW label \in {"run", "yield", "delete_clear", "exit_clear"},
         pc' = [pc EXCEPT ![t] = label], Aimed(t)',
         NEW k \in Slots, NEW state \in States \ {"UNUSED", "RUNNING"},
         task_list' = [task_list EXCEPT ![k].state = state],
         task_list[k].state # "UNUSED", ~task_list[k].is_idle,
         state = "ZOMBIE" /\ k = task_current => label \in Ending,
         pc[t] \in Ending => label \in Ending
  PROVE  Orderly'
<1> DEFINE tcb == [task_list[k] EXCEPT !.state = state]
<1>1. task_list[k] \in Tcbs
  BY DEF Base, TypeInv, TypeOK
<1>2. tcb.state = state /\ tcb.psp = task_list[k].psp
  BY <1>1 DEF Tcbs
<1>3. Same(tcb, task_list[k])
  BY <1>1, SameTask
<1>4. task_list' = [task_list EXCEPT ![k] = tcb]
  OBVIOUS
<1> HIDE DEF tcb
<1> QED
  BY <1>2, <1>3, <1>4, ThreadOne

\* Such a step stores an id or a wake-up time.
LEMMA ThreadField ==
  ASSUME Base, Steady, NEW t \in Stacks, OnCpu(t), pc[t] \notin Idling, ~Holding(t),
         UNCHANGED <<task_count, task_current, task_next, idle_task, heap, cpu, sv, sv_next,
                     gc_read, gc_write>>,
         NEW label \in {"run", "self_check", "exited"},
         pc' = [pc EXCEPT ![t] = label],
         NEW k \in Slots, NEW n,
         \/ task_list' = [task_list EXCEPT ![k].task_id = n]
         \/ task_list' = [task_list EXCEPT ![k].sleep_until_tick = n],
         pc[t] \in Ending => label \in Ending
  PROVE  Orderly'
<1>1. task_list[k] \in Tcbs
  BY DEF Base, TypeInv, TypeOK
<1>2. PICK tcb \in {[task_list[k] EXCEPT !.task_id = n], [task_list[k] EXCEPT !.sleep_until_tick = n]} :
        task_list' = [task_list EXCEPT ![k] = tcb]
  OBVIOUS
<1>3. tcb.state = task_list[k].state /\ tcb.psp = task_list[k].psp
  BY <1>1, <1>2 DEF Tcbs
<1>4. Same(tcb, task_list[k])
  BY <1>1, <1>2 DEF Same, Tcbs
<1>5. Aimed(t)'
  <2>1. pc'[t] = label
    BY DEF Base, ExclusionInv
  <2> QED
    BY <2>1, Aimless
<1>6. tcb.state = "ZOMBIE" /\ k = task_current => label \in Ending
  BY <1>3, CurrentAlive
<1> QED
  BY <1>2, <1>3, <1>4, <1>5, <1>6, ThreadOne

LEMMA OrderDelete ==
  ASSUME Base, Steady, InBounds, NEW t \in Stacks,
         DeleteMark(t) \/ DeleteClear(t) \/ \E id \in 0 .. MAX_ID : DeleteFind(t, id)
  PROVE  Orderly'
<1> USE DEF table, ptrs, switch, gc
<1>1. CASE \E id \in 0 .. MAX_ID : DeleteFind(t, id)
  <2>1. PICK id \in 0 .. MAX_ID : DeleteFind(t, id)
    BY <1>1
  <2>2. PICK i \in Slots : HasId(i, id) /\ Deletable(i) /\ loc' = [loc EXCEPT ![t].slot = i]
    BY <2>1 DEF DeleteFind
  <2>3. /\ OnCpu(t) /\ pc[t] = "run" /\ pc' = [pc EXCEPT ![t] = "delete_mark"]
        /\ UNCHANGED <<task_list, task_count, heap, gc_read, gc_write, task_current, task_next,
                       idle_task, cpu, sv, sv_next>>
    BY <2>1 DEF DeleteFind, At, Goto
  <2>4. pc'[t] = "delete_mark" /\ loc'[t].slot = i
    BY <2>2, <2>3 DEF Base, TypeInv, TypeOK
  <2>5. Aimed(t)'
    BY <2>2, <2>3, <2>4 DEF Aimed, Deletable, HasId
  <2>6. /\ "delete_mark" \in Labels /\ "delete_mark" \notin Filling \union {"create_alloc", "gc_clear"}
        /\ "delete_mark" \notin Idling /\ pc[t] \notin Ending \union Compacting /\ ~Holding(t)
    BY <2>3, Sections DEF Labels, Critical, Filling, Idling, Compacting, Following, Ending, Holding
  <2> QED
    BY <2>3, <2>5, <2>6, ThreadNone
<1>2. CASE DeleteMark(t) \/ DeleteClear(t)
  <2>1. OnCpu(t) /\ pc[t] \in {"delete_mark", "delete_clear"}
    BY <1>2 DEF DeleteMark, DeleteClear, At
  <2>2. pc[t] \notin Idling /\ pc[t] \notin Compacting /\ pc[t] \notin Ending /\ ~Holding(t)
    BY <2>1 DEF Idling, Compacting, Following, Ending, Holding, Filling
  <2>3. Settled
    BY <2>1, <2>2, SettledOutside DEF Base, Steady, Orderly, Layout
  <2>4. /\ loc[t].slot < task_count
        /\ ~task_list[loc[t].slot].is_idle /\ loc[t].slot # task_current
    BY <2>1 DEF Steady, Orderly, Roles, Targets, Aimed
  <2>5. loc[t].slot \in Slots /\ task_list[loc[t].slot] \in Tcbs
    BY <2>4, TableAssumption DEF Base, TypeInv, TypeOK, InBounds, Slots
  <2>6. task_list[loc[t].slot].state # "UNUSED"
    BY <2>3, <2>4, <2>5, TableAssumption DEF Steady, Orderly, Layout, Compaction, InUse, Settled, Slots
  <2>7. UNCHANGED <<task_count, task_current, task_next, idle_task, heap, cpu, sv, sv_next,
                    gc_read, gc_write>>
    BY <1>2 DEF DeleteMark, DeleteClear
  <2>8. CASE DeleteMark(t)
    <3>1. /\ task_list' = [task_list EXCEPT ![loc[t].slot].state = "ZOMBIE"]
          /\ pc' = [pc EXCEPT ![t] = "delete_clear"] /\ loc' = loc
      BY <2>8 DEF DeleteMark, Goto
    <3>2. task_list'[loc[t].slot].is_idle = task_list[loc[t].slot].is_idle
      BY <2>5, <3>1 DEF Base, TypeInv, TypeOK, Tcbs
    <3>3. pc'[t] = "delete_clear"
      BY <3>1 DEF Base, ExclusionInv
    <3>4. Aimed(t)'
      BY <2>4, <2>7, <3>1, <3>2, <3>3 DEF Aimed
    <3>5. PICK k \in Slots : k = loc[t].slot
      BY <2>5
    <3>6. "ZOMBIE" \in States \ {"UNUSED", "RUNNING"}
      BY DEF States
    <3> QED
      BY <2>1, <2>2, <2>4, <2>6, <2>7, <3>1, <3>4, <3>5, <3>6, ThreadState
  <2>9. CASE DeleteClear(t)
    <3>1. /\ task_list' = [task_list EXCEPT ![loc[t].slot].task_id = 0]
          /\ pc' = [pc EXCEPT ![t] = "run"]
      BY <2>9 DEF DeleteClear, Return, Goto
    <3> QED
      BY <2>1, <2>2, <2>5, <2>7, <3>1, ThreadField
  <2> QED
    BY <1>2, <2>8, <2>9
<1> QED
  BY <1>1, <1>2

\* A call of a thread other than the idle function is about a task that is not
\* the idle task.
LEMMA CallerNotIdle ==
  ASSUME Base, Steady, NEW t \in Stacks, OnCpu(t), pc[t] \notin Idling
  PROVE  /\ task_current \in Slots /\ task_list[task_current] \in Tcbs
         /\ task_list[task_current].state # "UNUSED"
         /\ ~task_list[task_current].is_idle
  BY CurrentRuns DEF Base, TypeInv, TypeOK, Steady, Orderly, Roles, IdleAvailable, Live

LEMMA OrderExit ==
  ASSUME Base, Steady, NEW t \in Stacks, ExitMark(t) \/ ExitClear(t) \/ ExitYield(t)
  PROVE  Orderly'
<1> USE DEF table, ptrs, switch, gc, threads
<1>1. /\ OnCpu(t) /\ pc[t] \in {"run", "exit_clear", "exited"}
      /\ UNCHANGED <<task_count, task_current, task_next, idle_task, heap, cpu, sv, sv_next,
                     gc_read, gc_write>>
  BY DEF ExitMark, ExitClear, ExitYield, At
<1>2. pc[t] \notin Idling /\ pc[t] \notin Compacting /\ pc[t] # "idle" /\ ~Holding(t)
  BY <1>1 DEF Idling, Compacting, Following, Holding, Filling
<1>3. /\ task_current \in Slots /\ task_list[task_current].state # "UNUSED"
      /\ ~task_list[task_current].is_idle
  BY <1>1, <1>2, CallerNotIdle
<1>4. CASE ExitMark(t)
  <2>1. /\ task_list' = [task_list EXCEPT ![task_current].state = "ZOMBIE"]
        /\ pc' = [pc EXCEPT ![t] = "exit_clear"]
    BY <1>4 DEF ExitMark, Goto
  <2>2. Aimed(t)'
    BY <2>1, Aimless DEF Base, ExclusionInv
  <2> QED
    BY <1>1, <1>2, <1>3, <2>1, <2>2, ThreadState DEF States, Ending
<1>5. CASE ExitClear(t)
  <2>1. /\ task_list' = [task_list EXCEPT ![task_current].task_id = 0]
        /\ pc' = [pc EXCEPT ![t] = "exited"]
    BY <1>5 DEF ExitClear, Goto
  <2> QED
    BY <1>1, <1>2, <1>3, <2>1, ThreadField DEF Ending
<1>6. CASE ExitYield(t)
  <2>1. pc' = [pc EXCEPT ![t] = "exited"] /\ UNCHANGED task_list
    BY <1>6 DEF ExitYield, At, Base, ExclusionInv
  <2>2. Aimed(t)'
    BY <2>1, Aimless DEF Base, ExclusionInv
  <2>3. "exited" \in Labels /\ "exited" \notin Idling \union Filling \union {"create_alloc", "gc_clear"}
    BY Sections DEF Labels, Filling
  <2> QED
    BY <1>1, <1>2, <2>1, <2>2, <2>3, ThreadNone DEF Ending
<1> QED
  BY <1>4, <1>5, <1>6

\* The steps of a call that blocks the caller.
LEMMA OrderSelf ==
  ASSUME Base, Steady, NEW t \in Stacks,
         \/ \E n \in SleepTicks : SleepSet(t, n)
         \/ BlockCurrent(t) \/ SelfCheck(t) \/ SelfBlock(t) \/ Yield(t)
  PROVE  Orderly'
<1> USE DEF table, ptrs, switch, gc, threads
<1>1. /\ OnCpu(t) /\ pc[t] \in {"run", "self_check", "self_block", "yield"}
      /\ UNCHANGED <<task_count, task_current, task_next, idle_task, heap, cpu, sv, sv_next,
                     gc_read, gc_write>>
  BY DEF SleepSet, BlockCurrent, SelfCheck, SelfBlock, Yield, At
<1>2. /\ pc[t] \notin Idling /\ pc[t] \notin Compacting /\ pc[t] # "idle" /\ ~Holding(t)
      /\ pc[t] \notin Ending
  BY <1>1 DEF Idling, Compacting, Following, Holding, Filling, Ending
<1>3. /\ task_current \in Slots /\ task_list[task_current].state # "UNUSED"
      /\ ~task_list[task_current].is_idle
  BY <1>1, <1>2, CallerNotIdle
<1>4. CASE \E n \in SleepTicks : SleepSet(t, n)
  <2>1. PICK n \in SleepTicks : SleepSet(t, n)
    BY <1>4
  <2>2. /\ pc' = [pc EXCEPT ![t] = "self_check"]
        /\ task_list' = [task_list EXCEPT ![task_current].sleep_until_tick = WakeTime(n)]
    BY <2>1 DEF SleepSet, Goto
  <2> QED
    BY <1>1, <1>2, <1>3, <2>2, ThreadField
<1>5. CASE SelfBlock(t)
  <2>1. /\ task_list' = [task_list EXCEPT ![task_current].state = "BLOCKED"]
        /\ pc' = [pc EXCEPT ![t] = "yield"]
    BY <1>5 DEF SelfBlock, Goto
  <2>2. Aimed(t)'
    BY <2>1, Aimless DEF Base, ExclusionInv
  <2> QED
    BY <1>1, <1>2, <1>3, <2>1, <2>2, ThreadState DEF States
<1>6. CASE BlockCurrent(t) \/ SelfCheck(t) \/ Yield(t)
  <2>1. UNCHANGED task_list
    BY <1>6 DEF BlockCurrent, SelfCheck, Yield
  <2>2. PICK label \in {"self_check", "self_block", "yield", "run"} : pc' = [pc EXCEPT ![t] = label]
    BY <1>6 DEF BlockCurrent, SelfCheck, Yield, Goto
  <2>3. Aimed(t)'
    BY <2>2, Aimless DEF Base, ExclusionInv
  <2>4. label \in Labels /\ label \notin Idling \union Filling \union {"create_alloc", "gc_clear"}
    BY <2>2 DEF Labels, Critical, Idling, Compacting, Following, Filling
  <2> QED
    BY <1>1, <1>2, <2>1, <2>2, <2>3, <2>4, ThreadNone
<1> QED
  BY <1>4, <1>5, <1>6

\* The steps of a call that blocks or unblocks another task.
LEMMA OrderOther ==
  ASSUME Base, Steady, InBounds, NEW t \in Stacks,
         \/ \E i \in Slots : BlockCheck(t, i) \/ UnblockCheck(t, i)
         \/ BlockSet(t) \/ UnblockSet(t)
  PROVE  Orderly'
<1> USE DEF table, ptrs, switch, gc, threads
<1>1. /\ OnCpu(t) /\ pc[t] \in {"run", "block_set", "unblock_set"}
      /\ UNCHANGED <<task_count, task_current, task_next, idle_task, heap, cpu, sv, sv_next,
                     gc_read, gc_write>>
  BY DEF BlockCheck, UnblockCheck, BlockSet, UnblockSet, At
<1>2. /\ pc[t] \notin Idling /\ pc[t] \notin Compacting /\ pc[t] # "idle" /\ ~Holding(t)
      /\ pc[t] \notin Ending
  BY <1>1 DEF Idling, Compacting, Following, Holding, Filling, Ending
<1>3. CASE \E i \in Slots : BlockCheck(t, i) \/ UnblockCheck(t, i)
  <2>1. PICK i \in Slots : BlockCheck(t, i) \/ UnblockCheck(t, i)
    BY <1>3
  <2>2. UNCHANGED task_list /\ loc' = [loc EXCEPT ![t].slot = i]
    BY <2>1 DEF BlockCheck, UnblockCheck
  <2>3. loc'[t].slot = i
    BY <2>2 DEF Base, TypeInv, TypeOK
  <2>4. CASE BlockCheck(t, i)
    <3>1. pc' = [pc EXCEPT ![t] = "block_set"] /\ MayBlock(i) /\ Blockable(task_list[i])
      BY <2>4 DEF BlockCheck, Goto
    <3>2. pc'[t] = "block_set"
      BY <3>1 DEF Base, ExclusionInv
    <3>3. Aimed(t)'
      BY <1>1, <2>2, <2>3, <3>1, <3>2 DEF Aimed, MayBlock
    <3>4. "block_set" \in Labels /\ "block_set" \notin Idling \union Filling \union {"create_alloc", "gc_clear"}
      BY DEF Labels, Critical, Idling, Compacting, Following, Filling
    <3> QED
      BY <1>1, <1>2, <2>2, <3>1, <3>3, <3>4, ThreadNone
  <2>5. CASE UnblockCheck(t, i)
    <3>1. pc' = [pc EXCEPT ![t] = "unblock_set"] /\ MayUnblock(i) /\ task_list[i].state = "BLOCKED"
      BY <2>5 DEF UnblockCheck, Goto
    <3>2. pc'[t] = "unblock_set"
      BY <3>1 DEF Base, ExclusionInv
    <3>3. Aimed(t)'
      BY <1>1, <2>2, <2>3, <3>1, <3>2 DEF Aimed, MayUnblock
    <3>4. "unblock_set" \in Labels /\ "unblock_set" \notin Idling \union Filling \union {"create_alloc", "gc_clear"}
      BY DEF Labels, Critical, Idling, Compacting, Following, Filling
    <3> QED
      BY <1>1, <1>2, <2>2, <3>1, <3>3, <3>4, ThreadNone
  <2> QED
    BY <2>1, <2>4, <2>5
<1>4. CASE BlockSet(t) \/ UnblockSet(t)
  <2>1. pc' = [pc EXCEPT ![t] = "run"]
    BY <1>4 DEF BlockSet, UnblockSet, Return, Goto
  <2>2. Aimed(t)'
    BY <2>1, Aimless DEF Base, ExclusionInv
  <2>3. loc[t].slot < task_count /\ loc[t].slot \in Slots
    <3>1. loc[t].slot < task_count
      BY <1>4 DEF BlockSet, UnblockSet, At, Steady, Orderly, Roles, Targets, Aimed, MayBlock, MayUnblock
    <3> QED
      BY <3>1, TableAssumption DEF Base, TypeInv, TypeOK, InBounds, Slots
  <2>4. CASE BlockSet(t)
    <3>1. task_list' = [task_list EXCEPT ![loc[t].slot].state = "BLOCKED"]
      BY <2>4 DEF BlockSet
    <3>2. task_list[loc[t].slot].state # "UNUSED" /\ ~task_list[loc[t].slot].is_idle
      BY <2>4 DEF BlockSet, At, Steady, Orderly, Roles, Targets, Aimed, Blockable
    <3>3. PICK k \in Slots : k = loc[t].slot
      BY <2>3
    <3>4. "BLOCKED" \in States \ {"UNUSED", "RUNNING"}
      BY DEF States
    <3> QED
      BY <1>1, <1>2, <2>1, <2>2, <3>1, <3>2, <3>3, <3>4, ThreadState
  <2>5. CASE UnblockSet(t)
    <3>1. task_list' = [task_list EXCEPT ![loc[t].slot].state = "READY"]
      BY <2>5 DEF UnblockSet
    <3>2. task_list[loc[t].slot].state = "BLOCKED"
      BY <2>5 DEF UnblockSet, At, Steady, Orderly, Roles, Targets, Aimed
    <3>3. Live(loc[t].slot)
      <4>1. Settled
        BY <1>1, <1>2, SettledOutside DEF Base, Steady, Orderly, Layout
      <4> QED
        BY <2>3, <3>2, <4>1 DEF Live, Settled, Slots
    <3>4. ~task_list[loc[t].slot].is_idle
      BY <2>3, <3>2, <3>3 DEF Steady, Orderly, Roles, IdleAvailable
    <3>5. PICK k \in Slots : k = loc[t].slot
      BY <2>3
    <3>6. "READY" \in States \ {"UNUSED", "RUNNING"}
      BY DEF States
    <3> QED
      BY <1>1, <1>2, <2>1, <2>2, <3>1, <3>2, <3>4, <3>5, <3>6, ThreadState
  <2> QED
    BY <1>4, <2>4, <2>5
<1> QED
  BY <1>3, <1>4

-----------------------------------------------------------------------------
(* The steps of the idle task.                                              *)

LEMMA OrderGcStart ==
  ASSUME Base, Steady, NEW t \in Stacks, GcStart(t)
  PROVE  Orderly'
<1> USE DEF table, ptrs, switch
<1>1. OnCpu(t) /\ pc[t] = "idle" /\ pc' = [pc EXCEPT ![t] = "gc"]
  BY DEF GcStart, At, Goto
<1>2. pc[t] \notin Compacting /\ ~Holding(t) /\ pc[t] \notin Ending
  BY <1>1 DEF Compacting, Following, Holding, Filling, Ending
<1>3. Settled
  BY <1>1, <1>2, SettledOutside DEF Base, Steady, Orderly, Layout
<1>4. UNCHANGED <<task_list, task_count, task_current, task_next, idle_task, heap, cpu, sv,
                  sv_next, gc_read, gc_write>>
  BY <1>3 DEF GcStart, Settled
<1>5. Aimed(t)'
  BY <1>1, Aimless DEF Base, ExclusionInv
<1>6. "gc" \in Labels /\ "gc" \in Idling /\ "gc" \notin Filling \union {"create_alloc", "gc_clear"}
  BY DEF Labels, Critical, Idling, Compacting, Filling
<1> QED
  BY <1>1, <1>2, <1>4, <1>5, <1>6, ThreadNone

\* Compaction is done by the idle task, which it finds alive.
LEMMA IdleCompacts ==
  ASSUME Base, Steady, NEW t \in Stacks, OnCpu(t), pc[t] \in Compacting
  PROVE  /\ t = cpu /\ sv = "none"
         /\ task_current = idle_task /\ task_current \in Slots /\ Live(task_current)
         /\ task_list[task_current].state \in {"READY", "RUNNING"}
         /\ \A u \in Stacks \ {t} : pc[u] \notin Critical
<1>1. t = cpu /\ sv = "none" /\ task_current = idle_task /\ Live(task_current)
  BY CurrentRuns, Sections
<1>2. \A u \in Stacks \ {t} : pc[u] \notin Critical
  BY OthersOutside DEF Base
<1> QED
  BY <1>1, <1>2 DEF Steady, Orderly, Roles, IdleAvailable, Base, TypeInv, TypeOK

LEMMA OrderGcReap ==
  ASSUME Base, Steady, InBounds, NEW t \in Stacks, GcReap(t)
  PROVE  Orderly'
<1> USE DEF ptrs, switch, threads
<1>1. /\ OnCpu(t) /\ pc[t] = "gc" /\ pc[t] \in Compacting
      /\ gc_read < task_count /\ Dead(task_list[gc_read])
  BY DEF GcReap, At, Compacting
<1>2. /\ t = cpu /\ sv = "none"
      /\ task_current = idle_task /\ task_current \in Slots /\ Live(task_current)
      /\ task_list[task_current].state \in {"READY", "RUNNING"}
      /\ \A u \in Stacks \ {t} : pc[u] \notin Critical
  BY <1>1, IdleCompacts
<1>3. gc_read # task_current
  BY <1>1, <1>2 DEF Dead
<1>4. /\ UNCHANGED <<task_count, task_current, task_next, idle_task, cpu, sv, sv_next, pc,
                     gc_write>>
      /\ gc_read' = gc_read + 1
  BY DEF GcReap
<1>5. \A i \in Slots : i # gc_read => task_list'[i] = task_list[i]
  BY DEF GcReap, Base, TypeInv, TypeOK
<1>6. \A i \in Slots : Live(i)' <=> Live(i) /\ i # gc_read
  <2>1. gc_read \in Nat /\ gc_write \in Nat /\ task_count \in Nat /\ gc_write <= gc_read
    BY DEF Base, TypeInv, TypeOK
  <2>2. \A i \in Slots : InUse(i)' <=> InUse(i) /\ i # gc_read
    BY <1>1, <1>4, <2>1, TableAssumption DEF InUse, Slots
  <2> QED
    BY <1>4, <1>5, <2>2 DEF Live, InUse
<1>7. Context'
  BY <1>2, <1>3, <1>4, <1>5, <1>6 DEF Steady, Orderly, Context, RunsOwnContext, Holds
<1>8. Roles'
  <2>1. RunningIsCurrent'
    BY <1>4, <1>5, <1>6 DEF Steady, Orderly, Roles, RunningIsCurrent
  <2>2. IdleAvailable'
    BY <1>2, <1>3, <1>4, <1>5, <1>6 DEF Steady, Orderly, Roles, IdleAvailable
  <2>3. IdleThread'
    BY <1>2, <1>3, <1>4, <1>5 DEF Steady, Orderly, Roles, IdleThread
  <2>4. Targets'
    BY <1>1, <1>2, <1>4, Sections DEF Targets, Aimed
  <2>5. EndedLast'
    BY <1>2, <1>3, <1>4, <1>5 DEF EndedLast
  <2> QED
    BY <2>1, <2>2, <2>3, <2>4, <2>5 DEF Roles
<1> QED
  BY <1>7, <1>8, LayoutGcReap DEF Steady, Orderly

LEMMA OrderGcKeep ==
  ASSUME Base, Steady, InBounds, NEW t \in Stacks, GcKeep(t)
  PROVE  Orderly'
<1> USE DEF table, ptrs, switch, threads
<1>1. /\ OnCpu(t) /\ pc[t] = "gc" /\ pc[t] \in Compacting
      /\ gc_read < task_count /\ gc_read = gc_write
  BY DEF GcKeep, At, Compacting
<1>2. /\ UNCHANGED <<task_list, task_count, task_current, task_next, idle_task, heap, cpu, sv,
                     sv_next, pc, loc>>
      /\ Passes
  BY DEF GcKeep, Passes
<1>3. Layout'
  BY <1>1, <1>2, LayoutPasses DEF Steady, Orderly
<1>4. \A i \in Slots : Live(i)' <=> Live(i)
  BY <1>1, <1>2, TableAssumption DEF Live, Passes, Slots, Base, TypeInv, TypeOK
<1>5. \A i \in Slots : Kept(i)
  BY <1>2, <1>4 DEF Kept
<1>6. Aimed(t)'
  BY <1>1, <1>2, Aimless
<1>7. task_list'[task_current].state # "ZOMBIE"
  BY <1>1, <1>2, IdleCompacts
<1> QED
  BY <1>1, <1>2, <1>3, <1>5, <1>6, <1>7, ThreadKept DEF Orderly

LEMMA OrderGcCount ==
  ASSUME Base, Steady, InBounds, NEW t \in Stacks, GcCount(t) \/ GcClear(t)
  PROVE  Orderly'
<1> USE DEF ptrs, switch
<1>1. /\ OnCpu(t) /\ pc[t] \in {"gc", "gc_clear"} /\ pc'[t] \in {"gc_clear", "idle"}
      /\ \A u \in Stacks \ {t} : pc'[u] = pc[u]
      /\ \A i \in Slots : Live(i)' <=> Live(i)
      /\ \A i \in Slots : Live(i) => task_list'[i] = task_list[i]
  BY CountKeeps DEF Steady, Orderly
<1>2. pc[t] \in Compacting /\ pc[t] \in Idling /\ pc'[t] \in Idling
  BY <1>1 DEF Compacting, Idling
<1>3. /\ task_list[task_current].state \in {"READY", "RUNNING"}
      /\ task_current \in Slots /\ Live(task_current)
  BY <1>1, <1>2, IdleCompacts
<1>4. UNCHANGED <<task_current, task_next, idle_task, cpu, sv, sv_next>>
  BY DEF GcCount, GcClear
<1>5. \A i \in Slots : Kept(i)
  BY <1>1 DEF Kept
<1>6. Aimed(t)'
  BY <1>1, Aimless
<1>7. task_list'[task_current].state # "ZOMBIE"
  BY <1>1, <1>3
<1>8. Context' /\ Roles'
  BY <1>1, <1>2, <1>4, <1>5, <1>6, <1>7, ThreadKept
<1> QED
  BY <1>8, LayoutGcCount DEF Steady, Orderly

\* A move begins with the idle task current and each task in its old slot.
LEMMA HalfCopy ==
  ASSUME Base, Steady, InBounds, NEW t \in Stacks, GcCopy(t)
  PROVE  Halfway' /\ Moving'
<1> USE DEF ptrs, switch, gc
<1>1. /\ OnCpu(t) /\ pc[t] = "gc" /\ pc'[t] = "gc_current"
      /\ \A u \in Stacks \ {t} : pc'[u] = pc[u]
      /\ gc_read \in Slots /\ gc_write \in Slots
      /\ gc_write < gc_read /\ gc_read < task_count
      /\ task_list'[gc_write] = task_list[gc_read]
      /\ \A i \in Slots : i # gc_write => task_list'[i] = task_list[i]
      /\ \A i \in Slots : Live(i)' <=> Live(i)
      /\ \A i \in Slots : Live(i) => task_list'[i] = task_list[i]
  BY CopyKeeps DEF Steady, Orderly
<1>2. /\ t = cpu /\ sv = "none"
      /\ task_current = idle_task /\ task_current \in Slots /\ Live(task_current)
      /\ task_list[task_current].state \in {"READY", "RUNNING"}
      /\ \A u \in Stacks \ {t} : pc[u] \notin Critical
  BY <1>1, IdleCompacts DEF Compacting
<1>3. UNCHANGED <<task_count, gc_read, gc_write, task_current, idle_task, cpu, sv>>
  BY DEF GcCopy
<1>4. gc_read # gc_write
  BY <1>1 DEF Slots
<1>5. task_list'[gc_read] = task_list[gc_read]
  BY <1>1, <1>4
<1>6. \A i \in Slots : Live(i)' =>
       /\ task_list'[i].is_idle <=> i = idle_task
       /\ i # idle_task => /\ task_list'[i].psp = task_list'[i].stack_ptr
                           /\ task_list'[i].state # "RUNNING"
  BY <1>1, <1>2 DEF Steady, Orderly, Context, RunsOwnContext, Roles, RunningIsCurrent, IdleAvailable
<1>7. idle_task # NULL /\ Holds(idle_task, cpu)'
  BY <1>1, <1>2, <1>3 DEF Steady, Orderly, Context, RunsOwnContext, Roles, IdleAvailable, Holds
<1>8. IdleThread'
  <2>1. \A u \in Stacks : pc'[u] \in Idling <=> pc[u] \in Idling
    BY <1>1 DEF Idling, Compacting, Following
  <2> QED
    BY <1>1, <1>2, <1>3, <2>1 DEF Steady, Orderly, Roles, IdleThread
<1>9. \A u \in Stacks : pc'[u] \in Following => u = t
  BY <1>1, <1>2, Sections
<1>10. Moving'
  BY <1>1 DEF Moving, Following
<1> QED
  BY <1>1, <1>2, <1>3, <1>5, <1>6, <1>7, <1>8, <1>9, <1>10 DEF Halfway

\* It goes on with every task in its old slot,
LEMMA HalfFollow ==
  ASSUME Base, Halfway, NEW t \in Stacks, GcCurrent(t) \/ GcIndex(t) \/ GcNext(t)
  PROVE  Halfway' /\ Moving'
<1> USE DEF table, ptrs, switch, gc
<1>1. /\ OnCpu(t) /\ pc[t] \in Following
      /\ UNCHANGED <<task_list, task_count, idle_task, gc_read, gc_write, cpu, sv>>
  BY DEF GcCurrent, GcIndex, GcNext, At, Following
<1>2. /\ pc'[t] \in Following \ {"gc_current"} /\ \A u \in Stacks \ {t} : pc'[u] = pc[u]
  BY DEF GcCurrent, GcIndex, GcNext, Goto, Following, Base, ExclusionInv
<1>3. \A u \in Stacks \ {t} : pc[u] \notin Critical
  BY <1>1, OthersOutside DEF Base
<1>4. \A u \in Stacks : pc'[u] \in Following => u = t
  BY <1>2, <1>3, Sections
<1>5. task_current' = Follow(idle_task)
  <2>1. GcCurrent(t) => task_current = idle_task
    BY DEF GcCurrent, At, Halfway, Following
  <2>2. ~GcCurrent(t) => task_current = Follow(idle_task) /\ task_current' = task_current
    BY DEF GcIndex, GcNext, At, Halfway, Following
  <2> QED
    BY <2>1, <2>2 DEF GcCurrent
<1>6. \A i \in Slots : Live(i)' <=> Live(i)
  BY <1>1 DEF Live
<1>7. Holds(idle_task, cpu)'
  BY <1>1 DEF Halfway, Holds, Live
<1>8. IdleThread'
  <2>1. \A u \in Stacks : pc'[u] \in Idling <=> pc[u] \in Idling
    BY <1>1, <1>2, Sections
  <2> QED
    BY <1>1, <2>1 DEF Halfway, IdleThread
<1>9. \A u \in Stacks : pc'[u] \in Following =>
        task_current' = IF pc'[u] = "gc_current" THEN idle_task' ELSE Follow(idle_task)'
  BY <1>1, <1>2, <1>4, <1>5 DEF Follow
<1>10. Moving'
  BY <1>2 DEF Moving
<1> QED
  BY <1>1, <1>6, <1>7, <1>8, <1>9, <1>10 DEF Halfway

\* and ends with the idle task current again, wherever it is.
LEMMA OrderGcIdle ==
  ASSUME Base, Layout, Halfway, InBounds, NEW t \in Stacks, GcIdle(t)
  PROVE  Orderly' /\ ~Moving'
<1> USE DEF table, ptrs, switch
<1>1. /\ OnCpu(t) /\ pc[t] = "gc_idle" /\ pc[t] \in Following /\ pc[t] \in Compacting
      /\ sv = "none" /\ cpu = t
      /\ pc'[t] = "gc" /\ \A u \in Stacks \ {t} : pc'[u] = pc[u] /\ pc[u] \notin Critical
  <2>1. OnCpu(t) /\ pc[t] = "gc_idle"
    BY DEF GcIdle, At
  <2> QED
    BY <2>1, OthersOutside, Sections DEF GcIdle, OnCpu, Goto, Base, ExclusionInv, Following
<1>2. /\ UNCHANGED <<task_list, task_count, task_current, task_next, heap, cpu, sv, sv_next, loc>>
      /\ Passes /\ idle_task' = Follow(idle_task)
  BY DEF GcIdle, Passes
<1>3. /\ gc_read < task_count /\ task_list[gc_write] = task_list[gc_read]
      /\ idle_task \in Slots /\ Live(idle_task) /\ task_list[idle_task].stack_ptr = cpu
      /\ task_list[idle_task].state \in {"READY", "RUNNING"}
      /\ task_current = Follow(idle_task)
  BY <1>1 DEF Halfway, Holds, Base, TypeInv, TypeOK
<1>4. Layout'
  BY <1>1, <1>2, <1>3, LayoutPasses
<1>5. /\ \A i \in Slots : Live(i)' => /\ Origin(i) \in Slots /\ Live(Origin(i))
                                      /\ task_list'[i] = task_list[Origin(i)]
      /\ \A i, j \in Slots : Live(i)' /\ Live(j)' /\ i # j => Origin(i) # Origin(j)
  BY <1>2, <1>3, MoveKeeps
<1>6. PICK j \in Slots : j = Follow(idle_task) /\ Live(j)' /\ Origin(j) = idle_task
  BY <1>2, <1>3, MoveKeeps
<1>7. /\ task_current' = j /\ idle_task' = j /\ task_list'[j] = task_list[idle_task]
      /\ \A i \in Slots : Live(i)' /\ i # j => Origin(i) # idle_task
  BY <1>2, <1>3, <1>5, <1>6
<1>8. ASSUME NEW i \in Slots, Live(i)', i # j
      PROVE  /\ task_list'[i].psp = task_list'[i].stack_ptr
             /\ task_list'[i].state # "RUNNING" /\ ~task_list'[i].is_idle
  BY <1>5, <1>7, <1>8 DEF Halfway
<1>9. Context'
  <2>1. Live(task_current)'
    BY <1>6, <1>7
  <2>2. Holds(task_current, cpu)'
    BY <1>2, <1>3, <1>6, <1>7 DEF Holds
  <2>3. RunsOwnContext'
    BY <1>1, <1>2, <1>7, <1>8, <2>2 DEF RunsOwnContext
  <2> QED
    BY <1>1, <1>2, <2>1, <2>3 DEF Context
<1>10. Roles'
  <2>1. RunningIsCurrent'
    BY <1>1, <1>2, <1>7, <1>8 DEF RunningIsCurrent
  <2>2. IdleAvailable'
    <3>1. task_list'[j].is_idle
      BY <1>3, <1>7 DEF Halfway
    <3>2. j # NULL
      BY NullAssumption, TableAssumption DEF Slots
    <3> QED
      BY <1>3, <1>6, <1>7, <1>8, <3>1, <3>2 DEF IdleAvailable
  <2>3. IdleThread'
    <3>1. \A u \in Stacks : pc'[u] \in Idling <=> pc[u] \in Idling
      BY <1>1, Sections DEF Idling, Compacting
    <3> QED
      BY <1>2, <1>7, <3>1 DEF Halfway, IdleThread
  <2>4. Targets'
    BY <1>1, Sections DEF Targets, Aimed
  <2>5. EndedLast'
    BY <1>1, <1>2, <1>3, <1>7 DEF EndedLast
  <2> QED
    BY <2>1, <2>2, <2>3, <2>4, <2>5 DEF Roles
<1>11. ~Moving'
  BY <1>1, Sections DEF Moving, Following
<1> QED
  BY <1>4, <1>9, <1>10, <1>11 DEF Orderly

-----------------------------------------------------------------------------
(* The tick and the switch, outside every critical section.                 *)

\* Neither finds a move half done, a block held or a call with a target.
LEMMA AllOut ==
  ASSUME Outside, UNCHANGED <<pc, loc>>
  PROVE  /\ ~Moving
         /\ \A t \in Stacks : ~Holding(t) /\ ~Holding(t)' /\ ~Creating(t)'
         /\ \A t \in Stacks : pc[t] # "gc_clear" /\ pc'[t] # "gc_clear"
         /\ Targets'
<1>1. \A t \in Stacks : pc[t] \notin Critical /\ pc'[t] \notin Critical
  BY DEF Outside
<1>2. ~Moving
  BY <1>1, Sections DEF Moving
<1>3. Targets'
  BY <1>1, Sections DEF Targets, Aimed
<1>4. "gc_clear" \in Critical
  BY DEF Critical
<1> QED
  BY <1>1, <1>2, <1>3, <1>4, Sections DEF Holding, Creating

\* They leave Layout alone.
LEMMA LayoutSwitch ==
  ASSUME Base, Layout, Outside, UNCHANGED <<pc, loc>>, Relabel
  PROVE  Layout'
<1>1. Settled /\ task_count \in Nat
  BY SettledSwitch DEF Base, Layout, TypeInv, TypeOK
<1> QED
  BY <1>1, AllOut, LayoutRelabel

LEMMA OrderTick ==
  ASSUME Base, Steady, Outside, SysTick
  PROVE  Orderly'
<1> USE DEF ptrs, switch, threads, gc
<1>1. /\ UNCHANGED <<task_count, task_current, task_next, idle_task, heap, cpu,
                     sv, sv_next, pc, loc, gc_read, gc_write>>
      /\ systick_ticks' \in Nat
      /\ \A i \in Slots : task_list'[i] = IF i < task_count THEN WakeTcb(task_list[i], systick_ticks')
                                          ELSE task_list[i]
  BY TickAssumption DEF SysTick, Base, TypeInv, TypeOK
<1>2. \A i \in Slots : task_list[i] \in Tcbs
  BY DEF Base, TypeInv, TypeOK
<1>3. ASSUME NEW i \in Slots
      PROVE  /\ Same(task_list'[i], task_list[i]) /\ task_list'[i].psp = task_list[i].psp
             /\ task_list'[i].state # task_list[i].state =>
                  task_list[i].state = "BLOCKED" /\ task_list'[i].state = "READY"
  <2>1. /\ Same(WakeTcb(task_list[i], systick_ticks'), task_list[i])
        /\ Same(task_list[i], task_list[i])
    BY <1>1, <1>2, SameTask
  <2>2. /\ WakeTcb(task_list[i], systick_ticks').psp = task_list[i].psp
        /\ WakeTcb(task_list[i], systick_ticks').state # task_list[i].state =>
             /\ task_list[i].state = "BLOCKED"
             /\ WakeTcb(task_list[i], systick_ticks').state = "READY"
    BY <1>2 DEF WakeTcb, Expired, Tcbs
  <2> QED
    BY <1>1, <2>1, <2>2
<1>4. Relabel
  BY <1>1, <1>3 DEF Relabel
<1>5. ASSUME NEW i \in Slots PROVE Kept(i)
  <2>1. Live(i)' <=> Live(i)
    BY <1>4, RelabelLive
  <2>2. Live(i) /\ task_list[i].state = "BLOCKED" => ~task_list[i].is_idle
    BY DEF Steady, Orderly, Roles, IdleAvailable
  <2> QED
    BY <1>3, <2>1, <2>2 DEF Kept, Same
<1>6. Layout'
  BY <1>1, <1>4, LayoutSwitch DEF Steady, Orderly
<1>7. Context'
  BY <1>1, <1>5, ContextKept
<1>8. Targets'
  BY <1>1, AllOut
<1>9. EndedLast'
  BY <1>1, <1>3 DEF Steady, Orderly, Roles, EndedLast, Base, TypeInv, TypeOK
<1>10. Roles'
  BY <1>1, <1>5, <1>8, <1>9, RolesKept
<1> QED
  BY <1>6, <1>7, <1>10 DEF Orderly

\* When the scan has found no task, the idle task is READY.
LEMMA NoFallback ==
  ASSUME Base, Steady, sv = "scan"
  PROVE  IdleReady
  BY DEF Base, TypeInv, TypeOK, Steady, Orderly, Roles, IdleAvailable, RunningIsCurrent, IdleReady

LEMMA OrderSwitchOut ==
  ASSUME Base, Steady, Outside, PendSVEnter
  PROVE  Orderly'
<1> USE DEF ptrs, threads, gc
<1>1. /\ sv = "none" /\ sv' = "scan" /\ sv_next' = ScanFrom
      /\ UNCHANGED <<task_count, task_current, task_next, idle_task, heap, cpu, pc, loc,
                     gc_read, gc_write>>
      /\ task_list' = [task_list EXCEPT ![task_current] = Preempted(task_list[task_current], cpu)]
      /\ task_count > 0
  BY DEF PendSVEnter
<1>2. /\ task_current \in Slots /\ task_list[task_current] \in Tcbs /\ Live(task_current)
      /\ task_list[task_current].stack_ptr = cpu /\ cpu \in Stacks \union {NULL}
  BY <1>1 DEF Base, TypeInv, TypeOK, Steady, Orderly, Context, RunsOwnContext, Holds
<1>3. /\ Same(Preempted(task_list[task_current], cpu), task_list[task_current])
      /\ Preempted(task_list[task_current], cpu).psp = cpu
      /\ Preempted(task_list[task_current], cpu).state =
           IF task_list[task_current].state = "RUNNING" THEN "READY"
           ELSE task_list[task_current].state
  <2>1. Same(Preempted(task_list[task_current], cpu), task_list[task_current])
    BY <1>2, SameTask
  <2> QED
    BY <1>2, <2>1 DEF Preempted, Tcbs
<1>4. /\ task_list'[task_current] = Preempted(task_list[task_current], cpu)
      /\ \A i \in Slots : i # task_current => task_list'[i] = task_list[i]
  BY <1>1, <1>2 DEF Base, TypeInv, TypeOK
<1>5. Relabel
  BY <1>1, <1>3, RelabelOne DEF Base
<1>6. \A i \in Slots : Live(i)' <=> Live(i)
  BY <1>5, RelabelLive
<1>7. Layout'
  BY <1>1, <1>5, LayoutSwitch DEF Steady, Orderly
<1>8. ~Moving
  BY DEF Steady
<1>9. Context'
  <2>1. sv_next' < task_count'
    BY <1>1 DEF Base, TypeInv, TypeOK, ScanFrom, Slots
  <2>2. RunsOwnContext'
    BY <1>1, <1>2, <1>3, <1>4, <1>6, <1>8 DEF Steady, Orderly, Context, RunsOwnContext, Same
  <2> QED
    BY <1>1, <1>2, <1>6, <2>1, <2>2 DEF Context
<1>10. Roles'
  <2>0. idle_task \in Slots
    BY DEF Steady, Orderly, Roles, IdleAvailable, Base, TypeInv, TypeOK
  <2>1. RunningIsCurrent'
    BY <1>1, <1>3, <1>4, <1>6, <1>8 DEF Steady, Orderly, Roles, RunningIsCurrent
  <2>2. IdleAvailable'
    <3>1. \A i \in Slots : task_list'[i].is_idle = task_list[i].is_idle
      BY <1>5 DEF Relabel, Same
    <3> QED
      BY <1>1, <1>3, <1>4, <1>6, <1>8, <2>0, <3>1 DEF Steady, Orderly, Roles, IdleAvailable
  <2>3. IdleThread'
    BY <1>1, <1>5, <2>0 DEF Steady, Orderly, Roles, IdleThread, Relabel, Same
  <2>4. Targets'
    BY <1>1, AllOut
  <2>5. EndedLast'
    BY <1>1 DEF EndedLast
  <2> QED
    BY <2>1, <2>2, <2>3, <2>4, <2>5 DEF Roles
<1> QED
  BY <1>7, <1>9, <1>10 DEF Orderly

\* The task chosen, from the table or the idle task, is made RUNNING.
LEMMA OrderSelect ==
  ASSUME Base, Steady, Outside, sv = "scan", NEW i \in Slots, Live(i),
         task_list[i].state = "READY", Select(i)
  PROVE  Orderly'
<1> USE DEF threads, gc
<1>1. /\ task_next' = i /\ sv' = "restore"
      /\ UNCHANGED <<task_count, task_current, idle_task, heap, cpu, pc, loc, gc_read, gc_write>>
      /\ task_list' = [task_list EXCEPT ![i].state = "RUNNING"]
  BY DEF Select
<1>2. task_list[i] \in Tcbs
  BY DEF Base, TypeInv, TypeOK
<1>3. /\ task_list'[i] = [task_list[i] EXCEPT !.state = "RUNNING"]
      /\ \A j \in Slots : j # i => task_list'[j] = task_list[j]
  BY <1>1 DEF Base, TypeInv, TypeOK
<1>4. /\ task_list'[i].stack_ptr = task_list[i].stack_ptr
      /\ task_list'[i].psp = task_list[i].psp
      /\ task_list'[i].is_idle = task_list[i].is_idle
      /\ task_list'[i].state = "RUNNING"
  BY <1>2, <1>3 DEF Tcbs
<1>5. Relabel
  BY <1>1, <1>3, <1>4 DEF Relabel, Same
<1>6. \A j \in Slots : Live(j)' <=> Live(j)
  BY <1>5, RelabelLive
<1>7. Layout'
  BY <1>1, <1>5, LayoutSwitch DEF Steady, Orderly
<1>8. ~Moving
  BY DEF Steady
<1>9. Context'
  <2>1. task_current \in Slots
    BY DEF Base, TypeInv, TypeOK
  <2>2. RunsOwnContext'
    BY <1>1, <1>3, <1>4, <1>6, <1>8 DEF Steady, Orderly, Context, RunsOwnContext
  <2> QED
    BY <1>1, <1>6, <2>1, <2>2 DEF Steady, Orderly, Context
<1>10. Roles'
  <2>1. RunningIsCurrent'
    BY <1>1, <1>3, <1>6, <1>8 DEF Steady, Orderly, Roles, RunningIsCurrent
  <2>2. idle_task \in Slots
    BY DEF Steady, Orderly, Roles, IdleAvailable, Base, TypeInv, TypeOK
  <2>3. IdleAvailable'
    BY <1>1, <1>3, <1>4, <1>6, <1>8, <2>2 DEF Steady, Orderly, Roles, IdleAvailable
  <2>4. IdleThread'
    BY <1>1, <1>5, <2>2 DEF Steady, Orderly, Roles, IdleThread, Relabel, Same
  <2>5. Targets'
    BY <1>1, AllOut
  <2>6. EndedLast'
    BY <1>1, <1>4 DEF EndedLast
  <2> QED
    BY <2>1, <2>3, <2>4, <2>5, <2>6 DEF Roles
<1> QED
  BY <1>7, <1>9, <1>10 DEF Orderly

LEMMA OrderSwitchIn ==
  ASSUME Base, Steady, Outside,
         PendSVPick \/ PendSVSkip \/ PendSVIdle \/ PendSVStay \/ PendSVRestore
  PROVE  Orderly'
<1> USE DEF table, ptrs, threads, gc
<1>1. CASE PendSVPick
  <2>1. sv = "scan" /\ sv_next \in Slots /\ task_list[sv_next].state = "READY" /\ Select(sv_next)
    BY <1>1 DEF PendSVPick, Eligible, Base, TypeInv, TypeOK
  <2>2. Live(sv_next)
    <3>1. Settled
      BY SettledSwitch DEF Steady, Orderly, Layout
    <3> QED
      BY <2>1, <3>1 DEF Steady, Orderly, Context, Live, Settled, Slots
  <2> QED
    BY <2>1, <2>2, OrderSelect
<1>2. CASE PendSVIdle \/ PendSVStay
  <2>1. sv = "scan"
    BY <1>2 DEF PendSVIdle, PendSVStay
  <2>2. IdleReady /\ Select(idle_task)
    BY <1>2, <2>1, NoFallback DEF PendSVIdle, PendSVStay
  <2>3. idle_task \in Slots /\ Live(idle_task) /\ task_list[idle_task].state = "READY"
    BY <2>2 DEF IdleReady, Steady, Orderly, Roles, IdleAvailable, Base, TypeInv, TypeOK
  <2> QED
    BY <2>1, <2>2, <2>3, OrderSelect
<1>3. CASE PendSVSkip
  <2>1. /\ sv = "scan" /\ sv_next' = (sv_next + 1) % task_count
        /\ UNCHANGED <<task_list, task_count, task_current, task_next, idle_task, heap, cpu, sv,
                       pc, loc, gc_read, gc_write>>
    BY <1>3 DEF PendSVSkip
  <2>2. Layout'
    BY <2>1, RelabelNone, LayoutSwitch DEF Steady, Orderly
  <2>3. sv_next' < task_count
    BY <2>1 DEF Steady, Orderly, Context, Base, TypeInv, TypeOK, Slots
  <2>4. Context'
    BY <2>1, <2>3 DEF Steady, Orderly, Context, RunsOwnContext, Moving, Holds, Live
  <2>5. Targets'
    BY <2>1, AllOut
  <2>6. Roles'
    BY <2>1, <2>5 DEF Steady, Orderly, Roles, RunningIsCurrent, IdleAvailable, IdleThread, Moving,
                      EndedLast, Live
  <2> QED
    BY <2>2, <2>4, <2>6 DEF Orderly
<1>4. CASE PendSVRestore
  <2>1. /\ sv = "restore" /\ sv' = "none" /\ cpu' = task_list[task_next].psp
        /\ task_current' = task_next
        /\ UNCHANGED <<task_list, task_count, task_next, idle_task, heap, pc, loc, gc_read,
                       gc_write>>
    BY <1>4 DEF PendSVRestore
  <2>2. Layout'
    BY <2>1, RelabelNone, LayoutSwitch DEF Steady, Orderly
  <2>3. \A i \in Slots : Live(i)' <=> Live(i)
    BY <2>1 DEF Live
  <2>4. /\ task_next \in Slots /\ Live(task_next)
        /\ task_list[task_next].psp = task_list[task_next].stack_ptr
        /\ task_list[task_next].state # "ZOMBIE"
    BY <2>1 DEF Base, TypeInv, TypeOK, Steady, Orderly, Context, RunsOwnContext, Roles, EndedLast
  <2>5. Context'
    BY <2>1, <2>3, <2>4 DEF Steady, Orderly, Context, RunsOwnContext, Holds
  <2>6. Targets'
    BY <2>1, AllOut
  <2>7. Roles'
    <3>1. RunningIsCurrent' /\ IdleAvailable' /\ IdleThread'
      BY <2>1, <2>3 DEF Steady, Orderly, Roles, RunningIsCurrent, IdleAvailable, IdleThread, Live
    <3>2. EndedLast'
      BY <2>1, <2>4 DEF EndedLast
    <3> QED
      BY <2>6, <3>1, <3>2 DEF Roles
  <2> QED
    BY <2>2, <2>5, <2>7 DEF Orderly
<1> QED
  BY <1>1, <1>2, <1>3, <1>4

-----------------------------------------------------------------------------
(* The invariant of the calm executions, and its theorems.                  *)

\* A step of a thread, when no move is half done.
LEMMA SteadyThread ==
  ASSUME Base, Steady, InBounds, NEW t \in Stacks, ThreadContinues(t) \/ ThreadCalls(t), ~GcCopy(t)
  PROVE  Orderly'
<1>1. ~Follows(t)
  BY DEF Steady, Moving, Follows, GcCurrent, GcIndex, GcNext, GcIdle, At, Following
<1>2. CASE \/ CreateCheck(t) \/ CreateFind(t) \/ CreateAlloc(t) \/ CreateFail(t)
           \/ CreateFill(t) \/ CreateReady(t) \/ CreateId(t) \/ CreateWake(t)
  BY <1>2, OrderCreate DEF Fills
<1>3. CASE CreateCommit(t)
  BY <1>3, OrderCommit
<1>4. CASE DeleteMark(t) \/ DeleteClear(t) \/ \E id \in 0 .. MAX_ID : DeleteFind(t, id)
  BY <1>4, OrderDelete
<1>5. CASE ExitMark(t) \/ ExitClear(t) \/ ExitYield(t)
  BY <1>5, OrderExit
<1>6. CASE \/ \E n \in SleepTicks : SleepSet(t, n)
           \/ BlockCurrent(t) \/ SelfCheck(t) \/ SelfBlock(t) \/ Yield(t)
  BY <1>6, OrderSelf
<1>7. CASE \/ \E i \in Slots : BlockCheck(t, i) \/ UnblockCheck(t, i)
           \/ BlockSet(t) \/ UnblockSet(t)
  BY <1>7, OrderOther
<1>8. CASE GcStart(t)
  BY <1>8, OrderGcStart
<1>9. CASE GcReap(t) \/ GcKeep(t)
  BY <1>9, OrderGcReap, OrderGcKeep
<1>10. CASE GcCount(t) \/ GcClear(t)
  BY <1>10, OrderGcCount
<1> QED
  BY <1>1, <1>2, <1>3, <1>4, <1>5, <1>6, <1>7, <1>8, <1>9, <1>10
  DEF ThreadContinues, ThreadCalls, Follows

LEMMA KernelStep ==
  ASSUME Base, KernelInv, [CalmNext]_vars
  PROVE  KernelInv'
<1>1. CASE UNCHANGED vars
  <2> USE DEF vars, table, ptrs, switch, threads, gc
  <2>1. Layout => Layout'
    BY <1>1 DEF Layout, Compaction, OwnStacks, Creations, Behind, HeapInv, InUse, Settled, Live,
                Creating, Holding, Held, HasTcb, Holds, Filled, InBounds
  <2>2. Context => Context'
    BY <1>1 DEF Context, RunsOwnContext, Moving, Holds, Live
  <2>3. Roles => Roles'
    BY <1>1 DEF Roles, RunningIsCurrent, IdleAvailable, IdleThread, Targets, Aimed, MayBlock,
                MayUnblock, EndedLast, Moving, Live
  <2>4. Halfway => Halfway'
    BY <1>1 DEF Halfway, Holds, Live, IdleThread, Follow
  <2>5. Moving' <=> Moving
    BY <1>1 DEF Moving
  <2> QED
    BY <2>1, <2>2, <2>3, <2>4, <2>5 DEF KernelInv, Steady, Orderly
<1>2. ASSUME InBounds, Steady, NEW t \in Stacks, ThreadContinues(t) \/ ThreadCalls(t)
      PROVE  KernelInv'
  <2>1. CASE GcCopy(t)
    BY <1>2, <2>1, LayoutGcCopy, HalfCopy DEF KernelInv, Steady, Orderly
  <2>2. CASE ~GcCopy(t)
    <3>1. Orderly'
      BY <1>2, <2>2, SteadyThread
    <3>2. pc[t] \notin Following /\ pc'[t] \notin Following
      <4>1. pc[t] \notin Following
        BY <1>2 DEF Steady, Moving
      <4>2. ~Follows(t)
        BY <4>1 DEF Follows, GcCurrent, GcIndex, GcNext, GcIdle, At, Following
      <4> QED
        BY <1>2, <2>2, <4>1, <4>2, ThreadPlaces DEF Base
    <3>3. \A u \in Stacks \ {t} : pc[u] \notin Critical /\ (pc'[u] = pc[u] \/ pc'[u] = "run")
      BY <1>2, ThreadPlaces DEF Base
    <3>4. ~Moving'
      BY <3>2, <3>3, Sections DEF Moving
    <3> QED
      BY <3>1, <3>4 DEF KernelInv, Steady
  <2> QED
    BY <2>1, <2>2
<1>3. ASSUME InBounds, Moving, Layout, Halfway, NEW t \in Stacks, ThreadContinues(t) \/ ThreadCalls(t)
      PROVE  KernelInv'
  <2>1. Follows(t)
    <3>1. PICK u \in Stacks : pc[u] \in Following
      BY <1>3 DEF Moving
    <3>2. \A v \in Stacks \ {t} : pc[v] \notin Critical
      BY <1>3, ThreadPlaces DEF Base
    <3>3. pc[t] \in Following
      BY <3>1, <3>2, Sections
    <3> QED
      BY <1>3, <3>3, ThreadPlaces DEF Base
  <2>2. CASE GcCurrent(t) \/ GcIndex(t) \/ GcNext(t)
    BY <1>3, <2>2, LayoutFollow, HalfFollow DEF KernelInv
  <2>3. CASE GcIdle(t)
    BY <1>3, <2>3, OrderGcIdle DEF KernelInv, Steady
  <2> QED
    BY <2>1, <2>2, <2>3 DEF Follows
<1>4. ASSUME InBounds, Outside, PendSV \/ SysTick PROVE KernelInv'
  <2>1. ~Moving /\ ~Moving'
    BY <1>4, HandlersLeave, Sections DEF Outside, Moving
  <2>2. Steady
    BY <2>1 DEF KernelInv
  <2>3. Orderly'
    BY <1>4, <2>2, OrderSwitchOut, OrderSwitchIn, OrderTick DEF PendSV
  <2> QED
    BY <2>1, <2>3 DEF KernelInv, Steady
<1> QED
  BY <1>1, <1>2, <1>3, <1>4 DEF KernelInv, CalmNext, Threads

\* What boot leaves of each task.
LEMMA BootTable ==
  ASSUME Init
  PROVE  \E stack \in [0 .. BootCount - 1 -> Stacks] :
           /\ \A i, j \in 0 .. BootCount - 1 : stack[i] = stack[j] => i = j
           /\ heap = {stack[i] : i \in 0 .. BootCount - 1}
           /\ cpu = stack[0]
           /\ pc = [t \in Stacks |-> IF HasIdle /\ t = stack[BootCount - 1] THEN "idle" ELSE "run"]
           /\ \A i \in 0 .. BootCount - 1 :
                /\ i \in Slots /\ stack[i] \in Stacks
                /\ task_list[i].stack_ptr = stack[i] /\ task_list[i].psp = stack[i]
                /\ task_list[i].is_idle <=> i = BootTasks
                /\ task_list[i].state = IF i = 0 THEN "RUNNING" ELSE "READY"
           /\ \A i \in Slots : i >= BootCount => task_list[i] = ZeroTcb
<1>1. PICK stack \in [0 .. BootCount - 1 -> Stacks] :
        /\ \A i, j \in 0 .. BootCount - 1 : stack[i] = stack[j] => i = j
        /\ task_list = [i \in Slots |->
                          IF i < BootCount THEN BootTcb(i, stack[i]) ELSE ZeroTcb]
        /\ heap = {stack[i] : i \in 0 .. BootCount - 1}
        /\ cpu = stack[0]
        /\ pc = [t \in Stacks |-> IF HasIdle /\ t = stack[BootCount - 1] THEN "idle" ELSE "run"]
  BY DEF Init
<1>2. BootCount \in Nat /\ BootCount <= MAX_TASKS /\ MAX_TASKS \in Nat
  BY TableAssumption DEF BootCount, HasIdle
<1>3. ASSUME NEW i \in 0 .. BootCount - 1
      PROVE  /\ i \in Slots /\ stack[i] \in Stacks
             /\ task_list[i].stack_ptr = stack[i] /\ task_list[i].psp = stack[i]
             /\ task_list[i].is_idle <=> i = BootTasks
             /\ task_list[i].state = IF i = 0 THEN "RUNNING" ELSE "READY"
  <2>1. i \in Slots /\ i < BootCount /\ stack[i] \in Stacks
    BY <1>2 DEF Slots
  <2>2. task_list[i] = BootTcb(i, stack[i])
    BY <1>1, <2>1
  <2>3. /\ BootTcb(i, stack[i]).stack_ptr = stack[i] /\ BootTcb(i, stack[i]).psp = stack[i]
        /\ BootTcb(i, stack[i]).is_idle <=> i = BootTasks
        /\ BootTcb(i, stack[i]).state = IF i = 0 THEN "RUNNING" ELSE "READY"
    BY DEF BootTcb, NewTcb
  <2> QED
    BY <2>1, <2>2, <2>3
<1>4. \A i \in Slots : i >= BootCount => task_list[i] = ZeroTcb
  BY <1>1, <1>2 DEF Slots
<1> QED
  BY <1>1, <1>3, <1>4

LEMMA KernelInit ==
  ASSUME HasIdle, Init
  PROVE  KernelInv
<1>1. PICK stack \in [0 .. BootCount - 1 -> Stacks] :
           /\ \A i, j \in 0 .. BootCount - 1 : stack[i] = stack[j] => i = j
           /\ heap = {stack[i] : i \in 0 .. BootCount - 1}
           /\ cpu = stack[0]
           /\ pc = [t \in Stacks |-> IF HasIdle /\ t = stack[BootCount - 1] THEN "idle" ELSE "run"]
           /\ \A i \in 0 .. BootCount - 1 :
                /\ i \in Slots /\ stack[i] \in Stacks
                /\ task_list[i].stack_ptr = stack[i] /\ task_list[i].psp = stack[i]
                /\ task_list[i].is_idle <=> i = BootTasks
                /\ task_list[i].state = IF i = 0 THEN "RUNNING" ELSE "READY"
           /\ \A i \in Slots : i >= BootCount => task_list[i] = ZeroTcb
  BY BootTable
<1>2. /\ BootCount = BootTasks + 1 /\ BootTasks \in Nat \ {0} /\ BootCount <= MAX_TASKS
      /\ MAX_TASKS \in Nat
  BY TableAssumption DEF BootCount, HasIdle
<1>3. /\ task_count = BootCount /\ task_current = 0 /\ task_next = 0 /\ idle_task = BootTasks
      /\ sv = "none" /\ gc_read = 0 /\ gc_write = 0
  BY DEF Init
<1>4. \A i \in 0 .. BootCount - 1 :
        /\ i \in Slots /\ stack[i] \in Stacks
        /\ task_list[i].stack_ptr = stack[i] /\ task_list[i].psp = stack[i]
        /\ task_list[i].is_idle <=> i = BootTasks
        /\ task_list[i].state = IF i = 0 THEN "RUNNING" ELSE "READY"
  BY <1>1
<1>5. \A i \in Slots : Live(i) <=> i \in 0 .. BootCount - 1
  BY <1>2, <1>3, <1>4 DEF Live, Slots
<1>p. \A t \in Stacks : pc[t] \in {"idle", "run"}
  BY <1>1
<1>6. Layout
  <2>1. Compaction
    <3>1. \A t \in Stacks : pc[t] # "gc_clear"
      BY <1>p
    <3> QED
      BY <1>2, <1>3, <1>4, <1>5, <3>1 DEF Compaction, InUse, Settled, Live, Slots
  <2>2. OwnStacks
    <3>1. \A i \in Slots : Live(i) => /\ i \in 0 .. BootCount - 1
                                     /\ task_list[i].stack_ptr = stack[i] /\ stack[i] \in Stacks
      BY <1>4, <1>5
    <3>2. \A i, j \in 0 .. BootCount - 1 : stack[i] = stack[j] => i = j
      BY <1>1
    <3> QED
      BY <3>1, <3>2 DEF OwnStacks
  <2>3. Creations /\ \A t \in Stacks : ~Holding(t)
    BY <1>p, Sections DEF Creations, Creating, Holding
  <2>4. Behind
    BY <1>1, <1>3 DEF Behind, ZeroTcb
  <2>5. HeapInv
    <3>1. \A b : HasTcb(b) <=> \E i \in 0 .. BootCount - 1 : stack[i] = b
      BY <1>4, <1>5 DEF HasTcb, Holds
    <3> QED
      BY <1>1, <2>3, <3>1 DEF HeapInv, Held
  <2> QED
    BY <2>1, <2>2, <2>3, <2>4, <2>5 DEF Layout
<1>7. Context
  <2>1. 0 \in 0 .. BootCount - 1
    BY <1>2
  <2> QED
    BY <1>1, <1>3, <1>4, <1>5, <2>1 DEF Context, RunsOwnContext, Holds
<1>8. Roles
  <2>1. BootTasks \in 0 .. BootCount - 1 /\ 0 \in 0 .. BootCount - 1
    BY <1>2
  <2>2. RunningIsCurrent
    BY <1>3, <1>4, <1>5 DEF RunningIsCurrent
  <2>3. IdleAvailable
    <3>1. BootTasks # NULL
      BY <1>2, NullAssumption
    <3> QED
      BY <1>2, <1>3, <1>4, <1>5, <2>1, <3>1 DEF IdleAvailable
  <2>4. IdleThread
    <3>1. task_list[idle_task].stack_ptr = stack[BootCount - 1]
      BY <1>2, <1>3, <1>4, <2>1
    <3>2. "idle" \in Idling /\ "run" \notin Idling
      BY DEF Idling, Compacting, Following
    <3> QED
      BY <1>1, <3>1, <3>2 DEF IdleThread
  <2>5. Targets
    BY <1>p DEF Targets, Aimed
  <2>6. EndedLast
    BY <1>3, <1>4, <2>1 DEF EndedLast
  <2> QED
    BY <2>2, <2>3, <2>4, <2>5, <2>6 DEF Roles
<1>9. ~Moving
  BY <1>p DEF Moving, Following
<1> QED
  BY <1>6, <1>7, <1>8, <1>9 DEF KernelInv, Steady, Orderly

LEMMA KernelInvariant ==
  ASSUME HasIdle
  PROVE  CalmSpec => [](TypeInv /\ ExclusionInv /\ KernelInv)
<1>1. Init => TypeInv /\ ExclusionInv /\ KernelInv
  BY TypeInit, ExclusionInit, KernelInit
<1>2. TypeInv /\ ExclusionInv /\ KernelInv /\ [CalmNext]_vars
        => (TypeInv /\ ExclusionInv /\ KernelInv)'
  BY TypeStep, CalmIsNext, ExclusionStep, KernelStep DEF Base, ExclusionInv, TypeInv, TypeOK
<1> QED
  BY <1>1, <1>2, PTL DEF CalmSpec

\* In the calm executions of a kernel with an idle task, the code on the CPU is
\* that of the task the kernel calls current and every other task resumes on its
\* own stack, through every switch, creation, deletion and compaction.
\* (PendSV_Handler, task_garbage_collection)
THEOREM ContextsOwned ==
  ASSUME HasIdle
  PROVE  CalmSpec => []RunsOwnContext
<1>1. KernelInv => RunsOwnContext
  BY DEF KernelInv, Steady, Orderly, Context, RunsOwnContext
<1> QED
  BY <1>1, KernelInvariant, PTL

\* In the calm executions no two tasks are RUNNING, and the one that is is the
\* current or the chosen one.  (schedule_next_task)
THEOREM OneRuns ==
  ASSUME HasIdle
  PROVE  CalmSpec => []RunningIsCurrent
<1>1. KernelInv => RunningIsCurrent
  BY DEF KernelInv, Steady, Orderly, Roles, RunningIsCurrent
<1> QED
  BY <1>1, KernelInvariant, PTL

\* In the calm executions the idle task can always be fallen back on: nothing
\* blocks it, ends it or loses it in compaction.
\* (task_create_idle, task_delete, task_block)
THEOREM IdleStays ==
  ASSUME HasIdle
  PROVE  CalmSpec => []IdleAvailable
<1>1. KernelInv => IdleAvailable
  BY DEF KernelInv, Steady, Orderly, Roles, IdleAvailable
<1> QED
  BY <1>1, KernelInvariant, PTL

\* In the calm executions, as long as no two creations have run past the end of
\* the table, each task has a stack of its own and the blocks in use are those of
\* the tasks and of the creations under way: none is freed early or twice, none
\* is leaked, also in the middle of a compaction.
\* (task_create, task_garbage_collection)
THEOREM StacksExact ==
  ASSUME HasIdle
  PROVE  CalmSpec => [](InBounds => StacksAccounted)
<1>1. TypeInv /\ KernelInv /\ InBounds => StacksAccounted
  <2> SUFFICES ASSUME TypeInv, KernelInv, InBounds PROVE StacksAccounted
    OBVIOUS
  <2> DEFINE owned == {task_list[i].stack_ptr : i \in {j \in Slots : Live(j)}}
             held  == {loc[t].block : t \in {u \in Stacks : pc[u] \in Filling}}
  <2>0. Layout
    BY DEF KernelInv, Steady, Orderly
  <2>1. \A b : b \in owned <=> HasTcb(b)
    BY DEF HasTcb, Holds
  <2>2. \A b : b \in held <=> Held(b)
    BY DEF Held, Holding
  <2>3. /\ \A b : HasTcb(b) => b \in Stacks
        /\ \A b : Held(b) => b \in Stacks
    BY <2>0 DEF Layout, OwnStacks, Creations, HasTcb, Holds, Held
  <2>4. heap \subseteq Stacks
    BY DEF TypeInv, TypeOK
  <2>5. \A b : b \in heap <=> b \in owned \union held
    BY <2>0, <2>1, <2>2, <2>3, <2>4 DEF Layout, HeapInv
  <2>6. heap = owned \union held
    BY <2>5
  <2> QED
    BY <2>0, <2>6 DEF StacksAccounted, Layout, OwnStacks
<1> QED
  BY <1>1, KernelInvariant, PTL

-----------------------------------------------------------------------------
(* A fixed set of tasks.  Where no task is created, deleted or ended once   *)
(* the scheduler runs, the kernel keeps its pointers and contexts under     *)
(* every interleaving, whatever the sections mask: compaction finds nothing *)
(* to move, so no section relates two stores, and what a call has checked   *)
(* of a task stays true of it.                                              *)

FixedTasks == Calls \intersect {"create", "delete", "exit"} = {}
Booted     == 0 .. BootCount - 1

FixedTable ==
  /\ task_count = BootCount /\ idle_task = BootTasks
  /\ gc_read = gc_write /\ gc_read <= task_count
  /\ \A i \in Booted :
       /\ task_list[i].state \in {"READY", "RUNNING", "BLOCKED"}
       /\ task_list[i].is_idle <=> i = BootTasks
       /\ i = BootTasks => task_list[i].state # "BLOCKED"
  /\ \A i, j \in Booted : task_list[i].stack_ptr = task_list[j].stack_ptr => i = j

\* Only the idle task's thread collects; a checked task is not the idle one.
FixedThreads ==
  \A t \in Stacks :
    /\ pc[t] \in {"idle", "gc", "gc_clear", "run", "self_check", "self_block", "yield",
                  "block_set", "unblock_set"}
    /\ pc[t] \in Idling <=> t = task_list[BootTasks].stack_ptr
    /\ pc[t] \in {"block_set", "unblock_set"} => loc[t].slot \in Booted \ {BootTasks}

FixedSwitch ==
  /\ task_current \in Booted /\ task_next \in Booted
  /\ sv = "scan" => sv_next \in Booted
  /\ sv = "none" => task_list[task_current].stack_ptr = cpu
  /\ \A i \in Booted : i # task_current \/ sv # "none" => task_list[i].psp = task_list[i].stack_ptr
  /\ \A i \in Booted : task_list[i].state = "RUNNING" =>
       \/ sv = "none" /\ i = task_current
       \/ sv = "restore" /\ i = task_next
  /\ task_current_index = IF sv = "restore" THEN task_next ELSE task_current

FixedInv == FixedTable /\ FixedThreads /\ FixedSwitch

\* The slots of the tasks that boot made, the idle task's last.
LEMMA BootSlots ==
  ASSUME HasIdle
  PROVE  /\ BootCount \in Nat \ {0} /\ BootTasks \in Booted /\ 0 \in Booted
         /\ Booted \subseteq Slots
         /\ \A i \in Slots : i \in Booted <=> i < BootCount
  BY TableAssumption DEF BootCount, Booted, HasIdle, Slots

LEMMA FixedInit ==
  ASSUME HasIdle, Init
  PROVE  FixedInv
<1>1. PICK stack \in [0 .. BootCount - 1 -> Stacks] :
           /\ \A i, j \in 0 .. BootCount - 1 : stack[i] = stack[j] => i = j
           /\ cpu = stack[0]
           /\ pc = [t \in Stacks |-> IF HasIdle /\ t = stack[BootCount - 1] THEN "idle" ELSE "run"]
           /\ \A i \in 0 .. BootCount - 1 :
                /\ i \in Slots /\ stack[i] \in Stacks
                /\ task_list[i].stack_ptr = stack[i] /\ task_list[i].psp = stack[i]
                /\ task_list[i].is_idle <=> i = BootTasks
                /\ task_list[i].state = IF i = 0 THEN "RUNNING" ELSE "READY"
  BY BootTable
<1>2. /\ task_count = BootCount /\ task_current = 0 /\ task_current_index = 0 /\ task_next = 0
      /\ idle_task = BootTasks /\ sv = "none" /\ gc_read = 0 /\ gc_write = 0
  BY DEF Init
<1>3. BootCount = BootTasks + 1 /\ BootTasks \in Nat
  BY TableAssumption DEF BootCount, HasIdle
<1>4. \A t \in Stacks : pc[t] \in {"idle", "run"}
  BY <1>1
<1>5. FixedTable
  BY <1>1, <1>2, <1>3 DEF FixedTable, Booted
<1>6. FixedThreads
  <2>1. task_list[BootTasks].stack_ptr = stack[BootCount - 1]
    BY <1>1, <1>3
  <2>2. "idle" \in Idling /\ "run" \notin Idling
    BY DEF Idling, Compacting, Following
  <2> QED
    BY <1>1, <1>4, <2>1, <2>2 DEF FixedThreads
<1>7. FixedSwitch
  <2>1. 0 \in Booted
    BY <1>3 DEF Booted
  <2> QED
    BY <1>1, <1>2, <2>1 DEF FixedSwitch, Booted
<1> QED
  BY <1>5, <1>6, <1>7 DEF FixedInv

\* A step that moves no pointer of the switch, makes no task RUNNING and leaves
\* the state of the idle task alone.
LEMMA FixedKeeps ==
  ASSUME HasIdle, FixedInv,
         UNCHANGED <<task_count, idle_task, task_current, task_current_index, task_next, cpu, sv, sv_next>>,
         gc_read' = gc_write', gc_read' <= task_count,
         \A i \in Booted :
           /\ task_list'[i].is_idle = task_list[i].is_idle
           /\ task_list'[i].stack_ptr = task_list[i].stack_ptr
           /\ task_list'[i].psp = task_list[i].psp
           /\ \/ task_list'[i].state = task_list[i].state
              \/ i # BootTasks /\ task_list'[i].state \in {"READY", "BLOCKED"},
         FixedThreads'
  PROVE  FixedInv'
<1>1. FixedTable'
  BY DEF FixedInv, FixedTable
<1>2. FixedSwitch'
  BY DEF FixedInv, FixedSwitch
<1> QED
  BY <1>1, <1>2 DEF FixedInv

\* Thread t goes on to label.
LEMMA FixedGoes ==
  ASSUME HasIdle, TypeInv, FixedInv, NEW t \in Stacks,
         NEW label \in {"idle", "gc", "gc_clear", "run", "self_check", "self_block", "yield",
                        "block_set", "unblock_set"},
         label \in Idling <=> pc[t] \in Idling,
         pc' = [pc EXCEPT ![t] = label],
         \A u \in Stacks \ {t} : loc'[u] = loc[u],
         label \in {"block_set", "unblock_set"} => loc'[t].slot \in Booted \ {BootTasks},
         task_list'[BootTasks].stack_ptr = task_list[BootTasks].stack_ptr
  PROVE  FixedThreads'
<1>1. pc'[t] = label /\ \A u \in Stacks \ {t} : pc'[u] = pc[u]
  BY DEF TypeInv, TypeOK
<1> QED
  BY <1>1 DEF FixedInv, FixedThreads

\* The steps of the idle task's thread: every slot it reads is kept.
LEMMA FixedIdle ==
  ASSUME HasIdle, TypeInv, FixedInv, NEW t \in Stacks,
         GcStart(t) \/ GcReap(t) \/ GcKeep(t) \/ GcCopy(t) \/ GcCount(t) \/ GcClear(t)
  PROVE  FixedInv'
<1> USE DEF table, ptrs, switch, threads, gc
<1>0. "idle" \in Idling /\ "gc" \in Idling /\ "gc_clear" \in Idling
  BY DEF Idling, Compacting
<1>1. /\ gc_read = gc_write /\ task_count = BootCount /\ gc_read \in Nat /\ gc_read <= task_count
      /\ BootCount \in Nat
  BY BootSlots DEF FixedInv, FixedTable, TypeInv, TypeOK
<1>2. gc_read < task_count => ~Dead(task_list[gc_read])
  BY <1>1 DEF FixedInv, FixedTable, Booted, Dead
<1>3. ~GcReap(t) /\ ~GcCopy(t)
  BY <1>1, <1>2 DEF GcReap, GcCopy
<1>4. CASE GcStart(t) \/ GcKeep(t) \/ GcCount(t)
  <2>1. PICK label \in {"gc", "gc_clear"} : pc' = [pc EXCEPT ![t] = label]
    BY <1>4 DEF GcStart, GcKeep, GcCount, Goto, At, TypeInv, TypeOK
  <2>2. pc[t] \in Idling /\ label \in Idling
    BY <1>0, <1>4, <2>1 DEF GcStart, GcKeep, GcCount, At
  <2>3. /\ UNCHANGED <<task_list, idle_task, task_current, task_current_index, task_next, cpu, sv,
                       sv_next, loc>>
        /\ gc_read' = gc_write' /\ gc_read' <= task_count /\ task_count' = task_count
    BY <1>1, <1>4 DEF GcStart, GcKeep, GcCount
  <2>4. FixedThreads'
    BY <2>1, <2>2, <2>3, FixedGoes
  <2> QED
    BY <2>3, <2>4, FixedKeeps
<1>5. CASE GcClear(t)
  <2>1. pc' = [pc EXCEPT ![t] = "idle"] /\ pc[t] \in Idling
    BY <1>0, <1>5 DEF GcClear, Goto, At
  <2>2. /\ UNCHANGED <<task_count, idle_task, task_current, task_current_index, task_next, cpu, sv,
                       sv_next, loc>>
        /\ gc_read' = gc_write' /\ gc_read' <= task_count
    BY <1>1, <1>5 DEF GcClear
  <2>3. \A i \in Booted : task_list'[i] = task_list[i]
    BY <1>1, <1>5, BootSlots DEF GcClear
  <2>4. FixedThreads'
    BY <1>0, <2>1, <2>2, <2>3, BootSlots, FixedGoes
  <2> QED
    BY <2>2, <2>3, <2>4, FixedKeeps
<1> QED
  BY <1>3, <1>4, <1>5

\* The calls of the other threads that the application may make.
LEMMA FixedCalls ==
  ASSUME HasIdle, TypeInv, FixedInv, NEW t \in Stacks,
         \/ \E n \in SleepTicks : SleepSet(t, n)
         \/ BlockCurrent(t) \/ SelfCheck(t) \/ SelfBlock(t) \/ Yield(t)
         \/ \E i \in Slots : BlockCheck(t, i) \/ UnblockCheck(t, i)
         \/ BlockSet(t) \/ UnblockSet(t)
  PROVE  FixedInv'
<1> USE DEF table, ptrs, switch, threads, gc
<1> DEFINE Places == {"run", "self_check", "self_block", "yield", "block_set", "unblock_set"}
<1>0. Places \intersect Idling = {}
  BY DEF Idling, Compacting, Following
<1>1. /\ UNCHANGED <<task_count, idle_task, task_current, task_current_index, task_next, cpu, sv,
                     sv_next, gc_read, gc_write>>
      /\ OnCpu(t) /\ pc[t] \in Places
  BY DEF SleepSet, BlockCurrent, SelfCheck, SelfBlock, Yield, BlockCheck, UnblockCheck, BlockSet,
         UnblockSet, At
<1>2. /\ gc_read' = gc_write' /\ gc_read' <= task_count
      /\ task_count = BootCount
  BY <1>1 DEF FixedInv, FixedTable
<1>3. task_current \in Booted \ {BootTasks}
  <2>1. task_list[task_current].stack_ptr = t /\ task_current \in Booted
    BY <1>1 DEF FixedInv, FixedSwitch, OnCpu
  <2>2. t # task_list[BootTasks].stack_ptr
    BY <1>0, <1>1 DEF FixedInv, FixedThreads
  <2> QED
    BY <2>1, <2>2
<1>4. PICK label \in Places : pc' = [pc EXCEPT ![t] = label]
  BY DEF SleepSet, BlockCurrent, SelfCheck, SelfBlock, Yield, BlockCheck, UnblockCheck, BlockSet,
         UnblockSet, Goto, Return
<1>5. \A u \in Stacks \ {t} : loc'[u] = loc[u]
  BY DEF SleepSet, BlockCurrent, SelfCheck, SelfBlock, Yield, BlockCheck, UnblockCheck, BlockSet,
         UnblockSet, Return, TypeInv, TypeOK
<1>6. label \in {"block_set", "unblock_set"} => loc'[t].slot \in Booted \ {BootTasks}
  <2>1. CASE \E i \in Slots : BlockCheck(t, i) \/ UnblockCheck(t, i)
    <3>1. PICK i \in Slots : BlockCheck(t, i) \/ UnblockCheck(t, i)
      BY <2>1
    <3>2. loc'[t].slot = i
      BY <3>1 DEF BlockCheck, UnblockCheck, TypeInv, TypeOK
    <3>3. i \in Booted
      BY <1>2, <3>1, BootSlots DEF BlockCheck, UnblockCheck, MayBlock, MayUnblock
    <3>4. i # BootTasks
      BY <3>1, <3>3 DEF BlockCheck, UnblockCheck, Blockable, FixedInv, FixedTable
    <3> QED
      BY <3>2, <3>3, <3>4
  <2>2. CASE ~\E i \in Slots : BlockCheck(t, i) \/ UnblockCheck(t, i)
    <3>1. label \notin {"block_set", "unblock_set"}
      BY <1>4, <2>2 DEF SleepSet, BlockCurrent, SelfCheck, SelfBlock, Yield, BlockSet, UnblockSet,
                        Goto, Return, TypeInv, TypeOK
    <3> QED
      BY <3>1
  <2> QED
    BY <2>1, <2>2
<1>7. \/ UNCHANGED task_list
      \/ \E n : task_list' = [task_list EXCEPT ![task_current].sleep_until_tick = n]
      \/ \E k \in Booted \ {BootTasks}, state \in {"READY", "BLOCKED"} :
           task_list' = [task_list EXCEPT ![k].state = state]
  <2>1. CASE \E n \in SleepTicks : SleepSet(t, n)
    BY <2>1 DEF SleepSet
  <2>2. CASE BlockCurrent(t) \/ SelfCheck(t) \/ Yield(t)
    BY <2>2 DEF BlockCurrent, SelfCheck, Yield
  <2>3. CASE SelfBlock(t)
    BY <1>3, <2>3 DEF SelfBlock
  <2>4. CASE \E i \in Slots : BlockCheck(t, i) \/ UnblockCheck(t, i)
    BY <2>4 DEF BlockCheck, UnblockCheck
  <2>5. CASE BlockSet(t)
    <3>1. loc[t].slot \in Booted \ {BootTasks}
      BY <2>5 DEF BlockSet, At, FixedInv, FixedThreads
    <3> QED
      BY <2>5, <3>1 DEF BlockSet
  <2>6. CASE UnblockSet(t)
    <3>1. loc[t].slot \in Booted \ {BootTasks}
      BY <2>6 DEF UnblockSet, At, FixedInv, FixedThreads
    <3> QED
      BY <2>6, <3>1 DEF UnblockSet
  <2> QED
    BY <2>1, <2>2, <2>3, <2>4, <2>5, <2>6
<1>8. ASSUME NEW i \in Booted
      PROVE  /\ task_list'[i].is_idle = task_list[i].is_idle
             /\ task_list'[i].stack_ptr = task_list[i].stack_ptr
             /\ task_list'[i].psp = task_list[i].psp
             /\ \/ task_list'[i].state = task_list[i].state
                \/ i # BootTasks /\ task_list'[i].state \in {"READY", "BLOCKED"}
  <2>1. i \in Slots
    BY BootSlots
  <2> QED
    BY <1>7, <2>1 DEF TypeInv, TypeOK, Tcbs
<1>9. FixedThreads'
  BY <1>0, <1>1, <1>4, <1>5, <1>6, <1>8, BootSlots, FixedGoes
<1> QED
  BY <1>1, <1>2, <1>8, <1>9, FixedKeeps

LEMMA FixedHandlers ==
  ASSUME HasIdle, TypeInv, FixedInv, PendSV \/ SysTick
  PROVE  FixedInv'
<1> USE DEF table, ptrs, switch, threads, gc
<1>0. UNCHANGED <<pc, loc, gc_read, gc_write, task_count, idle_task>>
  BY HandlersLeave
<1>1. \A i \in Booted : i \in Slots /\ task_list[i] \in Tcbs
  BY BootSlots DEF TypeInv, TypeOK
<1>2. task_count = BootCount /\ BootCount \in Nat \ {0} /\ BootTasks \in Booted
  BY BootSlots DEF FixedInv, FixedTable
\* The threads stay where they are.
<1>3. ASSUME task_list'[BootTasks].stack_ptr = task_list[BootTasks].stack_ptr
      PROVE  FixedThreads'
  BY <1>0, <1>3 DEF FixedInv, FixedThreads
\* The scan ends: task i is chosen.
<1>4. ASSUME sv = "scan", NEW i \in Booted, Select(i), task_list[i].state = "READY"
      PROVE  FixedInv'
  <2>1. task_list' = [task_list EXCEPT ![i].state = "RUNNING"]
    BY <1>4 DEF Select
  <2>2. \A j \in Booted :
          /\ task_list'[j].is_idle = task_list[j].is_idle
          /\ task_list'[j].stack_ptr = task_list[j].stack_ptr
          /\ task_list'[j].psp = task_list[j].psp
          /\ task_list'[j].state = IF j = i THEN "RUNNING" ELSE task_list[j].state
    BY <1>1, <2>1 DEF TypeInv, TypeOK, Tcbs
  <2>3. FixedTable'
    BY <1>0, <1>4, <2>2 DEF FixedInv, FixedTable
  <2>4. FixedSwitch'
    BY <1>4, <2>2 DEF FixedInv, FixedSwitch, Select
  <2> QED
    BY <1>2, <1>3, <2>2, <2>3, <2>4 DEF FixedInv
<1>5. CASE PendSVEnter
  <2>1. /\ sv = "none" /\ sv' = "scan" /\ sv_next' = ScanFrom
        /\ UNCHANGED <<task_current, task_current_index, task_next, cpu>>
        /\ task_list' = [task_list EXCEPT ![task_current] = Preempted(task_list[task_current], cpu)]
    BY <1>5 DEF PendSVEnter
  <2>2. task_current \in Booted /\ task_list[task_current].stack_ptr = cpu
    BY <2>1 DEF FixedInv, FixedSwitch
  <2>3. \A j \in Booted :
          /\ task_list'[j].is_idle = task_list[j].is_idle
          /\ task_list'[j].stack_ptr = task_list[j].stack_ptr
          /\ task_list'[j].psp = IF j = task_current THEN cpu ELSE task_list[j].psp
          /\ task_list'[j].state = IF j = task_current /\ task_list[j].state = "RUNNING"
                                   THEN "READY" ELSE task_list[j].state
    <3>1. \A j \in Booted : task_list'[j] = IF j = task_current
                                            THEN Preempted(task_list[j], cpu) ELSE task_list[j]
      BY <1>1, <2>1, <2>2 DEF TypeInv, TypeOK
    <3>2. ASSUME NEW tcb \in Tcbs
          PROVE  /\ Preempted(tcb, cpu).is_idle = tcb.is_idle
                 /\ Preempted(tcb, cpu).stack_ptr = tcb.stack_ptr
                 /\ Preempted(tcb, cpu).psp = cpu
                 /\ Preempted(tcb, cpu).state = IF tcb.state = "RUNNING" THEN "READY" ELSE tcb.state
      BY DEF Preempted, Tcbs
    <3> QED
      BY <1>1, <3>1, <3>2
  <2>4. FixedTable'
    BY <1>0, <2>3 DEF FixedInv, FixedTable
  <2>5. sv_next' \in Booted
    <3>1. task_current_index + 1 \in Nat
      BY DEF TypeInv, TypeOK, Slots
    <3>2. (task_current_index + 1) % task_count \in 0 .. task_count - 1
      BY <1>2, <3>1
    <3> QED
      BY <1>2, <2>1, <3>2 DEF ScanFrom, Booted
  <2>6. FixedSwitch'
    BY <2>1, <2>2, <2>3, <2>5 DEF FixedInv, FixedSwitch
  <2> QED
    BY <1>2, <1>3, <2>3, <2>4, <2>6 DEF FixedInv
<1>6. CASE PendSVPick
  BY <1>4, <1>6 DEF PendSVPick, Eligible, FixedInv, FixedSwitch
<1>7. CASE PendSVIdle \/ PendSVStay
  <2>1. sv = "scan"
    BY <1>7 DEF PendSVIdle, PendSVStay
  <2>2. idle_task = BootTasks /\ BootTasks # NULL
    BY <1>2, TableAssumption, NullAssumption DEF FixedInv, FixedTable
  <2>3. task_list[BootTasks].state = "READY"
    BY <1>2, <2>1 DEF FixedInv, FixedTable, FixedSwitch
  <2>4. Select(BootTasks)
    BY <1>7, <2>2, <2>3 DEF PendSVIdle, PendSVStay, IdleReady
  <2> QED
    BY <1>2, <1>4, <2>1, <2>3, <2>4
<1>8. CASE PendSVSkip
  <2>1. /\ sv_next' = (sv_next + 1) % task_count /\ sv = "scan"
        /\ UNCHANGED <<task_list, task_current, task_current_index, task_next, cpu, sv>>
    BY <1>8 DEF PendSVSkip
  <2>2. sv_next' \in Booted
    <3>1. sv_next + 1 \in Nat
      BY DEF TypeInv, TypeOK, Slots
    <3>2. (sv_next + 1) % task_count \in 0 .. task_count - 1
      BY <1>2, <3>1
    <3> QED
      BY <1>2, <2>1, <3>2 DEF Booted
  <2>3. FixedTable'
    BY <1>0, <2>1 DEF FixedInv, FixedTable
  <2>4. FixedSwitch'
    BY <2>1, <2>2 DEF FixedInv, FixedSwitch
  <2> QED
    BY <1>3, <2>1, <2>3, <2>4 DEF FixedInv
<1>9. CASE PendSVRestore
  <2>1. /\ sv = "restore" /\ sv' = "none" /\ cpu' = task_list[task_next].psp
        /\ task_current' = task_next
        /\ UNCHANGED <<task_list, task_next, task_current_index, sv_next>>
    BY <1>9 DEF PendSVRestore
  <2>2. FixedTable'
    BY <1>0, <2>1 DEF FixedInv, FixedTable
  <2>3. FixedSwitch'
    BY <2>1 DEF FixedInv, FixedSwitch
  <2> QED
    BY <1>3, <2>1, <2>2, <2>3 DEF FixedInv
<1>10. CASE SysTick
  <2>1. /\ UNCHANGED <<task_current, task_current_index, task_next, cpu, sv, sv_next>>
        /\ systick_ticks' \in Nat
        /\ \A i \in Booted : task_list'[i] = WakeTcb(task_list[i], systick_ticks')
    BY <1>1, <1>2, <1>10, TickAssumption, BootSlots DEF SysTick, TypeInv, TypeOK
  <2>2. ASSUME NEW i \in Booted
        PROVE  /\ task_list'[i].is_idle = task_list[i].is_idle
               /\ task_list'[i].stack_ptr = task_list[i].stack_ptr
               /\ task_list'[i].psp = task_list[i].psp
               /\ \/ task_list'[i].state = task_list[i].state
                  \/ i # BootTasks /\ task_list'[i].state \in {"READY", "BLOCKED"}
    <3>1. ASSUME NEW tcb \in Tcbs, NEW now
          PROVE  /\ WakeTcb(tcb, now).is_idle = tcb.is_idle
                 /\ WakeTcb(tcb, now).stack_ptr = tcb.stack_ptr
                 /\ WakeTcb(tcb, now).psp = tcb.psp
                 /\ \/ WakeTcb(tcb, now).state = tcb.state
                    \/ tcb.state = "BLOCKED" /\ WakeTcb(tcb, now).state = "READY"
      BY DEF WakeTcb, Expired, Tcbs
    <3>2. task_list[i].state = "BLOCKED" => i # BootTasks
      BY DEF FixedInv, FixedTable
    <3> QED
      BY <1>1, <2>1, <3>1, <3>2
  <2>3. gc_read' = gc_write' /\ gc_read' <= task_count
    BY <1>0 DEF FixedInv, FixedTable
  <2>4. FixedThreads'
    BY <1>2, <1>3, <2>2
  <2> QED
    BY <1>0, <2>1, <2>2, <2>3, <2>4, FixedKeeps
<1> QED
  BY <1>5, <1>6, <1>7, <1>8, <1>9, <1>10 DEF PendSV

LEMMA FixedStep ==
  ASSUME HasIdle, FixedTasks, TypeInv, FixedInv, [Next]_vars
  PROVE  FixedInv'
<1>1. ASSUME NEW t \in Stacks, ThreadContinues(t) \/ ThreadCalls(t) PROVE FixedInv'
  <2>1. pc[t] \in {"idle", "gc", "gc_clear", "run", "self_check", "self_block", "yield",
                   "block_set", "unblock_set"}
    BY DEF FixedInv, FixedThreads
  <2>2. ~CreateCheck(t) /\ ~ExitMark(t) /\ \A id \in 0 .. MAX_ID : ~DeleteFind(t, id)
    BY DEF FixedTasks, CreateCheck, ExitMark, DeleteFind
  <2>3. /\ ~CreateFind(t) /\ ~CreateAlloc(t) /\ ~CreateFail(t) /\ ~CreateFill(t) /\ ~CreateReady(t)
        /\ ~CreateId(t) /\ ~CreateWake(t) /\ ~CreateCommit(t) /\ ~DeleteMark(t) /\ ~DeleteClear(t)
        /\ ~ExitClear(t) /\ ~ExitYield(t)
        /\ ~GcCurrent(t) /\ ~GcIndex(t) /\ ~GcNext(t) /\ ~GcIdle(t)
    BY <2>1 DEF CreateFind, CreateAlloc, CreateFail, CreateFill, CreateReady, CreateId, CreateWake,
                CreateCommit, DeleteMark, DeleteClear, ExitClear, ExitYield, GcCurrent, GcIndex,
                GcNext, GcIdle, At
  <2> QED
    BY <1>1, <2>2, <2>3, FixedIdle, FixedCalls DEF ThreadContinues, ThreadCalls
<1>2. CASE PendSV \/ SysTick
  BY <1>2, FixedHandlers
<1>3. CASE UNCHANGED vars
  BY <1>3 DEF FixedInv, FixedTable, FixedThreads, FixedSwitch, vars, table, ptrs, switch, threads, gc
<1> QED
  BY <1>1, <1>2, <1>3 DEF Next, Threads

LEMMA FixedInvariant ==
  ASSUME HasIdle, FixedTasks
  PROVE  Spec => [](TypeInv /\ FixedInv)
<1>1. Init => TypeInv /\ FixedInv
  BY TypeInit, FixedInit
<1>2. TypeInv /\ FixedInv /\ [Next]_vars => (TypeInv /\ FixedInv)'
  BY TypeStep, FixedStep
<1> QED
  BY <1>1, <1>2, PTL DEF Spec

\* The slots that hold a task are those boot filled.
LEMMA FixedLive ==
  ASSUME HasIdle, TypeInv, FixedInv
  PROVE  \A i \in Slots : Live(i) <=> i \in Booted
  BY BootSlots DEF FixedInv, FixedTable, Live, TypeInv, TypeOK, Slots

\* Under every interleaving and with any mask, where no task is created, deleted
\* or ended once the scheduler runs, the code on the CPU is that of the task the
\* kernel calls current and every other task resumes on its own stack.
\* (PendSV_Handler; task_sleep_ticks, task_block and task_unblock cut short)
THEOREM FixedContexts ==
  ASSUME HasIdle, FixedTasks
  PROVE  Spec => []RunsOwnContext
<1>1. TypeInv /\ FixedInv => RunsOwnContext
  BY FixedLive DEF FixedInv, FixedSwitch, RunsOwnContext, Holds, TypeInv, TypeOK
<1> QED
  BY <1>1, FixedInvariant, PTL

\* Nor are two of those tasks RUNNING, or one that is neither the current nor the
\* chosen one.  (schedule_next_task)
THEOREM FixedRuns ==
  ASSUME HasIdle, FixedTasks
  PROVE  Spec => []RunningIsCurrent
<1>1. TypeInv /\ FixedInv => RunningIsCurrent
  BY FixedLive DEF FixedInv, FixedSwitch, RunningIsCurrent
<1> QED
  BY <1>1, FixedInvariant, PTL

\* And the idle task is there to fall back on: no check of task_block that another
\* task overtakes blocks it.  (task_create_idle, task_block, task_block_current)
THEOREM FixedIdleStays ==
  ASSUME HasIdle, FixedTasks
  PROVE  Spec => []IdleAvailable
<1>1. TypeInv /\ FixedInv => IdleAvailable
  <2> SUFFICES ASSUME TypeInv, FixedInv PROVE IdleAvailable
    OBVIOUS
  <2>1. idle_task = BootTasks /\ BootTasks \in Booted /\ BootTasks \in Slots /\ BootTasks # NULL
    BY BootSlots, TableAssumption, NullAssumption DEF FixedInv, FixedTable
  <2>2. \A i \in Slots : Live(i) <=> i \in Booted
    BY FixedLive
  <2> QED
    BY <2>1, <2>2 DEF FixedInv, FixedTable, IdleAvailable
<1> QED
  BY <1>1, FixedInvariant, PTL

=============================================================================
