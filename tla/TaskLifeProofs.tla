------------------------------ MODULE TaskLifeProofs ------------------------------
(***************************************************************************)
(* Theorems about sleeping, and that the kernel implements TaskLife: for   *)
(* every table size, number of stacks and set of calls short of the two    *)
(* that go wrong, task_unblock on a task that sleeps and task_block on one *)
(* that has ended, its threads live as the abstract machine says.          *)
(*                                                                         *)
(* All of it is about the calm executions (CalmSpec): a tick between the   *)
(* two stores of task_sleep_ticks, which the configured mask does not hold *)
(* off, loses the sleeper, and no theorem here says otherwise.             *)
(***************************************************************************)
EXTENDS KernelProofs

(* Sleeping: no READY task keeps a wake-up time, and no sleeper is past its *)
(* own.                                                                     *)

NoMisuse == {"unblock_sleeper", "block_zombie"} \intersect Calls = {}

\* Inside task_sleep_ticks or task_block_current.
Self == {"self_check", "self_block"}

Runnable(tcb) == tcb.state \in {"READY", "RUNNING"}

\* A task that may run has a wake-up time only inside task_sleep_ticks.
WakeTimesCleared ==
  \A i \in Slots : Live(i) /\ Runnable(task_list[i]) =>
    \/ task_list[i].sleep_until_tick = 0
    \/ sv = "none" /\ i = task_current /\ pc[cpu] \in Self

\* Elsewhere it has none.
NoneArmed ==
  \A i \in Slots : Live(i) /\ Runnable(task_list[i]) => task_list[i].sleep_until_tick = 0

Start == Base /\ KernelInv /\ WakeTimesCleared

\* The table is whole, but for the steps in which the compaction turns pointers.
LEMMA CallIsSteady ==
  ASSUME Base, KernelInv, NEW t \in Stacks, OnCpu(t), pc[t] \notin Following
  PROVE  Steady
<1>1. ~Moving
  BY OthersOutside DEF Base, Moving, Critical
<1> QED
  BY <1>1 DEF KernelInv

LEMMA RestIsSteady ==
  ASSUME KernelInv, Outside
  PROVE  Steady
<1>1. ~Moving
  BY DEF Outside, Moving, Critical
<1> QED
  BY <1>1 DEF KernelInv

LEMMA AlwaysLayout ==
  ASSUME KernelInv
  PROVE  Layout
  BY DEF KernelInv, Steady, Orderly

LEMMA ArmedInside ==
  ASSUME Start,
         \/ sv # "none" \/ Outside
         \/ \E t \in Stacks : OnCpu(t) /\ pc[t] \notin Self
  PROVE  NoneArmed
<1>1. CASE sv # "none"
  BY <1>1 DEF Start, WakeTimesCleared, NoneArmed
<1>2. CASE sv = "none" /\ Outside
  <2>1. Orderly /\ ~Moving
    BY <1>2, RestIsSteady DEF Start, Steady
  <2>2. Holds(task_current, cpu) /\ task_current \in Slots
    BY <1>2, <2>1 DEF Orderly, Context, RunsOwnContext, Start, Base, TypeInv, TypeOK
  <2>3. cpu \in Stacks
    BY <2>1, <2>2 DEF Orderly, Layout, OwnStacks, Holds
  <2>4. pc[cpu] \notin Self
    BY <1>2, <2>3 DEF Outside, Critical, Self
  <2> QED
    BY <2>4 DEF Start, WakeTimesCleared, NoneArmed
<1>3. CASE \E t \in Stacks : OnCpu(t) /\ pc[t] \notin Self
  BY <1>3 DEF OnCpu, Start, WakeTimesCleared, NoneArmed
<1> QED
  BY <1>1, <1>2, <1>3

\* What a step of a thread, other than those of the two calls that block it,
\* makes of a task: an ended one, a new or unblocked one without a wake-up time, or
\* one with the wake-up time it had, in the state it had or blocked.
Outcome(i) ==
  \/ task_list'[i].state = "ZOMBIE"
  \/ task_list'[i].state = "READY" /\ task_list'[i].sleep_until_tick = 0
  \/ \E j \in Slots :
       /\ Live(j)
       /\ task_list'[i].sleep_until_tick = task_list[j].sleep_until_tick
       /\ \/ task_list'[i].state = task_list[j].state
          \/ task_list'[i].state = "BLOCKED" /\ task_list[j].state # "ZOMBIE"

\* A store to the state of a task leaves its wake-up time, one to its id both.
LEMMA StoreKeeps ==
  ASSUME NEW tcb \in Tcbs, NEW state \in States, NEW n \in Nat
  PROVE  /\ [tcb EXCEPT !.state = state].state = state
         /\ [tcb EXCEPT !.state = state].sleep_until_tick = tcb.sleep_until_tick
         /\ [tcb EXCEPT !.task_id = n].state = tcb.state
         /\ [tcb EXCEPT !.task_id = n].sleep_until_tick = tcb.sleep_until_tick
         /\ [tcb EXCEPT !.sleep_until_tick = n].state = tcb.state
         /\ [tcb EXCEPT !.sleep_until_tick = n].sleep_until_tick = n
  BY DEF Tcbs

\* It holds of a step that replaces one control block.
LEMMA OutcomeOne ==
  ASSUME Base, UNCHANGED <<task_count, gc_read, gc_write>>,
         NEW k \in Slots, NEW tcb, task_list' = [task_list EXCEPT ![k] = tcb],
         \/ tcb.state = "ZOMBIE"
         \/ tcb.state = "READY" /\ tcb.sleep_until_tick = 0
         \/ /\ tcb.sleep_until_tick = task_list[k].sleep_until_tick
            /\ \/ tcb.state = task_list[k].state
               \/ tcb.state = "BLOCKED" /\ task_list[k].state \notin {"ZOMBIE", "UNUSED"}
  PROVE  \A i \in Slots : Live(i)' => Outcome(i)
<1> SUFFICES ASSUME NEW i \in Slots, Live(i)' PROVE Outcome(i)
  OBVIOUS
<1>1. i # k => task_list'[i] = task_list[i]
  BY DEF Base, TypeInv, TypeOK
<1>2. i = k => task_list'[i] = tcb
  BY DEF Base, TypeInv, TypeOK
<1>3. i # k => Outcome(i)
  BY <1>1 DEF Live, Outcome
<1>4. i = k => Outcome(i)
  BY <1>2 DEF Live, Outcome
<1> QED
  BY <1>3, <1>4

\* And of one that replaces none of the tasks it leaves.
LEMMA OutcomeNone ==
  ASSUME \A i \in Slots : Live(i)' => Live(i) /\ task_list'[i] = task_list[i]
  PROVE  \A i \in Slots : Live(i)' => Outcome(i)
  BY DEF Outcome

Creates(t) ==
  CreateCheck(t) \/ CreateFind(t) \/ CreateAlloc(t) \/ CreateFail(t) \/ Fills(t)

\* task_create makes one task, which joins the table at its end.
LEMMA OutcomeCreate ==
  ASSUME Start, InBounds, NEW t \in Stacks, Creates(t) \/ CreateCommit(t)
  PROVE  \A i \in Slots : Live(i)' => Outcome(i)
<1> USE DEF table, gc
<1>0. Base /\ Layout
  BY AlwaysLayout DEF Start
<1>1. CASE Creates(t)
  <2>1. UNCHANGED <<task_count, gc_read, gc_write>>
    BY <1>1 DEF Creates, CreateCheck, CreateFind, CreateAlloc, CreateFail, Fills, CreateFill,
                CreateReady, CreateId, CreateWake
  <2>2. \A i \in Slots : i < task_count => task_list'[i] = task_list[i]
    BY <1>0, <1>1, CreatesAhead DEF Creates
  <2> QED
    BY <2>1, <2>2, OutcomeNone DEF Live
<1>2. CASE CreateCommit(t)
  <2>1. pc[t] = "create_commit" /\ Creating(t) /\ Holding(t)
    BY <1>2 DEF CreateCommit, At, Creating, Holding, Filling
  <2>2. loc[t].slot = task_count
    BY <1>0, <2>1 DEF Layout, Creations
  <2>3. task_count' = task_count + 1 /\ UNCHANGED <<task_list, gc_read, gc_write>>
    BY <1>2, <2>2 DEF CreateCommit
  <2>4. task_count \in Slots =>
          task_list[task_count].state = "READY" /\ task_list[task_count].sleep_until_tick = 0
    <3>1. task_count \in Slots => task_count < MAX_TASKS
      BY TableAssumption DEF Slots
    <3>2. task_count < MAX_TASKS => Filled(t)
      BY <1>0, <2>1 DEF Layout, Creations
    <3> QED
      BY <2>1, <3>1, <3>2 DEF Filled
  <2>5. ASSUME NEW i \in Slots, Live(i)' PROVE Live(i) \/ i = task_count
    <3>1. i \in Nat /\ task_count \in Nat
      BY <1>0, TableAssumption DEF Slots, Base, TypeInv, TypeOK
    <3> QED
      BY <2>3, <2>5, <3>1 DEF Live
  <2> QED
    BY <2>3, <2>4, <2>5 DEF Outcome
<1> QED
  BY <1>1, <1>2

Compacts(t) ==
  \/ GcStart(t) \/ GcReap(t) \/ GcKeep(t) \/ GcCopy(t) \/ GcCurrent(t) \/ GcIndex(t)
  \/ GcNext(t) \/ GcIdle(t) \/ GcCount(t) \/ GcClear(t)

\* Where the read index passes a task, the task is at the write index already.
LEMMA PassesCopy ==
  ASSUME Start, NEW t \in Stacks, GcKeep(t) \/ GcIdle(t)
  PROVE  Passes /\ gc_read < task_count /\ task_list[gc_write] = task_list[gc_read]
<1>1. CASE GcKeep(t)
  BY <1>1 DEF GcKeep, Passes, table
<1>2. CASE GcIdle(t)
  <2>1. pc[t] \in Following
    BY <1>2 DEF GcIdle, At, Following
  <2>2. Halfway
    BY <2>1 DEF Start, KernelInv, Steady, Moving
  <2> QED
    BY <1>2, <2>2 DEF GcIdle, Passes, table, Halfway
<1> QED
  BY <1>1, <1>2

\* Compaction drops ended tasks and moves the others.
LEMMA OutcomeCompact ==
  ASSUME Start, InBounds, NEW t \in Stacks, Compacts(t)
  PROVE  \A i \in Slots : Live(i)' => Outcome(i)
<1> USE DEF table, gc
<1>0. Base /\ Layout
  BY AlwaysLayout DEF Start
<1>1. CASE GcStart(t)
  <2>1. OnCpu(t) /\ pc[t] \notin Compacting
    BY <1>1 DEF GcStart, At, Compacting, Following
  <2>2. Settled
    BY <1>0, <2>1, SettledOutside DEF Base, Layout
  <2> QED
    BY <1>1, <2>2, OutcomeNone DEF GcStart, Settled, Live
<1>2. CASE GcReap(t)
  <2>1. /\ gc_read' = gc_read + 1 /\ UNCHANGED <<task_count, gc_write>>
        /\ \A i \in Slots : i # gc_read => task_list'[i] = task_list[i]
    BY <1>0, <1>2 DEF GcReap, Base, TypeInv, TypeOK
  <2>2. ASSUME NEW i \in Slots, Live(i)' PROVE Live(i) /\ i # gc_read
    <3>1. i \in Nat /\ gc_read \in Nat /\ gc_write \in Nat /\ gc_write <= gc_read
      BY <1>0, TableAssumption DEF Slots, Base, TypeInv, TypeOK
    <3>2. ~(gc_write <= i /\ i < gc_read + 1)
      BY <2>1, <2>2 DEF Live
    <3>3. i # gc_read /\ ~(gc_write <= i /\ i < gc_read)
      BY <3>1, <3>2
    <3> QED
      BY <2>1, <2>2, <3>3 DEF Live
  <2> QED
    BY <2>1, <2>2, OutcomeNone
<1>3. CASE GcKeep(t) \/ GcIdle(t)
  <2>1. Passes /\ gc_read < task_count /\ task_list[gc_write] = task_list[gc_read]
    BY <1>3, PassesCopy
  <2>2. \A i \in Slots : Live(i)' => \E j \in Slots : Live(j) /\ task_list'[i] = task_list[j]
    BY <1>0, <2>1, MoveKeeps
  <2> QED
    BY <2>2 DEF Outcome
<1>4. CASE GcCopy(t)
  <2>1. \A i \in Slots : Live(i)' => Live(i) /\ task_list'[i] = task_list[i]
    BY <1>0, <1>4, CopyKeeps
  <2> QED
    BY <2>1, OutcomeNone
<1>5. CASE GcCurrent(t) \/ GcIndex(t) \/ GcNext(t)
  <2>1. UNCHANGED <<task_list, task_count, gc_read, gc_write>>
    BY <1>5 DEF GcCurrent, GcIndex, GcNext
  <2> QED
    BY <2>1, OutcomeNone DEF Live
<1>6. CASE GcCount(t) \/ GcClear(t)
  <2>1. \A i \in Slots : Live(i)' => Live(i) /\ task_list'[i] = task_list[i]
    BY <1>0, <1>6, CountKeeps
  <2> QED
    BY <2>1, OutcomeNone
<1> QED
  BY <1>1, <1>2, <1>3, <1>4, <1>5, <1>6 DEF Compacts

\* The slot a critical section works on is in the table, and nobody but the
\* section changes it.
LEMMA Targeted ==
  ASSUME Start, InBounds, NoMisuse, NEW t \in Stacks, OnCpu(t),
         pc[t] \in {"delete_mark", "delete_clear", "block_set", "unblock_set"}
  PROVE  /\ loc[t].slot \in Slots /\ loc[t].slot < task_count
         /\ task_list[loc[t].slot] \in Tcbs
         /\ pc[t] = "block_set" => task_list[loc[t].slot].state \notin {"ZOMBIE", "UNUSED"}
         /\ pc[t] = "unblock_set" => /\ task_list[loc[t].slot].state = "BLOCKED"
                                     /\ task_list[loc[t].slot].sleep_until_tick = 0
<1>1. Base /\ Steady
  BY CallIsSteady DEF Start, Following
<1>2. Aimed(t)
  BY <1>1 DEF Steady, Orderly, Roles, Targets
<1>3. loc[t].slot < task_count
  BY <1>2 DEF Aimed, MayBlock, MayUnblock
<1>4. loc[t].slot \in Nat /\ task_count \in Nat /\ task_count <= MAX_TASKS /\ MAX_TASKS \in Nat
  BY <1>1, TableAssumption DEF Base, TypeInv, TypeOK, InBounds
<1>5. loc[t].slot \in Slots
  BY <1>3, <1>4 DEF Slots
<1>6. task_list[loc[t].slot] \in Tcbs
  BY <1>1, <1>5 DEF Base, TypeInv, TypeOK
<1>7. pc[t] = "block_set" => task_list[loc[t].slot].state \notin {"ZOMBIE", "UNUSED"}
  BY <1>2 DEF Aimed, MayBlock, Blockable, NoMisuse
<1>8. pc[t] = "unblock_set" => /\ task_list[loc[t].slot].state = "BLOCKED"
                               /\ task_list[loc[t].slot].sleep_until_tick = 0
  BY <1>2 DEF Aimed, MayUnblock, NoMisuse
<1> QED
  BY <1>3, <1>5, <1>6, <1>7, <1>8

\* The calls that look, and change no task.
Looks(t) ==
  \/ ExitYield(t) \/ Yield(t)
  \/ \E id \in 0 .. MAX_ID : DeleteFind(t, id)
  \/ \E i \in Slots : BlockCheck(t, i) \/ UnblockCheck(t, i)

\* Those that store to one field of a task: which task, and what it becomes.
Stores(t) ==
  DeleteMark(t) \/ DeleteClear(t) \/ ExitMark(t) \/ ExitClear(t) \/ BlockSet(t) \/ UnblockSet(t)

Stored(t, k, tcb) ==
  /\ task_list' = [task_list EXCEPT ![k] = tcb]
  /\ \/ (DeleteMark(t) \/ ExitMark(t)) /\ tcb = [task_list[k] EXCEPT !.state = "ZOMBIE"]
     \/ (DeleteClear(t) \/ ExitClear(t)) /\ tcb = [task_list[k] EXCEPT !.task_id = 0]
     \/ /\ BlockSet(t) /\ tcb = [task_list[k] EXCEPT !.state = "BLOCKED"]
        /\ task_list[k].state \notin {"ZOMBIE", "UNUSED"}
     \/ /\ UnblockSet(t) /\ tcb = [task_list[k] EXCEPT !.state = "READY"]
        /\ task_list[k].state = "BLOCKED" /\ task_list[k].sleep_until_tick = 0

LEMMA StoresOne ==
  ASSUME Start, InBounds, NoMisuse, NEW t \in Stacks, Stores(t)
  PROVE  /\ OnCpu(t) /\ pc[t] \notin Compacting
         /\ UNCHANGED <<task_count, gc_read, gc_write, systick_ticks>>
         /\ \E k \in Slots : /\ k < task_count /\ task_list[k] \in Tcbs
                             /\ \E tcb : Stored(t, k, tcb)
<1> USE DEF gc
<1>1. /\ OnCpu(t) /\ pc[t] \notin Compacting
      /\ UNCHANGED <<task_count, gc_read, gc_write, systick_ticks>>
  BY DEF Stores, DeleteMark, DeleteClear, ExitMark, ExitClear, BlockSet, UnblockSet, At, Compacting,
         Following
<1>2. CASE DeleteMark(t) \/ DeleteClear(t) \/ BlockSet(t) \/ UnblockSet(t)
  <2>1. pc[t] \in {"delete_mark", "delete_clear", "block_set", "unblock_set"}
    BY <1>2 DEF DeleteMark, DeleteClear, BlockSet, UnblockSet, At
  <2>2. PICK k \in Slots : k = loc[t].slot
    BY <1>1, <2>1, Targeted
  <2>3. /\ k < task_count /\ task_list[k] \in Tcbs
        /\ pc[t] = "block_set" => task_list[k].state \notin {"ZOMBIE", "UNUSED"}
        /\ pc[t] = "unblock_set" => task_list[k].state = "BLOCKED" /\ task_list[k].sleep_until_tick = 0
    BY <1>1, <2>1, <2>2, Targeted
  <2>4. ASSUME NEW tcb, task_list' = [task_list EXCEPT ![k] = tcb],
               \/ DeleteMark(t) /\ tcb = [task_list[k] EXCEPT !.state = "ZOMBIE"]
               \/ DeleteClear(t) /\ tcb = [task_list[k] EXCEPT !.task_id = 0]
               \/ BlockSet(t) /\ tcb = [task_list[k] EXCEPT !.state = "BLOCKED"]
               \/ UnblockSet(t) /\ tcb = [task_list[k] EXCEPT !.state = "READY"]
        PROVE  Stored(t, k, tcb)
    BY <2>3, <2>4 DEF Stored, BlockSet, UnblockSet, At
  <2>5. CASE DeleteMark(t)
    <3>1. task_list' = [task_list EXCEPT ![k] = [task_list[k] EXCEPT !.state = "ZOMBIE"]]
      BY <2>2, <2>5 DEF DeleteMark
    <3> QED
      BY <1>1, <2>3, <2>4, <2>5, <3>1
  <2>6. CASE DeleteClear(t)
    <3>1. task_list' = [task_list EXCEPT ![k] = [task_list[k] EXCEPT !.task_id = 0]]
      BY <2>2, <2>6 DEF DeleteClear
    <3> QED
      BY <1>1, <2>3, <2>4, <2>6, <3>1
  <2>7. CASE BlockSet(t)
    <3>1. task_list' = [task_list EXCEPT ![k] = [task_list[k] EXCEPT !.state = "BLOCKED"]]
      BY <2>2, <2>7 DEF BlockSet
    <3> QED
      BY <1>1, <2>3, <2>4, <2>7, <3>1
  <2>8. CASE UnblockSet(t)
    <3>1. task_list' = [task_list EXCEPT ![k] = [task_list[k] EXCEPT !.state = "READY"]]
      BY <2>2, <2>8 DEF UnblockSet
    <3> QED
      BY <1>1, <2>3, <2>4, <2>8, <3>1
  <2> QED
    BY <1>2, <2>5, <2>6, <2>7, <2>8
<1>3. CASE ExitMark(t) \/ ExitClear(t)
  <2>1. Base /\ Steady
    BY <1>1, CallIsSteady DEF Start, Compacting
  <2>2. PICK k \in Slots : k = task_current /\ k < task_count /\ task_list[k] \in Tcbs
    BY <2>1 DEF Base, TypeInv, TypeOK, Steady, Orderly, Context, Live
  <2>3. CASE ExitMark(t)
    <3>1. PICK tcb : /\ tcb = [task_list[k] EXCEPT !.state = "ZOMBIE"]
                     /\ task_list' = [task_list EXCEPT ![k] = tcb]
      BY <2>2, <2>3 DEF ExitMark
    <3>2. Stored(t, k, tcb)
      BY <2>3, <3>1 DEF Stored
    <3> QED
      BY <1>1, <2>2, <3>2
  <2>4. CASE ExitClear(t)
    <3>1. PICK tcb : /\ tcb = [task_list[k] EXCEPT !.task_id = 0]
                     /\ task_list' = [task_list EXCEPT ![k] = tcb]
      BY <2>2, <2>4 DEF ExitClear
    <3>2. Stored(t, k, tcb)
      BY <2>4, <3>1 DEF Stored
    <3> QED
      BY <1>1, <2>2, <3>2
  <2> QED
    BY <1>3, <2>3, <2>4
<1> QED
  BY <1>2, <1>3 DEF Stores

LEMMA OutcomeCalls ==
  ASSUME Start, NoMisuse, InBounds, NEW t \in Stacks, Looks(t) \/ Stores(t)
  PROVE  \A i \in Slots : Live(i)' => Outcome(i)
<1>1. CASE Looks(t)
  <2>1. UNCHANGED <<task_list, task_count, gc_read, gc_write>>
    BY <1>1 DEF Looks, ExitYield, Yield, DeleteFind, BlockCheck, UnblockCheck, table, gc
  <2> QED
    BY <2>1, OutcomeNone DEF Live
<1>2. CASE Stores(t)
  <2>1. PICK k \in Slots : task_list[k] \in Tcbs /\ \E tcb : Stored(t, k, tcb)
    BY <1>2, StoresOne
  <2>2. PICK tcb : Stored(t, k, tcb)
    BY <2>1
  <2>3. UNCHANGED <<task_count, gc_read, gc_write>> /\ Base
    BY <1>2, StoresOne DEF Start
  <2>4. {"ZOMBIE", "BLOCKED", "READY"} \subseteq States /\ 0 \in Nat
    BY DEF States
  <2>6. /\ \A state \in {"ZOMBIE", "BLOCKED", "READY"} :
             /\ [task_list[k] EXCEPT !.state = state].state = state
             /\ [task_list[k] EXCEPT !.state = state].sleep_until_tick = task_list[k].sleep_until_tick
        /\ [task_list[k] EXCEPT !.task_id = 0].state = task_list[k].state
        /\ [task_list[k] EXCEPT !.task_id = 0].sleep_until_tick = task_list[k].sleep_until_tick
    BY <2>1, <2>4, StoreKeeps
  <2>5. \/ tcb.state = "ZOMBIE"
        \/ tcb.state = "READY" /\ tcb.sleep_until_tick = 0
        \/ /\ tcb.sleep_until_tick = task_list[k].sleep_until_tick
           /\ \/ tcb.state = task_list[k].state
              \/ tcb.state = "BLOCKED" /\ task_list[k].state \notin {"ZOMBIE", "UNUSED"}
    BY <2>2, <2>6 DEF Stored
  <2> QED
    BY <2>2, <2>3, <2>5, OutcomeOne DEF Stored
<1> QED
  BY <1>1, <1>2

-----------------------------------------------------------------------------
(* Wake-up times are cleared before a task may run again.                   *)

\* A step of a thread that is not of a call by which it blocks itself.
OutsideSelf(t) == Creates(t) \/ CreateCommit(t) \/ Compacts(t) \/ Looks(t) \/ Stores(t)

InsideSelf(t) ==
  \/ \E n \in SleepTicks : SleepSet(t, n)
  \/ BlockCurrent(t) \/ SelfCheck(t) \/ SelfBlock(t)

LEMMA OutsideSelfIs ==
  ASSUME NEW t \in Stacks, ThreadContinues(t) \/ ThreadCalls(t)
  PROVE  OutsideSelf(t) \/ InsideSelf(t)
  BY DEF OutsideSelf, InsideSelf, Creates, Fills, Compacts, Looks, Stores, ThreadContinues,
         ThreadCalls

LEMMA OutsideSelfPlaces ==
  ASSUME Base, NEW t \in Stacks, OutsideSelf(t)
  PROVE  OnCpu(t) /\ pc[t] \notin Self /\ pc'[t] \notin Self /\ UNCHANGED systick_ticks
<1> USE DEF Self, Labels, Critical, Base, ExclusionInv
<1>1. CASE Creates(t) \/ CreateCommit(t)
  <2>1. OnCpu(t) /\ pc[t] \notin Self /\ UNCHANGED systick_ticks
    BY <1>1 DEF Creates, Fills, CreateCheck, CreateFind, CreateAlloc, CreateFail, CreateFill,
                CreateReady, CreateId, CreateWake, CreateCommit, At
  <2>2. pc'[t] \notin Self
    BY <1>1 DEF Creates, Fills, CreateCheck, CreateFind, CreateAlloc, CreateFail, CreateFill,
                CreateReady, CreateId, CreateWake, CreateCommit, Return, Goto
  <2> QED
    BY <2>1, <2>2
<1>2. CASE Compacts(t)
  <2>1. OnCpu(t) /\ pc[t] \notin Self /\ UNCHANGED systick_ticks
    BY <1>2 DEF Compacts, GcStart, GcReap, GcKeep, GcCopy, GcCurrent, GcIndex, GcNext, GcIdle,
                GcCount, GcClear, At
  <2>2. CASE GcReap(t) \/ GcKeep(t)
    BY <2>1, <2>2 DEF GcReap, GcKeep, threads
  <2>3. CASE GcCurrent(t)
    <3>1. pc'[t] \in {"gc_index", "gc_next"}
      BY <2>3 DEF GcCurrent, Goto
    <3> QED
      BY <2>1, <3>1
  <2>4. CASE GcStart(t) \/ GcCopy(t) \/ GcIndex(t) \/ GcNext(t) \/ GcIdle(t) \/ GcCount(t) \/ GcClear(t)
    <3>1. pc'[t] \in {"gc", "gc_current", "gc_next", "gc_idle", "gc_clear", "idle"}
      BY <2>4 DEF GcStart, GcCopy, GcIndex, GcNext, GcIdle, GcCount, GcClear, Goto
    <3> QED
      BY <2>1, <3>1
  <2> QED
    BY <1>2, <2>1, <2>2, <2>3, <2>4 DEF Compacts
<1>3. CASE Looks(t)
  BY <1>3 DEF Looks, ExitYield, Yield, DeleteFind, BlockCheck, UnblockCheck, At, Goto, threads
<1>4. CASE Stores(t)
  BY <1>4 DEF Stores, DeleteMark, DeleteClear, ExitMark, ExitClear, BlockSet, UnblockSet, At, Goto,
              Return
<1> QED
  BY <1>1, <1>2, <1>3, <1>4 DEF OutsideSelf

LEMMA OutsideSelfDoes ==
  ASSUME Start, NoMisuse, InBounds, NEW t \in Stacks, OutsideSelf(t),
         ThreadContinues(t) \/ ThreadCalls(t)
  PROVE  /\ \A i \in Slots : Live(i)' => Outcome(i)
         /\ NoneArmed
         /\ \A u \in Stacks : pc'[u] \notin Self
         /\ UNCHANGED systick_ticks
<1>1. \A i \in Slots : Live(i)' => Outcome(i)
  BY OutcomeCreate, OutcomeCompact, OutcomeCalls DEF OutsideSelf
<1>2. OnCpu(t) /\ pc[t] \notin Self /\ pc'[t] \notin Self /\ UNCHANGED systick_ticks
  BY OutsideSelfPlaces DEF Start
<1>3. NoneArmed
  BY <1>2, ArmedInside
<1>4. \A u \in Stacks \ {t} : pc[u] \notin Critical /\ (pc'[u] = pc[u] \/ pc'[u] = "run")
  BY ThreadPlaces DEF Start, Base
<1>5. \A u \in Stacks : pc'[u] \notin Self
  BY <1>2, <1>4 DEF Self, Critical
<1> QED
  BY <1>1, <1>2, <1>3, <1>5

\* The steps of PendSV make runnable only what was, with the wake-up time it had.
LEMMA SwitchRunnable ==
  ASSUME Base, Steady, InBounds, PendSV, NEW i \in Slots, Live(i)'
  PROVE  /\ Live(i)
         /\ task_list'[i].sleep_until_tick = task_list[i].sleep_until_tick
         /\ task_list'[i].state = task_list[i].state
              \/ (Runnable(task_list[i]) /\ Runnable(task_list'[i]))
<1> USE DEF table, gc, Runnable
<1>1. task_list[i] \in Tcbs /\ task_current \in Slots /\ sv_next \in Slots
  BY DEF Base, TypeInv, TypeOK
<1>2. CASE PendSVEnter
  <2>1. task_list'[i] = IF i = task_current THEN Preempted(task_list[i], cpu) ELSE task_list[i]
    BY <1>1, <1>2 DEF PendSVEnter, Base, TypeInv, TypeOK
  <2>2. UNCHANGED <<task_count, gc_read, gc_write>>
    BY <1>2 DEF PendSVEnter
  <2>3. /\ Preempted(task_list[i], cpu).sleep_until_tick = task_list[i].sleep_until_tick
        /\ Preempted(task_list[i], cpu).state =
             IF task_list[i].state = "RUNNING" THEN "READY" ELSE task_list[i].state
    BY <1>1 DEF Preempted, Tcbs
  <2> QED
    BY <2>1, <2>2, <2>3 DEF Live
<1>3. ASSUME NEW k \in Slots, Select(k), task_list[k].state = "READY"
      PROVE  /\ Live(i)
             /\ task_list'[i].sleep_until_tick = task_list[i].sleep_until_tick
             /\ task_list'[i].state = task_list[i].state
                  \/ (Runnable(task_list[i]) /\ Runnable(task_list'[i]))
  <2>1. /\ UNCHANGED <<task_count, gc_read, gc_write>>
        /\ task_list'[i] = IF i = k THEN [task_list[i] EXCEPT !.state = "RUNNING"] ELSE task_list[i]
    BY <1>3 DEF Select, Base, TypeInv, TypeOK
  <2>2. /\ [task_list[i] EXCEPT !.state = "RUNNING"].sleep_until_tick = task_list[i].sleep_until_tick
        /\ [task_list[i] EXCEPT !.state = "RUNNING"].state = "RUNNING"
    BY <1>1 DEF Tcbs
  <2> QED
    BY <1>3, <2>1, <2>2 DEF Live
<1>4. CASE PendSVPick
  BY <1>1, <1>3, <1>4 DEF PendSVPick, Eligible
<1>5. CASE PendSVIdle \/ PendSVStay
  <2>1. IdleReady /\ Select(idle_task)
    BY <1>5, NoFallback DEF PendSVIdle, PendSVStay
  <2>2. idle_task \in Slots
    BY <2>1 DEF IdleReady, Base, TypeInv, TypeOK
  <2> QED
    BY <1>3, <2>1, <2>2 DEF IdleReady
<1>6. CASE PendSVSkip \/ PendSVRestore
  BY <1>6 DEF PendSVSkip, PendSVRestore, Live
<1> QED
  BY <1>2, <1>4, <1>5, <1>6 DEF PendSV

\* The tick wakes who is due and changes nothing else.
LEMMA TickWakes ==
  ASSUME Base, SysTick, NEW i \in Slots, Live(i)'
  PROVE  /\ Live(i)
         /\ \/ task_list'[i] = task_list[i] /\ ~Expired(task_list[i], systick_ticks')
            \/ /\ task_list'[i].state = "READY" /\ task_list'[i].sleep_until_tick = 0
               /\ Expired(task_list[i], systick_ticks')
<1> USE DEF gc
<1>1. /\ UNCHANGED <<task_count, gc_read, gc_write>>
      /\ task_list'[i] = IF i < task_count THEN WakeTcb(task_list[i], systick_ticks')
                         ELSE task_list[i]
  BY DEF SysTick
<1>2. task_list[i] \in Tcbs
  BY DEF Base, TypeInv, TypeOK
<1>3. i < task_count
  BY <1>1 DEF Live
<1>4. \/ WakeTcb(task_list[i], systick_ticks') = task_list[i] /\ ~Expired(task_list[i], systick_ticks')
      \/ /\ WakeTcb(task_list[i], systick_ticks').state = "READY"
         /\ WakeTcb(task_list[i], systick_ticks').sleep_until_tick = 0
         /\ Expired(task_list[i], systick_ticks')
  BY <1>2 DEF WakeTcb, Tcbs
<1>5. Live(i)
  BY <1>1, <1>3, <1>4 DEF Live, Expired
<1> QED
  BY <1>1, <1>3, <1>4, <1>5

\* The two calls by which a task blocks itself: their steps, one by one.
LEMMA SelfSteps ==
  ASSUME Start, InBounds, NEW t \in Stacks, InsideSelf(t), ThreadContinues(t) \/ ThreadCalls(t)
  PROVE  /\ OnCpu(t) /\ Base /\ Steady
         /\ UNCHANGED <<task_count, gc_read, gc_write, task_current, cpu, sv, systick_ticks>>
         /\ task_current \in Slots /\ Live(task_current) /\ task_list[task_current] \in Tcbs
         /\ task_list[task_current].state \in {"READY", "RUNNING", "BLOCKED"}
         /\ \A u \in Stacks \ {t} : pc[u] \notin Self /\ pc'[u] \notin Self
<1>1. /\ OnCpu(t) /\ pc[t] \in {"run", "self_check", "self_block"}
      /\ UNCHANGED <<task_count, gc_read, gc_write, task_current, cpu, sv, systick_ticks>>
  BY DEF InsideSelf, SleepSet, BlockCurrent, SelfCheck, SelfBlock, At, table, gc, ptrs, switch
<1>2. Base /\ Steady
  BY <1>1, CallIsSteady DEF Start, Following
<1>3. /\ task_current \in Slots /\ task_list[task_current] \in Tcbs
      /\ task_list[task_current].state # "UNUSED"
  BY <1>1, <1>2, CallerNotIdle DEF Idling, Compacting, Following
<1>4. Live(task_current)
  BY <1>1, <1>2, CurrentRuns
<1>5. task_list[task_current].state # "ZOMBIE"
  BY <1>1, <1>2, CurrentAlive DEF Ending
<1>6. task_list[task_current].state \in {"READY", "RUNNING", "BLOCKED"}
  BY <1>3, <1>5 DEF Tcbs, States
<1>7. \A u \in Stacks \ {t} : pc[u] \notin Critical /\ (pc'[u] = pc[u] \/ pc'[u] = "run")
  BY <1>2, ThreadPlaces DEF Base
<1>8. \A u \in Stacks \ {t} : pc[u] \notin Self /\ pc'[u] \notin Self
  BY <1>7 DEF Self, Critical
<1> QED
  BY <1>1, <1>2, <1>3, <1>4, <1>6, <1>8

\* The caller is no idle task, so the check lets it block itself.
LEMMA SelfCheckPasses ==
  ASSUME Start, InBounds, NEW t \in Stacks, SelfCheck(t)
  PROVE  /\ UNCHANGED <<task_list, task_count, gc_read, gc_write, task_current, cpu, sv, systick_ticks>>
         /\ pc[t] = "self_check" /\ OnCpu(t) /\ pc' = [pc EXCEPT ![t] = "self_block"]
<1>1. OnCpu(t) /\ pc[t] = "self_check"
  BY DEF SelfCheck, At
<1>2. Base /\ Steady
  BY <1>1, CallIsSteady DEF Start, Following
<1>3. Blockable(task_list[task_current])
  BY <1>1, <1>2, CallerNotIdle DEF Blockable, Idling, Compacting, Following
<1> QED
  BY <1>1, <1>3 DEF SelfCheck, Goto, table, gc, ptrs, switch

LEMMA ClearedSelf ==
  ASSUME Start, InBounds, NEW t \in Stacks, InsideSelf(t), ThreadContinues(t) \/ ThreadCalls(t)
  PROVE  WakeTimesCleared'
<1> USE DEF Runnable
<1>1. /\ OnCpu(t) /\ Base /\ Steady
      /\ UNCHANGED <<task_count, gc_read, gc_write, task_current, cpu, sv>>
      /\ task_current \in Slots /\ task_list[task_current] \in Tcbs
  BY SelfSteps
<1>2. t = cpu /\ sv = "none" /\ pc \in [Stacks -> Labels] /\ task_list \in [Slots -> Tcbs]
  BY <1>1, CurrentRuns DEF Base, ExclusionInv, TypeInv, TypeOK
<1>3. CASE \E n \in SleepTicks : SleepSet(t, n)
  <2>1. PICK n \in SleepTicks : SleepSet(t, n)
    BY <1>3
  <2>2. pc[t] = "run" /\ pc'[t] = "self_check"
    BY <1>2, <2>1 DEF SleepSet, At, Goto
  <2>3. NoneArmed
    BY <1>1, <2>2, ArmedInside DEF Self
  <2>4. \A i \in Slots : i # task_current => task_list'[i] = task_list[i]
    BY <1>2, <2>1 DEF SleepSet
  <2>5. sv' = "none" /\ pc'[cpu'] \in Self
    BY <1>1, <1>2, <2>2 DEF Self
  <2>6. ASSUME NEW i \in Slots, Live(i)', Runnable(task_list'[i]), i # task_current
        PROVE  task_list'[i].sleep_until_tick = 0
    BY <1>1, <2>3, <2>4, <2>6 DEF NoneArmed, Live
  <2> QED
    BY <1>1, <2>5, <2>6 DEF WakeTimesCleared
<1>4. CASE BlockCurrent(t)
  <2>1. pc[t] = "run" /\ UNCHANGED task_list
    BY <1>4 DEF BlockCurrent, At, table
  <2>2. NoneArmed
    BY <1>1, <2>1, ArmedInside DEF Self
  <2> QED
    BY <1>1, <2>1, <2>2 DEF NoneArmed, WakeTimesCleared, Live
<1>5. CASE SelfCheck(t)
  <2>1. UNCHANGED task_list /\ pc'[t] = "self_block"
    BY <1>2, <1>5, SelfCheckPasses
  <2>2. pc'[cpu'] \in Self
    BY <1>1, <1>2, <2>1 DEF Self
  <2> QED
    BY <1>1, <2>1, <2>2 DEF Start, WakeTimesCleared, Live
<1>6. CASE SelfBlock(t)
  <2>1. \A i \in Slots : i # task_current => task_list'[i] = task_list[i]
    BY <1>2, <1>6 DEF SelfBlock
  <2>2. task_list'[task_current].state = "BLOCKED"
    BY <1>1, <1>2, <1>6 DEF SelfBlock, Tcbs
  <2>3. ASSUME NEW i \in Slots, Live(i)', Runnable(task_list'[i])
        PROVE  task_list'[i].sleep_until_tick = 0
    <3>1. i # task_current
      BY <2>2, <2>3
    <3>2. Live(i) /\ Runnable(task_list[i])
      BY <1>1, <2>1, <2>3, <3>1 DEF Live
    <3> QED
      BY <2>1, <3>1, <3>2 DEF Start, WakeTimesCleared
  <2> QED
    BY <2>3 DEF WakeTimesCleared
<1> QED
  BY <1>3, <1>4, <1>5, <1>6 DEF InsideSelf

LEMMA ClearedStep ==
  ASSUME Start, NoMisuse, [CalmNext]_vars
  PROVE  WakeTimesCleared'
<1> USE DEF Runnable
<1>1. ASSUME InBounds, NEW t \in Stacks, OutsideSelf(t), ThreadContinues(t) \/ ThreadCalls(t)
      PROVE  WakeTimesCleared'
  <2>1. /\ \A i \in Slots : Live(i)' => Outcome(i)
        /\ NoneArmed
    BY <1>1, OutsideSelfDoes
  <2> QED
    BY <2>1 DEF WakeTimesCleared, NoneArmed, Outcome
<1>2. ASSUME InBounds, NEW t \in Stacks, InsideSelf(t), ThreadContinues(t) \/ ThreadCalls(t)
      PROVE  WakeTimesCleared'
  BY <1>2, ClearedSelf
<1>3. ASSUME InBounds, Outside, PendSV PROVE WakeTimesCleared'
  <2>1. NoneArmed /\ Base /\ Steady
    BY <1>3, ArmedInside, RestIsSteady DEF Start
  <2> QED
    BY <1>3, <2>1, SwitchRunnable DEF NoneArmed, WakeTimesCleared
<1>4. ASSUME SysTick PROVE WakeTimesCleared'
  <2>1. UNCHANGED <<task_current, cpu, sv, pc>> /\ Base
    BY <1>4 DEF SysTick, ptrs, switch, threads, Start
  <2>2. \A i \in Slots : Live(i)' => /\ Live(i)
                                     /\ \/ task_list'[i] = task_list[i]
                                        \/ task_list'[i].sleep_until_tick = 0
    BY <1>4, <2>1, TickWakes
  <2> QED
    BY <2>1, <2>2 DEF WakeTimesCleared, Start
<1>5. CASE UNCHANGED vars
  BY <1>5 DEF Start, WakeTimesCleared, Live, vars, table, ptrs, switch, threads, gc
<1> QED
  BY <1>1, <1>2, <1>3, <1>4, <1>5, OutsideSelfIs DEF CalmNext, Threads

\* The kernel starts with no wake-up time set.
LEMMA InitTimes ==
  ASSUME Init
  PROVE  \A i \in Slots : task_list[i].sleep_until_tick = 0
<1>1. PICK stack : task_list = [i \in Slots |->
                                  IF i < BootCount THEN BootTcb(i, stack[i]) ELSE ZeroTcb]
  BY DEF Init
<1>2. \A i : BootTcb(i, stack[i]).sleep_until_tick = 0
  BY DEF BootTcb, NewTcb
<1>3. ZeroTcb.sleep_until_tick = 0
  BY DEF ZeroTcb
<1> QED
  BY <1>1, <1>2, <1>3

LEMMA ClearedInit ==
  ASSUME Init
  PROVE  WakeTimesCleared
BY InitTimes DEF WakeTimesCleared

LEMMA ClearedInvariant ==
  ASSUME HasIdle, NoMisuse
  PROVE  CalmSpec => []WakeTimesCleared
<1>1. Init => WakeTimesCleared
  BY ClearedInit
<1>2. /\ TypeInv /\ ExclusionInv /\ KernelInv /\ WakeTimesCleared /\ [CalmNext]_vars
        => WakeTimesCleared'
  BY ClearedStep DEF Start, Base
<1> QED
  BY <1>1, <1>2, KernelInvariant, PTL DEF CalmSpec

\* In a calm execution of a program that unblocks no sleeper, no task is READY with
\* a wake-up time left over, passed over by schedule_next_task and by the tick for
\* ever.  (task_sleep_ticks, task_unblock, scheduler_wake_sleeping_tasks; of the
\* other executions it is false, also with the configured mask)
THEOREM SleepersKept ==
  ASSUME HasIdle, NoMisuse
  PROVE  CalmSpec => []NoLostSleeper
<1>1. WakeTimesCleared => NoLostSleeper
  BY DEF WakeTimesCleared, NoLostSleeper, Runnable, Self
<1> QED
  BY <1>1, ClearedInvariant, PTL

-----------------------------------------------------------------------------
(* No sleeper is past its wake-up time.  This needs the tick not to wrap    *)
(* before the last wake-up time asked for.                                  *)

NoWrap == TICK_LIMIT < TICK_MOD /\ \A n \in SleepTicks : TICK_LIMIT + n < TICK_MOD

\* A task about to block itself has a wake-up time ahead of it, or none.
InTime ==
  /\ systick_ticks <= TICK_LIMIT
  /\ NoOverdueSleeper
  /\ \A t \in Stacks : pc[t] \in Self =>
       \/ task_list[task_current].sleep_until_tick = 0
       \/ task_list[task_current].sleep_until_tick > systick_ticks

\* Before it wraps, the tick counts on.
LEMMA TickAdvances ==
  ASSUME TypeInv, NoWrap, systick_ticks <= TICK_LIMIT, SysTick
  PROVE  systick_ticks' = systick_ticks + 1 /\ systick_ticks' <= TICK_LIMIT
<1>1. systick_ticks' = (systick_ticks + 1) % TICK_MOD /\ systick_ticks # TICK_LIMIT
  BY DEF SysTick
<1>2. /\ systick_ticks + 1 <= TICK_LIMIT /\ systick_ticks \in Nat /\ TICK_MOD \in Nat
      /\ TICK_LIMIT \in Nat /\ TICK_LIMIT < TICK_MOD
  BY <1>1, TickAssumption DEF NoWrap, TypeInv, TypeOK
<1>3. (systick_ticks + 1) % TICK_MOD = systick_ticks + 1
  BY <1>2
<1> QED
  BY <1>1, <1>2, <1>3

\* And a wake-up time is as far ahead as was asked for.
LEMMA WakeTimeAhead ==
  ASSUME TypeInv, NoWrap, systick_ticks <= TICK_LIMIT, NEW n \in SleepTicks
  PROVE  WakeTime(n) = systick_ticks + n /\ n \in Nat \ {0}
<1>1. /\ n \in Nat \ {0} /\ systick_ticks + n < TICK_MOD /\ TICK_MOD \in Nat
      /\ systick_ticks \in Nat
  BY TickAssumption DEF NoWrap, TypeInv, TypeOK
<1>2. systick_ticks + n = (systick_ticks + n) % TICK_MOD
  BY <1>1
<1> QED
  BY <1>1, <1>2 DEF WakeTime

LEMMA InTimeSelf ==
  ASSUME Start, NoWrap, InTime, InBounds, NEW t \in Stacks, InsideSelf(t),
         ThreadContinues(t) \/ ThreadCalls(t)
  PROVE  InTime'
<1>1. /\ OnCpu(t) /\ Base /\ Steady
      /\ UNCHANGED <<task_count, gc_read, gc_write, task_current, cpu, sv, systick_ticks>>
      /\ task_current \in Slots /\ Live(task_current) /\ task_list[task_current] \in Tcbs
      /\ task_list[task_current].state \in {"READY", "RUNNING", "BLOCKED"}
      /\ \A u \in Stacks \ {t} : pc'[u] \notin Self
  BY SelfSteps
<1>2. systick_ticks \in Nat /\ pc \in [Stacks -> Labels] /\ task_list \in [Slots -> Tcbs]
  BY <1>1 DEF Base, ExclusionInv, TypeInv, TypeOK
<1>3. PICK k \in Slots : k = task_current
  BY <1>1
<1>4. ASSUME task_list'[k].sleep_until_tick = 0 \/ task_list'[k].sleep_until_tick > systick_ticks,
             \A i \in Slots : i # k => task_list'[i] = task_list[i]
      PROVE  InTime'
  <2>1. ASSUME NEW i \in Slots, Live(i)', task_list'[i].state = "BLOCKED",
               task_list'[i].sleep_until_tick # 0
        PROVE  task_list'[i].sleep_until_tick > systick_ticks
    BY <1>1, <1>4, <2>1 DEF InTime, NoOverdueSleeper, Live
  <2> QED
    BY <1>1, <1>3, <1>4, <2>1 DEF InTime, NoOverdueSleeper
<1>5. CASE \E n \in SleepTicks : SleepSet(t, n)
  <2>1. PICK n \in SleepTicks : SleepSet(t, n)
    BY <1>5
  <2>2. WakeTime(n) = systick_ticks + n /\ n \in Nat \ {0}
    BY <1>1, WakeTimeAhead DEF InTime, Base
  <2>3. WakeTime(n) > systick_ticks
    BY <1>2, <2>2
  <2>4. /\ task_list'[k].sleep_until_tick = WakeTime(n)
        /\ \A i \in Slots : i # k => task_list'[i] = task_list[i]
    BY <1>1, <1>2, <1>3, <2>1 DEF SleepSet, Tcbs
  <2> QED
    BY <1>4, <2>3, <2>4
<1>6. CASE BlockCurrent(t)
  <2>1. UNCHANGED task_list /\ pc[t] \notin Self
    BY <1>6 DEF BlockCurrent, At, table, Self
  <2>2. NoneArmed
    BY <1>1, <2>1, ArmedInside
  <2>3. \/ task_list[k].sleep_until_tick = 0
        \/ task_list[k].state = "BLOCKED" /\ task_list[k].sleep_until_tick # 0
    BY <1>1, <1>3, <2>2 DEF NoneArmed, Runnable
  <2>4. task_list[k].sleep_until_tick = 0 \/ task_list[k].sleep_until_tick > systick_ticks
    BY <1>1, <1>3, <2>3 DEF InTime, NoOverdueSleeper
  <2> QED
    BY <1>4, <2>1, <2>4
<1>7. CASE SelfCheck(t)
  <2>1. UNCHANGED task_list /\ pc[t] \in Self
    BY <1>7, SelfCheckPasses DEF Self
  <2>2. task_list[k].sleep_until_tick = 0 \/ task_list[k].sleep_until_tick > systick_ticks
    BY <1>3, <2>1 DEF InTime
  <2> QED
    BY <1>4, <2>1, <2>2
<1>8. CASE SelfBlock(t)
  <2>1. pc[t] \in Self
    BY <1>8 DEF SelfBlock, At, Self
  <2>2. task_list[k].sleep_until_tick = 0 \/ task_list[k].sleep_until_tick > systick_ticks
    BY <1>3, <2>1 DEF InTime
  <2>3. /\ task_list'[k].sleep_until_tick = task_list[k].sleep_until_tick
        /\ \A i \in Slots : i # k => task_list'[i] = task_list[i]
    BY <1>1, <1>2, <1>3, <1>8 DEF SelfBlock, Tcbs
  <2> QED
    BY <1>4, <2>2, <2>3
<1> QED
  BY <1>5, <1>6, <1>7, <1>8 DEF InsideSelf

LEMMA InTimeStep ==
  ASSUME Start, NoMisuse, NoWrap, InTime, [CalmNext]_vars
  PROVE  InTime'
<1> USE DEF Runnable
<1>1. ASSUME InBounds, NEW t \in Stacks, OutsideSelf(t), ThreadContinues(t) \/ ThreadCalls(t)
      PROVE  InTime'
  <2>1. /\ \A i \in Slots : Live(i)' => Outcome(i)
        /\ \A u \in Stacks : pc'[u] \notin Self
        /\ UNCHANGED systick_ticks
        /\ NoneArmed
    BY <1>1, OutsideSelfDoes
  <2>2. ASSUME NEW i \in Slots, Live(i)', task_list'[i].state = "BLOCKED",
               task_list'[i].sleep_until_tick # 0
        PROVE  task_list'[i].sleep_until_tick > systick_ticks
    <3>1. PICK j \in Slots :
            /\ Live(j)
            /\ task_list'[i].sleep_until_tick = task_list[j].sleep_until_tick
            /\ task_list[j].state # "ZOMBIE"
      BY <2>1, <2>2 DEF Outcome
    <3>2. task_list[j].state = "BLOCKED"
      <4>1. task_list[j].state \in States /\ task_list[j].state # "UNUSED"
        BY <3>1 DEF Live, Start, Base, TypeInv, TypeOK, Tcbs
      <4> QED
        BY <2>1, <2>2, <3>1, <4>1 DEF NoneArmed, States
    <3> QED
      BY <2>2, <3>1, <3>2 DEF InTime, NoOverdueSleeper
  <2> QED
    BY <2>1, <2>2 DEF InTime, NoOverdueSleeper
<1>2. ASSUME InBounds, NEW t \in Stacks, InsideSelf(t), ThreadContinues(t) \/ ThreadCalls(t)
      PROVE  InTime'
  BY <1>2, InTimeSelf
<1>3. ASSUME InBounds, Outside, PendSV PROVE InTime'
  <2>1. Base /\ Steady /\ \A t \in Stacks : pc[t] \notin Self
    BY <1>3, RestIsSteady DEF Start, Outside, Critical, Self
  <2>2. UNCHANGED <<systick_ticks, pc>>
    BY <1>3 DEF PendSV, PendSVEnter, PendSVPick, PendSVSkip, PendSVIdle, PendSVStay, PendSVRestore,
                Select, threads
  <2>3. ASSUME NEW i \in Slots, Live(i)', task_list'[i].state = "BLOCKED",
               task_list'[i].sleep_until_tick # 0
        PROVE  task_list'[i].sleep_until_tick > systick_ticks
    <3>1. Live(i) /\ task_list[i].state = "BLOCKED"
          /\ task_list'[i].sleep_until_tick = task_list[i].sleep_until_tick
      BY <1>3, <2>1, <2>3, SwitchRunnable
    <3> QED
      BY <2>3, <3>1 DEF InTime, NoOverdueSleeper
  <2> QED
    BY <2>1, <2>2, <2>3 DEF InTime, NoOverdueSleeper
<1>4. ASSUME Outside, SysTick PROVE InTime'
  <2>1. systick_ticks' = systick_ticks + 1 /\ systick_ticks' <= TICK_LIMIT
    BY <1>4, TickAdvances DEF InTime, Start, Base
  <2>2. Base /\ UNCHANGED pc /\ \A t \in Stacks : pc[t] \notin Self
    BY <1>4 DEF SysTick, threads, Start, Outside, Critical, Self
  <2>3. ASSUME NEW i \in Slots, Live(i)', task_list'[i].state = "BLOCKED",
               task_list'[i].sleep_until_tick # 0
        PROVE  task_list'[i].sleep_until_tick > systick_ticks'
    <3>1. task_list'[i] = task_list[i] /\ ~Expired(task_list[i], systick_ticks')
      BY <1>4, <2>2, <2>3, TickWakes
    <3>2. systick_ticks' \in Nat /\ task_list[i].sleep_until_tick \in Nat
      BY <2>1, <2>2 DEF Base, TypeInv, TypeOK, Tcbs
    <3> QED
      BY <2>3, <3>1, <3>2 DEF Expired
  <2> QED
    BY <2>1, <2>2, <2>3 DEF InTime, NoOverdueSleeper
<1>5. CASE UNCHANGED vars
  BY <1>5 DEF InTime, NoOverdueSleeper, Live, vars, table, ptrs, threads, gc
<1> QED
  BY <1>1, <1>2, <1>3, <1>4, <1>5, OutsideSelfIs DEF CalmNext, Threads

LEMMA InTimeInit ==
  ASSUME Init
  PROVE  InTime
<1>1. systick_ticks <= TICK_LIMIT /\ \A t \in Stacks : pc[t] \notin Self
  BY TickAssumption DEF Init, Self
<1> QED
  BY <1>1, InitTimes DEF InTime, NoOverdueSleeper

LEMMA InTimeInvariant ==
  ASSUME HasIdle, NoMisuse, NoWrap
  PROVE  CalmSpec => []InTime
<1>1. Init => InTime
  BY InTimeInit
<1>2. /\ TypeInv /\ ExclusionInv /\ KernelInv /\ WakeTimesCleared /\ InTime /\ [CalmNext]_vars
        => InTime'
  BY InTimeStep DEF Start, Base
<1> QED
  BY <1>1, <1>2, KernelInvariant, ClearedInvariant, PTL DEF CalmSpec

\* In a calm execution, before the tick wraps, no task sleeps past the tick it asked
\* to be woken at, whatever the other tasks do with it short of the misuses.
\* (task_sleep_ticks, scheduler_wake_sleeping_tasks, SysTick_Handler)
THEOREM SleepersInTime ==
  ASSUME HasIdle, NoMisuse, NoWrap
  PROVE  CalmSpec => []NoOverdueSleeper
<1>1. InTime => NoOverdueSleeper
  BY DEF InTime
<1> QED
  BY <1>1, InTimeInvariant, PTL

-----------------------------------------------------------------------------
(* The refinement.  A thread's life is the state of the one slot that holds *)
(* it, wherever compaction has put it.  So a step is either of one slot,    *)
(* and then one of the abstract steps of its thread, or it moves slots, and *)
(* then no abstract step; the tick alone is of all threads.                 *)

DueOf(tcb) == IF tcb.state # "ZOMBIE" THEN tcb.sleep_until_tick ELSE 0

Lives == [t \in Stacks |-> Life(t)]
Dues  == [t \in Stacks |-> Due(t)]

\* A thread's life is that of the slot that holds it.
LivesFollow ==
  \A t \in Stacks :
    /\ \A i \in Slots : Holds(i, t) => /\ Lives[t] = task_list[i].state
                                       /\ Dues[t] = DueOf(task_list[i])
    /\ ~HasTcb(t) => Lives[t] = "free" /\ Dues[t] = 0

LEMMA LifeOf == OwnStacks => LivesFollow
<1> SUFFICES ASSUME OwnStacks, NEW t \in Stacks
             PROVE  /\ \A i \in Slots : Holds(i, t) => /\ Lives[t] = task_list[i].state
                                                       /\ Dues[t] = DueOf(task_list[i])
                    /\ ~HasTcb(t) => Lives[t] = "free" /\ Dues[t] = 0
  BY DEF LivesFollow
<1>1. ASSUME NEW i \in Slots, Holds(i, t)
      PROVE  Lives[t] = task_list[i].state /\ Dues[t] = DueOf(task_list[i])
  <2>1. \A j \in Slots : Holds(j, t) => j = i
    BY <1>1 DEF OwnStacks, Holds
  <2>2. Tcb(t) = task_list[i] /\ HasTcb(t)
    BY <1>1, <2>1 DEF Tcb, HasTcb
  <2> QED
    BY <2>2 DEF Lives, Dues, Life, Due, DueOf
<1>2. ~HasTcb(t) => Lives[t] = "free" /\ Dues[t] = 0
  BY DEF Lives, Dues, Life, Due
<1> QED
  BY <1>1, <1>2

LEMMA LifeOfNext == OwnStacks' => LivesFollow'
BY LifeOf, PTL

-----------------------------------------------------------------------------
(* The abstract steps, in terms of Lives and Dues.                          *)

AbstractStep == [TL!Next]_TL!vars

LEMMA Stutters ==
  ASSUME Lives' = Lives, Dues' = Dues, UNCHANGED systick_ticks
  PROVE  AbstractStep
  BY DEF AbstractStep, TL!vars, Lives, Dues

LEMMA Spawns ==
  ASSUME NEW s \in Stacks, Lives[s] = "free", Lives' = [Lives EXCEPT ![s] = "READY"],
         Dues' = Dues, UNCHANGED systick_ticks
  PROVE  AbstractStep
  BY DEF AbstractStep, TL!Next, TL!Spawn, TL!Become, Lives, Dues

LEMMA Dispatches ==
  ASSUME NEW s \in Stacks, Lives[s] = "READY", Dues[s] = 0,
         \A u \in Stacks : Lives[u] # "RUNNING",
         Lives' = [Lives EXCEPT ![s] = "RUNNING"], Dues' = Dues, UNCHANGED systick_ticks
  PROVE  AbstractStep
<1>1. TL!Dispatch(s)
  BY DEF TL!Dispatch, TL!Become, Lives, Dues
<1> QED
  BY <1>1 DEF AbstractStep, TL!Next

LEMMA Preempts ==
  ASSUME NEW s \in Stacks, Lives[s] = "RUNNING", Dues[s] = 0,
         Lives' = [Lives EXCEPT ![s] = "READY"], Dues' = Dues, UNCHANGED systick_ticks
  PROVE  AbstractStep
  BY DEF AbstractStep, TL!Next, TL!Preempt, TL!Become, Lives, Dues

LEMMA Blocks ==
  ASSUME NEW s \in Stacks, Lives[s] \in {"READY", "RUNNING"},
         Lives' = [Lives EXCEPT ![s] = "BLOCKED"], Dues' = Dues, UNCHANGED systick_ticks
  PROVE  AbstractStep
  BY DEF AbstractStep, TL!Next, TL!Block, TL!Become, Lives, Dues

LEMMA Unblocks ==
  ASSUME NEW s \in Stacks, Lives[s] = "BLOCKED", Dues[s] = 0,
         Lives' = [Lives EXCEPT ![s] = "READY"], Dues' = Dues, UNCHANGED systick_ticks
  PROVE  AbstractStep
  BY DEF AbstractStep, TL!Next, TL!Unblock, TL!Become, Lives, Dues

LEMMA SetsAlarm ==
  ASSUME NEW s \in Stacks, NEW n \in SleepTicks, Lives[s] \in {"READY", "RUNNING", "BLOCKED"},
         Lives' = Lives, Dues' = [Dues EXCEPT ![s] = systick_ticks + n], UNCHANGED systick_ticks
  PROVE  AbstractStep
<1>1. TL!SetAlarm(s, n)
  BY DEF TL!SetAlarm, TL!Alarm, Lives, Dues
<1> QED
  BY <1>1 DEF AbstractStep, TL!Next

LEMMA Retires ==
  ASSUME NEW s \in Stacks, Lives[s] \in {"READY", "RUNNING", "BLOCKED"},
         Lives' = [Lives EXCEPT ![s] = "ZOMBIE"], Dues' = [Dues EXCEPT ![s] = 0],
         UNCHANGED systick_ticks
  PROVE  AbstractStep
  BY DEF AbstractStep, TL!Next, TL!Retire, TL!Become, TL!Alarm, Lives, Dues

LEMMA Reaps ==
  ASSUME NEW s \in Stacks, Lives[s] = "ZOMBIE", Lives' = [Lives EXCEPT ![s] = "free"],
         Dues' = Dues, UNCHANGED systick_ticks
  PROVE  AbstractStep
  BY DEF AbstractStep, TL!Next, TL!Reap, TL!Become, Lives, Dues

LEMMA Ticks ==
  ASSUME systick_ticks' = systick_ticks + 1,
         \A u \in Stacks :
           IF Lives[u] = "BLOCKED" /\ Dues[u] = systick_ticks + 1
           THEN Lives'[u] = "READY" /\ Dues'[u] = 0
           ELSE Lives'[u] = Lives[u] /\ Dues'[u] = Dues[u]
  PROVE  AbstractStep
<1>1. TL!Tick
  BY DEF TL!Tick, TL!Rings, Lives, Dues
<1> QED
  BY <1>1 DEF AbstractStep, TL!Next

-----------------------------------------------------------------------------
(* Slots and lives.                                                         *)

\* Tasks that only move, or stay, go on living as they did.
LEMMA LivesMoved ==
  ASSUME OwnStacks, OwnStacks',
         \A i \in Slots : Live(i) => \E j \in Slots : Live(j)' /\ task_list'[j] = task_list[i],
         \A j \in Slots : Live(j)' => \E i \in Slots : Live(i) /\ task_list'[j] = task_list[i]
  PROVE  Lives' = Lives /\ Dues' = Dues
<1>1. ASSUME NEW t \in Stacks PROVE Lives'[t] = Lives[t] /\ Dues'[t] = Dues[t]
  <2>1. CASE HasTcb(t)
    <3>1. PICK i \in Slots : Holds(i, t)
      BY <2>1 DEF HasTcb
    <3>2. PICK j \in Slots : Live(j)' /\ task_list'[j] = task_list[i]
      BY <3>1 DEF Holds
    <3>3. Holds(j, t)'
      BY <3>1, <3>2 DEF Holds
    <3> QED
      BY <3>1, <3>2, <3>3, LifeOf, LifeOfNext DEF LivesFollow
  <2>2. CASE ~HasTcb(t)
    <3>1. ~HasTcb(t)'
      BY <2>2 DEF HasTcb, Holds
    <3> QED
      BY <2>2, <3>1, LifeOf, LifeOfNext DEF LivesFollow
  <2> QED
    BY <2>1, <2>2
<1> QED
  BY <1>1 DEF Lives, Dues

\* A step that replaces the control block in one slot changes that task's life.
LEMMA LivesOne ==
  ASSUME Base, OwnStacks, OwnStacks', UNCHANGED <<task_count, gc_read, gc_write>>,
         NEW k \in Slots, Live(k), NEW tcb, Same(tcb, task_list[k]),
         task_list' = [task_list EXCEPT ![k] = tcb]
  PROVE  \E s \in Stacks :
           /\ Lives[s] = task_list[k].state /\ Dues[s] = DueOf(task_list[k])
           /\ Lives' = [Lives EXCEPT ![s] = tcb.state]
           /\ Dues' = [Dues EXCEPT ![s] = DueOf(tcb)]
<1>1. PICK s \in Stacks : s = task_list[k].stack_ptr
  BY DEF OwnStacks
<1>2. /\ task_list'[k] = tcb
      /\ \A i \in Slots : i # k => task_list'[i] = task_list[i]
  BY DEF Base, TypeInv, TypeOK
<1>3. \A i \in Slots : Live(i)' <=> Live(i)
  BY <1>2 DEF Live, Same
<1>4. Holds(k, s) /\ Holds(k, s)'
  BY <1>1, <1>2, <1>3 DEF Holds, Same
<1>5. ASSUME NEW t \in Stacks, t # s PROVE Lives'[t] = Lives[t] /\ Dues'[t] = Dues[t]
  <2>1. CASE HasTcb(t)
    <3>1. PICK i \in Slots : Holds(i, t)
      BY <2>1 DEF HasTcb
    <3>2. i # k
      BY <1>1, <1>5, <3>1 DEF Holds
    <3>3. Holds(i, t)' /\ task_list'[i] = task_list[i]
      BY <1>2, <1>3, <3>1, <3>2 DEF Holds
    <3> QED
      BY <3>1, <3>3, LifeOf, LifeOfNext DEF LivesFollow
  <2>2. CASE ~HasTcb(t)
    <3>1. ~HasTcb(t)'
      BY <1>1, <1>2, <1>3, <1>5, <2>2 DEF HasTcb, Holds, Same
    <3> QED
      BY <2>2, <3>1, LifeOf, LifeOfNext DEF LivesFollow
  <2> QED
    BY <2>1, <2>2
<1>6. /\ Lives[s] = task_list[k].state /\ Dues[s] = DueOf(task_list[k])
      /\ Lives'[s] = tcb.state /\ Dues'[s] = DueOf(tcb)
  BY <1>2, <1>4, LifeOf, LifeOfNext DEF LivesFollow
<1>7. Lives' = [Lives EXCEPT ![s] = tcb.state] /\ Dues' = [Dues EXCEPT ![s] = DueOf(tcb)]
  BY <1>5, <1>6 DEF Lives, Dues
<1> QED
  BY <1>6, <1>7

\* One that replaces no control block in use changes none.
LEMMA LivesNone ==
  ASSUME OwnStacks, OwnStacks', UNCHANGED <<task_count, gc_read, gc_write>>,
         \A i \in Slots : i < task_count => task_list'[i] = task_list[i]
  PROVE  Lives' = Lives /\ Dues' = Dues
<1>1. \A i \in Slots : Live(i)' <=> Live(i)
  BY DEF Live
<1>2. \A i \in Slots : Live(i) => task_list'[i] = task_list[i]
  BY DEF Live
<1> QED
  BY <1>1, <1>2, LivesMoved

\* In front of the end, and with no compaction under way, every slot is live.
LEMMA LiveInFront ==
  ASSUME Compaction, Settled, NEW i \in Slots, i < task_count
  PROVE  Live(i) /\ task_list[i].state # "UNUSED"
  BY TableAssumption DEF Compaction, Settled, InUse, Live, Slots

-----------------------------------------------------------------------------
(* Each step of the kernel is a step of the abstract machine, or none.      *)

Ready == Start /\ InTime

LEMMA ReadyIs ==
  ASSUME Ready
  PROVE  /\ Base /\ KernelInv /\ Layout /\ OwnStacks /\ Compaction
         /\ \A i \in Slots : task_list[i] \in Tcbs
         /\ task_list \in [Slots -> Tcbs]
  BY AlwaysLayout DEF Ready, Start, Layout, Base, TypeInv, TypeOK

\* task_create: the thread appears when the table grows over its slot.
LEMMA LifeCreate ==
  ASSUME Ready, OwnStacks', InBounds, NEW t \in Stacks, Creates(t) \/ CreateCommit(t)
  PROVE  AbstractStep
<1> USE DEF table, gc
<1>0. Base /\ Layout /\ OwnStacks
  BY ReadyIs
<1>1. CASE Creates(t)
  <2>1. UNCHANGED <<task_count, gc_read, gc_write, systick_ticks>>
    BY <1>1 DEF Creates, CreateCheck, CreateFind, CreateAlloc, CreateFail, Fills, CreateFill,
                CreateReady, CreateId, CreateWake
  <2>2. \A i \in Slots : i < task_count => task_list'[i] = task_list[i]
    BY <1>0, <1>1, CreatesAhead DEF Creates
  <2> QED
    BY <1>0, <2>1, <2>2, LivesNone, Stutters
<1>2. CASE CreateCommit(t)
  <2>1. OnCpu(t) /\ pc[t] = "create_commit" /\ Creating(t) /\ Holding(t)
    BY <1>2 DEF CreateCommit, At, Creating, Holding, Filling
  <2>2. /\ loc[t].slot = task_count
        /\ loc[t].block \in Stacks /\ ~HasTcb(loc[t].block)
        /\ task_count < MAX_TASKS => Filled(t)
    BY <1>0, <2>1 DEF Layout, Creations
  <2>3. task_count' = task_count + 1
        /\ UNCHANGED <<task_list, gc_read, gc_write, systick_ticks>>
    BY <1>2, <2>2 DEF CreateCommit
  <2>4. Settled
    BY <1>0, <2>1, AloneCreating
  <2>5. task_count \in Nat /\ (task_count < MAX_TASKS <=> task_count \in Slots)
    BY <1>0, TableAssumption DEF Base, TypeInv, TypeOK, Slots
  <2>6. \A i \in Slots : i # task_count => (Live(i)' <=> Live(i))
    BY <2>3, <2>5, TableAssumption DEF Live, Slots
  <2>8. CASE task_count \notin Slots
    <3>1. \A i \in Slots : Live(i)' <=> Live(i)
      BY <2>6, <2>8
    <3> QED
      BY <1>0, <2>3, <3>1, LivesMoved, Stutters
  <2>9. CASE task_count \in Slots
    <3>1. PICK s \in Stacks : s = loc[t].block /\ ~HasTcb(s)
      BY <2>2
    <3>2. PICK k \in Slots : k = task_count
      BY <2>9
    <3>3. Filled(t)
      BY <2>2, <2>5, <2>9
    <3>4. /\ task_list[k].state = "READY" /\ task_list[k].stack_ptr = s
          /\ DueOf(task_list[k]) = 0
      BY <2>1, <3>1, <3>2, <3>3 DEF Filled, DueOf
    <3>5. Holds(k, s)' /\ ~Live(k)
      BY <2>3, <2>4, <2>5, <3>2, <3>4 DEF Holds, Live, Settled
    <3>11. Lives[s] = "free" /\ Dues[s] = 0 /\ Lives'[s] = "READY" /\ Dues'[s] = 0
      BY <1>0, <2>3, <3>1, <3>4, <3>5, LifeOf, LifeOfNext DEF LivesFollow
    <3>6. ASSUME NEW u \in Stacks, u # s PROVE Lives'[u] = Lives[u] /\ Dues'[u] = Dues[u]
      <4>1. \A i \in Slots : Holds(i, u)' <=> Holds(i, u)
        BY <2>3, <2>6, <3>2, <3>4, <3>5, <3>6 DEF Holds
      <4> QED
        BY <1>0, <2>3, <4>1, LifeOf, LifeOfNext DEF LivesFollow, HasTcb
    <3>7. Lives' = [Lives EXCEPT ![s] = "READY"] /\ Dues' = Dues
      BY <3>11, <3>6 DEF Lives, Dues
    <3> QED
      BY <2>3, <3>11, <3>7, Spawns
  <2> QED
    BY <2>8, <2>9
<1> QED
  BY <1>1, <1>2

\* A store to a task that is in the table: what it does to the thread's life.
LEMMA LifeStored ==
  ASSUME Ready, OwnStacks', UNCHANGED <<task_count, gc_read, gc_write>>,
         NEW k \in Slots, Live(k), NEW tcb, Same(tcb, task_list[k]),
         task_list' = [task_list EXCEPT ![k] = tcb]
  PROVE  \E s \in Stacks :
           /\ Lives[s] = task_list[k].state /\ Dues[s] = DueOf(task_list[k])
           /\ Lives' = [Lives EXCEPT ![s] = tcb.state]
           /\ Dues' = [Dues EXCEPT ![s] = DueOf(tcb)]
<1>1. Base /\ OwnStacks
  BY ReadyIs
<1> QED
  BY <1>1, LivesOne, Zenon

\* So a store is a step of the abstract machine when it blocks the task and leaves
\* its wake-up time, ends it, unblocks it without one, or leaves both.
LEMMA LifeStore ==
  ASSUME Ready, OwnStacks', UNCHANGED <<task_count, gc_read, gc_write>>, UNCHANGED systick_ticks,
         NEW k \in Slots, Live(k), NEW tcb, Same(tcb, task_list[k]),
         task_list' = [task_list EXCEPT ![k] = tcb],
         \/ tcb.state = task_list[k].state /\ DueOf(tcb) = DueOf(task_list[k])
         \/ /\ task_list[k].state \in {"READY", "RUNNING", "BLOCKED"} /\ tcb.state = "BLOCKED"
            /\ DueOf(tcb) = DueOf(task_list[k])
         \/ tcb.state = "ZOMBIE" /\ DueOf(tcb) = 0
         \/ /\ task_list[k].state = "BLOCKED" /\ DueOf(task_list[k]) = 0
            /\ tcb.state = "READY" /\ DueOf(tcb) = 0
  PROVE  AbstractStep
<1>1. PICK s \in Stacks :
        /\ Lives[s] = task_list[k].state /\ Dues[s] = DueOf(task_list[k])
        /\ Lives' = [Lives EXCEPT ![s] = tcb.state]
        /\ Dues' = [Dues EXCEPT ![s] = DueOf(tcb)]
  BY LifeStored, Zenon
<1>2. tcb.state = task_list[k].state => Lives' = Lives
  BY <1>1 DEF Lives
<1>3. DueOf(tcb) = DueOf(task_list[k]) => Dues' = Dues
  BY <1>1 DEF Dues
<1>4. CASE tcb.state = task_list[k].state /\ DueOf(tcb) = DueOf(task_list[k])
  BY <1>2, <1>3, <1>4, Stutters
<1>5. CASE /\ task_list[k].state \in {"READY", "RUNNING", "BLOCKED"} /\ tcb.state = "BLOCKED"
           /\ DueOf(tcb) = DueOf(task_list[k])
  <2>1. CASE task_list[k].state = "BLOCKED"
    BY <1>4, <1>5, <2>1
  <2>2. CASE task_list[k].state \in {"READY", "RUNNING"}
    BY <1>1, <1>3, <1>5, <2>2, Blocks
  <2> QED
    BY <1>5, <2>1, <2>2
<1>6. CASE tcb.state = "ZOMBIE" /\ DueOf(tcb) = 0
  <2>1. CASE task_list[k].state = "ZOMBIE"
    <3>1. DueOf(task_list[k]) = 0
      BY <2>1 DEF DueOf
    <3> QED
      BY <1>4, <1>6, <2>1, <3>1
  <2>2. CASE task_list[k].state # "ZOMBIE"
    <3>1. task_list[k] \in Tcbs /\ task_list[k].state # "UNUSED"
      BY ReadyIs DEF Live
    <3>2. Lives[s] \in {"READY", "RUNNING", "BLOCKED"}
      BY <1>1, <2>2, <3>1 DEF Tcbs, States
    <3> QED
      BY <1>1, <1>6, <3>2, Retires
  <2> QED
    BY <2>1, <2>2
<1>7. CASE /\ task_list[k].state = "BLOCKED" /\ DueOf(task_list[k]) = 0
           /\ tcb.state = "READY" /\ DueOf(tcb) = 0
  BY <1>1, <1>3, <1>7, Unblocks
<1> QED
  BY <1>4, <1>5, <1>6, <1>7

LEMMA LifeCalls ==
  ASSUME Ready, OwnStacks', NoMisuse, InBounds, NEW t \in Stacks, Looks(t) \/ Stores(t)
  PROVE  AbstractStep
<1>1. CASE Looks(t)
  <2>1. UNCHANGED <<task_list, task_count, gc_read, gc_write, systick_ticks>>
    BY <1>1 DEF Looks, ExitYield, Yield, DeleteFind, BlockCheck, UnblockCheck, table, gc
  <2> QED
    BY <2>1, ReadyIs, LivesNone, Stutters
<1>2. CASE Stores(t)
  <2>1. /\ OnCpu(t) /\ pc[t] \notin Compacting
        /\ UNCHANGED <<task_count, gc_read, gc_write, systick_ticks>>
    BY <1>2, StoresOne DEF Ready
  <2>2. PICK k \in Slots : k < task_count /\ task_list[k] \in Tcbs /\ \E tcb : Stored(t, k, tcb)
    BY <1>2, StoresOne DEF Ready
  <2>3. PICK tcb : Stored(t, k, tcb)
    BY <2>2
  <2>4. Settled
    BY <2>1, ReadyIs, SettledOutside DEF Base
  <2>5. Live(k) /\ task_list' = [task_list EXCEPT ![k] = tcb]
    BY <2>2, <2>3, <2>4, ReadyIs, LiveInFront DEF Stored
  <2>6. /\ \A state \in {"ZOMBIE", "BLOCKED", "READY"} :
             /\ [task_list[k] EXCEPT !.state = state].state = state
             /\ [task_list[k] EXCEPT !.state = state].sleep_until_tick = task_list[k].sleep_until_tick
             /\ Same([task_list[k] EXCEPT !.state = state], task_list[k])
        /\ [task_list[k] EXCEPT !.task_id = 0].state = task_list[k].state
        /\ [task_list[k] EXCEPT !.task_id = 0].sleep_until_tick = task_list[k].sleep_until_tick
        /\ Same([task_list[k] EXCEPT !.task_id = 0], task_list[k])
    <3>1. {"ZOMBIE", "BLOCKED", "READY"} \subseteq States \ {"UNUSED"} /\ 0 \in Nat
      BY DEF States
    <3>2. task_list[k].state # "UNUSED"
      BY <2>5 DEF Live
    <3>3. PICK old \in Tcbs : old = task_list[k]
      BY <2>2
    <3>4. \A state \in {"ZOMBIE", "BLOCKED", "READY"} :
            /\ [old EXCEPT !.state = state].state = state
            /\ [old EXCEPT !.state = state].sleep_until_tick = old.sleep_until_tick
      BY <3>1, StoreKeeps
    <3>5. /\ [old EXCEPT !.task_id = 0].state = old.state
          /\ [old EXCEPT !.task_id = 0].sleep_until_tick = old.sleep_until_tick
      BY <3>1, StoreKeeps
    <3>6. \A state \in {"ZOMBIE", "BLOCKED", "READY"} : Same([old EXCEPT !.state = state], old)
      BY <3>1, <3>2, <3>3, SameTask
    <3>7. Same([old EXCEPT !.task_id = 0], old)
      BY SameTask
    <3> QED
      BY <3>3, <3>4, <3>5, <3>6, <3>7
  <2>7. Same(tcb, task_list[k])
    BY <2>3, <2>6 DEF Stored
  <2>8. \/ tcb.state = "ZOMBIE"
        \/ /\ tcb.state = task_list[k].state
           /\ tcb.sleep_until_tick = task_list[k].sleep_until_tick
        \/ /\ tcb.state = "BLOCKED" /\ task_list[k].state \notin {"ZOMBIE", "UNUSED"}
           /\ tcb.sleep_until_tick = task_list[k].sleep_until_tick
        \/ /\ tcb.state = "READY" /\ tcb.sleep_until_tick = task_list[k].sleep_until_tick
           /\ task_list[k].state = "BLOCKED" /\ task_list[k].sleep_until_tick = 0
    BY <2>3, <2>6 DEF Stored
  <2>9. task_list[k].state \in States
    BY <2>2 DEF Tcbs
  <2>10. \/ tcb.state = task_list[k].state /\ DueOf(tcb) = DueOf(task_list[k])
         \/ /\ task_list[k].state \in {"READY", "RUNNING", "BLOCKED"} /\ tcb.state = "BLOCKED"
            /\ DueOf(tcb) = DueOf(task_list[k])
         \/ tcb.state = "ZOMBIE" /\ DueOf(tcb) = 0
         \/ /\ task_list[k].state = "BLOCKED" /\ DueOf(task_list[k]) = 0
            /\ tcb.state = "READY" /\ DueOf(tcb) = 0
    BY <2>8, <2>9 DEF DueOf, States
  <2>11. UNCHANGED <<task_count, gc_read, gc_write>> /\ UNCHANGED systick_ticks
    BY <2>1
  <2> QED
    BY <2>5, <2>7, <2>10, <2>11, LifeStore
<1> QED
  BY <1>1, <1>2

\* The two calls by which a task blocks itself: the first half of task_sleep_ticks
\* sets the alarm, the last step of both blocks, what is between is no event.
LEMMA LifeSelf ==
  ASSUME Ready, OwnStacks', NoWrap, InBounds, NEW t \in Stacks, InsideSelf(t),
         ThreadContinues(t) \/ ThreadCalls(t)
  PROVE  AbstractStep
<1>1. /\ UNCHANGED <<task_count, gc_read, gc_write, systick_ticks>>
      /\ task_current \in Slots /\ Live(task_current)
      /\ task_list[task_current].state \in {"READY", "RUNNING", "BLOCKED"}
  BY SelfSteps DEF Ready
<1>2. PICK k \in Slots : /\ k = task_current /\ Live(k) /\ task_list[k] \in Tcbs
                         /\ task_list[k].state \in {"READY", "RUNNING", "BLOCKED"}
  BY <1>1, ReadyIs
<1>3. ASSUME NEW n \in SleepTicks, SleepSet(t, n) PROVE AbstractStep
  <2>1. WakeTime(n) = systick_ticks + n /\ WakeTime(n) \in Nat
    BY WakeTimeAhead DEF Ready, InTime, Start, Base, TypeInv, TypeOK
  <2>2. PICK when \in Nat : when = WakeTime(n)
    BY <2>1
  <2>3. PICK tcb : /\ tcb = [task_list[k] EXCEPT !.sleep_until_tick = when]
                   /\ task_list' = [task_list EXCEPT ![k] = tcb]
    BY <1>2, <1>3, <2>2 DEF SleepSet
  <2>4. Same(tcb, task_list[k])
    BY <1>2, <2>3, SameTask
  <2>5. tcb.state = task_list[k].state /\ DueOf(tcb) = systick_ticks + n
    BY <1>2, <2>1, <2>2, <2>3 DEF Tcbs, DueOf
  <2>6. UNCHANGED <<task_count, gc_read, gc_write>>
    BY <1>1
  <2>9. task_list' = [task_list EXCEPT ![k] = tcb] /\ Live(k)
    BY <1>2, <2>3
  <2>7. PICK s \in Stacks :
          /\ Lives[s] = task_list[k].state /\ Dues[s] = DueOf(task_list[k])
          /\ Lives' = [Lives EXCEPT ![s] = tcb.state]
          /\ Dues' = [Dues EXCEPT ![s] = DueOf(tcb)]
    BY <2>4, <2>6, <2>9, LifeStored, Zenon
  <2>8. Lives' = Lives
    BY <2>5, <2>7 DEF Lives
  <2> QED
    BY <1>1, <1>2, <2>5, <2>7, <2>8, SetsAlarm
<1>4. CASE BlockCurrent(t) \/ SelfCheck(t)
  <2>1. UNCHANGED task_list
    BY <1>4 DEF BlockCurrent, SelfCheck, table
  <2> QED
    BY <1>1, <2>1, ReadyIs, LivesNone, Stutters
<1>5. CASE SelfBlock(t)
  <2>1. PICK tcb : /\ tcb = [task_list[k] EXCEPT !.state = "BLOCKED"]
                   /\ task_list' = [task_list EXCEPT ![k] = tcb]
    BY <1>2, <1>5 DEF SelfBlock
  <2>2. "BLOCKED" \in States \ {"UNUSED"} /\ task_list[k].state # "UNUSED"
    BY <1>2 DEF States
  <2>3. Same(tcb, task_list[k])
    BY <1>2, <2>1, <2>2, SameTask
  <2>4. tcb.state = "BLOCKED" /\ DueOf(tcb) = DueOf(task_list[k])
    BY <1>2, <2>1 DEF Tcbs, DueOf
  <2>5. UNCHANGED <<task_count, gc_read, gc_write>> /\ UNCHANGED systick_ticks
    BY <1>1
  <2>6. Live(k) /\ task_list' = [task_list EXCEPT ![k] = tcb]
    BY <1>2, <2>1
  <2> QED
    BY <1>2, <2>3, <2>4, <2>5, <2>6, LifeStore
<1> QED
  BY <1>3, <1>4, <1>5 DEF InsideSelf

\* Compaction takes ended tasks out of the table; moving the others is no event.
LEMMA LifeCompact ==
  ASSUME Ready, OwnStacks', InBounds, NEW t \in Stacks, Compacts(t)
  PROVE  AbstractStep
<1> USE DEF table
<1>1. Start /\ Base /\ KernelInv /\ Layout /\ OwnStacks /\ Compaction /\ UNCHANGED systick_ticks
  BY ReadyIs DEF Ready, Compacts, GcStart, GcReap, GcKeep, GcCopy, GcCurrent, GcIndex, GcNext,
                 GcIdle, GcCount, GcClear
<1>2. CASE GcStart(t)
  <2>1. OnCpu(t) /\ pc[t] \notin Compacting
    BY <1>2 DEF GcStart, At, Compacting, Following
  <2>2. Settled
    BY <1>1, <2>1, SettledOutside DEF Base
  <2> QED
    BY <1>1, <1>2, <2>2, LivesNone, Stutters DEF GcStart, Settled
<1>3. CASE GcReap(t)
  <2>1. /\ gc_read < task_count /\ Dead(task_list[gc_read])
        /\ gc_read' = gc_read + 1 /\ UNCHANGED <<task_count, gc_write>>
    BY <1>3 DEF GcReap
  <2>2. PICK k \in Slots : k = gc_read /\ Live(k) /\ task_list[k] \in Tcbs
    BY <1>1, <2>1, ReadLive
  <2>3. task_list[k].state = "ZOMBIE"
    BY <2>1, <2>2 DEF Dead, Live
  <2>4. \A i \in Slots : i # k => task_list'[i] = task_list[i]
    BY <1>1, <1>3, <2>2 DEF GcReap, Base, TypeInv, TypeOK
  <2>5. gc_read \in Nat /\ gc_write \in Nat /\ gc_write <= gc_read
    BY <1>1 DEF Base, TypeInv, TypeOK
  <2>6. \A i \in Slots : Live(i)' <=> Live(i) /\ i # k
    <3>1. ~Live(k)'
      BY <2>1, <2>2, <2>5 DEF Live
    <3>2. ASSUME NEW i \in Slots, i # k PROVE Live(i)' <=> Live(i)
      BY <2>1, <2>2, <2>4, <2>5, <3>2, TableAssumption DEF Live, Slots
    <3> QED
      BY <3>1, <3>2
  <2>7. PICK s \in Stacks : s = task_list[k].stack_ptr
    BY <1>1, <2>2 DEF OwnStacks
  <2>8. Holds(k, s) /\ \A i \in Slots : ~Holds(i, s)'
    BY <1>1, <2>2, <2>4, <2>6, <2>7 DEF Holds, OwnStacks
  <2>9. Lives[s] = "ZOMBIE" /\ Dues[s] = 0 /\ Lives'[s] = "free" /\ Dues'[s] = 0
    <3>1. ~HasTcb(s)'
      BY <2>8 DEF HasTcb
    <3> QED
      BY <1>1, <2>3, <2>8, <3>1, LifeOf, LifeOfNext DEF LivesFollow, DueOf
  <2>10. ASSUME NEW u \in Stacks, u # s PROVE Lives'[u] = Lives[u] /\ Dues'[u] = Dues[u]
    <3>1. \A i \in Slots : /\ Holds(i, u)' <=> Holds(i, u)
                           /\ Holds(i, u) => task_list'[i] = task_list[i]
      BY <2>4, <2>6, <2>7, <2>10 DEF Holds
    <3> QED
      BY <1>1, <3>1, LifeOf, LifeOfNext DEF LivesFollow, HasTcb
  <2>11. Lives' = [Lives EXCEPT ![s] = "free"] /\ Dues' = Dues
    BY <2>9, <2>10 DEF Lives, Dues
  <2> QED
    BY <1>1, <2>9, <2>11, Reaps
<1>4. CASE GcKeep(t) \/ GcIdle(t)
  <2>1. Passes /\ gc_read < task_count /\ task_list[gc_write] = task_list[gc_read]
    BY <1>1, <1>4, PassesCopy
  <2>2. \A j \in Slots : Live(j)' => /\ Origin(j) \in Slots /\ Live(Origin(j))
                                     /\ task_list'[j] = task_list[Origin(j)]
    BY <1>1, <2>1, MoveKeeps
  <2>3. \A i \in Slots : Live(i) => \E j \in Slots : Live(j)' /\ Origin(j) = i
    BY <1>1, <2>1, MoveKeeps
  <2>4. \A j \in Slots : Live(j)' => \E i \in Slots : Live(i) /\ task_list'[j] = task_list[i]
    BY <2>2
  <2>5. \A i \in Slots : Live(i) => \E j \in Slots : Live(j)' /\ task_list'[j] = task_list[i]
    BY <2>2, <2>3
  <2> QED
    BY <1>1, <2>4, <2>5, LivesMoved, Stutters
<1>5. CASE GcCopy(t) \/ GcCount(t) \/ GcClear(t)
  <2>1. /\ \A i \in Slots : Live(i)' <=> Live(i)
        /\ \A i \in Slots : Live(i) => task_list'[i] = task_list[i]
    BY <1>1, <1>5, CopyKeeps, CountKeeps
  <2> QED
    BY <1>1, <2>1, LivesMoved, Stutters
<1>6. CASE GcCurrent(t) \/ GcIndex(t) \/ GcNext(t)
  <2>1. UNCHANGED <<task_list, task_count, gc_read, gc_write>>
    BY <1>6 DEF GcCurrent, GcIndex, GcNext, gc
  <2> QED
    BY <1>1, <2>1, LivesNone, Stutters
<1> QED
  BY <1>2, <1>3, <1>4, <1>5, <1>6 DEF Compacts

\* schedule_next_task chooses a task that is READY while none runs.
LEMMA LifeSelect ==
  ASSUME Base, Steady, NoneArmed, OwnStacks', sv = "scan",
         UNCHANGED <<task_count, gc_read, gc_write>>, UNCHANGED systick_ticks,
         NEW k \in Slots, Live(k), task_list[k].state = "READY", Select(k)
  PROVE  AbstractStep
<1>1. OwnStacks /\ RunningIsCurrent /\ ~Moving /\ task_list[k] \in Tcbs
  BY DEF Steady, Orderly, Roles, Layout, Base, TypeInv, TypeOK
<1>2. PICK tcb : /\ tcb = [task_list[k] EXCEPT !.state = "RUNNING"]
                 /\ task_list' = [task_list EXCEPT ![k] = tcb]
  BY DEF Select
<1>3. /\ Same(tcb, task_list[k]) /\ tcb.state = "RUNNING"
      /\ DueOf(tcb) = DueOf(task_list[k]) /\ DueOf(task_list[k]) = 0
  BY <1>1, <1>2 DEF Same, Tcbs, DueOf, NoneArmed, Runnable
<1>4. PICK s \in Stacks :
        /\ Lives[s] = task_list[k].state /\ Dues[s] = DueOf(task_list[k])
        /\ Lives' = [Lives EXCEPT ![s] = tcb.state]
        /\ Dues' = [Dues EXCEPT ![s] = DueOf(tcb)]
  <2>1. Same(tcb, task_list[k]) /\ task_list' = [task_list EXCEPT ![k] = tcb]
    BY <1>2, <1>3
  <2> QED
    BY <1>1, <2>1, LivesOne, Zenon
<1>5. Dues' = Dues
  BY <1>3, <1>4 DEF Dues
<1>6. ASSUME NEW u \in Stacks PROVE Lives[u] # "RUNNING"
  <2>1. CASE HasTcb(u)
    <3>1. PICK i \in Slots : Holds(i, u)
      BY <2>1 DEF HasTcb
    <3>2. task_list[i].state # "RUNNING"
      BY <1>1, <3>1 DEF Holds, RunningIsCurrent
    <3> QED
      BY <1>1, <3>1, <3>2, LifeOf DEF LivesFollow
  <2>2. CASE ~HasTcb(u)
    BY <1>1, <2>2, LifeOf DEF LivesFollow
  <2> QED
    BY <2>1, <2>2
<1> QED
  BY <1>3, <1>4, <1>5, <1>6, Dispatches

\* PendSV takes the CPU from the thread that runs, then gives it to one.
LEMMA LifeSwitch ==
  ASSUME Ready, OwnStacks', InBounds, Outside, PendSV
  PROVE  AbstractStep
<1> USE DEF table, gc
<1>1. UNCHANGED <<task_count, gc_read, gc_write, systick_ticks>>
  BY DEF PendSV, PendSVEnter, PendSVPick, PendSVSkip, PendSVIdle, PendSVStay, PendSVRestore, Select
<1>2. /\ NoneArmed /\ Settled /\ Base /\ Steady /\ OwnStacks /\ Compaction
      /\ \A i \in Slots : task_list[i] \in Tcbs
  BY ReadyIs, ArmedInside, RestIsSteady, SettledSwitch DEF Ready, Start
<1>3. CASE PendSVEnter
  <2>1. PICK k \in Slots : k = task_current /\ Live(k)
    BY <1>2 DEF Base, TypeInv, TypeOK, Steady, Orderly, Context
  <2>2. task_list' = [task_list EXCEPT ![k] = Preempted(task_list[k], cpu)]
    BY <1>3, <2>1 DEF PendSVEnter
  <2>3. cpu \in Stacks \union {NULL}
    BY <1>2 DEF Base, TypeInv, TypeOK
  <2>4. Same(Preempted(task_list[k], cpu), task_list[k])
    BY <1>2, <2>3, SameTask
  <2>5. PICK s \in Stacks :
          /\ Lives[s] = task_list[k].state /\ Dues[s] = DueOf(task_list[k])
          /\ Lives' = [Lives EXCEPT ![s] = Preempted(task_list[k], cpu).state]
          /\ Dues' = [Dues EXCEPT ![s] = DueOf(Preempted(task_list[k], cpu))]
    BY <1>1, <1>2, <2>1, <2>2, <2>4, LivesOne
  <2>6. /\ Preempted(task_list[k], cpu).state =
             IF task_list[k].state = "RUNNING" THEN "READY" ELSE task_list[k].state
        /\ Preempted(task_list[k], cpu).sleep_until_tick = task_list[k].sleep_until_tick
    BY <1>2 DEF Preempted, Tcbs
  <2>7. DueOf(Preempted(task_list[k], cpu)) = DueOf(task_list[k])
    BY <2>6 DEF DueOf
  <2>8. Dues' = Dues
    BY <2>5, <2>7 DEF Dues
  <2>9. CASE task_list[k].state = "RUNNING"
    <3>1. Dues[s] = 0
      BY <1>2, <2>1, <2>5, <2>9 DEF NoneArmed, Runnable, DueOf
    <3> QED
      BY <1>1, <2>5, <2>6, <2>8, <2>9, <3>1, Preempts
  <2>10. CASE task_list[k].state # "RUNNING"
    <3>1. Lives' = Lives
      BY <2>5, <2>6, <2>10 DEF Lives
    <3> QED
      BY <1>1, <2>8, <3>1, Stutters
  <2> QED
    BY <2>9, <2>10
<1>4. ASSUME sv = "scan", NEW k \in Slots, Live(k), task_list[k].state = "READY", Select(k)
      PROVE  AbstractStep
  BY <1>1, <1>2, <1>4, LifeSelect
<1>5. CASE PendSVPick
  <2>1. /\ sv = "scan" /\ sv_next \in Slots /\ sv_next < task_count
        /\ task_list[sv_next].state = "READY" /\ Select(sv_next)
    BY <1>2, <1>5 DEF PendSVPick, Eligible, Steady, Orderly, Context, Base, TypeInv, TypeOK
  <2> QED
    BY <1>2, <1>4, <2>1, LiveInFront
<1>6. CASE PendSVIdle \/ PendSVStay
  <2>1. sv = "scan" /\ IdleReady /\ Select(idle_task)
    BY <1>2, <1>6, NoFallback DEF PendSVIdle, PendSVStay
  <2>2. idle_task \in Slots /\ Live(idle_task) /\ task_list[idle_task].state = "READY"
    BY <1>2, <2>1 DEF IdleReady, Base, TypeInv, TypeOK, Steady, Orderly, Roles, IdleAvailable
  <2> QED
    BY <1>4, <2>1, <2>2
<1>7. CASE PendSVSkip \/ PendSVRestore
  <2>1. UNCHANGED task_list
    BY <1>7 DEF PendSVSkip, PendSVRestore
  <2> QED
    BY <1>1, <1>2, <2>1, LivesNone, Stutters
<1> QED
  BY <1>3, <1>5, <1>6, <1>7 DEF PendSV

\* SysTick_Handler wakes exactly the threads whose alarm rings: none was late.
LEMMA LifeTick ==
  ASSUME Ready, OwnStacks', NoWrap, SysTick
  PROVE  AbstractStep
<1> USE DEF Ready, Start
<1>0. Base /\ OwnStacks
  BY ReadyIs
<1>1. /\ systick_ticks' = systick_ticks + 1 /\ systick_ticks \in Nat
      /\ UNCHANGED <<task_count, gc_read, gc_write>>
      /\ \A i \in Slots : i < task_count =>
           task_list'[i] = WakeTcb(task_list[i], systick_ticks')
  BY TickAdvances DEF SysTick, InTime, Base, TypeInv, TypeOK, gc
<1>2. /\ OwnStacks /\ NoOverdueSleeper /\ Base
      /\ \A i \in Slots : task_list[i] \in Tcbs
  BY <1>0 DEF InTime, Base, TypeInv, TypeOK
<1>3. ASSUME NEW i \in Slots, Live(i)
      PROVE  /\ Live(i)' /\ task_list'[i].stack_ptr = task_list[i].stack_ptr
             /\ IF task_list[i].state = "BLOCKED" /\ DueOf(task_list[i]) = systick_ticks + 1
                THEN task_list'[i].state = "READY" /\ DueOf(task_list'[i]) = 0
                ELSE task_list'[i] = task_list[i]
  <2>1. task_list'[i] = WakeTcb(task_list[i], systick_ticks') /\ systick_ticks' \in Nat
    BY <1>1, <1>3 DEF Live
  <2>2. Same(WakeTcb(task_list[i], systick_ticks'), task_list[i])
    BY <1>2, <2>1, SameTask
  <2>3. Live(i)' /\ task_list'[i].stack_ptr = task_list[i].stack_ptr
    BY <1>1, <1>3, <2>1, <2>2 DEF Live, Same
  <2>4. Expired(task_list[i], systick_ticks') <=>
          task_list[i].state = "BLOCKED" /\ DueOf(task_list[i]) = systick_ticks + 1
    <3>1. task_list[i].sleep_until_tick \in Nat
      BY <1>2 DEF Tcbs
    <3> QED
      BY <1>1, <1>2, <1>3, <3>1 DEF Expired, DueOf, NoOverdueSleeper
  <2>5. CASE Expired(task_list[i], systick_ticks')
    <3>1. task_list'[i].state = "READY" /\ DueOf(task_list'[i]) = 0
      BY <1>2, <2>1, <2>5 DEF WakeTcb, Tcbs, DueOf
    <3> QED
      BY <2>3, <2>4, <2>5, <3>1
  <2>6. CASE ~Expired(task_list[i], systick_ticks')
    BY <2>1, <2>3, <2>4, <2>6 DEF WakeTcb
  <2> QED
    BY <2>5, <2>6
<1>4. \A i \in Slots : Live(i)' => Live(i)
  BY <1>2, TickWakes
<1>5. ASSUME NEW u \in Stacks
      PROVE  IF Lives[u] = "BLOCKED" /\ Dues[u] = systick_ticks + 1
             THEN Lives'[u] = "READY" /\ Dues'[u] = 0
             ELSE Lives'[u] = Lives[u] /\ Dues'[u] = Dues[u]
  <2>1. CASE HasTcb(u)
    <3>1. PICK i \in Slots : Holds(i, u)
      BY <2>1 DEF HasTcb
    <3>2. Holds(i, u)'
      BY <1>3, <3>1 DEF Holds
    <3>3. /\ Lives[u] = task_list[i].state /\ Dues[u] = DueOf(task_list[i])
          /\ Lives'[u] = task_list'[i].state /\ Dues'[u] = DueOf(task_list'[i])
      BY <1>2, <3>1, <3>2, LifeOf, LifeOfNext DEF LivesFollow
    <3> QED
      BY <1>3, <3>1, <3>3 DEF Holds
  <2>2. CASE ~HasTcb(u)
    <3>1. ~HasTcb(u)'
      BY <1>3, <1>4, <2>2 DEF HasTcb, Holds
    <3> QED
      BY <1>2, <2>2, <3>1, LifeOf, LifeOfNext DEF LivesFollow
  <2> QED
    BY <2>1, <2>2
<1> QED
  BY <1>1, <1>5, Ticks

LEMMA LifeStep ==
  ASSUME Ready, OwnStacks', NoMisuse, NoWrap, [CalmNext]_vars
  PROVE  AbstractStep
<1>1. CASE UNCHANGED vars
  <2>1. UNCHANGED <<task_list, task_count, gc_read, gc_write, systick_ticks>>
    BY <1>1 DEF vars, table, gc
  <2> QED
    BY <2>1, ReadyIs, LivesNone, Stutters
<1>2. ASSUME InBounds, NEW t \in Stacks, ThreadContinues(t) \/ ThreadCalls(t) PROVE AbstractStep
  <2>1. CASE InsideSelf(t)
    BY <1>2, <2>1, LifeSelf
  <2>2. CASE OutsideSelf(t)
    BY <1>2, <2>2, LifeCreate, LifeCompact, LifeCalls DEF OutsideSelf
  <2> QED
    BY <1>2, <2>1, <2>2, OutsideSelfIs
<1>3. ASSUME InBounds, Outside, PendSV PROVE AbstractStep
  BY <1>3, LifeSwitch
<1>4. ASSUME SysTick PROVE AbstractStep
  BY <1>4, LifeTick
<1> QED
  BY <1>1, <1>2, <1>3, <1>4 DEF CalmNext, Threads

LEMMA LifeInit ==
  ASSUME HasIdle, Init
  PROVE  TL!Init
<1>1. /\ \A i \in 0 .. BootCount - 1 : task_list[i].state = IF i = 0 THEN "RUNNING" ELSE "READY"
      /\ \A i \in Slots : i >= BootCount => task_list[i] = ZeroTcb
  BY BootTable
<1>2. /\ systick_ticks = 0 /\ sv = "none" /\ task_current = 0 /\ cpu \in Stacks \union {NULL}
  BY TypeInit DEF Init, TypeInv, TypeOK
<1>9. ~Moving
  <2>1. \A t \in Stacks : pc[t] \in {"idle", "run"}
    BY DEF Init
  <2> QED
    BY <2>1 DEF Moving, Following
<1>3. OwnStacks /\ Holds(task_current, cpu) /\ RunningIsCurrent
  BY <1>2, <1>9, KernelInit DEF KernelInv, Steady, Orderly, Layout, Context, Roles, RunsOwnContext
<1>4. 0 \in Slots /\ 0 \in 0 .. BootCount - 1 /\ BootCount \in Nat
  BY TableAssumption DEF Slots, BootCount
<1>5. \A i \in Slots : Live(i) => task_list[i].state \in {"READY", "RUNNING"}
  <2>1. ASSUME NEW i \in Slots PROVE i \in 0 .. BootCount - 1 \/ i >= BootCount
    BY <1>4, TableAssumption DEF Slots
  <2> QED
    BY <1>1, <2>1 DEF Live, ZeroTcb
<1>6. task_list[0].state = "RUNNING"
  BY <1>1, <1>4
<1>7. cpu \in Stacks
  BY <1>2, <1>3, <1>4 DEF Holds, OwnStacks
<1>8. ASSUME NEW u \in Stacks
      PROVE  /\ Lives[u] \in {"free", "READY", "RUNNING"} /\ Dues[u] = 0
             /\ Lives[u] = "RUNNING" <=> u = cpu
  <2>1. CASE HasTcb(u)
    <3>1. PICK i \in Slots : Holds(i, u)
      BY <2>1 DEF HasTcb
    <3>2. Lives[u] = task_list[i].state /\ Dues[u] = 0
      BY <1>3, <3>1, LifeOf, InitTimes DEF LivesFollow, DueOf
    <3>3. i = task_current <=> u = cpu
      BY <1>2, <1>3, <1>4, <3>1 DEF Holds, OwnStacks
    <3> QED
      BY <1>2, <1>3, <1>5, <1>6, <1>9, <3>1, <3>2, <3>3 DEF Holds, RunningIsCurrent
  <2>2. CASE ~HasTcb(u)
    <3>1. u # cpu
      BY <1>2, <1>3, <1>4, <2>2 DEF HasTcb
    <3> QED
      BY <1>3, <2>2, <3>1, LifeOf DEF LivesFollow
  <2> QED
    BY <2>1, <2>2
<1> QED
  BY <1>2, <1>7, <1>8 DEF TL!Init, Lives, Dues

\* In a calm execution, whatever tasks are created, ended, put to sleep, blocked and
\* unblocked, short of the misuses and until the tick wraps, every thread lives as
\* TaskLife says: one at most runs, a sleeper is woken by the very tick it asked for,
\* an ended thread never comes back and only its stack is used again.
\* (core/scheduler.c as a whole)
THEOREM ThreadsLive ==
  ASSUME HasIdle, NoMisuse, NoWrap
  PROVE  CalmSpec => ImplementsTaskLife
<1>1. Init => TL!Init
  BY LifeInit
<1>2. (TypeInv /\ ExclusionInv /\ KernelInv /\ WakeTimesCleared /\ InTime)
      /\ OwnStacks' /\ [CalmNext]_vars
        => AbstractStep
  BY LifeStep DEF Ready, Start, Base
<1>3. KernelInv => OwnStacks
  BY AlwaysLayout DEF Layout
<1> QED
  BY <1>1, <1>2, <1>3, KernelInvariant, ClearedInvariant, InTimeInvariant, PTL
     DEF CalmSpec, ImplementsTaskLife, TL!Spec, AbstractStep

=============================================================================
