------------------------------ MODULE Scheduler ------------------------------
(***************************************************************************)
(* The preemptive round-robin kernel: core/scheduler.c, the PendSV context *)
(* switch of core/context_switch.S, the SysTick handler of                 *)
(* drivers/systick.c and the BASEPRI critical sections of core/utils.h.    *)
(*                                                                         *)
(* A thread is named by the heap block that is its stack: a context on the *)
(* CPU is the PSP that points into that block.  The table task_list says   *)
(* what the kernel believes about threads; pc and cpu say what they really *)
(* do, and most properties relate the two.                                 *)
(*                                                                         *)
(* An action is the code between two points where an interrupt is let in   *)
(* and matters.  MAX_SYSCALL_PRIORITY is configured as 5, of which BASEPRI *)
(* keeps nothing: sections mask no interrupt.  So inside a section, too,   *)
(* every store to what an interrupt or another task reads is a step of its *)
(* own, and so is the check it relies on.                                  *)
(***************************************************************************)
EXTENDS Integers, FiniteSets

CONSTANTS
  MAX_TASKS,             \* length of task_list
  MAX_SYSCALL_PRIORITY,  \* the value critical sections write to BASEPRI
  GC_TICKS,              \* GARBAGE_COLLECTION_TICKS
  TICK_MOD,              \* systick_ticks wraps at this value (2^32)
  TICK_LIMIT,            \* bound of the model: the tick never passes it
  MAX_ID,                \* bound of the model: no creation starts past this id
  Stacks,                \* heap blocks that can hold a stack
  BootTasks,             \* tasks main() creates before scheduler_start
  Calls,                 \* API calls the tasks make
  SleepTicks,            \* arguments of task_sleep_ticks
  NULL

ASSUME TableAssumption    == MAX_TASKS \in Nat \ {0} /\ BootTasks \in 1..MAX_TASKS
ASSUME PriorityAssumption == MAX_SYSCALL_PRIORITY \in 0..255
ASSUME TickAssumption     == /\ TICK_MOD \in Nat \ {0} /\ TICK_LIMIT \in Nat
                             /\ GC_TICKS \in Nat /\ SleepTicks \subseteq Nat \ {0}
ASSUME IdAssumption       == MAX_ID \in Nat
ASSUME CallsAssumption    ==
  Calls \subseteq {"create", "delete", "exit", "sleep",
                   "block_current", "block", "unblock",
                   "block_zombie", "unblock_sleeper"}
ASSUME NullAssumption     == NULL \notin Stacks /\ NULL \notin 0..MAX_TASKS

Slots   == 0 .. MAX_TASKS - 1
Handles == 0 .. MAX_TASKS          \* one past the end is where an overrun lands

\* Places inside a critical section, and those among them where the compaction
\* has copied a control block and not yet turned every pointer to the copy.
Following == {"gc_current", "gc_index", "gc_next", "gc_idle"}
Filling   == {"create_fill", "create_ready", "create_id", "create_wake", "create_commit"}
Critical  == Following \union Filling \union
             {"create_alloc", "delete_mark", "delete_clear", "exit_clear", "self_check",
              "self_block", "block_set", "unblock_set", "gc", "gc_clear"}
Labels   == Critical \union {"run", "idle", "create_find", "yield", "exited"}

States  == {"UNUSED", "READY", "RUNNING", "BLOCKED", "ZOMBIE"}

VARIABLES
  task_list, task_count, task_current, task_current_index, task_next,
  idle_task, next_task_id,
  heap,                    \* blocks that allocator_malloc has handed out
  systick_ticks, basepri, pendsv,
  cpu,                     \* the thread PSP points into
  sv, sv_next, sv_left,    \* PendSV_Handler: phase, cursor, slots left to scan
  pc, loc,                 \* each thread's place in the API, and its locals
  gc_read, gc_write,       \* read_idx, write_idx of task_garbage_collection
  last_gc_tick

table   == <<task_list, task_count>>
ptrs    == <<task_current, task_current_index, task_next, idle_task>>
switch  == <<cpu, sv, sv_next, sv_left>>
threads == <<pc, loc>>
gc      == <<gc_read, gc_write, last_gc_tick>>
vars    == <<table, ptrs, next_task_id, heap, systick_ticks, basepri, pendsv,
             switch, threads, gc>>

-----------------------------------------------------------------------------
(* Processor                                                               *)

\* A write to BASEPRI keeps the implemented bits, [7:4] on this part.
Basepri(v) == (v \div 16) * 16

SYSTICK_PRIO == 224   \* 0xE0
PENDSV_PRIO  == 240   \* 0xF0

Unmasked(prio) == basepri = 0 \/ prio < basepri

Enter == basepri' = Basepri(MAX_SYSCALL_PRIORITY)
Exit  == basepri' = 0        \* the saved value: no section nests in another

\* Thread t executes an instruction: no handler is active or about to start.
OnCpu(t) == sv = "none" /\ cpu = t /\ ~(pendsv /\ Unmasked(PENDSV_PRIO))

At(t, label)   == OnCpu(t) /\ pc[t] = label
Goto(t, label) == pc' = [pc EXCEPT ![t] = label]

\* A call ends, and with it its locals.
NoLocals  == [slot |-> 0, block |-> NULL]
Return(t) == Goto(t, "run") /\ loc' = [loc EXCEPT ![t] = NoLocals]

-----------------------------------------------------------------------------
(* Task control blocks                                                     *)

Tcbs == [state : States, is_idle : BOOLEAN, task_id : Nat, sleep_until_tick : Nat,
         psp : Stacks \union {NULL}, stack_ptr : Stacks \union {NULL}]

ZeroTcb == [state |-> "UNUSED", is_idle |-> FALSE, task_id |-> 0,
            sleep_until_tick |-> 0, psp |-> NULL, stack_ptr |-> NULL]

\* What task_create makes of a control block.
NewTcb(stack, id) ==
  [state |-> "READY", is_idle |-> FALSE, task_id |-> id,
   sleep_until_tick |-> 0, psp |-> stack, stack_ptr |-> stack]

Mut_Blockable(tcb) == tcb.state # "UNUSED"      \* mutant: the idle check dropped
Blockable(tcb)     == tcb.state # "UNUSED" /\ ~tcb.is_idle

Mut_Preempted(tcb, context) == [tcb EXCEPT !.psp = context]   \* mutant: left RUNNING

\* What PendSV does to the thread it takes the CPU from.
Preempted(tcb, context) ==
  [tcb EXCEPT !.psp = context, !.state = IF @ = "RUNNING" THEN "READY" ELSE @]

Eligible(tcb) == tcb.state = "READY" /\ ~tcb.is_idle /\ tcb.sleep_until_tick = 0

\* mutants: woken a tick early; a tick late
Mut_ExpiredEarly(tcb, now) ==
  tcb.state = "BLOCKED" /\ tcb.sleep_until_tick # 0 /\ now + 1 >= tcb.sleep_until_tick
Mut_ExpiredLate(tcb, now) ==
  tcb.state = "BLOCKED" /\ tcb.sleep_until_tick # 0 /\ now > tcb.sleep_until_tick

Expired(tcb, now) ==
  tcb.state = "BLOCKED" /\ tcb.sleep_until_tick # 0 /\ now >= tcb.sleep_until_tick

\* mutant: the wake-up time is left over
Mut_WakeTcb(tcb, now) == IF Expired(tcb, now) THEN [tcb EXCEPT !.state = "READY"] ELSE tcb

WakeTcb(tcb, now) ==
  IF Expired(tcb, now) THEN [tcb EXCEPT !.state = "READY", !.sleep_until_tick = 0] ELSE tcb

-----------------------------------------------------------------------------
(* Boot: the state scheduler_start hands to the first task.                *)

HasIdle   == BootTasks < MAX_TASKS     \* else task_create_idle fails
BootCount == IF HasIdle THEN BootTasks + 1 ELSE BootTasks

BootTcb(i, stack) ==
  [NewTcb(stack, i + 1) EXCEPT !.is_idle = (i = BootTasks),
                               !.state = IF i = 0 THEN "RUNNING" ELSE @]

Init ==
  \E stack \in [0 .. BootCount - 1 -> Stacks] :
    /\ \A i, j \in 0 .. BootCount - 1 : stack[i] = stack[j] => i = j
    /\ task_list = [i \in Slots |->
                      IF i < BootCount THEN BootTcb(i, stack[i]) ELSE ZeroTcb]
    /\ task_count = BootCount
    /\ task_current = 0 /\ task_current_index = 0 /\ task_next = 0
    /\ idle_task = IF HasIdle THEN BootTasks ELSE NULL
    /\ next_task_id = BootCount
    /\ heap = {stack[i] : i \in 0 .. BootCount - 1}
    /\ cpu = stack[0]
    /\ pc = [t \in Stacks |-> IF HasIdle /\ t = stack[BootCount - 1] THEN "idle" ELSE "run"]
    /\ loc = [t \in Stacks |-> NoLocals]
    /\ systick_ticks = 0 /\ basepri = 0 /\ pendsv = FALSE
    /\ sv = "none" /\ sv_next = 0 /\ sv_left = 0
    /\ gc_read = 0 /\ gc_write = 0 /\ last_gc_tick = 0

-----------------------------------------------------------------------------
(* task_create                                                             *)

\* The capacity check, made before the critical section.
CreateCheck(t) ==
  /\ "create" \in Calls /\ At(t, "run")
  /\ task_count < MAX_TASKS
  /\ next_task_id < MAX_ID
  /\ Goto(t, "create_find")
  /\ UNCHANGED <<table, ptrs, next_task_id, heap, systick_ticks, basepri,
                 pendsv, switch, loc, gc>>

\* The slot the search loop settles on: the first UNUSED one, else the next.
FirstUnused(i) ==
  /\ i <= task_count
  /\ i < task_count => task_list[i].state = "UNUSED"
  /\ \A j \in Slots : j < i => task_list[j].state # "UNUSED"

CreateFind(t) ==
  /\ At(t, "create_find")
  /\ Enter
  /\ \E i \in Handles : FirstUnused(i) /\ loc' = [loc EXCEPT ![t].slot = i]
  /\ Goto(t, "create_alloc")
  /\ UNCHANGED <<table, ptrs, next_task_id, heap, systick_ticks, pendsv, switch, gc>>

CreateAlloc(t) ==
  /\ At(t, "create_alloc")
  /\ \E block \in Stacks \ heap :
       /\ heap' = heap \union {block}
       /\ task_list' = [task_list EXCEPT ![loc[t].slot].stack_ptr = block]
       /\ loc' = [loc EXCEPT ![t].block = block]
  /\ Goto(t, "create_fill")
  /\ UNCHANGED <<task_count, ptrs, next_task_id, systick_ticks, basepri, pendsv,
                 switch, gc>>

\* allocator_malloc may fail at any time: the application uses the heap too.
CreateFail(t) ==
  /\ At(t, "create_alloc")
  /\ Exit
  /\ Return(t)
  /\ UNCHANGED <<table, ptrs, next_task_id, heap, systick_ticks, pendsv, switch,
                 gc>>

\* A field of the new control block, in the order of the assignments.
Fill(t, field, value) == task_list' = [task_list EXCEPT ![loc[t].slot][field] = value]

\* initialize_stack: from here on the new thread has a context to run in.
CreateFill(t) ==
  /\ At(t, "create_fill")
  /\ Fill(t, "psp", loc[t].block)
  /\ pc' = [pc EXCEPT ![loc[t].block] = "run", ![t] = "create_ready"]
  /\ UNCHANGED <<task_count, ptrs, next_task_id, heap, systick_ticks, basepri,
                 pendsv, switch, loc, gc>>

\* is_idle, stored next, is 0 already: no slot the search finds was the idle task's.
CreateReady(t) ==
  /\ At(t, "create_ready")
  /\ Fill(t, "state", "READY")
  /\ Goto(t, "create_id")
  /\ UNCHANGED <<task_count, ptrs, next_task_id, heap, systick_ticks, basepri,
                 pendsv, switch, loc, gc>>

CreateId(t) ==
  /\ At(t, "create_id")
  /\ next_task_id' = next_task_id + 1
  /\ Fill(t, "task_id", next_task_id')
  /\ Goto(t, "create_wake")
  /\ UNCHANGED <<task_count, ptrs, heap, systick_ticks, basepri, pendsv, switch,
                 loc, gc>>

CreateWake(t) ==
  /\ At(t, "create_wake")
  /\ Fill(t, "sleep_until_tick", 0)
  /\ Goto(t, "create_commit")
  /\ UNCHANGED <<task_count, ptrs, next_task_id, heap, systick_ticks, basepri,
                 pendsv, switch, loc, gc>>

CreateCommit(t) ==
  /\ At(t, "create_commit")
  /\ task_count' = IF loc[t].slot = task_count THEN task_count + 1 ELSE task_count
  /\ Exit
  /\ Return(t)
  /\ UNCHANGED <<task_list, ptrs, next_task_id, heap, systick_ticks, pendsv,
                 switch, gc>>

-----------------------------------------------------------------------------
(* task_delete, task_exit                                                  *)

HasId(i, id) == i < task_count /\ task_list[i].task_id = id

Mut_Deletable(i) == i # task_current     \* mutant: the idle check dropped
Deletable(i)     == ~task_list[i].is_idle /\ i # task_current

DeleteFind(t, id) ==
  /\ "delete" \in Calls /\ At(t, "run")
  /\ \E i \in Slots :
       /\ HasId(i, id)
       /\ \A j \in 0 .. i - 1 : ~HasId(j, id)
       /\ Deletable(i)
       /\ loc' = [loc EXCEPT ![t].slot = i]
  /\ Enter
  /\ Goto(t, "delete_mark")
  /\ UNCHANGED <<table, ptrs, next_task_id, heap, systick_ticks, pendsv, switch, gc>>

DeleteMark(t) ==
  /\ At(t, "delete_mark")
  /\ task_list' = [task_list EXCEPT ![loc[t].slot].state = "ZOMBIE"]
  /\ Goto(t, "delete_clear")
  /\ UNCHANGED <<task_count, ptrs, next_task_id, heap, systick_ticks, basepri,
                 pendsv, switch, loc, gc>>

DeleteClear(t) ==
  /\ At(t, "delete_clear")
  /\ task_list' = [task_list EXCEPT ![loc[t].slot].task_id = 0]
  /\ Exit
  /\ Return(t)
  /\ UNCHANGED <<task_count, ptrs, next_task_id, heap, systick_ticks, pendsv,
                 switch, gc>>

ExitMark(t) ==
  /\ "exit" \in Calls /\ At(t, "run")
  /\ Enter
  /\ task_list' = [task_list EXCEPT ![task_current].state = "ZOMBIE"]
  /\ Goto(t, "exit_clear")
  /\ UNCHANGED <<task_count, ptrs, next_task_id, heap, systick_ticks, pendsv,
                 switch, loc, gc>>

ExitClear(t) ==
  /\ At(t, "exit_clear")
  /\ task_list' = [task_list EXCEPT ![task_current].task_id = 0]
  /\ Exit
  /\ Goto(t, "exited")
  /\ UNCHANGED <<task_count, ptrs, next_task_id, heap, systick_ticks, pendsv,
                 switch, loc, gc>>

ExitYield(t) ==
  /\ At(t, "exited")
  /\ pendsv' = TRUE
  /\ UNCHANGED <<table, ptrs, next_task_id, heap, systick_ticks, basepri, switch,
                 threads, gc>>

-----------------------------------------------------------------------------
(* task_sleep_ticks, task_block_current, task_block, task_unblock          *)

WakeTime(n) == (systick_ticks + n) % TICK_MOD

SleepSet(t, n) ==
  /\ "sleep" \in Calls /\ At(t, "run")
  /\ Enter
  /\ task_list' = [task_list EXCEPT ![task_current].sleep_until_tick = WakeTime(n)]
  /\ Goto(t, "self_check")
  /\ UNCHANGED <<task_count, ptrs, next_task_id, heap, systick_ticks, pendsv,
                 switch, loc, gc>>

BlockCurrent(t) ==
  /\ "block_current" \in Calls /\ At(t, "run")
  /\ Enter
  /\ Goto(t, "self_check")
  /\ UNCHANGED <<table, ptrs, next_task_id, heap, systick_ticks, pendsv, switch,
                 loc, gc>>

\* The test and the store that end both calls.
SelfCheck(t) ==
  /\ At(t, "self_check")
  /\ IF Blockable(task_list[task_current])
       THEN Goto(t, "self_block") /\ UNCHANGED basepri
       ELSE Goto(t, "yield") /\ Exit
  /\ UNCHANGED <<table, ptrs, next_task_id, heap, systick_ticks, pendsv, switch,
                 loc, gc>>

SelfBlock(t) ==
  /\ At(t, "self_block")
  /\ task_list' = [task_list EXCEPT ![task_current].state = "BLOCKED"]
  /\ Exit
  /\ Goto(t, "yield")
  /\ UNCHANGED <<task_count, ptrs, next_task_id, heap, systick_ticks, pendsv,
                 switch, loc, gc>>

Yield(t) ==
  /\ At(t, "yield")
  /\ pendsv' = TRUE
  /\ Goto(t, "run")
  /\ UNCHANGED <<table, ptrs, next_task_id, heap, systick_ticks, basepri, switch,
                 loc, gc>>

\* The handle is that of a task the table holds at the call.  The two uses that
\* go wrong, on an ended task and on a sleeping one, are calls of their own.
MayBlock(i) ==
  /\ i < task_count
  /\ (IF task_list[i].state = "ZOMBIE" THEN "block_zombie" ELSE "block") \in Calls

MayUnblock(i) ==
  /\ i < task_count
  /\ (IF task_list[i].sleep_until_tick # 0 THEN "unblock_sleeper" ELSE "unblock") \in Calls

BlockCheck(t, i) ==
  /\ At(t, "run") /\ MayBlock(i)
  /\ Blockable(task_list[i])
  /\ Enter
  /\ loc' = [loc EXCEPT ![t].slot = i]
  /\ Goto(t, "block_set")
  /\ UNCHANGED <<table, ptrs, next_task_id, heap, systick_ticks, pendsv, switch, gc>>

BlockSet(t) ==
  /\ At(t, "block_set")
  /\ task_list' = [task_list EXCEPT ![loc[t].slot].state = "BLOCKED"]
  /\ Exit
  /\ Return(t)
  /\ UNCHANGED <<task_count, ptrs, next_task_id, heap, systick_ticks, pendsv,
                 switch, gc>>

UnblockCheck(t, i) ==
  /\ At(t, "run") /\ MayUnblock(i)
  /\ task_list[i].state = "BLOCKED"
  /\ Enter
  /\ loc' = [loc EXCEPT ![t].slot = i]
  /\ Goto(t, "unblock_set")
  /\ UNCHANGED <<table, ptrs, next_task_id, heap, systick_ticks, pendsv, switch, gc>>

UnblockSet(t) ==
  /\ At(t, "unblock_set")
  /\ task_list' = [task_list EXCEPT ![loc[t].slot].state = "READY"]
  /\ Exit
  /\ Return(t)
  /\ UNCHANGED <<task_count, ptrs, next_task_id, heap, systick_ticks, pendsv,
                 switch, gc>>

-----------------------------------------------------------------------------
(* The idle task and task_garbage_collection                               *)

GcDue == (systick_ticks - last_gc_tick) % TICK_MOD >= GC_TICKS

GcStart(t) ==
  /\ At(t, "idle") /\ GcDue
  /\ Enter
  /\ gc_read' = 0 /\ gc_write' = 0
  /\ Goto(t, "gc")
  /\ UNCHANGED <<table, ptrs, next_task_id, heap, systick_ticks, pendsv, switch,
                 loc, last_gc_tick>>

Mut_Dead(tcb) == tcb.state = "UNUSED"       \* mutant: zombies kept as active
Dead(tcb)     == tcb.state \in {"ZOMBIE", "UNUSED"}

Mut_Freed(tcb) == {}                        \* mutant: no allocator_free
Freed(tcb)     == IF tcb.state = "ZOMBIE" THEN {tcb.stack_ptr} ELSE {}

Reclaimed(tcb) ==
  IF tcb.state = "ZOMBIE" THEN [tcb EXCEPT !.state = "UNUSED", !.stack_ptr = NULL] ELSE tcb

\* A slot whose task is dead, or was never alive.  One step: nobody else looks
\* at the stack of a dead task, and to the scan of PendSV all its states are one.
GcReap(t) ==
  /\ At(t, "gc") /\ gc_read < task_count
  /\ Dead(task_list[gc_read])
  /\ heap' = heap \ Freed(task_list[gc_read])
  /\ task_list' = [task_list EXCEPT ![gc_read] = Reclaimed(@)]
  /\ gc_read' = gc_read + 1
  /\ UNCHANGED <<task_count, ptrs, next_task_id, systick_ticks, basepri, pendsv,
                 switch, threads, gc_write, last_gc_tick>>

\* A task that is where it should be.
GcKeep(t) ==
  /\ At(t, "gc") /\ gc_read < task_count
  /\ ~Dead(task_list[gc_read])
  /\ gc_read = gc_write
  /\ gc_read' = gc_read + 1 /\ gc_write' = gc_write + 1
  /\ UNCHANGED <<table, ptrs, next_task_id, heap, systick_ticks, basepri, pendsv,
                 switch, threads, last_gc_tick>>

\* A task that moves down: its control block is copied, then the pointers to
\* the old one follow, one at a time.  A test and its store are one step: what
\* the idle task finds current, or chosen, is itself whenever it is back.
GcCopy(t) ==
  /\ At(t, "gc") /\ gc_read < task_count
  /\ ~Dead(task_list[gc_read])
  /\ gc_read # gc_write
  /\ task_list' = [task_list EXCEPT ![gc_write] = task_list[gc_read]]
  /\ Goto(t, "gc_current")
  /\ UNCHANGED <<task_count, ptrs, next_task_id, heap, systick_ticks, basepri,
                 pendsv, switch, loc, gc>>

Mut_Follow(ptr) == ptr                      \* mutant: no pointer fix-up
Follow(ptr)     == IF ptr = gc_read THEN gc_write ELSE ptr

GcCurrent(t) ==
  /\ At(t, "gc_current")
  /\ task_current' = Follow(task_current)
  /\ Goto(t, IF task_current = gc_read THEN "gc_index" ELSE "gc_next")
  /\ UNCHANGED <<table, task_current_index, task_next, idle_task, next_task_id,
                 heap, systick_ticks, basepri, pendsv, switch, loc, gc>>

Mut_FollowIndex == task_current_index       \* mutant: no cursor fix-up
FollowIndex     == gc_write

GcIndex(t) ==
  /\ At(t, "gc_index")
  /\ task_current_index' = FollowIndex
  /\ Goto(t, "gc_next")
  /\ UNCHANGED <<table, task_current, task_next, idle_task, next_task_id, heap,
                 systick_ticks, basepri, pendsv, switch, loc, gc>>

GcNext(t) ==
  /\ At(t, "gc_next")
  /\ task_next' = Follow(task_next)
  /\ Goto(t, "gc_idle")
  /\ UNCHANGED <<table, task_current, task_current_index, idle_task, next_task_id,
                 heap, systick_ticks, basepri, pendsv, switch, loc, gc>>

GcIdle(t) ==
  /\ At(t, "gc_idle")
  /\ idle_task' = Follow(idle_task)
  /\ gc_read' = gc_read + 1 /\ gc_write' = gc_write + 1
  /\ Goto(t, "gc")
  /\ UNCHANGED <<table, task_current, task_current_index, task_next, next_task_id,
                 heap, systick_ticks, basepri, pendsv, switch, loc, last_gc_tick>>

GcCount(t) ==
  /\ At(t, "gc") /\ gc_read >= task_count
  /\ task_count' = gc_write
  /\ Goto(t, "gc_clear")
  /\ UNCHANGED <<task_list, ptrs, next_task_id, heap, systick_ticks, basepri,
                 pendsv, switch, loc, gc>>

GcClear(t) ==
  /\ At(t, "gc_clear")
  /\ task_list' = [i \in Slots |-> IF i < task_count THEN task_list[i] ELSE ZeroTcb]
  /\ gc_read' = 0 /\ gc_write' = 0
  /\ last_gc_tick' = systick_ticks
  /\ Exit
  /\ Goto(t, "idle")
  /\ UNCHANGED <<task_count, ptrs, next_task_id, heap, systick_ticks, pendsv,
                 switch, loc>>

-----------------------------------------------------------------------------
(* PendSV_Handler and schedule_next_task.  Thread code does not run while  *)
(* sv # "none"; SysTick does, its priority is one level above.             *)

\* mutants: the scan starts at slot 0; it starts past the last slot
Mut_ScanFromStart == 0
Mut_ScanFromNext  == task_current_index + 1
ScanFrom          == (task_current_index + 1) % task_count

PendSVEnter ==
  /\ sv = "none" /\ pendsv /\ Unmasked(PENDSV_PRIO)
  /\ task_count > 0
  /\ pendsv' = FALSE
  /\ task_list' = [task_list EXCEPT ![task_current] = Preempted(@, cpu)]
  /\ sv' = "scan"
  /\ sv_next' = ScanFrom
  /\ sv_left' = task_count
  /\ UNCHANGED <<task_count, ptrs, next_task_id, heap, systick_ticks, basepri,
                 cpu, threads, gc>>

\* mutant: the cursor is left where it was
Mut_Select(i) ==
  /\ task_next' = i
  /\ task_list' = [task_list EXCEPT ![i].state = "RUNNING"]
  /\ sv' = "restore" /\ sv_next' = 0 /\ sv_left' = 0
  /\ UNCHANGED <<task_count, task_current, task_current_index, idle_task,
                 next_task_id, heap, systick_ticks, basepri, pendsv, cpu, threads, gc>>

\* task_next = &task_list[i], which becomes the running task.
Select(i) ==
  /\ task_next' = i
  /\ task_current_index' = i
  /\ task_list' = [task_list EXCEPT ![i].state = "RUNNING"]
  /\ sv' = "restore" /\ sv_next' = 0 /\ sv_left' = 0
  /\ UNCHANGED <<task_count, task_current, idle_task, next_task_id, heap,
                 systick_ticks, basepri, pendsv, cpu, threads, gc>>

PendSVPick ==
  /\ sv = "scan" /\ sv_left > 0
  /\ Eligible(task_list[sv_next])
  /\ Select(sv_next)

PendSVSkip ==
  /\ sv = "scan" /\ sv_left > 0
  /\ ~Eligible(task_list[sv_next])
  /\ sv_next' = (sv_next + 1) % task_count
  /\ sv_left' = sv_left - 1
  /\ UNCHANGED <<table, ptrs, next_task_id, heap, systick_ticks, basepri, pendsv,
                 cpu, sv, threads, gc>>

IdleReady == idle_task # NULL /\ task_list[idle_task].state = "READY"

PendSVIdle ==
  /\ sv = "scan" /\ sv_left = 0
  /\ IdleReady
  /\ Select(idle_task)

\* The fallback: nothing is READY and there is no idle task to run.
PendSVStay ==
  /\ sv = "scan" /\ sv_left = 0
  /\ ~IdleReady
  /\ Select(task_current_index)

\* mutant: task_current is not updated
Mut_PendSVRestore ==
  /\ sv = "restore"
  /\ cpu' = task_list[task_next].psp
  /\ sv' = "none"
  /\ UNCHANGED <<table, ptrs, next_task_id, heap, systick_ticks, basepri, pendsv,
                 sv_next, sv_left, threads, gc>>

PendSVRestore ==
  /\ sv = "restore"
  /\ cpu' = task_list[task_next].psp
  /\ task_current' = task_next
  /\ sv' = "none"
  /\ UNCHANGED <<table, task_current_index, task_next, idle_task, next_task_id,
                 heap, systick_ticks, basepri, pendsv, sv_next, sv_left, threads, gc>>

-----------------------------------------------------------------------------
(* SysTick_Handler with scheduler_wake_sleeping_tasks.                     *)

SysTick ==
  /\ Unmasked(SYSTICK_PRIO)
  /\ systick_ticks # TICK_LIMIT
  /\ systick_ticks' = (systick_ticks + 1) % TICK_MOD
  /\ task_list' = [i \in Slots |-> IF i < task_count THEN WakeTcb(task_list[i], systick_ticks')
                                   ELSE task_list[i]]
  /\ pendsv' = TRUE
  /\ UNCHANGED <<task_count, ptrs, next_task_id, heap, basepri, switch, threads, gc>>

-----------------------------------------------------------------------------
\* A step of thread t inside a call it has begun.
ThreadContinues(t) ==
  \/ CreateFind(t) \/ CreateAlloc(t) \/ CreateFail(t) \/ CreateFill(t)
  \/ CreateReady(t) \/ CreateId(t) \/ CreateWake(t) \/ CreateCommit(t)
  \/ DeleteMark(t) \/ DeleteClear(t) \/ ExitClear(t) \/ ExitYield(t)
  \/ SelfCheck(t) \/ SelfBlock(t) \/ Yield(t) \/ BlockSet(t) \/ UnblockSet(t)
  \/ GcStart(t) \/ GcReap(t) \/ GcKeep(t) \/ GcCopy(t) \/ GcCurrent(t) \/ GcIndex(t)
  \/ GcNext(t) \/ GcIdle(t) \/ GcCount(t) \/ GcClear(t)

\* A call that thread t makes of its own accord.
ThreadCalls(t) ==
  \/ CreateCheck(t) \/ ExitMark(t) \/ BlockCurrent(t)
  \/ \E id \in 0 .. MAX_ID : DeleteFind(t, id)
  \/ \E n \in SleepTicks : SleepSet(t, n)
  \/ \E i \in Slots : BlockCheck(t, i) \/ UnblockCheck(t, i)

Threads == \E t \in Stacks : ThreadContinues(t) \/ ThreadCalls(t)

PendSV == PendSVEnter \/ PendSVPick \/ PendSVSkip \/ PendSVIdle \/ PendSVStay \/ PendSVRestore

\* Past the end of task_list the code writes over other variables: the model
\* stops there.  (Two tasks that pass the capacity check with one slot left get
\* there; the runs have no two tasks that create with one slot left.)
InBounds == task_count <= MAX_TASKS

Next ==
  /\ InBounds
  /\ Threads \/ PendSV \/ SysTick

Spec == Init /\ [][Next]_vars

\* The calm executions: no interrupt lands inside a critical section.  With the
\* configured mask it may land there, and Spec has those executions too; a
\* section is a few instructions long and a tick comes once in a millisecond, so
\* the calm ones are what the program does nearly always.  A mask that masks
\* leaves no others.  What is shown of CalmSpec is shown of them alone.
Outside == \A t \in Stacks : pc[t] \notin Critical

CalmNext ==
  /\ InBounds
  /\ Threads \/ (Outside /\ (PendSV \/ SysTick))

CalmSpec == Init /\ [][CalmNext]_vars

\* The timer keeps ticking (SF: a tick that does not come inside a section comes
\* after it); a handler runs to its end, and a thread inside a call goes on with
\* it whenever it is the one on the CPU.  No task is assumed to make any call.
CalmFairness ==
  /\ SF_vars(InBounds /\ Outside /\ SysTick)
  /\ WF_vars(InBounds /\ Outside /\ PendSV)
  /\ \A t \in Stacks : SF_vars(InBounds /\ ThreadContinues(t))

CalmFairSpec == CalmSpec /\ CalmFairness

-----------------------------------------------------------------------------
(* Properties                                                              *)

\* Every variable keeps its type.
TypeOK ==
  /\ task_list \in [Slots -> Tcbs]
  /\ task_count \in Nat /\ next_task_id \in Nat
  /\ task_current \in Slots /\ task_current_index \in Slots /\ task_next \in Slots
  /\ idle_task \in Slots \union {NULL}
  /\ heap \subseteq Stacks
  /\ systick_ticks \in Nat /\ last_gc_tick \in Nat
  /\ basepri \in 0..255 /\ pendsv \in BOOLEAN
  /\ cpu \in Stacks \union {NULL}
  /\ sv \in {"none", "scan", "restore"} /\ sv_next \in Slots /\ sv_left \in Nat
  /\ pc \in [Stacks -> Labels]
  /\ loc \in [Stacks -> [slot : Nat, block : Stacks \union {NULL}]]
  /\ gc_read \in Nat /\ gc_write \in Nat

\* A slot that holds a task, but not its leftover copy while it is compacted.
Live(i) ==
  /\ i < task_count
  /\ task_list[i].state # "UNUSED"
  /\ ~(gc_write <= i /\ i < gc_read)

Holds(i, t) == Live(i) /\ task_list[i].stack_ptr = t
HasTcb(t)   == \E i \in Slots : Holds(i, t)
Tcb(t)      == task_list[CHOOSE i \in Slots : Holds(i, t)]
Life(t)     == IF HasTcb(t) THEN Tcb(t).state ELSE "free"
Due(t)      == IF HasTcb(t) /\ Tcb(t).state # "ZOMBIE" THEN Tcb(t).sleep_until_tick ELSE 0

\* The compaction is between the copy of a control block and the last pointer.
Moving == \E t \in Stacks : pc[t] \in Following

\* The code that runs is the code of the task the kernel calls current, and
\* every other task resumes on its own stack.  (PendSV_Handler saves and
\* restores PSP through task_current and task_next; garbage collection moves
\* both control blocks and pointers.)
RunsOwnContext ==
  ~Moving =>
    /\ sv = "none" => Holds(task_current, cpu)
    /\ \A i \in Slots : Live(i) /\ (i # task_current \/ sv # "none") =>
                          task_list[i].psp = task_list[i].stack_ptr

\* No two tasks are RUNNING, and the one that is is the current one, or the
\* chosen one while the switch is completed.  (schedule_next_task)
RunningIsCurrent ==
  ~Moving =>
    \A i \in Slots : Live(i) /\ task_list[i].state = "RUNNING" =>
      \/ sv = "none" /\ i = task_current
      \/ sv = "restore" /\ i = task_next

\* The round-robin cursor is the index of the task it is the cursor of, also
\* after garbage collection has moved that task.
CursorAgrees ==
  ~Moving => task_current_index = IF sv = "restore" THEN task_next ELSE task_current

\* Each task has a stack of its own, and the blocks in use are those of the
\* tasks in the table and of creations under way: garbage collection frees a
\* stack once, when its task is gone, and no stack is leaked.
StacksAccounted ==
  /\ \A i, j \in Slots : Live(i) /\ Live(j) /\ i # j =>
                           task_list[i].stack_ptr # task_list[j].stack_ptr
  /\ heap = {task_list[i].stack_ptr : i \in {j \in Slots : Live(j)}}
            \union {loc[t].block : t \in {u \in Stacks : pc[u] \in Filling}}

\* There is always an idle task to fall back on: idle_task points at the one
\* idle control block, which is READY or RUNNING, wherever compaction put it.
IdleAvailable ==
  ~Moving =>
    /\ idle_task # NULL /\ Live(idle_task)
    /\ task_list[idle_task].state \in {"READY", "RUNNING"}
    /\ \A i \in Slots : Live(i) => (task_list[i].is_idle <=> i = idle_task)

\* A READY task has no wake-up time, except in the middle of task_sleep_ticks:
\* with one left over it would be passed over by schedule_next_task and by
\* scheduler_wake_sleeping_tasks, for ever.
NoLostSleeper ==
  \A i \in Slots : Live(i) /\ task_list[i].state = "READY" =>
    \/ task_list[i].sleep_until_tick = 0
    \/ sv = "none" /\ i = task_current /\ pc[cpu] \in {"self_check", "self_block"}

\* A sleeper is never past its wake-up time.  (scheduler_wake_sleeping_tasks)
NoOverdueSleeper ==
  \A i \in Slots : Live(i) /\ task_list[i].state = "BLOCKED" /\ task_list[i].sleep_until_tick # 0
                     => task_list[i].sleep_until_tick > systick_ticks

\* A READY task, other than the idle task, gets the CPU or is stopped by another
\* task.  (round-robin in schedule_next_task, driven by the tick)
ReadyRuns ==
  \A t \in Stacks : (Life(t) = "READY" /\ ~Tcb(t).is_idle) ~> Life(t) # "READY"

\* Where nothing but task_sleep_ticks blocks a task: every sleep ends, by the tick
\* that reaches the wake-up time or, earlier, by the wrap of the counter; except the
\* one whose wake-up time has come out as 0, and that one never ends.
\* (task_sleep_ticks, scheduler_wake_sleeping_tasks; scheduler.h promises that every
\* sleeper is unblocked)
AllSleepsEndButAtZero ==
  \A t \in Stacks :
    /\ (Life(t) = "BLOCKED" /\ Due(t) # 0) ~> Life(t) # "BLOCKED"
    /\ [](Life(t) = "BLOCKED" /\ Due(t) = 0 => [](Life(t) = "BLOCKED"))

IdleCollects == \E t \in Stacks : OnCpu(t) /\ pc[t] = "idle" /\ GcDue

\* As long as the idle task keeps getting the CPU when a collection is due, the
\* stack of every ended task is freed.  (task_idle_function)
ZombiesReclaimed ==
  []<>IdleCollects => \A t \in Stacks : Life(t) = "ZOMBIE" ~> Life(t) = "free"

\* The kernel implements the abstract life of its threads.
TL == INSTANCE TaskLife WITH
  Threads <- Stacks,
  life <- [t \in Stacks |-> Life(t)],
  due  <- [t \in Stacks |-> Due(t)],
  now  <- systick_ticks

ImplementsTaskLife == TL!Spec

=============================================================================
