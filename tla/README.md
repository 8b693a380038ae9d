# stm32_cli_os in TLA+

The repository is a small preemptive operating system for an STM32L476: a
round-robin kernel, a heap, an interrupt-driven UART and a command line. This
directory holds TLA+ models of its core, the TLC configurations that check
them, and theorems about them that TLAPS proves.

Paths are relative to the repository's root. `PROJECT.json` maps every
definition to the lines it models.

## The system

| Part | State it keeps | Operations |
| --- | --- | --- |
| Kernel, `core/scheduler.c` | `task_list`, `task_count`, `task_current`, `task_current_index`, `task_next`, `idle_task`, `next_task_id`; each task's state, wake-up time, stack | `task_create`, `task_delete`, `task_exit`, `task_block`, `task_block_current`, `task_unblock`, `task_sleep_ticks`, `schedule_next_task`, `scheduler_wake_sleeping_tasks`, `task_garbage_collection`, the idle task |
| Context switch, `core/context_switch.S` | PSP, the saved context of each task | `PendSV_Handler`, `task_create_first` |
| Tick, `drivers/systick.c` | `systick_ticks` | `SysTick_Handler` |
| Critical sections, `core/utils.h` | BASEPRI | `enter_critical_basepri`, `exit_critical_basepri`, `yield_cpu` |
| Heap, `core/allocator.c` | list of blocks, four counters | `allocator_malloc`, `_free`, `_realloc`, `_check_integrity`, `_get_stats` |
| Heap wrapper, `core/stm32_alloc.c` | none | the same calls inside a critical section |
| UART, `drivers/uart.c` | table of instances; receive and transmit ring per instance, counters; the devices' registers, clocks and pins | `uart_init`, `uart_write_buffer`, `uart_read_buffer`, `uart_available`, `uart_tx_pending`, `uart_flush`, `uart_irq_handler`; interrupt switches; polling calls |
| Command line, `core/cli.c` | line buffer, command table | `cli_task_entry`, tokenizer, `cli_register_command`, `cli_printf` |
| Application, `app/` | the pointers of `heaptest` | commands, blinking and button tasks, `main` |
| Clock, `core/system_clock.c` | oscillators, PLL, `system_clock_val_hz` | `system_clock_config_hz` |
| LED, button, start-up, registers | pins, memory layout | register accesses |

How they interact. Tasks call the kernel, the heap and the UART directly; all
of these share memory and are protected only by BASEPRI sections. SysTick
(priority 0xE0) interrupts everything but the UART's handler (0), changes task
states and pends PendSV (0xF0), which runs when nothing else does, calls
`schedule_next_task` and moves PSP to another stack. The idle task compacts
`task_list` and frees the stacks of ended tasks: control blocks move in memory
while their tasks exist. `task_create` and the collection use the heap without
the wrapper; commands use it through the wrapper. The UART's handler fills one
ring and drains another that tasks read and write.

What is hard: the handlers interrupt each other and every call; the table is
compacted under running tasks; the round-robin cursor, three pointers and
`task_list` must stay in step; the tick counter wraps; everything depends on
what the value written to BASEPRI really masks.

What makes each part correct:

- kernel: each task runs on its own stack only, one task is RUNNING, nobody is
  starved, a sleeper is woken at its tick and not before, stacks are neither
  leaked nor freed twice, and there is always an idle task;
- heap: blocks tile the pool, regions handed out are disjoint, the counters
  tell the truth, what is freed coalesces;
- UART: both rings are FIFOs, output never stops with bytes in the ring, a
  successful flush means sent; a device that is enabled runs as it was
  configured last and is registered, and no line error passes untold;
- `heaptest`: frees what it took exactly once, and its verdict is true;
- command line: a command gets the words that were typed and shown, nothing of
  an earlier line, and removing a command keeps the others;
- clock: flash and voltage always allow the clock in use, nothing in use is
  switched off, and what is reported is true; the tick and the console have
  the rate that is meant.

## The modules

| Module | What it is |
| --- | --- |
| `Scheduler` | kernel, context switch, tick and critical sections as one state machine |
| `TaskLife` | what the kernel promises about a thread: an abstract machine of its life, wake-up time and the clock |
| `KernelProofs` | theorems about `Scheduler`: types, the cursor; contexts, states, stacks and the idle task, with interrupts kept out of the sections, and without that while no task is created or ends |
| `TaskLifeProofs` | theorems about sleepers, and that `Scheduler` implements `TaskLife` |
| `MCScheduler` | `Scheduler` for TLC, with the symmetry of stacks |
| `Allocator` | the heap with its wrapper, each call in the steps at which another caller could get in |
| `HeapTest` | the `heaptest` command on that heap, beside other clients; extends `Allocator` |
| `HeapProofs` | theorems about `Allocator` and `HeapTest` |
| `Uart` | rings, handler, write, read and flush, and the wire |
| `ByteFifo` | what a ring promises, for all ports at once |
| `UartProofs` | theorems about `Uart`: both rings are FIFOs, no stranded byte, flush |
| `MCUart` | `Uart` for TLC: who writes and reads what |
| `UartConfig` | what a configuration means: frame bits, divisor, pins; no state |
| `UartSetup` | instances, `uart_init`, interrupt switches, reception by polling, for several devices |
| `UartSetupProofs` | theorems about `UartSetup` |
| `MCUartSetup` | `UartSetup` for TLC: two configurations that differ in every field |
| `Cli` | line editing, tokenizer, command table, number conversions |
| `CliProofs` | theorems about `Cli` |
| `MCCli` | `Cli` for TLC: the commands |
| `SystemClock` | changing the clock, wait by wait, against hardware that answers late |
| `Boot` | `main` up to the tick, on that clock; later calls; reboots; extends `SystemClock` and `UartConfig` |
| `ClockProofs` | theorems about `SystemClock` and `Boot` |
| `Induction` | induction along an array, for `HeapProofs` and `CliProofs` |

### Scheduler

A thread is named by the heap block that is its stack; a context on the CPU is
the PSP that points into it (`cpu`). `task_list`, its count and the pointers
into it (as indices) are the kernel's variables; `pc` and `loc` are each
thread's place and locals in an API call. Most properties relate what the table
says to what `cpu` and `pc` say.

An action is the code between two points where an interrupt is let in and
matters. The value the sections write to BASEPRI, as it is configured, masks
nothing, so such points lie inside the sections too:

- `task_create`: the capacity check before the section (`CreateCheck`), the
  search, `allocator_malloc` with `stack_ptr` (or its failure), the context,
  and then `state`, `task_id`, `sleep_until_tick` and the count, one at a time
  in the code's order;
- `task_delete` and `task_exit`: the search, `ZOMBIE`, `task_id = 0`; `ExitYield`
  repeats;
- `task_sleep_ticks`: the wake-up time (`SleepSet`), then the test and the store of
  `BLOCKED` (`SelfCheck`, `SelfBlock`, which `task_block_current` has as well),
  then the yield;
- `task_block`, `task_unblock`: the check, then the store;
- `task_garbage_collection`: one slot at a time, reclaimed (`GcReap`), kept
  (`GcKeep`) or moved. A move is the copy and then each pointer that follows it:
  `GcCopy`, `GcCurrent`, `GcIndex`, `GcNext`, `GcIdle`. `GcCount` and `GcClear` end it;
- `PendSV_Handler`: `PendSVEnter` saves the context, `PendSVPick`/`PendSVSkip` look
  at one slot each, `PendSVIdle` and `PendSVStay` are the two fallbacks,
  `PendSVRestore` moves PSP. SysTick may come between any two of these, as its
  priority allows, but threads do not run until the switch is complete.

BASEPRI is modelled with the four bits the part implements: writing 5, as
`MAX_SYSCALL_PRIORITY` is configured, leaves 0. Every configuration here uses 5.
There are two specifications over the same actions:

- `Spec` has every interleaving, those with an interrupt inside a section
  included. It is the program as configured. The kernel does not survive them
  all: `sleep_lost` is what goes wrong, `as_built` and the theorems about
  `FixedTasks` what does not.
- `CalmSpec` has the executions in which no tick and no switch comes while a
  thread is between the two ends of a section (`Outside`). They are the
  executions that the sections were written to enforce. With 5 nothing enforces
  them; they are what one sees because a section takes microseconds and a tick
  comes once in a millisecond. A result about `CalmSpec` is a result about these
  executions of the configured program and about no others. With a value that
  masks the tick there are no others (`MaskedIsCalm` in `KernelProofs`).

Between the copy of a control block and the last pointer to it, the table is
half moved (`Moving`). The invariants on pointers and contexts say nothing of
that moment; what must hold is that nobody sees it, which `ContextsOwned` proves
for `CalmSpec` and which is false for `Spec`.

`Init` is the state `scheduler_start` hands to the first task. Stack contents,
the FPU context and the MPU are not modelled. Past the end of `task_list` the
code writes over other variables; the model stops there (`InBounds`).

`BlockCheck` and `UnblockCheck` take a handle of a task that is in the table at the
call. Two uses that go wrong, blocking an ended task and unblocking one that
sleeps, are calls of their own (`block_zombie`, `unblock_sleeper`), so that a
run can leave them out.

### TaskLife

Life is `free`, READY, RUNNING, BLOCKED or ZOMBIE. At most one thread runs; a
running thread is not preempted between setting its alarm and blocking; the
tick that reaches a wake-up time wakes the sleeper, and no other tick does; a
call can unblock only a thread without one; an ended thread only becomes
`free`. `Scheduler!ImplementsTaskLife` maps each stack to the life of the
control block that holds it. A control block that has been copied by a
compaction still under way counts once (`Live`).

### Allocator

The list is the sequence of headers with the offset each lies at, so that
headers and data tiling the pool is a property. `Malloc` finds the first block
that fits (the code is first-fit; `README.md:18` calls it Best-Fit) and
remembers what it read; `Take` marks and splits it; `Mark` and `Merge` are the
two halves of `allocator_free`; `realloc` shrinks in place or allocates, copies
and frees. Between the steps of a call others get in only if the call masks
nothing (`CanRun`); in `CalmSpec` they never do (`Alone`). `Fits`, `Splits`, `Carve` and
`Absorb` are the tests and
the arithmetic of the C code, with its sizes in bytes. A client frees only what
it holds. Sizes have the width of a `size_t` (`SIZE_MOD`), in which `ALIGN` wraps.
A failing `malloc` or `realloc` changes nothing and is no action; `Refused` says
when it happens. `check_integrity` is `allocator_check_integrity`.

### HeapTest

`cmd_heap_test_handler` in its three modes, run any number of times by the
client `Cli`. An action is one call of the handler to the wrapper, which then
takes `Allocator`'s own steps; the other clients call what they like between
them (and inside them only if one of the two masks nothing). `ptrs` are the handler's
pointers in the order in which it will free them; `before` is a history
variable, the list the run found. A refused `malloc` or `realloc` ends the
command where the code's `TEST_ASSERT` returns, and what it held is lost, as in
the code. The patterns it writes are not modelled: while regions are disjoint
they verify. Random numbers are any choice; `stress` does any number of rounds
instead of 100.

### Uart

The handler is one action: its priority is 0, so nothing interrupts it, and it
may interrupt a task at every step. `uart_write_buffer` is split where it reads
head and tail, writes the byte, publishes the head and sets TXEIE;
`uart_read_buffer` copies a byte per step from the head and tail it has read.
`uart_tx_buf` is one flat memory with rows of `UART_RX_BUFFER_SIZE` bytes, as it
is declared. The wire is external: bytes arrive, with or without an error flag;
the transmitter shifts; TC is set when the last byte has left and cleared by a
write to the transmit register.

`TxFifo` and `RxFifo` say that the rings implement `ByteFifo`: the contents of
the ring are the queue, the byte a writer is about to publish (or the receive
register) is what is on offer, and the transmit register (or the byte a reader
has just copied) is what came out. For a read under way the queue starts at the
reader's own tail.

The driver's sections write 5 as well, so `SectionMasks` is false as configured
and a task may be switched away from inside one: `Spec` has that. In `CalmSpec`
no task takes a step while another is inside a section (`Alone`); the handler may
come anywhere in both, since no value would mask it.

### UartSetup and UartConfig

`uart_init` is three actions, cut where the handler may still or again serve
the device: until UE is cleared, and from the registration on. The registers
are sets of the bits that are on. `uart_receive_char` is four, one per register
it reads or writes, and the handler or the line may come between any two.
`uart_irq_handler` is here what `Uart`'s is for a device that has nothing to
send. `agreed` (the configuration accepted last) and `owed` (an error on the
line that nobody has been told of) are history variables. `UartConfig` computes
the divisor as the code does, with its 16 bits; `Rate` is what a USART makes of
it.

### Cli

An action is one turn of `cli_task_entry`'s loop with one key. `line_buffer` is
the whole array, with what earlier lines left in it. `Tokenize` follows the C
loop character by character, in place; its reference, `Args`, says
declaratively which words a line has. The terminal shows the line being typed
until an output is cut by a full ring or another task prints; it is then
`GARBLED` until the next line. Keys come from the receive ring, whose promise is
`ByteFifo`. `Decimal` and `Digits` are the conversions of `cli_printf`; the cut
of a long line at `CLI_MAX_LINE_LEN` is left out.

### SystemClock

`system_clock_config_hz` is one action per wait: what the code does between one
polling loop and the next. `Timeout` is any of those loops giving up. The
hardware is external: a source gets ready or stops after it is told to, the
multiplexer follows SW once that source is ready, PWR_CR1 reads back what was
written, each at any time, also long after the program has given up.
`FlashKeepsUp` compares the clock really in use with what the range and the
latency in force allow, by the tables at the head of the source file.

### Boot

`main` calls `system_clock_config_hz`, takes `get_system_clock_hz` for the
divisor of the console and, later, for the reload value of the tick; the
hardware may move in between. The model lets `main` ask for any target. After
that, calls that the application does not make (`LaterCall`), so that a change
of clock starts from every state an earlier one has left; and the reboot
command, which puts registers and variables back to their reset values.

## Runs

All in `PROJECT.json`; each takes at most about a minute and a half with two
workers. `MAX_SYSCALL_PRIORITY` is 5 in all of them. "Every interleaving" means
with interrupts inside the sections (`Spec`), "calm" without (`CalmSpec`).

| Run | Result | States | What it shows |
| --- | --- | --- | --- |
| `kernel` | pass | 128,608 | calm, all calls together: contexts, table, cursor, stacks, idle task, sleepers consistent, and `TaskLife` implemented |
| `kernel_live` | pass | 18,819 | calm, on a counter that wraps: no READY task starves, ended tasks are reclaimed, every sleep ends except one that would end at tick 0, and that one never does |
| `as_built` | pass | 1,437,216 | every interleaving, a full table and no idle task: tasks that sleep, block and unblock each other, and the fallback, keep contexts apart, and the cursor with them |
| `sleep_lost` | violation | | a tick inside `task_sleep_ticks` leaves a task READY that never runs again |
| `heap` | pass | 1,234,848 | all callers mask: tiling, disjointness, counters, coalescing, with `heaptest` beside another client; its verdicts are true and its pointers its own |
| `uart_tx` | pass | 64,136 | calm, two writers: transmit FIFO, no stranded byte, every byte sent, flush |
| `uart_torn` | violation | | two tasks that print at the same time overwrite each other's bytes |
| `uart_rx` | pass | 986,530 | every interleaving, one reader: receive FIFO under errors, overrun and full ring |
| `uart_setup` | pass | 510,889 | three devices for a table of two, initialised again and again, switched, and read by polling: frame and rate, registration and pins, line errors |
| `clock` | pass | 73,510 | `main`, calls in any sequence, each wait of which may time out, reboots: latency, voltage, sources in use, PLL set-up, success, rates of tick and console |
| `clock_report` | violation | | after a time-out `get_system_clock_hz` says 4 MHz and SYSCLK is HSI16 |
| `cli` | pass | 213,360 | what is shown is what is typed is what a command gets; removal; decimal numbers |

What the mask of 5 does. `task_sleep_ticks`, which the blinking and button tasks
call all the time, stores the wake-up time (`core/scheduler.c:467`) and then the
state (471); a tick between the two pends the switch, which makes the task READY
again, and neither `schedule_next_task` (225) nor `scheduler_wake_sleeping_tasks`
(490) ever picks it again (`sleep_lost`). Two tasks in `uart_write_buffer` read one
head (`uart_torn`). The list below has two more of its effects.

A violation run checks one property that states what a document or comment of
the repository says; `findings` quotes it. Disagreements that the models show
and no run is kept for:

- the idle task's compaction, interrupted between the copy of a control block
  (`core/scheduler.c:418`) and the last pointer to it (431), is resumed over a
  table that holds the idle task twice, once with a stale context: with `Spec`, an
  `exit` and 6 ticks, `Scheduler` violates `RunsOwnContext` in about 30 steps;
- `task_create` and the collection call the heap unmasked and without the wrapper
  (`core/scheduler.c:151`, 408): with one client in `Unmasked`, `Allocator` hands out
  one block twice (`RegionsDisjoint`), although `README.md:19` says that the wrapper
  protects the heap;
- `task_unblock` of a task that sleeps makes it READY and leaves its wake-up time
  (`core/scheduler.c:279`), so that it never runs again: with `unblock_sleeper` in
  `Calls`, `Scheduler` violates `NoLostSleeper`. The application makes no such call;
- with `PORTS = 2`, `Uart` violates `TxFifo`: rows of 256 bytes hold rings of
  512 (`drivers/uart.c:158`);
- `TaskLife`'s clock does not wrap, `systick_ticks` does, and past the wrap the
  code no longer implements it: `systick_ticks >= sleep_until_tick` is not safe
  (`core/scheduler.c:492`), and a sleep that ends past tick 0 is over at the next
  tick. The `kernel` run stays below the wrap;
- a sleep that would end at tick 0 leaves its task BLOCKED with a wake-up time that
  means none (`core/scheduler.c:467`, 491), for ever, although
  `core/scheduler.h:180` says that it "will be automatically unblocked".
  `AllSleepsEndButAtZero`, in `kernel_live`, states both halves: all other sleeps
  end, these do not;
- two tasks that pass `task_create`'s capacity check with one slot left overrun
  the table (`core/scheduler.c:108`; `config/project_config.h:83` says "Maximum
  number of tasks"). `Scheduler` with `MAX_TASKS = 4`, two tasks besides the idle
  task and creations only reaches `task_count = 5`; the application creates
  from `main` only;
- `task_block` of a task that has ended brings it back as BLOCKED
  (`core/scheduler.c:263`); the model has the call (`block_zombie`), and no run
  makes it;
- `heaptest frag` prints "Coalescing failed" when another task allocates
  meanwhile, or when the pool was fragmented before (`app/app_commands.c:339`);
  `VerdictsTrue` says that there is no third case;
- `heaptest basic` loses its block when `realloc` fails (`app/app_commands.c:281`);
- `uart_receive_char` with parity enabled: a parity error alone makes it clear
  all flags, an overrun that came since `ISR` was read among them, and return
  `UART_OK` (`drivers/uart.c:447`); `ErrorsReported` leaves the case out;
- LPUART1 divides 256 times its clock, and `uart_init` does not
  (`drivers/uart.c:360`); neither does it check that a divisor fits in 16 bits;
- a second `uart_flush` of an idle line times out, since the first has cleared
  TC (`drivers/uart.c:763`);
- a shrinking `realloc` leaves its remainder unmerged with a free block behind
  it until the next free (`core/allocator.c:172`);
- `%x` prints the digits from ten on as k to p (`core/cli.c:162`).

### Bounds and why they are enough

- `kernel`: a table of 3 (two tasks and the idle task at boot), 3 stacks, ticks
  to 6, task ids to 4, sleeps of 1 and 2, a collection every 2 ticks. Enough
  for a slot to be emptied below the idle task, compacted, and reused while
  another task sleeps or is current; for two collections; and for creation to
  fail both for the table and for the heap. Past the last tick the machine may
  come to rest, so deadlock is not checked there.
- `kernel_live`: the counter wraps at 3 and never stops, so the run has no
  horizon, and deadlock is checked. Sleeps of 1 tick from tick 2 end at 0.
- `as_built`: three tasks, a full table, ticks to 3; the only passing run where
  `PendSVStay` happens. Three ticks are enough for a tick in a section, one in the
  switch that follows, and one when the interrupted thread is back. Tasks do not
  end here: with those `RunsOwnContext` is false, as said above.
- `sleep_lost`: two tasks that only sleep, and the idle task.
- `heap`: 72 bytes, 8-byte headers, 4-byte words as on the target; sizes 1, 12
  and 28, their doubles, and the 8 bytes of `frag` give splits that leave
  exactly the least remainder, unsplit excess, merges of two and three blocks,
  growing and shrinking, and every refusal; 255 is beyond the pool and, with
  `SIZE_MOD` 256, wraps in `ALIGN`. Three blocks for `frag` instead of five,
  two pointers for `stress` instead of 32, two regions for the other client.
  `MAX_LEAKED` bounds the blocks that failed runs of the command have lost
  before it is started again; with the pool all lost nobody has a call left, so
  deadlock is not checked.
- `uart_setup`: three devices (two that share port C, one with pins on two
  ports) and a table of two, so that registration fails; two configurations
  that differ in every field; something on one receive line.
- `uart_tx`, `uart_torn`, `uart_rx`: rings of 3 and 4 (or 2), so that each fills, empties
  and wraps within one call; three different bytes; the ring that a run is not
  about is kept small, since the handler serves both in one action and the two
  do not share variables. `uart_rx` has one value for the event counters, which
  no ring operation reads.
- `clock`: every supported frequency and one that is not; no other bound.
  `clock_report` is `SystemClock` alone with the call that `main` makes.
- `cli`: five characters, two arguments, three commands, two of them of one
  name. Three words, a full buffer, and a short line after a longer one all
  happen. One letter is enough: words differ by length. Four numbers: a negative
  one, zero, two digits, and 2^31 - 1.

### Fairness

`kernel_live` (`CalmFairSpec`): weak fairness of PendSV, because
a handler in progress runs to its end; strong fairness of SysTick, because the
timer does not stop, so that a tick that does not come inside a section comes
after it; strong fairness of each thread *inside* a call, because a thread on
the CPU executes. No task has to make a call, in particular to sleep or yield.
`ZombiesReclaimed` has the premise that the idle task is on the CPU infinitely
often when a collection is due: the code collects nowhere else.

`uart_tx` (`CalmFairSpec`): weak fairness of the transmitter and of a raised
interrupt, strong fairness of a call in progress while no other task is inside
a section (round-robin gives its task the CPU again and again, which `ReadyRuns`
checks). No byte has to arrive.

## Theorems

Each holds for every value of the constants that satisfies the named `ASSUME`s
of its module and the hypotheses it lists. A hypothesis is about constants only.
Which executions a theorem is about is said by its specification:

- `Spec`, `TestSpec`, `BootSpec`, ...: all of them, with interrupts inside the
  sections and whatever the mask;
- `CalmSpec` (of `Scheduler`, `Uart`, `Allocator`) and `CalmTestSpec`: those in
  which nothing lands inside a section. As configured these are not all: outside
  them are `sleep_lost`, `uart_torn` and what the list above adds to them. If
  the mask works they are all: that is `MaskedIsCalm`, in each of the three proof
  modules. `KernelProofs` has it for a value of which BASEPRI keeps 16 to 224
  (`MaskWorks`), `UartProofs` for `SectionMasks`, `HeapProofs` for `Unmasked = {}`,
  that is, without the kernel's own calls. No theorem assumes a mask.

Hypotheses:

- `HasIdle`: main creates fewer tasks than the table holds (three, of 58), so that
  `scheduler_start` gets an idle task.
- `NoMisuse`: nobody calls `task_unblock` on a sleeper or `task_block` on an ended
  task. The application does neither.
- `NoWrap`: the tick counter does not wrap before the last wake-up time asked
  for. At 1 kHz that is 49 days; past it the code is wrong, as said above.
- `ConfigsTyped`: a `UART_Config_t` holds the values its enumerations have.
- `RatesInReach`: the rate is at least 300 Bd, and the divisor fits in the
  register and is large enough for its rounding. `uart_init` checks neither; 115200
  from 80 MHz is in reach.
- `FixedTasks`: no task is created, deleted or exits. The application creates its
  tasks before `scheduler_start` and none of them returns; the `kill` command is
  what would break it.
- `TextsTyped`, `BytesApart`: a task writes bytes; tasks write different ones, by
  which a byte is known to be its writer's.
- `OneReader`, `OneWriter`: one task at most reads, or writes. The application
  has one reader, the command line, and several writers.
- `RowsApart`: one port, or rows of `uart_tx_buf` long enough for its rings. The
  application has one port; the rows are too short (`drivers/uart.c:158`).
- `HEADER < POOL`: `allocator_init` accepts a pool that is one header and nothing
  else (`core/allocator.c:60`), whose only block holds no word, so that `Tiling` is
  false of it. Any larger pool has room for one; the real one has thousands.

`KernelProofs`, about types and the cursor:

- `TypeCorrect`: `Spec => []TypeOK`, for every interleaving. `TypeOK` is not
  inductive. The invariant `TypeInv` adds what keeps accesses inside the table:
  the count is positive and bounded while the machine runs, the scan stays below
  the count, the compaction's write index does not pass its read index, and a
  thread inside `task_create` holds a slot and a block that exist. One step per
  action; `TcbTypes` says once what the operators on control blocks return.
- `CursorFollows`: `CalmSpec => []CursorAgrees`. A switch moves the cursor with
  the choice, a compaction one step after the pointer, and in a calm execution
  no switch comes between the two. The invariant says by how much the cursor is
  behind at each place of a move.
- `ExclusionStep` is the argument about sections: where PendSV can start nobody is
  inside, and beside the thread on the CPU nobody is. That is how calm executions
  are defined, and, in `MaskedIsCalm`, what a mask that masks ensures.

`KernelProofs`, about threads, of `CalmSpec` and under `HasIdle`: `ContextsOwned`
(`RunsOwnContext`), `OneRuns` (`RunningIsCurrent`), `IdleStays`
(`IdleAvailable`), `StacksExact` (`StacksAccounted`). They need each other, so
there is one invariant, `KernelInv`. `Layout` says which slots hold a task in
the middle of a compaction, that the copies it leaves behind are below its read
index, that control blocks in use have different stacks, and which blocks the
creations under way hold. `Context` relates the pointers and the saved contexts
to the place the switch has reached, `Roles` the states of the tasks to both.
While a control block is moved (`Moving`) `Halfway` takes the place of the last
two: it says which pointers already follow, and that with the rest of them they
will hold again. `StacksExact` carries the premise `InBounds`: past the end of the
table the model stops, and the block of the creation that overran it is nobody's.

`KernelProofs`, about every interleaving, under `HasIdle` and `FixedTasks`:
`FixedContexts` (`RunsOwnContext`), `FixedRuns` (`RunningIsCurrent`) and
`FixedIdleStays` (`IdleAvailable`). Interrupts inside `task_sleep_ticks`, `task_block`,
`task_unblock` and an idle collection do not mix up contexts, whatever the mask:
the boot slots never move (`FixedTable`), the collection finds every slot where it
should be (`FixedThreads`), and only the switch and the thread on the CPU touch
pointers and contexts (`FixedSwitch`). That sleepers are not lost is not
among these results, and is false.

`TaskLifeProofs`, about sleepers and of `CalmSpec`: `SleepersKept` (`NoLostSleeper`; `HasIdle`,
`NoMisuse`), because every place that makes a task runnable clears its wake-up
time, and `SleepersInTime` (`NoOverdueSleeper`; `HasIdle`, `NoMisuse`,
`NoWrap`), because the tick that reaches a wake-up time finds its task already
BLOCKED.

Its main theorem is the refinement, `ThreadsLive`, `CalmSpec => ImplementsTaskLife`, under the
hypotheses of `SleepersInTime`. A thread's life is the state of the one slot that
holds it (`LivesFollow`); a step of the kernel is a step of one slot, and then
one of the abstract steps of its thread, or it moves slots, and then nobody's
life changes; the tick is every sleeper's step at once.

`ClockProofs`, about `BootSpec`, without hypotheses: `NeverTooFast`
(`FlashKeepsUp`), `SourceRuns` (`SourceAlive`), `SuccessHolds`
(`SuccessIsReal`), `PllConfiguredStopped` (`PllStable`) and `RatesRight`
(`RatesAgree`). The invariant must hold wherever an earlier call has given up:
both the source in use and the one requested run (`Powered`) and are within
what range and latency allow (`Supplied`), so that a switch that comes late is
harmless; `Progress` says what a call has established by the place it has
reached; `Succeeded`, that after success nothing is left to move.

`UartSetupProofs`, under `ConfigsTyped`: `SetupTypes` (`SetupTypeOK`),
`EnabledServed` (`RunningServed`), `ErrorsTold` (`ErrorsReported`), and with
`RatesInReach` `EnabledConfigured` (`RunsAsConfigured`). The invariant says that
the table fills from its first slot and names a device once, what a call of
`uart_init` has set by the place it has reached, and that no flag is left from
before a device was enabled.

`UartProofs`, about every interleaving: `ByteServed` (`NoStrandedByte`) without
hypotheses; `ReceivedInOrder` (`RxFifo`; `OneReader`, `TextsTyped`); `SentByOne`
(`TxFifo`) and `FlushByOne` (`FlushedIsSent`), both under `OneWriter`, `RowsApart` and
`TextsTyped`. About `CalmSpec`, for any number of writers: `SentInOrder` (`TxFifo`;
`RowsApart`, `TextsTyped`) and `FlushTellsTruth` (`FlushedIsSent`; `BytesApart` too). Both rings implement `ByteFifo`. Where one task at most is in a
section (`Exclusive`), or only one writes (`WriterApart`), what a writer has read of
the ring is still true (`Writers`); the bytes that the one reader has in view are still there
(`Readings`), the handler notwithstanding; lemmas on modular indices say how the
queue changes with head and tail. For the flush: TC is set only while the
transmitter is empty (`Quiet`), and once a flush has seen its ring empty no byte
of its caller comes in (`Flushes`).

`HeapProofs`, under `HEADER < POOL`, of `CalmSpec` (the heap with any clients) and of
`CalmTestSpec` (the heap with `heaptest`): `HeapTypeCorrect` (`HeapTypeOK`), `PoolTiled`
(`Tiling`), `NoOverlap` (`RegionsDisjoint`), `CountersExact` (`Accounting`),
`NothingLost` (`WholeAgain`); of the command, `VerdictsHold` (`VerdictsTrue`) and
`PointersKept` (`PointersHeld`). They hold for every pool, header, alignment and
size, with no bound on regions.

- `Tiling` is inductive, the others are not. `HeapInv` adds that the counters are
  sums over the list in the middle of a call too (`Counted`), that regions and
  taken blocks correspond one to one (`OwnedTaken`), that one client at a time is
  inside a call and what it has read when it found a block is still so (`Calls`),
  and that the last `free` leaves the pool coalesced or is about to (`Settled`).
- The list is cut and joined by `Splice` and `Carve`: the splice lemmas say where
  each block goes, `TilesSplit` and `TakenSplit` what that does to the tiling and
  to the taken blocks, the weights what it does to the counters. `MergedFacts` is
  the same for the whole merge loop.
- Induction along a list needs no induction theorem with an operator for its
  parameter: a set of naturals that is not empty has a least element (`Least`),
  so that a set which holds 0 and, with each number, the next, holds a whole
  interval (`Inductive`, in `Induction`).
- `TestInv` adds what the command holds (`PtrsOwned`: between calls its pointers
  are regions of its own; inside one, one of them may be what the call is about
  to return), where it can be (`Places`), and what it found (`Remembered`: while
  no other client calls, the taken blocks that it has not to free are those of the
  list it started from). A coalesced list is determined by its taken blocks
  (`CoalescedUnique`); so a command that has freed everything has put back the
  list, and its verdict is true.

`CliProofs`: `CliTypeCorrect` (`CliTypeOK`), `EchoCorrect` (`EchoAgrees`),
`ArgumentsCorrect` (`ArgsAreTyped`), `UnregisterCorrect` (`OthersStay`), for every
length of line, number of arguments, alphabet and table; `NumbersCorrect`
(`NumbersRead`) for all that a 32-bit `int` or `unsigned` holds, which is what
`%d` and `%u` take.

- The invariant adds to both that what lies before the cursor has been typed
  (`Typed`), so that no terminator of an earlier line, which `Erase` and Enter
  leave behind, is read as a part of this one.
- `Scanned` says what the tokenizer's loop has done after each character: it has
  found the words that start so far (`Rank` numbers them), `CLI_MAX_ARGS` at most,
  and has put a terminator for every space up to the last of these. `TokenIsWord`
  follows: the C string at a start ends where the word ends, because the
  terminators are where the spaces were, or at the end of the line for the last
  argument there is place for. Nothing of this depends on what lies past the
  line's end.
- `Reads` says that the digits still to be made and those made already read as
  the number; each turn keeps it and leaves at most a tenth (`DigitTurn`), so that
  nothing is left after ten.

Every invariant and action property that a passing run checks is the subject of a
theorem, of `CalmSpec` or of `Spec`, except the two that `as_built` checks of every
interleaving of a system without an idle task (`RunsOwnContext`, `CursorAgrees`). Model-checked only: liveness (`ReadyRuns`, `AllSleepsEndButAtZero`, `ZombiesReclaimed`,
`QueuedByteSent`), which needs fairness and ENABLED, out of the prover's reach.

## Not modelled, and why

- The commands `kill`, `tasks`, `heap` and `uptime`, and the application's
  tasks: their calls are contained in the models' free choice of calls, the rest
  is printing.
- LED, button, linker script, register definitions, and of the start-up code
  all but the effect of a reset: no state or interleaving worth a model.
- Sending by polling and `uart_receive_string` (no caller), the receive callback
  (never registered).
- `task_check_stack_overflow` (no caller), the static stack mode (not
  configured), `systick_delay_ticks` (no caller).
- Double frees, invalid pointers, a second `allocator_init` (it leaves
  `allocated_mem` as it was, `core/allocator.c:71`), wrapping task ids (ids are
  bounded in the runs).

## Plan

1. An abstract heap (a set of disjoint regions) that `Allocator` implements.
2. Task ids modulo 2^16, and handles kept across a collection.
3. Composition: the command line over both rings, so that what cuts an output is
   the ring itself; the `kill` command over `Scheduler`.
