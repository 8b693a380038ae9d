\* The executions in which no interrupt lands inside a critical section: create,
\* delete, exit and sleep, with the idle task compacting the table.
\* Past TICK_LIMIT the timer is still and the machine may come to rest.
SPECIFICATION CalmSpec
CONSTANTS
  MAX_TASKS = 3
  MAX_SYSCALL_PRIORITY = 5
  GC_TICKS = 2
  TICK_MOD = 16
  TICK_LIMIT = 6
  MAX_ID = 4
  Stacks = {s1, s2, s3}
  BootTasks = 2
  Calls = {"create", "delete", "exit", "sleep", "block_current", "block", "unblock"}
  SleepTicks = {1, 2}
  NULL = NULL
SYMMETRY Symmetry
CHECK_DEADLOCK FALSE
INVARIANTS
  TypeOK
  RunsOwnContext
  RunningIsCurrent
  CursorAgrees
  StacksAccounted
  IdleAvailable
  NoLostSleeper
  NoOverdueSleeper
PROPERTIES
  ImplementsTaskLife
