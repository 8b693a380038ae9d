\* The mask as configured, under every interleaving: three tasks that sleep,
\* block and unblock each other fill the table, so there is no idle task.
\* Past TICK_LIMIT the timer is still and the machine may come to rest.
SPECIFICATION Spec
CONSTANTS
  MAX_TASKS = 3
  MAX_SYSCALL_PRIORITY = 5
  GC_TICKS = 2
  TICK_MOD = 16
  TICK_LIMIT = 3
  MAX_ID = 3
  Stacks = {s1, s2, s3}
  BootTasks = 3
  Calls = {"sleep", "block_current", "block", "unblock"}
  SleepTicks = {1}
  NULL = NULL
SYMMETRY Symmetry
CHECK_DEADLOCK FALSE
INVARIANTS
  RunsOwnContext
  CursorAgrees
