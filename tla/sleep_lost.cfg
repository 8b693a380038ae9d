\* The mask as configured, and tasks that only sleep.
SPECIFICATION Spec
CONSTANTS
  MAX_TASKS = 3
  MAX_SYSCALL_PRIORITY = 5
  GC_TICKS = 2
  TICK_MOD = 16
  TICK_LIMIT = 4
  MAX_ID = 3
  Stacks = {s1, s2, s3}
  BootTasks = 2
  Calls = {"sleep"}
  SleepTicks = {1, 2}
  NULL = NULL
SYMMETRY Symmetry
CHECK_DEADLOCK FALSE
INVARIANTS
  NoLostSleeper
