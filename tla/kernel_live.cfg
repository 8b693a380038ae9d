\* Liveness on a tick counter that wraps around; no horizon, no deadlock.
SPECIFICATION CalmFairSpec
CONSTANTS
  MAX_TASKS = 3
  MAX_SYSCALL_PRIORITY = 5
  GC_TICKS = 2
  TICK_MOD = 3
  TICK_LIMIT = 3
  MAX_ID = 3
  Stacks = {s1, s2, s3}
  BootTasks = 2
  Calls = {"exit", "sleep"}
  SleepTicks = {1}
  NULL = NULL
PROPERTIES
  ReadyRuns
  AllSleepsEndButAtZero
  ZombiesReclaimed
