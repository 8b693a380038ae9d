\* A task runs heaptest, another calls the heap as it likes; both mask.
\* Past MAX_LEAKED the command is not started again: with the pool all lost, nobody
\* has a call left to make.
SPECIFICATION TestSpec
CONSTANTS
  POOL = 72
  HEADER = 8
  ALIGN_SIZE = 4
  SIZE_MOD = 256
  Sizes = {1, 12, 28, 255}
  Clients = {cli, app}
  Unmasked = {}
  MAX_OWNED = 2
  NULL = NULL
  Cli = cli
  FRAG_BLOCKS = 3
  FRAG_SIZE = 8
  STRESS_MAX_PTRS = 2
  MAX_LEAKED = 1
CHECK_DEADLOCK FALSE
INVARIANTS
  HeapTypeOK
  Tiling
  RegionsDisjoint
  Accounting
  WholeAgain
  VerdictsTrue
  PointersHeld
