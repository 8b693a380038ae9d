\* The frequency reported against the one in use, for the call that main makes.
SPECIFICATION Spec
CONSTANTS
  Targets = {80}
INVARIANTS
  HzReported
