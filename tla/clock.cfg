\* main, then any sequence of calls for every supported frequency and an unsupported
\* one, and reboots.
SPECIFICATION BootSpec
CONSTANTS
  Targets = {4, 16, 24, 32, 48, 64, 80, 100}
INVARIANTS
  FlashKeepsUp
  SourceAlive
  SuccessIsReal
  RatesAgree
PROPERTIES
  PllStable
