\* Transmission: two tasks write to one port, one of them flushes, and neither
\* is switched away from inside a section.  No byte arrives.
SPECIFICATION CalmFairSpec
CONSTANTS
  cli = cli
  button = button
  a = a
  b = b
  c = c
  PORTS = 1
  UART_MAX_INSTANCES = 2
  UART_RX_BUFFER_SIZE = 3
  UART_TX_BUFFER_SIZE = 4
  MAX_SYSCALL_PRIORITY = 5
  COUNTER_MOD = 2
  Tasks = {cli, button}
  Texts <- MCTexts
  ReadLens <- MCNoReads
  Flushers = {cli}
  Received = {}
  NONE = NONE
INVARIANTS
  NoStrandedByte
PROPERTIES
  TxFifo
  FlushedIsSent
  QueuedByteSent
