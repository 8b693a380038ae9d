\* The mask as configured, under every interleaving: one task reads what arrives
\* and flushes, and now and then another writes, so that the handler does both.
\* No ring operation reads the event counters: one value is enough.
SPECIFICATION Spec
CONSTANTS
  cli = cli
  button = button
  a = a
  b = b
  c = c
  PORTS = 1
  UART_MAX_INSTANCES = 2
  UART_RX_BUFFER_SIZE = 3
  UART_TX_BUFFER_SIZE = 2
  MAX_SYSCALL_PRIORITY = 5
  COUNTER_MOD = 1
  Tasks = {cli, button}
  Texts <- MCOneText
  ReadLens <- MCReadLens
  Flushers = {cli}
  Received = {a, b}
  NONE = NONE
PROPERTIES
  RxFifo
