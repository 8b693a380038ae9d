\* The mask as configured, under every interleaving: two tasks write to one port.
SPECIFICATION Spec
CONSTANTS
  cli = cli
  button = button
  a = a
  b = b
  c = c
  PORTS = 1
  UART_MAX_INSTANCES = 2
  UART_RX_BUFFER_SIZE = 3
  UART_TX_BUFFER_SIZE = 4
  MAX_SYSCALL_PRIORITY = 5
  COUNTER_MOD = 2
  Tasks = {cli, button}
  Texts <- MCTexts
  ReadLens <- MCNoReads
  Flushers = {}
  Received = {}
  NONE = NONE
PROPERTIES
  TxFifo
