\* Three devices and a table of two; calls in any sequence, reception by polling
\* and by interrupt on one of them.
SPECIFICATION Spec
CONSTANTS
  USARTS = {"USART2", "UART5", "LPUART1"}
  Listening = {"USART2"}
  UART_MAX_INSTANCES = 2
  Configs <- MCConfigs
  HZ = 80000000
  NULL = NULL
INVARIANTS
  SetupTypeOK
  RunsAsConfigured
  RunningServed
  ErrorsReported
