----------------------------- MODULE MCUartSetup -----------------------------
(* UartSetup for TLC: main's configuration, and one that differs in every     *)
(* field.                                                                     *)
EXTENDS UartSetup

MCConfigs ==
  { [BaudRate |-> 115200, WordLength |-> 8, Parity |-> "none", StopBits |-> 1, OverSampling8 |-> FALSE],
    [BaudRate |-> 921600, WordLength |-> 7, Parity |-> "odd", StopBits |-> 2, OverSampling8 |-> TRUE] }

=============================================================================
