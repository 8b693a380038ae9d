------------------------------ MODULE UartConfig ------------------------------
(* What uart_init makes of a configuration: frame bits, divisor and pins.     *)
EXTENDS Integers

FrameFields == {"M0", "M1", "PCE", "PS", "OVER8"}

FrameBits(config) ==
  {bit \in FrameFields :
     \/ bit = "M0" /\ config.WordLength = 9
     \/ bit = "M1" /\ config.WordLength = 7
     \/ bit = "PCE" /\ config.Parity # "none"
     \/ bit = "PS" /\ config.Parity = "odd"
     \/ bit = "OVER8" /\ config.OverSampling8}

\* The divisor, rounded; with oversampling by 8 its last bit is dropped and bits
\* 3 to 1 move down by one.  The register has 16 bits.
Usartdiv(hz, baud, over8) == ((IF over8 THEN 2 * hz ELSE hz) + baud \div 2) \div baud

Mut_Brr(hz, baud, over8) == Usartdiv(hz, baud, over8) % 65536    \* mutant: no bit is moved
Brr(hz, baud, over8) ==
  LET div == Usartdiv(hz, baud, over8) % 65536
  IN  IF over8 THEN (div \div 16) * 16 + (div % 16) \div 2 ELSE div

\* The rate a USART makes of its register.  (LPUART1 divides 256 times its clock.)
Rate(hz, brr, over8) ==
  IF over8 THEN (2 * hz) \div ((brr \div 16) * 16 + 2 * (brr % 8)) ELSE hz \div brr

\* Within 2 percent, which a receiver at the other end can follow.
Near(rate, baud) == rate - baud <= baud \div 50 /\ baud - rate <= baud \div 50

\* Each device's pins, their alternate function, and the GPIO clocks it enables.
PinsOf(p) ==
  [USART1 |-> {<<"A", 9>>, <<"A", 10>>},  USART2 |-> {<<"A", 2>>, <<"A", 3>>},
   USART3 |-> {<<"B", 10>>, <<"B", 11>>}, UART4 |-> {<<"C", 10>>, <<"C", 11>>},
   UART5 |-> {<<"C", 12>>, <<"D", 2>>},   LPUART1 |-> {<<"C", 0>>, <<"C", 1>>}][p]

Function(p) == IF p \in {"USART1", "USART2", "USART3"} THEN 7 ELSE 8

GpioClocks(p) ==
  [USART1 |-> {"A"}, USART2 |-> {"A"}, USART3 |-> {"B"},
   UART4 |-> {"C"}, UART5 |-> {"C", "D"}, LPUART1 |-> {"C"}][p]

=============================================================================
