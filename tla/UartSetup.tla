------------------------------ MODULE UartSetup ------------------------------
(***************************************************************************)
(* The other half of drivers/uart.c: the table of instances, uart_init,    *)
(* the interrupt switches, and reception by polling, for several devices   *)
(* with their registers.  Calls come from one thread; the interrupt        *)
(* handler, and what arrives on the lines, come in between.  The rings are *)
(* those of module Uart: here the one for sending is always empty.         *)
(***************************************************************************)
EXTENDS UartConfig, FiniteSets

CONSTANTS
  USARTS,               \* devices of the part that are used
  Listening,            \* those with something on their receive line
  UART_MAX_INSTANCES,
  Configs,              \* UART_Config_t
  HZ,                   \* periph_clock_hz
  NULL

ASSUME DevicesAssumption ==
  /\ USARTS \subseteq {"USART1", "USART2", "USART3", "UART4", "UART5", "LPUART1"}
  /\ Listening \subseteq USARTS /\ NULL \notin USARTS
ASSUME TableSizeAssumption == UART_MAX_INSTANCES \in Nat \ {0}
ASSUME ClockAssumption == HZ \in Nat /\ \A config \in Configs : config.BaudRate \in Nat \ {0}

VARIABLES
  uart_instances,       \* slot to device
  rcc,                  \* clocks on: devices and GPIO ports
  af,                   \* pins and their alternate function, 0 when not set
  cr1, stop, brr,       \* each device's CR1 bits, CR2.STOP and BRR
  rxne, flags,          \* each device's ISR: data received, error flags
  call,                 \* the call under way, with its locals
  agreed,               \* history: the configuration the last uart_init accepted
  owed                  \* history: an error on the line that nobody has been told of

device == <<cr1, stop, brr>>
line   == <<rxne, flags>>
board  == <<rcc, af>>
vars   == <<uart_instances, board, device, line, call, agreed, owed>>

Slots  == 0 .. UART_MAX_INSTANCES - 1
Pins   == UNION {PinsOf(p) : p \in USARTS}
Errors == {"PE", "FE", "ORE"}          \* FE stands for noise, too
NoCall == [at |-> "idle", port |-> NULL, config |-> NULL, cr1 |-> {}, isr |-> {}]

Init ==
  /\ uart_instances = [i \in Slots |-> NULL]
  /\ rcc = {} /\ af = [pin \in Pins |-> 0]
  /\ cr1 = [p \in USARTS |-> {}] /\ stop = [p \in USARTS |-> 1] /\ brr = [p \in USARTS |-> 0]
  /\ rxne = [p \in USARTS |-> FALSE] /\ flags = [p \in USARTS |-> {}]
  /\ call = NoCall
  /\ agreed = [p \in USARTS |-> NULL] /\ owed = [p \in USARTS |-> FALSE]

-----------------------------------------------------------------------------
\* uart_get_index
Registered(p) == \E i \in Slots : uart_instances[i] = p

\* uart_register_instance: the first slot that is the device's, or empty.
Takes(i, p) == uart_instances[i] \in {p, NULL}

HasSlot(p) == \E i \in Slots : Takes(i, p)
SlotFor(p) == CHOOSE i \in Slots : Takes(i, p) /\ \A j \in 0 .. i - 1 : ~Takes(j, p)

-----------------------------------------------------------------------------
(* The line                                                                *)

\* A frame arrives, good or bad.  Parity is checked only when it is enabled.
Arrive(p) ==
  /\ {"UE", "RE"} \subseteq cr1[p]
  /\ IF rxne[p]
     THEN flags' = [flags EXCEPT ![p] = @ \union {"ORE"}] /\ UNCHANGED rxne
     ELSE /\ rxne' = [rxne EXCEPT ![p] = TRUE]
          /\ \E bad \in SUBSET {"PE", "FE"} :
               /\ "PE" \in bad => "PCE" \in cr1[p]
               /\ flags' = [flags EXCEPT ![p] = @ \union bad]
  /\ owed' = [owed EXCEPT ![p] = @ \/ flags'[p] \intersect {"FE", "ORE"} # {}]
  /\ UNCHANGED <<uart_instances, board, device, call, agreed>>

\* uart_irq_handler, with nothing to send; for a device that is not registered it
\* returns and the interrupt stays.
uart_irq_handler(p) ==
  /\ "UE" \in cr1[p] /\ Registered(p)
  /\ "TXEIE" \in cr1[p] \/ ("RXNEIE" \in cr1[p] /\ (rxne[p] \/ "ORE" \in flags[p]))
  /\ cr1' = [cr1 EXCEPT ![p] = @ \ {"TXEIE"}]
  /\ rxne' = [rxne EXCEPT ![p] = FALSE] /\ flags' = [flags EXCEPT ![p] = {}]
  /\ owed' = [owed EXCEPT ![p] = FALSE]            \* counted in uart_rx_errors
  /\ UNCHANGED <<uart_instances, board, stop, brr, call, agreed>>

-----------------------------------------------------------------------------
(* uart_init                                                               *)

Idle     == call.at = "idle"
At(step) == call.at = step
Return   == call' = NoCall

\* Clocks, pins, and UE off, which resets the flags; CR1 is read.
InitBegin(p, config) ==
  /\ Idle
  /\ rcc' = rcc \union {p} \union GpioClocks(p)
  /\ af' = [pin \in Pins |-> IF pin \in PinsOf(p) THEN Function(p) ELSE af[pin]]
  /\ cr1' = [cr1 EXCEPT ![p] = @ \ {"UE"}]
  /\ rxne' = [rxne EXCEPT ![p] = FALSE] /\ flags' = [flags EXCEPT ![p] = {}]
  /\ owed' = [owed EXCEPT ![p] = FALSE]
  /\ call' = [at |-> "frame", port |-> p, config |-> config, cr1 |-> cr1'[p], isr |-> {}]
  /\ UNCHANGED <<uart_instances, stop, brr, agreed>>

Mut_Cleared(bits) == bits \ {"M0", "PCE", "PS", "OVER8"}      \* mutant: M1 is left
Cleared(bits)     == bits \ FrameFields

InitFrame ==
  LET p == call.port IN
  /\ At("frame")
  /\ cr1' = [cr1 EXCEPT ![p] = Cleared(call.cr1) \union FrameBits(call.config) \union {"TE", "RE"}]
  /\ stop' = [stop EXCEPT ![p] = call.config.StopBits]
  /\ brr' = [brr EXCEPT ![p] = Brr(HZ, call.config.BaudRate, call.config.OverSampling8)]
  /\ call' = [call EXCEPT !.at = "register"]
  /\ UNCHANGED <<uart_instances, board, line, agreed, owed>>

Mut_Unregistered(bits) == bits \union {"UE"}                  \* mutant: enabled all the same
Unregistered(bits)     == bits \ {"TE", "RE"}

InitRegister ==
  LET p == call.port IN
  /\ At("register")
  /\ IF HasSlot(p)
     THEN /\ uart_instances' = [uart_instances EXCEPT ![SlotFor(p)] = p]
          /\ cr1' = [cr1 EXCEPT ![p] = @ \union {"UE"}]
          /\ agreed' = [agreed EXCEPT ![p] = call.config]
     ELSE /\ cr1' = [cr1 EXCEPT ![p] = Unregistered(@)]
          /\ UNCHANGED <<uart_instances, agreed>>
  /\ Return
  /\ UNCHANGED <<board, stop, brr, line, owed>>

-----------------------------------------------------------------------------
(* Switches.  The handler may come inside these read-modify-writes of CR1:   *)
(* TXEIE is then set once more, and cleared by the next interrupt.           *)

Switch(p, bit, enable) ==
  /\ Idle
  /\ p \in rcc                         \* else the write is lost
  /\ cr1' = [cr1 EXCEPT ![p] = IF enable THEN @ \union {bit} ELSE @ \ {bit}]
  /\ UNCHANGED <<uart_instances, board, stop, brr, line, call, agreed, owed>>

uart_enable_rx_interrupt(p, enable) == Switch(p, "RXNEIE", enable)
uart_enable_tx_interrupt(p, enable) == Switch(p, "TXEIE", enable)

-----------------------------------------------------------------------------
(* uart_receive_char                                                       *)

\* RXNE is there; without it the call times out.
ReceiveReady(p) ==
  /\ Idle /\ p \in rcc /\ rxne[p]
  /\ call' = [NoCall EXCEPT !.at = "isr", !.port = p]
  /\ UNCHANGED <<uart_instances, board, device, line, agreed, owed>>

ReceiveFlags ==
  /\ At("isr")
  /\ call' = [call EXCEPT !.at = "rdr", !.isr = flags[call.port]]
  /\ UNCHANGED <<uart_instances, board, device, line, agreed, owed>>

ReceiveData ==
  /\ At("rdr")
  /\ rxne' = [rxne EXCEPT ![call.port] = FALSE]
  /\ call' = [call EXCEPT !.at = "icr"]
  /\ UNCHANGED <<uart_instances, board, device, flags, agreed, owed>>

Clears(isr) == isr # {}

\* The codes it returns an error for: parity is not among them.
Mut_Reports(isr) == "FE" \in isr              \* mutant: overruns pass unreported
Reports(isr)     == isr \intersect {"FE", "ORE"} # {}

ReceiveDone ==
  LET p == call.port IN
  /\ At("icr")
  /\ flags' = [flags EXCEPT ![p] = IF Clears(call.isr) THEN {} ELSE @]
  /\ owed' = [owed EXCEPT ![p] = @ /\ ~Reports(call.isr)]
  /\ Return
  /\ UNCHANGED <<uart_instances, board, device, rxne, agreed>>

-----------------------------------------------------------------------------
Next ==
  \/ \E p \in Listening : Arrive(p) \/ ReceiveReady(p)
  \/ \E p \in USARTS :
       \/ uart_irq_handler(p)
       \/ \E config \in Configs : InitBegin(p, config)
       \/ \E enable \in BOOLEAN : uart_enable_rx_interrupt(p, enable) \/ uart_enable_tx_interrupt(p, enable)
  \/ InitFrame \/ InitRegister \/ ReceiveFlags \/ ReceiveData \/ ReceiveDone

Spec == Init /\ [][Next]_vars

-----------------------------------------------------------------------------
(* Properties                                                              *)

BRR_MAX == 65535      \* 16 bits

\* Types; BRR fits its 16 bits, and with oversampling by 8 its bit 3 is kept clear.
SetupTypeOK ==
  /\ uart_instances \in [Slots -> USARTS \union {NULL}]
  /\ rcc \subseteq USARTS \union {"A", "B", "C", "D"} /\ af \in [Pins -> {0, 7, 8}]
  /\ cr1 \in [USARTS -> SUBSET (FrameFields \union {"UE", "TE", "RE", "RXNEIE", "TXEIE"})]
  /\ stop \in [USARTS -> {1, 2}] /\ brr \in [USARTS -> 0 .. BRR_MAX]
  /\ \A p \in USARTS : "OVER8" \in cr1[p] => brr[p] % 16 < 8      \* BRR[3] is kept clear
  /\ rxne \in [USARTS -> BOOLEAN] /\ flags \in [USARTS -> SUBSET Errors]
  /\ call.at \in {"idle", "frame", "register", "isr", "rdr", "icr"}
  /\ agreed \in [USARTS -> Configs \union {NULL}] /\ owed \in [USARTS -> BOOLEAN]

\* A device that is enabled has exactly the frame of the configuration that was
\* accepted last, whatever it was set to before, and its rate.  (LPUART1 is not a
\* USART and its rate is wrong.)
RunsAsConfigured ==
  \A p \in USARTS : "UE" \in cr1[p] =>
    /\ agreed[p] # NULL
    /\ cr1[p] \intersect FrameFields = FrameBits(agreed[p])
    /\ stop[p] = agreed[p].StopBits
    /\ p # "LPUART1" => Near(Rate(HZ, brr[p], "OVER8" \in cr1[p]), agreed[p].BaudRate)

\* A device that is enabled is served: it has a slot of its own, else its first
\* interrupt would find no ring, clear nothing and come again for ever; and its pins
\* are its own and clocked.  This whatever else has been initialised since, or failed
\* to be.
RunningServed ==
  \A p \in USARTS : "UE" \in cr1[p] =>
    /\ Cardinality({i \in Slots : uart_instances[i] = p}) = 1
    /\ \A pin \in PinsOf(p) : af[pin] = Function(p) /\ pin[1] \in rcc

\* Without parity, a framing error or an overrun is told to somebody: it is still
\* flagged, or the call that will clear it returns an error, or it was counted.
ErrorsReported ==
  \A p \in USARTS : owed[p] /\ "PCE" \notin cr1[p] =>
    \/ flags[p] \intersect {"FE", "ORE"} # {}
    \/ call.port = p /\ call.at \in {"rdr", "icr"} /\ Reports(call.isr)

=============================================================================
