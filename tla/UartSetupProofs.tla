---------------------------- MODULE UartSetupProofs ----------------------------
(***************************************************************************)
(* Theorems about uart_init, the interrupt switches and reception by       *)
(* polling, for every set of devices, table size, set of configurations    *)
(* and clock.                                                              *)
(*                                                                         *)
(* The inductive invariant: the table fills from its first slot and names  *)
(* a device once (Table); a device that is enabled has slot, pins and      *)
(* frame, and a call of uart_init has those it has reached (Served,        *)
(* Framed); no error flag is left from before (Flagged).                   *)
(***************************************************************************)
EXTENDS UartSetup, FiniteSetTheorems, TLAPS

\* The enumerations of UART_Config_t; a record is not the null pointer.
ConfigsTyped ==
  \A config \in Configs :
    /\ config # NULL
    /\ config.StopBits \in {1, 2}
    /\ config.OverSampling8 \in BOOLEAN

\* Rates that the register can hold, with a divisor large enough for its rounding.
RatesInReach ==
  \A config \in Configs :
    /\ 300 <= config.BaudRate
    /\ IF config.OverSampling8
       THEN 38 * config.BaudRate <= HZ /\ 2 * HZ <= BRR_MAX * config.BaudRate
       ELSE 30 * config.BaudRate <= HZ /\ HZ <= BRR_MAX * config.BaudRate

Bits  == FrameFields \union {"UE", "TE", "RE", "RXNEIE", "TXEIE"}
Steps == {"idle", "frame", "register", "isr", "rdr", "icr"}

Calls == [at : Steps, port : USARTS \union {NULL}, config : Configs \union {NULL},
          cr1 : SUBSET Bits, isr : SUBSET Errors]

InInit == call.at \in {"frame", "register"}

CallInv ==
  /\ call \in Calls
  /\ call.at # "idle" => call.port \in USARTS
  /\ InInit => call.config \in Configs
  /\ call.at = "frame" => "UE" \notin call.cr1

FilledTo(n) == \A i \in Slots : uart_instances[i] # NULL <=> i < n

\* Slots are filled in order and a device is in one at most.
Table ==
  /\ \E n \in 0 .. UART_MAX_INSTANCES : FilledTo(n)
  /\ \A i, j \in Slots : uart_instances[i] = uart_instances[j] /\ uart_instances[i] # NULL => i = j

Wired(p) == \A pin \in PinsOf(p) : af[pin] = Function(p) /\ pin[1] \in rcc

Served ==
  /\ \A p \in USARTS : "UE" \in cr1[p] => Registered(p) /\ Wired(p)
  /\ InInit => Wired(call.port) /\ "UE" \notin cr1[call.port]

\* The frame and the divisor of a device are those of a configuration.
HasFrame(p, config) ==
  /\ cr1[p] \intersect FrameFields = FrameBits(config)
  /\ stop[p] = config.StopBits
  /\ brr[p] = Brr(HZ, config.BaudRate, config.OverSampling8)

Framed ==
  /\ \A p \in USARTS : "UE" \in cr1[p] => agreed[p] \in Configs /\ HasFrame(p, agreed[p])
  /\ call.at = "register" => HasFrame(call.port, call.config)

\* A parity error is flagged or read only with parity, and there is nothing flagged
\* or owed while the frame changes.
Flagged ==
  /\ \A p \in USARTS : "PE" \in flags[p] => "PCE" \in cr1[p]
  /\ call.at \in {"rdr", "icr"} /\ "PE" \in call.isr => "PCE" \in cr1[call.port]
  /\ InInit => flags[call.port] = {} /\ ~owed[call.port]

SetupInv ==
  SetupTypeOK /\ CallInv /\ Table /\ Served /\ Framed /\ Flagged /\ ErrorsReported

-----------------------------------------------------------------------------
(* The tables and the divisor.                                              *)

Devices == {"USART1", "USART2", "USART3", "UART4", "UART5", "LPUART1"}

LEMMA PinsKnown ==
  /\ PinsOf("USART1") = {<<"A", 9>>, <<"A", 10>>} /\ PinsOf("USART2") = {<<"A", 2>>, <<"A", 3>>}
  /\ PinsOf("USART3") = {<<"B", 10>>, <<"B", 11>>} /\ PinsOf("UART4") = {<<"C", 10>>, <<"C", 11>>}
  /\ PinsOf("UART5") = {<<"C", 12>>, <<"D", 2>>} /\ PinsOf("LPUART1") = {<<"C", 0>>, <<"C", 1>>}
  BY DEF PinsOf

\* No two devices share a pin.
LEMMA PinsApart ==
  ASSUME NEW p \in Devices, NEW q \in Devices, p # q
  PROVE  \A pin \in PinsOf(p) : pin \notin PinsOf(q)
  BY PinsKnown DEF Devices

\* The ports that uart_init clocks are those of the pins.
LEMMA PinsClocked ==
  ASSUME NEW p \in Devices
  PROVE  /\ \A pin \in PinsOf(p) : pin[1] \in GpioClocks(p)
         /\ GpioClocks(p) \subseteq {"A", "B", "C", "D"}
  BY DEF Devices, GpioClocks, PinsOf

LEMMA BrrType ==
  ASSUME NEW hz \in Nat, NEW baud \in Nat \ {0}, NEW over8 \in BOOLEAN
  PROVE  /\ Brr(hz, baud, over8) \in 0 .. BRR_MAX
         /\ over8 => Brr(hz, baud, over8) % 16 < 8
<1>1. BRR_MAX \in Nat
  BY DEF BRR_MAX
<1>2. CASE over8
  <2>1. Brr(hz, baud, over8) \in Nat
    BY <1>2 DEF Brr, Usartdiv
  <2>2. Brr(hz, baud, over8) <= BRR_MAX
    BY <1>2 DEF Brr, Usartdiv, BRR_MAX
  <2>3. Brr(hz, baud, over8) % 16 < 8
    BY <1>2 DEF Brr, Usartdiv
  <2> QED
    BY <1>1, <2>1, <2>2, <2>3
<1>3. CASE ~over8
  <2>1. Brr(hz, baud, over8) \in Nat
    BY <1>3 DEF Brr, Usartdiv
  <2>2. Brr(hz, baud, over8) <= BRR_MAX
    BY <1>3 DEF Brr, Usartdiv, BRR_MAX
  <2> QED
    BY <1>1, <1>3, <2>1, <2>2
<1> QED
  BY <1>2, <1>3

\* What dividing does.
LEMMA Division ==
  ASSUME NEW a \in Nat, NEW b \in Nat \ {0}
  PROVE  a \div b \in Nat /\ b * (a \div b) <= a /\ a < b * (a \div b) + b
  OBVIOUS

\* A divisor of 30 at least whose product with the rate is off by half the rate at
\* most, or one of 75 when it is off by one and a half, gives the rate within 2%.
LEMMA NearEnough ==
  ASSUME NEW h \in Nat, NEW b \in Nat, NEW e \in Nat, 300 <= b,
         2 * (e * b) <= 2 * h + b,
         \/ 30 <= e /\ 2 * h <= 2 * (e * b) + b
         \/ 75 <= e /\ 2 * h <= 2 * (e * b) + 3 * b
  PROVE  Near(h \div e, b)
<1>1. PICK r \in Nat : r = h \div e /\ e * r <= h /\ h < e * r + e
  <2>1. e \in Nat \ {0}
    OBVIOUS
  <2> QED
    BY <2>1, Division
<1>2. PICK f \in Nat : f = b \div 50 /\ 50 * f <= b /\ b < 50 * f + 50
  OBVIOUS
<1>3. \A x \in Int, y \in Int, z \in Int : x <= y /\ 0 <= z => x * z <= y * z
  OBVIOUS
<1>4. r - b <= f
  <2> SUFFICES ASSUME f + 1 <= r - b PROVE FALSE
    OBVIOUS
  <2>1. e * (r - b) = e * r - e * b
    OBVIOUS
  <2>2. ASSUME NEW m \in Nat, m <= e PROVE m * (f + 1) <= h - e * b
    <3>1. m * (f + 1) <= e * (f + 1)
      BY <1>3, <2>2
    <3>2. (f + 1) * e <= (r - b) * e
      BY <1>3
    <3>3. (f + 1) * e = e * (f + 1) /\ (r - b) * e = e * (r - b)
      OBVIOUS
    <3> QED
      BY <1>1, <2>1, <3>1, <3>2, <3>3
  <2>3. e * b \in Nat
    OBVIOUS
  <2>4. CASE 30 <= e /\ 2 * h <= 2 * (e * b) + b
    <3>1. 30 * (f + 1) <= h - e * b
      BY <2>2, <2>4
    <3> QED
      BY <1>2, <2>3, <2>4, <3>1
  <2>5. CASE 75 <= e /\ 2 * h <= 2 * (e * b) + 3 * b
    <3>1. 75 * (f + 1) <= h - e * b
      BY <2>2, <2>5
    <3> QED
      BY <1>2, <2>3, <2>5, <3>1
  <2> QED
    BY <2>4, <2>5
<1>5. b - r <= f
  <2> SUFFICES ASSUME f <= b - r - 1 PROVE FALSE
    OBVIOUS
  <2>1. e * (b - r - 1) = e * b - e * r - e
    OBVIOUS
  <2>2. 30 * f <= e * f
    BY <1>3
  <2>3. f * e <= (b - r - 1) * e
    BY <1>3
  <2>4. f * e = e * f /\ (b - r - 1) * e = e * (b - r - 1)
    OBVIOUS
  <2>5. 30 * f <= e * b - e * r - e
    BY <2>1, <2>2, <2>3, <2>4
  <2>6. e * b \in Nat /\ e * r \in Nat
    OBVIOUS
  <2>7. 2 * (e * b - e * r - e) <= b
    BY <1>1, <2>6
  <2> QED
    BY <1>2, <2>5, <2>6, <2>7
<1> QED
  BY <1>1, <1>2, <1>4, <1>5 DEF Near

\* The rounded divisor is off by half the rate at most.
LEMMA Rounding ==
  ASSUME NEW h \in Nat, NEW b \in Nat \ {0}, NEW m \in Nat, m * b <= h, h <= BRR_MAX * b
  PROVE  \E d \in Nat : /\ d = (h + b \div 2) \div b /\ m <= d /\ d <= BRR_MAX
                        /\ 2 * (d * b) <= 2 * h + b /\ 2 * h <= 2 * (d * b) + b
<1>1. PICK g \in Nat : g = b \div 2 /\ 2 * g <= b /\ b <= 2 * g + 1
  OBVIOUS
<1>2. PICK d \in Nat : d = (h + g) \div b /\ b * d <= h + g /\ h + g < b * d + b
  <2>1. h + g \in Nat
    OBVIOUS
  <2> QED
    BY <2>1, Division
<1>3. d * b = b * d /\ b * d \in Nat /\ BRR_MAX \in Nat
  BY DEF BRR_MAX
<1>4. \A x \in Nat, y \in Nat : x * b < y * b + b => x <= y
  <2>1. \A x \in Nat, y \in Nat : y + 1 <= x => (y + 1) * b <= x * b
    OBVIOUS
  <2>2. \A y \in Nat : (y + 1) * b = y * b + b
    OBVIOUS
  <2> QED
    BY <2>1, <2>2
<1>5. m <= d
  <2>1. m * b < d * b + b
    BY <1>2, <1>3
  <2> QED
    BY <1>4, <2>1
<1>6. d <= BRR_MAX
  <2>1. d * b < BRR_MAX * b + b
    BY <1>1, <1>2, <1>3
  <2> QED
    BY <1>3, <1>4, <2>1
<1>7. 2 * (d * b) <= 2 * h + b /\ 2 * h <= 2 * (d * b) + b
  BY <1>1, <1>2, <1>3
<1> QED
  BY <1>1, <1>2, <1>5, <1>6, <1>7

\* A baud rate that fits the register and is small against the clock is kept: within
\* 2% of what was asked, also when oversampling by 8 drops the divisor's last bit.
LEMMA RateKept ==
  ASSUME NEW hz \in Nat, NEW b \in Nat, 300 <= b, NEW over8 \in BOOLEAN,
         over8 => 38 * b <= hz /\ 2 * hz <= BRR_MAX * b,
         ~over8 => 30 * b <= hz /\ hz <= BRR_MAX * b
  PROVE  Near(Rate(hz, Brr(hz, b, over8), over8), b)
<1>0. b \in Nat \ {0} /\ 30 \in Nat /\ 76 \in Nat
  OBVIOUS
<1>1. CASE ~over8
  <2>0. 30 * b <= hz /\ hz <= BRR_MAX * b
    BY <1>1
  <2>1. PICK d \in Nat : /\ d = (hz + b \div 2) \div b /\ 30 <= d /\ d <= BRR_MAX
                         /\ 2 * (d * b) <= 2 * hz + b /\ 2 * hz <= 2 * (d * b) + b
    BY <1>0, <2>0, Rounding, Zenon
  <2>2. Near(hz \div d, b)
    BY <2>1, NearEnough
  <2>3. Brr(hz, b, over8) = d
    BY <1>1, <2>1 DEF Brr, Usartdiv, BRR_MAX
  <2> QED
    BY <1>1, <2>2, <2>3 DEF Rate
<1>2. CASE over8
  <2> DEFINE h == 2 * hz
  <2>1. h \in Nat /\ 76 * b <= h /\ h <= BRR_MAX * b
    BY <1>2
  <2> HIDE DEF h
  <2>2. PICK d \in Nat : /\ d = (h + b \div 2) \div b /\ 76 <= d /\ d <= BRR_MAX
                         /\ 2 * (d * b) <= 2 * h + b /\ 2 * h <= 2 * (d * b) + b
    BY <1>0, <2>1, Rounding, Zenon
  <2>3. Brr(hz, b, over8) = (d \div 16) * 16 + (d % 16) \div 2
    BY <1>2, <2>2 DEF Brr, Usartdiv, BRR_MAX, h
  <2>4. PICK e \in Nat : /\ e = (d \div 16) * 16 + 2 * ((d % 16) \div 2)
                         /\ e <= d /\ d <= e + 1
    OBVIOUS
  <2>5. Rate(hz, Brr(hz, b, over8), over8) = h \div e
    <3>1. \A x \in Nat : x = (d \div 16) * 16 + (d % 16) \div 2
            => (x \div 16) * 16 + 2 * (x % 8) = (d \div 16) * 16 + 2 * ((d % 16) \div 2)
      OBVIOUS
    <3>2. (d \div 16) * 16 + (d % 16) \div 2 \in Nat
      OBVIOUS
    <3> QED
      BY <1>2, <2>3, <2>4, <3>1, <3>2 DEF Rate, h
  <2>6. e * b <= d * b /\ d * b <= e * b + b /\ e * b \in Nat /\ d * b \in Nat
    <3>1. d = e \/ d = e + 1
      BY <2>4
    <3> QED
      BY <3>1
  <2>7. 75 <= e /\ 2 * (e * b) <= 2 * h + b /\ 2 * h <= 2 * (e * b) + 3 * b
    BY <2>1, <2>2, <2>4, <2>6
  <2>8. Near(h \div e, b)
    BY <2>1, <2>7, NearEnough
  <2> QED
    BY <2>5, <2>8
<1> QED
  BY <1>1, <1>2

-----------------------------------------------------------------------------
(* uart_register_instance.                                                  *)

\* The slot found is the device's own, when it has one, else the first free one.
LEMMA SlotFound ==
  ASSUME Table, NEW p \in USARTS, HasSlot(p)
  PROVE  /\ SlotFor(p) \in Slots
         /\ \A i \in Slots : uart_instances[i] = p => i = SlotFor(p)
         /\ uart_instances[SlotFor(p)] = p \/ FilledTo(SlotFor(p))
<1>0. p # NULL /\ Slots = 0 .. UART_MAX_INSTANCES - 1 /\ UART_MAX_INSTANCES \in Nat
  BY DevicesAssumption, TableSizeAssumption DEF Slots
<1>1. PICK n \in 0 .. UART_MAX_INSTANCES : FilledTo(n)
  BY DEF Table
<1> DEFINE First(i) == Takes(i, p) /\ \A j \in 0 .. i - 1 : ~Takes(j, p)
<1>2. ASSUME NEW k \in Slots, uart_instances[k] = p
      PROVE  First(k) /\ \A i \in Slots : First(i) => i = k
  <2>1. Takes(k, p) /\ k < n
    BY <1>0, <1>1, <1>2 DEF Takes, FilledTo
  <2>2. ASSUME NEW j \in Slots, Takes(j, p), j <= k PROVE j = k
    <3>1. uart_instances[j] # NULL
      BY <1>0, <1>1, <2>1, <2>2 DEF FilledTo
    <3> QED
      BY <1>0, <1>2, <2>2, <3>1 DEF Table, Takes
  <2>3. First(k)
    BY <1>0, <2>1, <2>2
  <2>4. ASSUME NEW i \in Slots, First(i) PROVE i = k
    BY <1>0, <2>1, <2>2, <2>4
  <2> QED
    BY <2>3, <2>4
<1>3. ASSUME \A i \in Slots : uart_instances[i] # p
      PROVE  n \in Slots /\ First(n) /\ \A i \in Slots : First(i) => i = n
  <2>1. \A i \in Slots : Takes(i, p) <=> ~(i < n)
    BY <1>1, <1>3 DEF Takes, FilledTo
  <2>2. n \in Slots
    BY <1>0, <2>1 DEF HasSlot
  <2> QED
    BY <1>0, <2>1, <2>2
<1>4. SlotFor(p) = CHOOSE i \in Slots : First(i)
  BY DEF SlotFor
<1> HIDE DEF First
<1>5. CASE \E k \in Slots : uart_instances[k] = p
  <2>1. PICK k \in Slots : uart_instances[k] = p
    BY <1>5
  <2>2. SlotFor(p) = k
    BY <1>2, <1>4, <2>1
  <2> QED
    BY <1>0, <2>1, <2>2 DEF Table
<1>6. CASE \A i \in Slots : uart_instances[i] # p
  <2>1. SlotFor(p) = n /\ n \in Slots
    BY <1>3, <1>4, <1>6
  <2> QED
    BY <1>1, <1>6, <2>1
<1> QED
  BY <1>5, <1>6

-----------------------------------------------------------------------------
(* The steps.                                                               *)

\* A step outside uart_init that touches at most the interrupt switches.
LEMMA DevicesKept ==
  ASSUME SetupInv, UNCHANGED <<uart_instances, board, stop, brr, agreed>>,
         ~InInit', \/ cr1' = cr1
                   \/ \E p \in USARTS, bit \in {"RXNEIE", "TXEIE"} :
                        \/ cr1' = [cr1 EXCEPT ![p] = @ \union {bit}]
                        \/ cr1' = [cr1 EXCEPT ![p] = @ \ {bit}]
  PROVE  /\ Table' /\ Served' /\ Framed'
         /\ cr1' \in [USARTS -> SUBSET Bits]
         /\ \A p \in USARTS : \A bit \in FrameFields : bit \in cr1'[p] <=> bit \in cr1[p]
<1> USE DEF board
<1>1. cr1 \in [USARTS -> SUBSET Bits]
  BY DEF SetupInv, SetupTypeOK, Bits
<1>2. /\ cr1' \in [USARTS -> SUBSET Bits]
      /\ \A p \in USARTS : /\ cr1'[p] \intersect FrameFields = cr1[p] \intersect FrameFields
                           /\ "UE" \in cr1'[p] <=> "UE" \in cr1[p]
  <2>1. CASE cr1' = cr1
    BY <1>1, <2>1
  <2>2. ASSUME NEW p \in USARTS, NEW bit \in {"RXNEIE", "TXEIE"},
               \/ cr1' = [cr1 EXCEPT ![p] = @ \union {bit}]
               \/ cr1' = [cr1 EXCEPT ![p] = @ \ {bit}]
        PROVE  /\ cr1' \in [USARTS -> SUBSET Bits]
               /\ \A q \in USARTS :
                    /\ cr1'[q] \intersect FrameFields = cr1[q] \intersect FrameFields
                    /\ "UE" \in cr1'[q] <=> "UE" \in cr1[q]
    <3>1. bit \notin FrameFields /\ bit # "UE" /\ bit \in Bits
      BY <2>2 DEF FrameFields, Bits
    <3>2. \A q \in USARTS : q # p => cr1'[q] = cr1[q]
      BY <1>1, <2>2
    <3>3. cr1'[p] = cr1[p] \union {bit} \/ cr1'[p] = cr1[p] \ {bit}
      BY <1>1, <2>2
    <3>4. cr1' \in [USARTS -> SUBSET Bits]
      BY <1>1, <2>2, <3>1
    <3>5. cr1'[p] \intersect FrameFields = cr1[p] \intersect FrameFields
      BY <3>1, <3>3
    <3>6. "UE" \in cr1'[p] <=> "UE" \in cr1[p]
      BY <3>1, <3>3
    <3> QED
      BY <3>2, <3>4, <3>5, <3>6
  <2> QED
    BY <2>1, <2>2
<1>3. Table'
  BY DEF SetupInv, Table, FilledTo
<1>4. Served'
  BY <1>2 DEF SetupInv, Served, Registered, Wired
<1>5. Framed'
  <2>1. \A p \in USARTS : "UE" \in cr1[p] => HasFrame(p, agreed[p])' 
    BY <1>2 DEF SetupInv, Framed, HasFrame
  <2> QED
    BY <1>2, <2>1 DEF SetupInv, Framed, InInit
<1> QED
  BY <1>2, <1>3, <1>4, <1>5

\* What the type invariant says of a step that leaves the board alone.
LEMMA TypesKept ==
  ASSUME SetupInv, UNCHANGED <<uart_instances, board, stop, brr, agreed>>,
         cr1' \in [USARTS -> SUBSET Bits],
         \A p \in USARTS : "OVER8" \in cr1'[p] <=> "OVER8" \in cr1[p],
         rxne' \in [USARTS -> BOOLEAN], flags' \in [USARTS -> SUBSET Errors],
         call' \in Calls, owed' \in [USARTS -> BOOLEAN]
  PROVE  SetupTypeOK'
<1>1. call'.at \in Steps
  BY DEF Calls
<1> QED
  BY <1>1 DEF SetupInv, SetupTypeOK, Bits, Steps, board

\* uart_receive_char.
LEMMA ReceiveKeeps ==
  ASSUME SetupInv, \/ \E p \in Listening : ReceiveReady(p)
                   \/ ReceiveFlags \/ ReceiveData \/ ReceiveDone
  PROVE  SetupInv'
<1> USE DEF device, line
<1>1. /\ UNCHANGED <<uart_instances, board, stop, brr, agreed, cr1>>
      /\ rxne \in [USARTS -> BOOLEAN] /\ flags \in [USARTS -> SUBSET Errors]
      /\ owed \in [USARTS -> BOOLEAN] /\ call \in Calls /\ NULL \notin USARTS
      /\ cr1 \in [USARTS -> SUBSET Bits]
      /\ \A p \in Listening : p \in USARTS
  BY DevicesAssumption DEF ReceiveReady, ReceiveFlags, ReceiveData, ReceiveDone, SetupInv,
     SetupTypeOK, CallInv, Bits
<1>2. NoCall \in Calls
  BY DEF NoCall, Calls, Steps
<1>3. ASSUME NEW p \in Listening, ReceiveReady(p) PROVE SetupInv'
  <2>1. /\ call' = [at |-> "isr", port |-> p, config |-> NULL, cr1 |-> {}, isr |-> {}]
        /\ UNCHANGED <<rxne, flags, owed>> /\ call.at = "idle"
    BY <1>3 DEF ReceiveReady, NoCall, Idle
  <2>2. CallInv' /\ ~InInit'
    BY <1>1, <2>1 DEF CallInv, Calls, Steps, InInit
  <2>3. Flagged' /\ ErrorsReported'
    BY <1>1, <2>1 DEF SetupInv, Flagged, InInit, ErrorsReported
  <2>4. Table' /\ Served' /\ Framed'
    BY <1>1, <2>2, DevicesKept
  <2>5. SetupTypeOK'
    BY <1>1, <2>1, <2>2, TypesKept DEF CallInv
  <2> QED
    BY <2>2, <2>3, <2>4, <2>5 DEF SetupInv
<1>4. CASE ReceiveFlags
  <2>1. /\ call' = [call EXCEPT !.at = "rdr", !.isr = flags[call.port]]
        /\ UNCHANGED <<rxne, flags, owed>> /\ call.at = "isr" /\ call.port \in USARTS
    BY <1>4 DEF ReceiveFlags, At, SetupInv, CallInv
  <2>2. call'.at = "rdr" /\ call'.port = call.port /\ call'.isr = flags[call.port] /\ call' \in Calls
    BY <1>1, <2>1 DEF Calls, Steps
  <2>3. CallInv' /\ ~InInit'
    BY <2>1, <2>2 DEF CallInv, InInit
  <2>4. Flagged' /\ ErrorsReported'
    BY <1>1, <2>1, <2>2 DEF SetupInv, Flagged, InInit, ErrorsReported
  <2>5. Table' /\ Served' /\ Framed'
    BY <1>1, <2>3, DevicesKept
  <2>6. SetupTypeOK'
    BY <1>1, <2>1, <2>2, TypesKept
  <2> QED
    BY <2>3, <2>4, <2>5, <2>6 DEF SetupInv
<1>5. CASE ReceiveData
  <2>1. /\ call' = [call EXCEPT !.at = "icr"] /\ rxne' = [rxne EXCEPT ![call.port] = FALSE]
        /\ UNCHANGED <<flags, owed>> /\ call.at = "rdr" /\ call.port \in USARTS
    BY <1>5 DEF ReceiveData, At, SetupInv, CallInv
  <2>2. /\ call'.at = "icr" /\ call'.port = call.port /\ call'.isr = call.isr /\ call' \in Calls
        /\ rxne' \in [USARTS -> BOOLEAN]
    BY <1>1, <2>1 DEF Calls, Steps
  <2>3. CallInv' /\ ~InInit'
    BY <2>1, <2>2 DEF CallInv, InInit
  <2>4. Flagged' /\ ErrorsReported'
    BY <1>1, <2>1, <2>2 DEF SetupInv, Flagged, InInit, ErrorsReported, Reports
  <2>5. Table' /\ Served' /\ Framed'
    BY <1>1, <2>3, DevicesKept
  <2>6. SetupTypeOK'
    BY <1>1, <2>1, <2>2, TypesKept
  <2> QED
    BY <2>3, <2>4, <2>5, <2>6 DEF SetupInv
<1>6. CASE ReceiveDone
  <2> DEFINE q == call.port
  <2>1. /\ call' = NoCall /\ call.at = "icr" /\ q \in USARTS /\ UNCHANGED rxne
        /\ flags' = [flags EXCEPT ![q] = IF Clears(call.isr) THEN {} ELSE @]
        /\ owed' = [owed EXCEPT ![q] = @ /\ ~Reports(call.isr)]
    BY <1>6 DEF ReceiveDone, At, SetupInv, CallInv, Return
  <2>2. CallInv' /\ ~InInit'
    BY <1>2, <2>1 DEF CallInv, InInit, NoCall
  <2>3. flags' \in [USARTS -> SUBSET Errors] /\ owed' \in [USARTS -> BOOLEAN]
    <3>1. (owed[q] /\ ~Reports(call.isr)) \in BOOLEAN
      BY <1>1, <2>1
    <3> QED
      BY <1>1, <2>1, <3>1
  <2>4. Flagged'
    <3>1. \A p \in USARTS : flags'[p] \subseteq flags[p]
      BY <1>1, <2>1
    <3> QED
      BY <1>1, <2>1, <2>2, <3>1 DEF SetupInv, Flagged, NoCall, InInit
  <2>5. ErrorsReported'
    <3>1. ASSUME NEW p \in USARTS, owed'[p], "PCE" \notin cr1[p], p # q
          PROVE  flags'[p] \intersect {"FE", "ORE"} # {}
      BY <1>1, <2>1, <3>1 DEF SetupInv, ErrorsReported
    <3>2. ASSUME owed'[q], "PCE" \notin cr1[q]
          PROVE  flags'[q] \intersect {"FE", "ORE"} # {}
      <4>1. owed[q] /\ ~Reports(call.isr)
        BY <1>1, <2>1, <3>2
      <4>2. flags[q] \intersect {"FE", "ORE"} # {}
        BY <2>1, <3>2, <4>1 DEF SetupInv, ErrorsReported
      <4>3. call.isr = {}
        BY <1>1, <2>1, <3>2, <4>1 DEF SetupInv, Flagged, Reports, Calls, Errors
      <4> QED
        BY <1>1, <2>1, <4>2, <4>3 DEF Clears
    <3> QED
      BY <1>1, <3>1, <3>2 DEF ErrorsReported
  <2>6. Table' /\ Served' /\ Framed'
    BY <1>1, <2>2, DevicesKept
  <2>7. SetupTypeOK'
    BY <1>1, <2>1, <2>2, <2>3, TypesKept DEF CallInv
  <2> QED
    BY <2>2, <2>4, <2>5, <2>6, <2>7 DEF SetupInv
<1> QED
  BY <1>3, <1>4, <1>5, <1>6

\* uart_enable_rx_interrupt and uart_enable_tx_interrupt.
LEMMA SwitchKeeps ==
  ASSUME SetupInv, NEW p \in USARTS, NEW bit \in {"RXNEIE", "TXEIE"}, NEW enable \in BOOLEAN,
         Switch(p, bit, enable)
  PROVE  SetupInv'
<1>1. /\ UNCHANGED <<uart_instances, board, stop, brr, rxne, flags, call, agreed, owed>>
      /\ call.at = "idle"
      /\ \/ cr1' = [cr1 EXCEPT ![p] = @ \union {bit}]
         \/ cr1' = [cr1 EXCEPT ![p] = @ \ {bit}]
  BY DEF Switch, Idle, line
<1>2. CallInv' /\ ~InInit'
  BY <1>1 DEF SetupInv, CallInv, InInit
<1>3. /\ Table' /\ Served' /\ Framed'
      /\ cr1' \in [USARTS -> SUBSET Bits]
      /\ \A q \in USARTS : \A b \in FrameFields : b \in cr1'[q] <=> b \in cr1[q]
  BY <1>1, <1>2, DevicesKept
<1>4. \A q \in USARTS : /\ "PCE" \in cr1'[q] <=> "PCE" \in cr1[q]
                        /\ "OVER8" \in cr1'[q] <=> "OVER8" \in cr1[q]
  BY <1>3 DEF FrameFields
<1>5. Flagged' /\ ErrorsReported'
  BY <1>1, <1>4 DEF SetupInv, Flagged, InInit, ErrorsReported
<1>6. SetupTypeOK'
  BY <1>1, <1>3, <1>4, TypesKept DEF SetupInv, SetupTypeOK, CallInv
<1> QED
  BY <1>2, <1>3, <1>5, <1>6 DEF SetupInv

\* The handler tells of what it clears, by counting it; it interrupts any call but
\* never touches the device that uart_init works on, which is disabled.
LEMMA HandlerKeeps ==
  ASSUME SetupInv, NEW p \in USARTS, uart_irq_handler(p)
  PROVE  SetupInv'
<1>1. /\ "UE" \in cr1[p] /\ UNCHANGED <<uart_instances, board, stop, brr, call, agreed>>
      /\ cr1' = [cr1 EXCEPT ![p] = @ \ {"TXEIE"}]
      /\ rxne' = [rxne EXCEPT ![p] = FALSE] /\ flags' = [flags EXCEPT ![p] = {}]
      /\ owed' = [owed EXCEPT ![p] = FALSE]
  BY DEF uart_irq_handler
<1>2. /\ cr1 \in [USARTS -> SUBSET Bits] /\ rxne \in [USARTS -> BOOLEAN]
      /\ flags \in [USARTS -> SUBSET Errors] /\ owed \in [USARTS -> BOOLEAN]
  BY DEF SetupInv, SetupTypeOK, Bits
<1>3. /\ cr1' \in [USARTS -> SUBSET Bits] /\ rxne' \in [USARTS -> BOOLEAN]
      /\ flags' \in [USARTS -> SUBSET Errors] /\ owed' \in [USARTS -> BOOLEAN]
      /\ \A q \in USARTS : \A bit \in Bits \ {"TXEIE"} : bit \in cr1'[q] <=> bit \in cr1[q]
      /\ \A q \in USARTS : /\ flags'[q] \subseteq flags[q]
                           /\ q # p => flags'[q] = flags[q] /\ cr1'[q] = cr1[q]
                           /\ owed'[q] => owed[q] /\ q # p
  BY <1>1, <1>2
<1>4. \A q \in USARTS : /\ "PCE" \in cr1'[q] <=> "PCE" \in cr1[q]
                        /\ "OVER8" \in cr1'[q] <=> "OVER8" \in cr1[q]
                        /\ "UE" \in cr1'[q] <=> "UE" \in cr1[q]
                        /\ cr1'[q] \intersect FrameFields = cr1[q] \intersect FrameFields
  <2>1. FrameFields \subseteq Bits \ {"TXEIE"} /\ "UE" \in Bits \ {"TXEIE"}
        /\ "PCE" \in FrameFields /\ "OVER8" \in FrameFields
    BY DEF FrameFields, Bits
  <2> QED
    BY <1>3, <2>1
<1>5. CallInv' /\ (InInit' <=> InInit) /\ (InInit => call.port \in USARTS)
  BY <1>1 DEF SetupInv, CallInv, InInit
<1>6. Table'
  BY <1>1 DEF SetupInv, Table, FilledTo
<1>7. Served'
  BY <1>1, <1>4, <1>5 DEF SetupInv, Served, Registered, Wired, board
<1>8. Framed'
  <2>1. call.at = "register" => InInit
    BY DEF InInit
  <2> QED
    BY <1>1, <1>4, <1>5, <2>1 DEF SetupInv, Framed, HasFrame
<1>9. Flagged'
  <2>1. call.at \in {"rdr", "icr"} => call.port \in USARTS
    BY DEF SetupInv, CallInv
  <2> QED
    BY <1>1, <1>3, <1>4, <1>5, <2>1 DEF SetupInv, Flagged
<1>10. ErrorsReported'
  BY <1>1, <1>3, <1>4 DEF SetupInv, ErrorsReported
<1>11. SetupTypeOK'
  BY <1>1, <1>3, <1>4, <1>5, TypesKept DEF CallInv
<1> QED
  BY <1>5, <1>6, <1>7, <1>8, <1>9, <1>10, <1>11 DEF SetupInv

\* A frame arrives only at an enabled device, and flags parity only with parity.
LEMMA ArriveKeeps ==
  ASSUME SetupInv, NEW p \in USARTS, Arrive(p)
  PROVE  SetupInv'
<1>1. /\ "UE" \in cr1[p] /\ UNCHANGED <<uart_instances, board, stop, brr, cr1, call, agreed>>
      /\ owed' = [owed EXCEPT ![p] = @ \/ flags'[p] \intersect {"FE", "ORE"} # {}]
  BY DEF Arrive, device
<1>2. /\ cr1 \in [USARTS -> SUBSET Bits] /\ rxne \in [USARTS -> BOOLEAN]
      /\ flags \in [USARTS -> SUBSET Errors] /\ owed \in [USARTS -> BOOLEAN]
  BY DEF SetupInv, SetupTypeOK, Bits
<1>3. rxne' \in [USARTS -> BOOLEAN]
  BY <1>2 DEF Arrive
<1>4. PICK more \in SUBSET Errors :
        flags' = [flags EXCEPT ![p] = @ \union more] /\ ("PE" \in more => "PCE" \in cr1[p])
  <2>1. CASE rxne[p]
    <3>1. flags' = [flags EXCEPT ![p] = @ \union {"ORE"}]
      BY <2>1 DEF Arrive
    <3>2. {"ORE"} \in SUBSET Errors /\ "PE" \notin {"ORE"}
      BY DEF Errors
    <3> QED
      BY <3>1, <3>2
  <2>2. CASE ~rxne[p]
    BY <2>2 DEF Arrive, Errors
  <2> QED
    BY <2>1, <2>2
<1>5. /\ flags' \in [USARTS -> SUBSET Errors]
      /\ flags'[p] = flags[p] \union more
      /\ \A q \in USARTS : q # p => flags'[q] = flags[q]
  BY <1>2, <1>4
<1>6. /\ owed' \in [USARTS -> BOOLEAN]
      /\ owed'[p] => owed[p] \/ flags'[p] \intersect {"FE", "ORE"} # {}
      /\ \A q \in USARTS : q # p => owed'[q] = owed[q]
  <2>1. (owed[p] \/ flags'[p] \intersect {"FE", "ORE"} # {}) \in BOOLEAN
    BY <1>2
  <2> QED
    BY <1>1, <1>2, <2>1
<1>7. CallInv' /\ (InInit' <=> InInit) /\ (InInit => call.port \in USARTS /\ call.port # p)
  BY <1>1 DEF SetupInv, CallInv, InInit, Served
<1>8. Table'
  BY <1>1 DEF SetupInv, Table, FilledTo
<1>9. Served'
  BY <1>1, <1>7 DEF SetupInv, Served, Registered, Wired, board
<1>10. Framed'
  BY <1>1 DEF SetupInv, Framed, HasFrame
<1>11. Flagged'
  <2>1. \A q \in USARTS : "PE" \in flags'[q] => "PCE" \in cr1[q]
    BY <1>4, <1>5 DEF SetupInv, Flagged
  <2> QED
    BY <1>1, <1>5, <1>6, <1>7, <2>1 DEF SetupInv, Flagged
<1>12. ErrorsReported'
  <2>1. ASSUME NEW q \in USARTS, owed'[q], "PCE" \notin cr1[q]
        PROVE  \/ flags'[q] \intersect {"FE", "ORE"} # {}
               \/ call.port = q /\ call.at \in {"rdr", "icr"} /\ Reports(call.isr)
    <3>1. owed[q] \/ flags'[q] \intersect {"FE", "ORE"} # {}
      BY <1>6, <2>1
    <3>2. flags[q] \subseteq flags'[q]
      BY <1>5
    <3> QED
      BY <2>1, <3>1, <3>2 DEF SetupInv, ErrorsReported
  <2> QED
    BY <1>1, <2>1 DEF ErrorsReported
<1>13. SetupTypeOK'
  BY <1>1, <1>2, <1>3, <1>5, <1>6, <1>7, TypesKept DEF CallInv
<1> QED
  BY <1>7, <1>8, <1>9, <1>10, <1>11, <1>12, <1>13 DEF SetupInv

-----------------------------------------------------------------------------
(* The steps of uart_init.                                                  *)

LEMMA InitBeginKeeps ==
  ASSUME SetupInv, NEW p \in USARTS, NEW config \in Configs, InitBegin(p, config)
  PROVE  SetupInv'
<1>1. /\ call.at = "idle" /\ UNCHANGED <<uart_instances, stop, brr, agreed>>
      /\ rcc' = rcc \union {p} \union GpioClocks(p)
      /\ af' = [pin \in Pins |-> IF pin \in PinsOf(p) THEN Function(p) ELSE af[pin]]
      /\ cr1' = [cr1 EXCEPT ![p] = @ \ {"UE"}]
      /\ rxne' = [rxne EXCEPT ![p] = FALSE] /\ flags' = [flags EXCEPT ![p] = {}]
      /\ owed' = [owed EXCEPT ![p] = FALSE]
      /\ call' = [at |-> "frame", port |-> p, config |-> config, cr1 |-> cr1'[p], isr |-> {}]
  BY DEF InitBegin, Idle
<1>2. /\ cr1 \in [USARTS -> SUBSET Bits] /\ rxne \in [USARTS -> BOOLEAN]
      /\ flags \in [USARTS -> SUBSET Errors] /\ owed \in [USARTS -> BOOLEAN]
      /\ rcc \subseteq USARTS \union {"A", "B", "C", "D"} /\ af \in [Pins -> {0, 7, 8}]
  BY DEF SetupInv, SetupTypeOK, Bits
<1>3. /\ cr1' \in [USARTS -> SUBSET Bits] /\ rxne' \in [USARTS -> BOOLEAN]
      /\ flags' \in [USARTS -> SUBSET Errors] /\ owed' \in [USARTS -> BOOLEAN]
      /\ cr1'[p] = cr1[p] \ {"UE"} /\ flags'[p] = {} /\ ~owed'[p]
      /\ \A q \in USARTS : q # p => cr1'[q] = cr1[q] /\ flags'[q] = flags[q] /\ owed'[q] = owed[q]
  BY <1>1, <1>2
<1>4. p \in Devices /\ \A q \in USARTS : q \in Devices
  BY DevicesAssumption DEF Devices
<1>5. /\ rcc' \subseteq USARTS \union {"A", "B", "C", "D"} /\ rcc \subseteq rcc'
      /\ af' \in [Pins -> {0, 7, 8}]
  <2>1. Function(p) \in {0, 7, 8}
    BY DEF Function
  <2>2. af' \in [Pins -> {0, 7, 8}]
    BY <1>1, <1>2, <2>1
  <2>3. rcc' \subseteq USARTS \union {"A", "B", "C", "D"} /\ rcc \subseteq rcc'
    BY <1>1, <1>2, <1>4, PinsClocked
  <2> QED
    BY <2>2, <2>3
<1>6. CallInv'
  <2>1. cr1'[p] \in SUBSET Bits /\ "UE" \notin cr1'[p]
    BY <1>3
  <2>2. call' \in Calls
    BY <1>1, <2>1 DEF Calls, Steps
  <2> QED
    BY <1>1, <2>1, <2>2 DEF CallInv
<1>7. Table'
  BY <1>1 DEF SetupInv, Table, FilledTo
<1>8. Served'
  <2>1. Wired(p)'
    <3>1. \A pin \in PinsOf(p) : pin \in Pins /\ pin[1] \in GpioClocks(p)
      BY <1>4, PinsClocked DEF Pins
    <3> QED
      BY <1>1, <3>1 DEF Wired
  <2>2. ASSUME NEW q \in USARTS, q # p, Wired(q) PROVE Wired(q)'
    <3>1. \A pin \in PinsOf(q) : pin \in Pins /\ pin \notin PinsOf(p)
      BY <1>4, <2>2, PinsApart DEF Pins
    <3> QED
      BY <1>1, <1>5, <2>2, <3>1 DEF Wired
  <2>3. "UE" \notin cr1'[p]
    BY <1>3
  <2>4. call'.port = p
    BY <1>1
  <2>5. \A q \in USARTS : "UE" \in cr1'[q] => q # p /\ "UE" \in cr1[q]
    BY <1>3, <2>3
  <2>6. \A q \in USARTS : "UE" \in cr1'[q] => Registered(q)' /\ Wired(q)'
    BY <1>1, <2>2, <2>5 DEF SetupInv, Served, Registered
  <2>7. Wired(call.port)' /\ "UE" \notin cr1'[call'.port]
    <3>1. \A q : q = p => Wired(q)'
      BY <2>1
    <3> QED
      BY <1>1, <2>1, <2>3, <2>4 DEF Wired
  <2> QED
    BY <2>6, <2>7 DEF Served
<1>9. Framed'
  <2>1. call'.at = "frame"
    BY <1>1
  <2>2. \A q \in USARTS : "UE" \in cr1'[q] => q # p /\ "UE" \in cr1[q] /\ cr1'[q] = cr1[q]
    BY <1>3
  <2> QED
    BY <1>1, <2>1, <2>2 DEF SetupInv, Framed, HasFrame
<1>10. Flagged'
  <2>1. call'.at = "frame" /\ call'.port = p
    BY <1>1
  <2>2. \A q \in USARTS : "PE" \in flags'[q] => "PCE" \in cr1'[q]
    BY <1>3 DEF SetupInv, Flagged
  <2> QED
    BY <1>3, <2>1, <2>2 DEF Flagged, InInit
<1>11. ErrorsReported'
  BY <1>1, <1>3 DEF SetupInv, ErrorsReported
<1>12. SetupTypeOK'
  <2>1. \A q \in USARTS : "OVER8" \in cr1'[q] => "OVER8" \in cr1[q]
    BY <1>3
  <2>2. call'.at \in Steps
    BY <1>1 DEF Steps
  <2> QED
    BY <1>1, <1>3, <1>5, <2>1, <2>2 DEF SetupInv, SetupTypeOK, Bits, Steps
<1> QED
  BY <1>6, <1>7, <1>8, <1>9, <1>10, <1>11, <1>12 DEF SetupInv

LEMMA InitFrameKeeps ==
  ASSUME SetupInv, ConfigsTyped, InitFrame
  PROVE  SetupInv'
<1> DEFINE p == call.port
           config == call.config
<1>1. /\ call.at = "frame" /\ p \in USARTS /\ config \in Configs /\ call \in Calls
      /\ UNCHANGED <<uart_instances, rcc, af, rxne, flags, agreed, owed>>
      /\ cr1' = [cr1 EXCEPT ![p] = Cleared(call.cr1) \union FrameBits(config) \union {"TE", "RE"}]
      /\ stop' = [stop EXCEPT ![p] = config.StopBits]
      /\ brr' = [brr EXCEPT ![p] = Brr(HZ, config.BaudRate, config.OverSampling8)]
      /\ call' = [call EXCEPT !.at = "register"]
  BY DEF InitFrame, At, SetupInv, CallInv, InInit, board, line
<1>2. /\ cr1 \in [USARTS -> SUBSET Bits] /\ stop \in [USARTS -> {1, 2}]
      /\ brr \in [USARTS -> 0 .. BRR_MAX]
      /\ "UE" \notin call.cr1 /\ call.cr1 \subseteq Bits
      /\ flags[p] = {} /\ ~owed[p] /\ "UE" \notin cr1[p] /\ Wired(p)
  BY <1>1 DEF SetupInv, SetupTypeOK, Bits, CallInv, Calls, InInit, Flagged, Served
<1>3. /\ config.StopBits \in {1, 2} /\ config.OverSampling8 \in BOOLEAN
      /\ config.BaudRate \in Nat \ {0} /\ HZ \in Nat
  BY <1>1, ClockAssumption DEF ConfigsTyped
<1>4. FrameBits(config) \subseteq FrameFields /\ ("OVER8" \in FrameBits(config) <=> config.OverSampling8)
  BY DEF FrameBits, FrameFields
<1> DEFINE bits == Cleared(call.cr1) \union FrameBits(config) \union {"TE", "RE"}
<1>5. bits \subseteq Bits /\ "UE" \notin bits /\ bits \intersect FrameFields = FrameBits(config)
  BY <1>2, <1>4 DEF Cleared, Bits, FrameFields
<1>6. /\ Brr(HZ, config.BaudRate, config.OverSampling8) \in 0 .. BRR_MAX
      /\ config.OverSampling8 => Brr(HZ, config.BaudRate, config.OverSampling8) % 16 < 8
  BY <1>3, BrrType
<1> HIDE DEF p, config, bits
<1>7. /\ cr1' = [cr1 EXCEPT ![p] = bits]
      /\ call'.at = "register" /\ call'.port = p /\ call'.config = config /\ call' \in Calls
  BY <1>1 DEF p, config, bits, Calls, Steps
<1>8. /\ cr1' \in [USARTS -> SUBSET Bits] /\ stop' \in [USARTS -> {1, 2}]
      /\ brr' \in [USARTS -> 0 .. BRR_MAX]
      /\ cr1'[p] = bits /\ stop'[p] = config.StopBits
      /\ brr'[p] = Brr(HZ, config.BaudRate, config.OverSampling8)
      /\ \A q \in USARTS : q # p => cr1'[q] = cr1[q] /\ stop'[q] = stop[q] /\ brr'[q] = brr[q]
  BY <1>1, <1>2, <1>3, <1>5, <1>6, <1>7
<1>9. CallInv'
  BY <1>1, <1>7 DEF CallInv
<1>10. Table'
  BY <1>1 DEF SetupInv, Table, FilledTo
<1>11. Served'
  <2>1. \A q : Wired(q)' <=> Wired(q)
    BY <1>1 DEF Wired
  <2>2. \A q : q = p => Wired(q)' /\ "UE" \notin cr1'[q]
    BY <1>2, <1>5, <1>8, <2>1
  <2>3. \A q \in USARTS : "UE" \in cr1'[q] => q # p /\ "UE" \in cr1[q]
    BY <1>5, <1>8
  <2>4. \A q \in USARTS : "UE" \in cr1'[q] => Registered(q)' /\ Wired(q)'
    BY <1>1, <2>1, <2>3 DEF SetupInv, Served, Registered
  <2>5. Wired(call.port)' /\ "UE" \notin cr1'[call'.port]
    BY <1>7, <1>1, <1>2, <2>2 DEF Wired
  <2> QED
    BY <2>4, <2>5 DEF Served
<1>12. Framed'
  <2>1. \A q \in USARTS : "UE" \in cr1'[q] => q # p /\ "UE" \in cr1[q]
    BY <1>5, <1>8
  <2>2. \A q \in USARTS : "UE" \in cr1'[q] => agreed[q] \in Configs /\ HasFrame(q, agreed[q])'
    BY <1>1, <1>8, <2>1 DEF SetupInv, Framed, HasFrame
  <2>3. HasFrame(call.port, call.config)'
    BY <1>5, <1>7, <1>8 DEF HasFrame
  <2> QED
    BY <1>1, <2>2, <2>3 DEF Framed
<1>13. Flagged'
  <2>1. \A q \in USARTS : "PE" \in flags[q] => q # p /\ "PCE" \in cr1[q]
    BY <1>2 DEF SetupInv, Flagged
  <2> QED
    BY <1>1, <1>2, <1>7, <1>8, <2>1 DEF Flagged
<1>14. ErrorsReported'
  <2>1. \A q \in USARTS : owed[q] => q # p
    BY <1>2
  <2>2. \A q \in USARTS : owed[q] /\ "PCE" \notin cr1'[q] => flags[q] \intersect {"FE", "ORE"} # {}
    BY <1>1, <1>8, <2>1 DEF SetupInv, ErrorsReported
  <2> QED
    BY <1>1, <2>2 DEF ErrorsReported
<1>15. SetupTypeOK'
  <2>1. \A q \in USARTS : "OVER8" \in cr1'[q] => brr'[q] % 16 < 8
    <3>1. ASSUME NEW q \in USARTS, q # p, "OVER8" \in cr1'[q] PROVE brr'[q] % 16 < 8
      <4>1. cr1'[q] = cr1[q] /\ brr'[q] = brr[q]
        BY <1>8, <3>1
      <4>2. brr[q] % 16 < 8
        BY <3>1, <4>1 DEF SetupInv, SetupTypeOK
      <4> QED
        BY <4>1, <4>2
    <3>2. ASSUME "OVER8" \in cr1'[p] PROVE brr'[p] % 16 < 8
      <4>1. config.OverSampling8
        BY <1>4, <1>5, <1>8, <3>2 DEF FrameFields
      <4> QED
        BY <1>6, <1>8, <4>1, Zenon
    <3> QED
      BY <3>1, <3>2
  <2> QED
    BY <1>1, <1>7, <1>8, <2>1 DEF SetupInv, SetupTypeOK, Bits
<1> QED
  BY <1>9, <1>10, <1>11, <1>12, <1>13, <1>14, <1>15 DEF SetupInv

LEMMA InitRegisterKeeps ==
  ASSUME SetupInv, InitRegister
  PROVE  SetupInv'
<1> DEFINE p == call.port
           config == call.config
<1>1. /\ call.at = "register" /\ p \in USARTS /\ config \in Configs
      /\ UNCHANGED <<rcc, af, stop, brr, rxne, flags, owed>> /\ call' = NoCall
      /\ HasSlot(p) =>
           /\ uart_instances' = [uart_instances EXCEPT ![SlotFor(p)] = p]
           /\ cr1' = [cr1 EXCEPT ![p] = @ \union {"UE"}]
           /\ agreed' = [agreed EXCEPT ![p] = config]
      /\ ~HasSlot(p) =>
           /\ cr1' = [cr1 EXCEPT ![p] = Unregistered(@)]
           /\ UNCHANGED <<uart_instances, agreed>>
  BY DEF InitRegister, At, SetupInv, CallInv, InInit, board, line, Return
<1>2. /\ cr1 \in [USARTS -> SUBSET Bits] /\ agreed \in [USARTS -> Configs \union {NULL}]
      /\ uart_instances \in [Slots -> USARTS \union {NULL}] /\ NULL \notin USARTS
      /\ flags[p] = {} /\ ~owed[p] /\ "UE" \notin cr1[p] /\ Wired(p) /\ HasFrame(p, config)
  BY <1>1, DevicesAssumption
     DEF SetupInv, SetupTypeOK, Bits, InInit, Flagged, Served, Framed
<1> HIDE DEF p, config
<1>3. /\ cr1' \in [USARTS -> SUBSET Bits]
      /\ cr1'[p] \intersect FrameFields = cr1[p] \intersect FrameFields
      /\ "UE" \in cr1'[p] => HasSlot(p)
      /\ \A q \in USARTS : q # p => cr1'[q] = cr1[q]
  <2>1. CASE HasSlot(p)
    <3>1. cr1' \in [USARTS -> SUBSET Bits]
      BY <1>1, <1>2, <2>1 DEF Bits
    <3>2. cr1'[p] = cr1[p] \union {"UE"} /\ \A q \in USARTS : q # p => cr1'[q] = cr1[q]
      BY <1>1, <1>2, <2>1
    <3> QED
      BY <2>1, <3>1, <3>2 DEF FrameFields
  <2>2. CASE ~HasSlot(p)
    <3>1. /\ cr1'[p] = cr1[p] \ {"TE", "RE"} /\ \A q \in USARTS : q # p => cr1'[q] = cr1[q]
          /\ cr1' \in [USARTS -> SUBSET Bits]
      BY <1>1, <1>2, <2>2 DEF Unregistered
    <3> QED
      BY <1>2, <3>1 DEF FrameFields
  <2> QED
    BY <2>1, <2>2
<1>4. CallInv' /\ ~InInit'
  BY <1>1 DEF CallInv, NoCall, Calls, Steps, InInit
<1>5. /\ Table' /\ uart_instances' \in [Slots -> USARTS \union {NULL}]
      /\ \A q \in USARTS : Registered(q) => Registered(q)'
      /\ \A q \in USARTS : q = p /\ HasSlot(p) => Registered(q)'
  <2>1. CASE HasSlot(p)
    <3>1. PICK k \in Slots :
            /\ k = SlotFor(p)
            /\ \A i \in Slots : uart_instances[i] = p => i = k
            /\ uart_instances[k] = p \/ FilledTo(k)
      BY <1>1, <2>1, SlotFound DEF SetupInv
    <3>2. /\ uart_instances' = [uart_instances EXCEPT ![k] = p]
          /\ uart_instances'[k] = p
          /\ \A i \in Slots : i # k => uart_instances'[i] = uart_instances[i]
      BY <1>1, <1>2, <2>1, <3>1
    <3>3. uart_instances[k] = p \/ uart_instances[k] = NULL
      BY <1>2, <3>1, TableSizeAssumption DEF FilledTo, Slots
    <3>4. \E n \in 0 .. UART_MAX_INSTANCES : FilledTo(n)'
      <4>1. CASE uart_instances[k] = p
        BY <1>2, <3>2, <4>1 DEF SetupInv, Table, FilledTo
      <4>2. CASE FilledTo(k)
        <5>1. k + 1 \in 0 .. UART_MAX_INSTANCES /\ \A i \in Slots : i < k + 1 <=> i < k \/ i = k
          BY TableSizeAssumption DEF Slots
        <5>2. FilledTo(k + 1)'
          BY <1>1, <1>2, <3>2, <4>2, <5>1 DEF FilledTo
        <5> QED
          BY <5>1, <5>2
      <4> QED
        BY <3>1, <4>1, <4>2
    <3>5. ASSUME NEW i \in Slots, NEW j \in Slots,
                 uart_instances'[i] = uart_instances'[j], uart_instances'[i] # NULL
          PROVE  i = j
      BY <3>1, <3>2, <3>5 DEF SetupInv, Table
    <3>6. uart_instances' \in [Slots -> USARTS \union {NULL}]
      BY <1>1, <1>2, <3>2
    <3>7. \A q \in USARTS : Registered(q) => Registered(q)'
      BY <1>2, <3>2, <3>3 DEF Registered
    <3>8. \A q \in USARTS : q = p => Registered(q)'
      BY <3>2 DEF Registered
    <3> QED
      BY <3>4, <3>5, <3>6, <3>7, <3>8 DEF Table
  <2>2. CASE ~HasSlot(p)
    BY <1>1, <1>2, <2>2 DEF SetupInv, Table, FilledTo, Registered
  <2> QED
    BY <2>1, <2>2
<1>6. Served'
  <2>1. \A q : Wired(q)' <=> Wired(q)
    BY <1>1 DEF Wired
  <2>2. ASSUME NEW q \in USARTS, "UE" \in cr1'[q] PROVE Registered(q)' /\ Wired(q)
    <3>1. CASE q = p
      BY <1>2, <1>3, <1>5, <2>2, <3>1
    <3>2. CASE q # p
      BY <1>3, <1>5, <2>2, <3>2 DEF SetupInv, Served
    <3> QED
      BY <3>1, <3>2
  <2> QED
    BY <1>4, <2>1, <2>2 DEF Served
<1>7. Framed'
  <2>1. ASSUME NEW q \in USARTS, "UE" \in cr1'[q]
        PROVE  agreed'[q] \in Configs /\ HasFrame(q, agreed'[q])
    <3>1. CASE q = p
      BY <1>1, <1>2, <1>3, <2>1, <3>1
    <3>2. CASE q # p
      <4>1. agreed'[q] = agreed[q] /\ "UE" \in cr1[q]
        BY <1>1, <1>2, <1>3, <2>1, <3>2
      <4> QED
        BY <4>1 DEF SetupInv, Framed
    <3> QED
      BY <3>1, <3>2
  <2>2. \A q \in USARTS : \A c : HasFrame(q, c) => cr1'[q] \intersect FrameFields = FrameBits(c)
    BY <1>3 DEF HasFrame
  <2>3. \A q \in USARTS : "UE" \in cr1'[q] => agreed'[q] \in Configs /\ HasFrame(q, agreed[q])'
    BY <1>1, <2>1, <2>2 DEF HasFrame
  <2> QED
    BY <1>4, <2>3 DEF Framed, InInit
<1>8. \A q \in USARTS : "PCE" \in cr1'[q] <=> "PCE" \in cr1[q]
  BY <1>3 DEF FrameFields
<1>9. Flagged'
  <2>1. call'.at = "idle"
    BY <1>1 DEF NoCall
  <2> QED
    BY <1>1, <1>8, <2>1 DEF SetupInv, Flagged, InInit
<1>10. ErrorsReported'
  BY <1>1, <1>8 DEF SetupInv, ErrorsReported
<1>11. SetupTypeOK'
  <2>1. \A q \in USARTS : "OVER8" \in cr1'[q] <=> "OVER8" \in cr1[q]
    BY <1>3 DEF FrameFields
  <2>2. agreed' \in [USARTS -> Configs \union {NULL}]
    BY <1>1, <1>2
  <2>3. call'.at \in Steps
    BY <1>1 DEF NoCall, Steps
  <2> QED
    BY <1>1, <1>3, <1>5, <2>1, <2>2, <2>3 DEF SetupInv, SetupTypeOK, Bits, Steps
<1> QED
  BY <1>4, <1>5, <1>6, <1>7, <1>9, <1>10, <1>11 DEF SetupInv

-----------------------------------------------------------------------------
(* The invariant.                                                           *)

LEMMA SetupInit == Init => SetupInv
<1> SUFFICES ASSUME Init PROVE SetupInv
  OBVIOUS
<1>1. /\ uart_instances = [i \in Slots |-> NULL]
      /\ rcc = {} /\ af = [pin \in Pins |-> 0]
      /\ cr1 = [p \in USARTS |-> {}] /\ stop = [p \in USARTS |-> 1] /\ brr = [p \in USARTS |-> 0]
      /\ rxne = [p \in USARTS |-> FALSE] /\ flags = [p \in USARTS |-> {}]
      /\ agreed = [p \in USARTS |-> NULL] /\ owed = [p \in USARTS |-> FALSE]
      /\ call = NoCall
  BY DEF Init
<1>2. call.at = "idle" /\ call \in Calls /\ ~InInit
  BY <1>1 DEF NoCall, Calls, Steps, InInit
<1>3. 0 \in 0 .. BRR_MAX
  BY DEF BRR_MAX
<1>4. SetupTypeOK
  BY <1>1, <1>2, <1>3 DEF SetupTypeOK
<1>5. Table
  <2>1. FilledTo(0) /\ 0 \in 0 .. UART_MAX_INSTANCES
    BY <1>1, TableSizeAssumption DEF FilledTo, Slots
  <2> QED
    BY <1>1, <2>1 DEF Table
<1> QED
  BY <1>1, <1>2, <1>4, <1>5 DEF SetupInv, CallInv, Served, Framed, Flagged, ErrorsReported

LEMMA SetupStep ==
  ASSUME ConfigsTyped, SetupInv, [Next]_vars
  PROVE  SetupInv'
<1>1. CASE UNCHANGED vars
  BY <1>1 DEF vars, board, device, line, SetupInv, SetupTypeOK, CallInv, InInit, Table, FilledTo,
     Served, Registered, Wired, Framed, HasFrame, Flagged, ErrorsReported
<1>2. CASE \E p \in Listening : Arrive(p)
  BY <1>2, ArriveKeeps, DevicesAssumption
<1>3. CASE \/ \E p \in Listening : ReceiveReady(p)
           \/ ReceiveFlags \/ ReceiveData \/ ReceiveDone
  BY <1>3, ReceiveKeeps
<1>4. CASE \E p \in USARTS : uart_irq_handler(p)
  BY <1>4, HandlerKeeps
<1>5. CASE \E p \in USARTS : \E config \in Configs : InitBegin(p, config)
  BY <1>5, InitBeginKeeps
<1>6. CASE \E p \in USARTS : \E enable \in BOOLEAN :
             uart_enable_rx_interrupt(p, enable) \/ uart_enable_tx_interrupt(p, enable)
  BY <1>6, SwitchKeeps DEF uart_enable_rx_interrupt, uart_enable_tx_interrupt
<1>7. CASE InitFrame
  BY <1>7, InitFrameKeeps
<1>8. CASE InitRegister
  BY <1>8, InitRegisterKeeps
<1> QED
  BY <1>1, <1>2, <1>3, <1>4, <1>5, <1>6, <1>7, <1>8 DEF Next

LEMMA SetupInvariant ==
  ASSUME ConfigsTyped
  PROVE  Spec => []SetupInv
<1>1. SetupInv /\ [Next]_vars => SetupInv'
  BY SetupStep
<1> QED
  BY <1>1, SetupInit, PTL DEF Spec
-----------------------------------------------------------------------------
(* The theorems.                                                            *)

\* Every variable keeps its type: above all, the divisor that uart_init computes from
\* any baud rate is stored in 16 bits and never sets BRR[3] with oversampling by 8.
THEOREM SetupTypes ==
  ASSUME ConfigsTyped
  PROVE  Spec => []SetupTypeOK
<1>1. SetupInv => SetupTypeOK
  BY DEF SetupInv
<1> QED
  BY <1>1, SetupInvariant, PTL

\* However uart_init is called, for whatever devices and however many, a device that
\* is enabled is in the table exactly once and has its pins and their clocks: none
\* loses them to a later uart_init, also to one that finds the table full.
THEOREM EnabledServed ==
  ASSUME ConfigsTyped
  PROVE  Spec => []RunningServed
<1>1. ASSUME SetupInv PROVE RunningServed
  <2>1. ASSUME NEW p \in USARTS, "UE" \in cr1[p]
        PROVE  Cardinality({i \in Slots : uart_instances[i] = p}) = 1
    <3>1. PICK k \in Slots : uart_instances[k] = p
      BY <1>1, <2>1 DEF SetupInv, Served, Registered
    <3>2. \A i \in Slots : uart_instances[i] = p => i = k
      BY <1>1, <3>1, DevicesAssumption DEF SetupInv, Table
    <3>3. {i \in Slots : uart_instances[i] = p} = {k}
      BY <3>1, <3>2
    <3> QED
      BY <3>3, FS_Singleton
  <2> QED
    BY <1>1, <2>1 DEF SetupInv, Served, Wired, RunningServed
<1> QED
  BY <1>1, SetupInvariant, PTL

\* A device that is enabled runs with the frame and the rate of the configuration that
\* uart_init accepted last, whatever it ran with before and whatever the interrupt
\* switches did since: for every set of configurations whose rates are in reach.
THEOREM EnabledConfigured ==
  ASSUME ConfigsTyped, RatesInReach
  PROVE  Spec => []RunsAsConfigured
<1>1. ASSUME SetupInv PROVE RunsAsConfigured
  <2>1. ASSUME NEW p \in USARTS, "UE" \in cr1[p]
        PROVE  /\ agreed[p] # NULL
               /\ cr1[p] \intersect FrameFields = FrameBits(agreed[p])
               /\ stop[p] = agreed[p].StopBits
               /\ Near(Rate(HZ, brr[p], "OVER8" \in cr1[p]), agreed[p].BaudRate)
    <3>1. agreed[p] \in Configs /\ HasFrame(p, agreed[p])
      BY <1>1, <2>1 DEF SetupInv, Framed
    <3>2. PICK config \in Configs : config = agreed[p]
      BY <3>1
    <3>3. ("OVER8" \in cr1[p]) = config.OverSampling8
      <4>1. "OVER8" \in cr1[p] <=> "OVER8" \in FrameBits(config)
        BY <3>1, <3>2 DEF HasFrame, FrameFields
      <4>2. "OVER8" \in FrameBits(config) <=> config.OverSampling8
        BY DEF FrameBits, FrameFields
      <4> QED
        BY <4>1, <4>2 DEF ConfigsTyped
    <3>4. Near(Rate(HZ, Brr(HZ, config.BaudRate, config.OverSampling8), config.OverSampling8),
               config.BaudRate)
      <4>1. /\ config.BaudRate \in Nat /\ 300 <= config.BaudRate /\ HZ \in Nat
            /\ config.OverSampling8 \in BOOLEAN
            /\ config.OverSampling8 => 38 * config.BaudRate <= HZ /\ 2 * HZ <= BRR_MAX * config.BaudRate
            /\ ~config.OverSampling8 => 30 * config.BaudRate <= HZ /\ HZ <= BRR_MAX * config.BaudRate
        BY ClockAssumption DEF ConfigsTyped, RatesInReach
      <4> QED
        BY <4>1, RateKept
    <3> QED
      BY <3>1, <3>2, <3>3, <3>4 DEF HasFrame, ConfigsTyped
  <2> QED
    BY <2>1 DEF RunsAsConfigured
<1> QED
  BY <1>1, SetupInvariant, PTL

\* No framing error and no overrun is forgotten while parity is off: between the reads
\* of ISR and RDR and the write of ICR in uart_receive_char the flags that are cleared
\* are those that are returned, whatever interrupt or initialisation comes in between.
THEOREM ErrorsTold ==
  ASSUME ConfigsTyped
  PROVE  Spec => []ErrorsReported
<1>1. SetupInv => ErrorsReported
  BY DEF SetupInv
<1> QED
  BY <1>1, SetupInvariant, PTL

=============================================================================
