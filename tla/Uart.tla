--------------------------------- MODULE Uart ---------------------------------
(***************************************************************************)
(* The buffered half of drivers/uart.c: the RX and TX rings, the interrupt *)
(* handler that fills and drains them, and uart_write_buffer,              *)
(* uart_read_buffer and uart_flush called by tasks.  The state starts      *)
(* where main() leaves it: ports initialised, RXNEIE and TXEIE set.        *)
(*                                                                         *)
(* The handler is one action: it has priority 0, which no BASEPRI masks,   *)
(* so nothing interrupts it and it may interrupt a task anywhere.  A call  *)
(* is split where it reads or writes what the handler, or another task     *)
(* that is let in, changes.                                                *)
(***************************************************************************)
EXTENDS Integers, Sequences

CONSTANTS
  PORTS,                \* instances that have been registered
  UART_MAX_INSTANCES, UART_RX_BUFFER_SIZE, UART_TX_BUFFER_SIZE,
  MAX_SYSCALL_PRIORITY,
  COUNTER_MOD,          \* the event counters wrap at this value (2^32)
  Tasks,
  Texts,                \* for each task, what it writes
  ReadLens,             \* for each task, the lengths it reads
  Flushers,             \* tasks that flush
  Received,             \* bytes that arrive on the wire
  NONE

ASSUME PortsAssumption == UART_MAX_INSTANCES \in Nat /\ PORTS \in 1 .. UART_MAX_INSTANCES
ASSUME RingsAssumption ==
  /\ UART_RX_BUFFER_SIZE \in Nat \ {0, 1} /\ UART_TX_BUFFER_SIZE \in Nat \ {0, 1}
  /\ COUNTER_MOD \in Nat \ {0}
ASSUME UartPriorityAssumption == MAX_SYSCALL_PRIORITY \in 0..255
ASSUME TasksAssumption == DOMAIN Texts = Tasks /\ DOMAIN ReadLens = Tasks /\ Flushers \subseteq Tasks

Ports   == 0 .. PORTS - 1
Written == UNION {{text[i] : i \in DOMAIN text} : text \in UNION {Texts[t] : t \in Tasks}}
Bytes   == Written \union Received

\* uart_tx_buf has rows of UART_RX_BUFFER_SIZE bytes.  What lies behind its last
\* row are other variables of the driver.
Memory     == 0 .. (UART_MAX_INSTANCES - 1) * UART_RX_BUFFER_SIZE + UART_TX_BUFFER_SIZE - 1
TxCell(p, i) == p * UART_RX_BUFFER_SIZE + i

VARIABLES
  rx_buf, rx_head, rx_tail, rx_overflow, rx_errors,
  tx_buf, tx_head, tx_tail,
  rdr, err,             \* receive register (NONE when RXNE is clear), error flags
  tdr, shift, tc,       \* transmit register, shift register, TC flag
  txeie,                \* CR1.TXEIE
  pc, loc               \* each task's place in a call, and its locals

rx   == <<rx_buf, rx_head, rx_tail, rx_overflow, rx_errors>>
tx   == <<tx_buf, tx_head, tx_tail>>
hw   == <<rdr, err, tdr, shift, tc, txeie>>
vars == <<rx, tx, hw, pc, loc>>

NoCall == [port |-> 0, src |-> <<>>, left |-> 0, head |-> 0, tail |-> 0, got |-> NONE]

Init ==
  /\ rx_buf = [p \in Ports |-> [i \in 0 .. UART_RX_BUFFER_SIZE - 1 |-> NONE]]
  /\ rx_head = [p \in Ports |-> 0] /\ rx_tail = rx_head
  /\ rx_overflow = rx_head /\ rx_errors = rx_head
  /\ tx_buf = [i \in Memory |-> NONE] /\ tx_head = rx_head /\ tx_tail = rx_head
  /\ rdr = [p \in Ports |-> NONE] /\ tdr = rdr /\ shift = rdr
  /\ err = [p \in Ports |-> FALSE]
  /\ tc = [p \in Ports |-> TRUE] /\ txeie = [p \in Ports |-> TRUE]
  /\ pc = [t \in Tasks |-> "idle"] /\ loc = [t \in Tasks |-> NoCall]

-----------------------------------------------------------------------------
(* The wire                                                                *)

\* A byte arrives: with an error flag or without; into a full register it is lost.
Arrive(p, b) ==
  /\ IF rdr[p] = NONE
     THEN rdr' = [rdr EXCEPT ![p] = b] /\ \E bad \in BOOLEAN : err' = [err EXCEPT ![p] = @ \/ bad]
     ELSE err' = [err EXCEPT ![p] = TRUE] /\ UNCHANGED rdr
  /\ UNCHANGED <<rx, tx, tdr, shift, tc, txeie, pc, loc>>

Shift(p) ==
  /\ tdr[p] # NONE /\ shift[p] = NONE
  /\ shift' = [shift EXCEPT ![p] = tdr[p]]
  /\ tdr' = [tdr EXCEPT ![p] = NONE]
  /\ UNCHANGED <<rx, tx, rdr, err, tc, txeie, pc, loc>>

Sent(p) ==
  /\ shift[p] # NONE
  /\ shift' = [shift EXCEPT ![p] = NONE]
  /\ tc' = [tc EXCEPT ![p] = (tdr[p] = NONE)]
  /\ UNCHANGED <<rx, tx, rdr, err, tdr, txeie, pc, loc>>

-----------------------------------------------------------------------------
(* uart_irq_handler                                                        *)

Raised(p) == rdr[p] # NONE \/ err[p] \/ (txeie[p] /\ tdr[p] = NONE)

IsrErrors(p) ==
  /\ rx_errors' = [rx_errors EXCEPT ![p] = IF err[p] THEN (@ + 1) % COUNTER_MOD ELSE @]
  /\ err' = [err EXCEPT ![p] = FALSE]

RxNext(p) == (rx_head[p] + 1) % UART_RX_BUFFER_SIZE

Mut_RxRoom(p) == TRUE         \* mutant: the ring is not checked for being full
RxRoom(p)     == RxNext(p) # rx_tail[p]

IsrReceive(p) ==
  /\ rdr' = [rdr EXCEPT ![p] = NONE]
  /\ IF rdr[p] = NONE
     THEN UNCHANGED <<rx_buf, rx_head, rx_overflow>>
     ELSE IF RxRoom(p)
     THEN /\ rx_buf' = [rx_buf EXCEPT ![p][rx_head[p]] = rdr[p]]
          /\ rx_head' = [rx_head EXCEPT ![p] = RxNext(p)]
          /\ UNCHANGED rx_overflow
     ELSE /\ rx_overflow' = [rx_overflow EXCEPT ![p] = (@ + 1) % COUNTER_MOD]
          /\ UNCHANGED <<rx_buf, rx_head>>

IsrTransmit(p) ==
  IF tdr[p] # NONE THEN UNCHANGED <<tdr, tc, tx_tail, txeie>>
  ELSE IF tx_head[p] # tx_tail[p]
  THEN /\ tdr' = [tdr EXCEPT ![p] = tx_buf[TxCell(p, tx_tail[p])]]
       /\ tc' = [tc EXCEPT ![p] = FALSE]
       /\ tx_tail' = [tx_tail EXCEPT ![p] = (@ + 1) % UART_TX_BUFFER_SIZE]
       /\ UNCHANGED txeie
  ELSE /\ txeie' = [txeie EXCEPT ![p] = FALSE]
       /\ UNCHANGED <<tdr, tc, tx_tail>>

uart_irq_handler(p) ==
  /\ Raised(p)
  /\ IsrErrors(p) /\ IsrReceive(p) /\ IsrTransmit(p)
  /\ UNCHANGED <<rx_tail, tx_buf, tx_head, shift, pc, loc>>

-----------------------------------------------------------------------------
(* Tasks.  A section that masks PendSV (priority 0xF0) keeps the others out; *)
(* as configured, with 5, BASEPRI stays 0 and it keeps nobody out.           *)

Filling == {"check", "put", "publish", "kick"}
Section == Filling \union {"copy"}

SectionMasks ==
  LET basepri == (MAX_SYSCALL_PRIORITY \div 16) * 16 IN basepri # 0

\* No other task has been switched away from inside a section.
Alone(t) == \A u \in Tasks \ {t} : pc[u] \notin Section

At(t, label) == pc[t] = label /\ (SectionMasks => Alone(t))

Goto(t, label)  == pc' = [pc EXCEPT ![t] = label]
Return(t)       == Goto(t, "idle") /\ loc' = [loc EXCEPT ![t] = NoCall]

\* uart_write_buffer
Write(t, p, text) ==
  /\ At(t, "idle")
  /\ loc' = [loc EXCEPT ![t].port = p, ![t].src = text]
  /\ Goto(t, "check")
  /\ UNCHANGED <<rx, tx, hw>>

Mut_TxNext(i) == (i + 1) % UART_RX_BUFFER_SIZE     \* mutant: the size of the other ring
TxNext(i)     == (i + 1) % UART_TX_BUFFER_SIZE

\* The head is read here and used until it is published.
WriteCheck(t) ==
  LET p == loc[t].port
      more == loc[t].src # <<>> /\ TxNext(tx_head[p]) # tx_tail[p]
  IN
  /\ At(t, "check")
  /\ Goto(t, IF more THEN "put" ELSE "kick")
  /\ loc' = [loc EXCEPT ![t].head = tx_head[p]]
  /\ UNCHANGED <<rx, tx, hw>>

WritePut(t) ==
  /\ At(t, "put")
  /\ tx_buf' = [tx_buf EXCEPT ![TxCell(loc[t].port, loc[t].head)] = Head(loc[t].src)]
  /\ Goto(t, "publish")
  /\ UNCHANGED <<rx, tx_head, tx_tail, hw, loc>>

WritePublish(t) ==
  /\ At(t, "publish")
  /\ tx_head' = [tx_head EXCEPT ![loc[t].port] = TxNext(loc[t].head)]
  /\ loc' = [loc EXCEPT ![t].src = Tail(@)]
  /\ Goto(t, "check")
  /\ UNCHANGED <<rx, tx_buf, tx_tail, hw>>

Mut_Kicked(p) == txeie              \* mutant: TXEIE is not set
Kicked(p)     == [txeie EXCEPT ![p] = TRUE]

WriteKick(t) ==
  /\ At(t, "kick")
  /\ txeie' = Kicked(loc[t].port)
  /\ Return(t)
  /\ UNCHANGED <<rx, tx, rdr, err, tdr, shift, tc>>

\* uart_read_buffer
Read(t, p, len) ==
  /\ At(t, "idle")
  /\ loc' = [loc EXCEPT ![t].port = p, ![t].left = len,
                        ![t].head = rx_head[p], ![t].tail = rx_tail[p]]
  /\ Goto(t, "copy")
  /\ UNCHANGED <<rx, tx, hw>>

ReadMore(t) == loc[t].left > 0 /\ loc[t].head # loc[t].tail

ReadCopy(t) ==
  /\ At(t, "copy") /\ ReadMore(t)
  /\ loc' = [loc EXCEPT ![t].got = rx_buf[loc[t].port][loc[t].tail],
                        ![t].tail = (@ + 1) % UART_RX_BUFFER_SIZE,
                        ![t].left = @ - 1]
  /\ UNCHANGED <<rx, tx, hw, pc>>

ReadPublish(t) ==
  /\ At(t, "copy") /\ ~ReadMore(t)
  /\ rx_tail' = [rx_tail EXCEPT ![loc[t].port] = loc[t].tail]
  /\ Return(t)
  /\ UNCHANGED <<rx_buf, rx_head, rx_overflow, rx_errors, tx, hw>>

\* uart_flush
uart_tx_pending(p) == (tx_head[p] + UART_TX_BUFFER_SIZE - tx_tail[p]) % UART_TX_BUFFER_SIZE

Flush(t, p) ==
  /\ At(t, "idle") /\ t \in Flushers
  /\ loc' = [loc EXCEPT ![t].port = p]
  /\ Goto(t, "drain")
  /\ UNCHANGED <<rx, tx, hw>>

FlushDrained(t) ==
  /\ At(t, "drain") /\ uart_tx_pending(loc[t].port) = 0
  /\ Goto(t, "wait_tc")
  /\ UNCHANGED <<rx, tx, hw, loc>>

Mut_Complete(p) == tdr[p] = NONE        \* mutant: waits for TXE, not for TC
Complete(p)     == tc[p]

FlushOk(t) ==
  /\ At(t, "wait_tc") /\ Complete(loc[t].port)
  /\ tc' = [tc EXCEPT ![loc[t].port] = FALSE]
  /\ Return(t)
  /\ UNCHANGED <<rx, tx, rdr, err, tdr, shift, txeie>>

FlushTimeout(t) ==
  /\ At(t, "wait_tc") /\ ~Complete(loc[t].port)
  /\ Return(t)
  /\ UNCHANGED <<rx, tx, hw>>

-----------------------------------------------------------------------------
Continue(t) ==
  \/ WriteCheck(t) \/ WritePut(t) \/ WritePublish(t) \/ WriteKick(t)
  \/ ReadCopy(t) \/ ReadPublish(t)
  \/ FlushDrained(t) \/ FlushOk(t) \/ FlushTimeout(t)

Call(t, p) ==
  \/ \E text \in Texts[t] : Write(t, p, text)
  \/ \E len \in ReadLens[t] : Read(t, p, len)
  \/ Flush(t, p)

Device(p) ==
  \/ \E b \in Received : Arrive(p, b)
  \/ Shift(p) \/ Sent(p) \/ uart_irq_handler(p)

Task(t) == Continue(t) \/ \E p \in Ports : Call(t, p)

Next ==
  \/ \E p \in Ports : Device(p)
  \/ \E t \in Tasks : Task(t)

Spec == Init /\ [][Next]_vars

\* The calm executions: no task is switched away from inside a section.  The mask
\* as configured does not forbid that; one that masks leaves no other executions.
CalmNext ==
  \/ \E p \in Ports : Device(p)
  \/ \E t \in Tasks : Alone(t) /\ Task(t)

CalmSpec == Init /\ [][CalmNext]_vars

\* The transmitter sends, a raised interrupt is served, and a call that has
\* begun goes on when the task gets the CPU.  No byte need arrive.
CalmFairness ==
  /\ \A p \in Ports : WF_vars(Shift(p)) /\ WF_vars(Sent(p)) /\ WF_vars(uart_irq_handler(p))
  /\ \A t \in Tasks : SF_vars(Alone(t) /\ Continue(t))

CalmFairSpec == CalmSpec /\ CalmFairness

-----------------------------------------------------------------------------
(* Properties                                                              *)

\* What lies in a ring, oldest first.
TxQueue(p) ==
  [i \in 1 .. uart_tx_pending(p) |-> tx_buf[TxCell(p, (tx_tail[p] + i - 1) % UART_TX_BUFFER_SIZE)]]

Readers(p) == {t \in Tasks : pc[t] = "copy" /\ loc[t].port = p}
RxFrom(p)  == IF Readers(p) = {} THEN rx_tail[p] ELSE loc[CHOOSE t \in Readers(p) : TRUE].tail
RxQueue(p) ==
  [i \in 1 .. (rx_head[p] + UART_RX_BUFFER_SIZE - RxFrom(p)) % UART_RX_BUFFER_SIZE |->
     rx_buf[p][(RxFrom(p) + i - 1) % UART_RX_BUFFER_SIZE]]
RxOut(p) == IF Readers(p) = {} THEN NONE ELSE loc[CHOOSE t \in Readers(p) : TRUE].got

Tx == INSTANCE ByteFifo WITH
  CAP   <- UART_TX_BUFFER_SIZE - 1,
  offer <- [p \in Ports |-> {Head(loc[t].src) :
                               t \in {u \in Tasks : pc[u] = "publish" /\ loc[u].port = p}}],
  queue <- [p \in Ports |-> TxQueue(p)],
  out   <- tdr

Rx == INSTANCE ByteFifo WITH
  CAP   <- UART_RX_BUFFER_SIZE - 1,
  offer <- [p \in Ports |-> {rdr[p]}],
  queue <- [p \in Ports |-> RxQueue(p)],
  out   <- [p \in Ports |-> RxOut(p)]

\* Each port transmits what was written to it: every byte enqueued, in order and
\* once.  (uart_write_buffer against uart_irq_handler)
TxFifo == Tx!Spec

\* What a task reads from a port is what arrived and found room, in order and
\* once.  (uart_irq_handler against uart_read_buffer)
RxFifo == Rx!Spec

Writing(p) ==
  \E t \in Tasks : pc[t] \in Filling /\ loc[t].port = p

\* A byte in the ring does not wait for an interrupt that is switched off, unless
\* a writer is about to switch it on: the handler, finding the ring empty, may
\* have cleared TXEIE at any point of a write.
NoStrandedByte ==
  \A p \in Ports : uart_tx_pending(p) > 0 /\ ~Writing(p) => txeie[p]

\* Every enqueued byte is handed to the transmitter.
QueuedByteSent ==
  \A p \in Ports, i \in 0 .. UART_TX_BUFFER_SIZE - 1 :
    (tx_tail[p] = i /\ tx_head[p] # i) ~> tx_tail[p] # i

Mine(t) == UNION {{text[i] : i \in DOMAIN text} : text \in Texts[t]}
OnTheWay(p) == {TxQueue(p)[i] : i \in DOMAIN TxQueue(p)} \union {tdr[p], shift[p]}

\* When uart_flush succeeds, nothing its caller wrote is still under way.  (For
\* tasks that write different bytes.)
FlushedIsSent ==
  [][\A t \in Tasks : FlushOk(t) => Mine(t) \intersect OnTheWay(loc[t].port) = {}]_vars

=============================================================================
