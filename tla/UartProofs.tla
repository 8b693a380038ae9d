------------------------------- MODULE UartProofs -------------------------------
(***************************************************************************)
(* Theorems about the rings of drivers/uart.c, for every number of ports   *)
(* and tasks, ring size, text and read length.  Whatever sections mask:    *)
(* no byte is stranded; one reader reads what arrived, in order; one       *)
(* writer's bytes are sent in order, and its flushes are true.  For more   *)
(* writers the last two hold of the calm executions, where no task is      *)
(* switched away from inside a section.                                    *)
(*                                                                         *)
(* The inductive invariant: a task fills the ring while no other does      *)
(* (FillApart: the calm, or there is one writer); what a writer has read   *)
(* of the ring is still true (Writers), what a reader has read is still    *)
(* there (Readings); TC is set only when the transmitter is empty (Quiet); *)
(* a flush waits for no byte of its own task but those in the transmitter  *)
(* (Flushes).                                                              *)
(***************************************************************************)
EXTENDS Uart, TLAPS

\* What a task writes is a sequence of bytes, not of nothing.
TextsTyped ==
  /\ \A t \in Tasks : Texts[t] \subseteq Seq(Mine(t)) /\ ReadLens[t] \subseteq Nat
  /\ NONE \notin Bytes

\* The rows of uart_tx_buf, which are as long as the RX ring, hold the TX ring, or
\* there is one row.
RowsApart == PORTS = 1 \/ UART_TX_BUFFER_SIZE <= UART_RX_BUFFER_SIZE

\* One task reads; one task writes.
OneReader == \A t, u \in Tasks : ReadLens[t] # {} /\ ReadLens[u] # {} => t = u
OneWriter == \A t, u \in Tasks : Texts[t] # {} /\ Texts[u] # {} => t = u

Steps == {"idle", "check", "put", "publish", "kick", "copy", "drain", "wait_tc"}

Cells(size) == 0 .. size - 1
TxCells == Cells(UART_TX_BUFFER_SIZE)
RxCells == Cells(UART_RX_BUFFER_SIZE)

\* The types that hold whatever the tasks write and whatever a section masks.
Placed ==
  /\ rx_head \in [Ports -> RxCells] /\ rx_tail \in [Ports -> RxCells]
  /\ tx_head \in [Ports -> TxCells] /\ tx_tail \in [Ports -> TxCells]
  /\ txeie \in [Ports -> BOOLEAN]
  /\ pc \in [Tasks -> Steps]
  /\ DOMAIN loc = Tasks
  /\ \A t \in Tasks :
       /\ DOMAIN loc[t] = DOMAIN NoCall
       /\ loc[t].port \in Ports /\ loc[t].head \in Nat /\ loc[t].tail \in RxCells

\* What the rings and the locals carry.
Carried ==
  /\ rx_buf \in [Ports -> [RxCells -> Received \union {NONE}]]
  /\ rdr \in [Ports -> Received \union {NONE}]
  /\ tx_buf \in [Memory -> Written \union {NONE}]
  /\ tdr \in [Ports -> Written \union {NONE}] /\ shift \in [Ports -> Written \union {NONE}]
  /\ tc \in [Ports -> BOOLEAN]
  /\ \A t \in Tasks :
       /\ loc[t].src \in Seq(Mine(t)) /\ loc[t].left \in Nat
       /\ loc[t].got \in Received \union {NONE}

\* A task writes, or reads, if that is its to do, and puts a byte it has.
Rightful ==
  \A t \in Tasks :
    /\ pc[t] \in Filling => Texts[t] # {}
    /\ pc[t] = "copy" => ReadLens[t] # {}
    /\ pc[t] \in {"put", "publish"} => loc[t].src # <<>>

Exclusive ==
  \A t, u \in Tasks : pc[t] \in Section /\ pc[u] \in Section => t = u
FillApart ==
  \A t, u \in Tasks : pc[t] \in Filling /\ pc[u] \in Filling => t = u
ReadApart ==
  \A t, u \in Tasks : pc[t] = "copy" /\ pc[u] = "copy" => t = u

\* A writer finds the place it has found free still free, and has filled it.
Writers ==
  \A t \in Tasks :
    /\ pc[t] \in {"put", "publish"} =>
         /\ loc[t].head = tx_head[loc[t].port]
         /\ TxNext(loc[t].head) # tx_tail[loc[t].port]
    /\ pc[t] = "publish" => tx_buf[TxCell(loc[t].port, loc[t].head)] = Head(loc[t].src)

\* The number of steps from one place in a ring to another.
Gap(from, to, size) == (to + size - from) % size

\* What a reader has seen in the ring is still in it.
Readings ==
  \A t \in Tasks :
    /\ pc[t] = "copy" =>
         LET p == loc[t].port
             gap(i) == Gap(rx_tail[p], i, UART_RX_BUFFER_SIZE)
         IN  /\ loc[t].head \in RxCells
             /\ gap(loc[t].tail) <= gap(loc[t].head) /\ gap(loc[t].head) <= gap(rx_head[p])
    /\ pc[t] # "copy" => loc[t].got = NONE

Quiet == \A p \in Ports : tc[p] => tdr[p] = NONE /\ shift[p] = NONE

Flushes ==
  \A t \in Tasks : pc[t] = "wait_tc" =>
    \A i \in DOMAIN TxQueue(loc[t].port) : TxQueue(loc[t].port)[i] \notin Mine(t)

-----------------------------------------------------------------------------
(* Counting round a ring                                                   *)

\* The remainder of what goes once past the end.
LEMMA Wrap ==
  ASSUME NEW n \in Nat \ {0}, NEW m \in Nat, m < 2 * n
  PROVE  m % n = IF m < n THEN m ELSE m - n
<1> DEFINE q == m \div n
           r == m % n
<1>1. q \in Nat /\ r \in Nat /\ r < n /\ m = n * q + r
  OBVIOUS
<1>2. q = 0 \/ q = 1
  <2>1. ASSUME q >= 2 PROVE FALSE
    <3>1. n * q >= n * 2
      BY <1>1, <2>1
    <3> QED
      BY <1>1, <3>1
  <2> QED
    BY <1>1, <2>1
<1>3. r = IF m < n THEN m ELSE m - n
  <2> HIDE DEF q, r
  <2>1. n * 0 = 0 /\ n * 1 = n
    OBVIOUS
  <2> QED
    BY <1>1, <1>2, <2>1
<1> QED
  BY <1>3

LEMMA GapValue ==
  ASSUME NEW n \in Nat \ {0}, NEW a \in Cells(n), NEW b \in Cells(n)
  PROVE  Gap(a, b, n) = IF a <= b THEN b - a ELSE b + n - a
<1>1. PICK m \in Nat : m = b + n - a /\ m < 2 * n
  BY DEF Cells
<1>2. m % n = IF m < n THEN m ELSE m - n
  BY <1>1, Wrap
<1>3. Gap(a, b, n) = m % n
  BY <1>1 DEF Gap
<1> HIDE DEF Gap
<1>4. a <= b <=> ~(m < n)
  BY <1>1 DEF Cells
<1> QED
  BY <1>1, <1>2, <1>3, <1>4 DEF Cells

\* Where a step leads from a cell of a ring.
After(i, size) == (i + 1) % size

LEMMA AfterValue ==
  ASSUME NEW n \in Nat \ {0}, NEW i \in Cells(n)
  PROVE  /\ After(i, n) = IF i = n - 1 THEN 0 ELSE i + 1
         /\ After(i, n) \in Cells(n)
<1>1. PICK m \in Nat : m = i + 1 /\ m < 2 * n
  BY DEF Cells
<1>2. m % n = IF m < n THEN m ELSE m - n
  BY <1>1, Wrap
<1>3. After(i, n) = m % n
  BY <1>1 DEF After
<1> QED
  BY <1>1, <1>2, <1>3 DEF Cells

\* What lies from one place of a ring to another, oldest first.
Ring(row, from, to, size) == [k \in 1 .. Gap(from, to, size) |-> row[(from + k - 1) % size]]

\* The place of the k-th byte is a cell; no two bytes share one.
LEMMA PlaceValue ==
  ASSUME NEW n \in Nat \ {0}, NEW from \in Cells(n), NEW k \in 1 .. n
  PROVE  /\ (from + k - 1) % n = IF from + k <= n THEN from + k - 1 ELSE from + k - 1 - n
         /\ (from + k - 1) % n \in Cells(n)
<1>1. PICK m \in Nat : m = from + k - 1 /\ m < 2 * n
  BY DEF Cells
<1>2. m % n = IF m < n THEN m ELSE m - n
  BY <1>1, Wrap
<1>3. (from + k - 1) % n = m % n
  BY <1>1
<1>4. from + k <= n <=> m < n
  BY <1>1 DEF Cells
<1> QED
  BY <1>1, <1>2, <1>3, <1>4 DEF Cells

LEMMA RingShape ==
  ASSUME NEW n \in Nat \ {0}, NEW from \in Cells(n), NEW to \in Cells(n), NEW row
  PROVE  /\ Gap(from, to, n) \in Cells(n)
         /\ DOMAIN Ring(row, from, to, n) = 1 .. Gap(from, to, n)
         /\ \A k \in 1 .. Gap(from, to, n) :
              Ring(row, from, to, n)[k] = row[(from + k - 1) % n]
         /\ \A S : (\A i \in Cells(n) : row[i] \in S) =>
              Ring(row, from, to, n) \in Seq(S) /\ Len(Ring(row, from, to, n)) = Gap(from, to, n)
<1>1. Gap(from, to, n) \in Cells(n)
  BY GapValue DEF Cells
<1>2. ASSUME NEW S, \A i \in Cells(n) : row[i] \in S, NEW k \in 1 .. Gap(from, to, n)
      PROVE  row[(from + k - 1) % n] \in S
  <2>1. k \in 1 .. n
    BY <1>1 DEF Cells
  <2> QED
    BY <1>2, <2>1, PlaceValue
<1>3. Gap(from, to, n) \in Nat
  BY <1>1 DEF Cells
<1> HIDE DEF Gap
<1> QED
  BY <1>1, <1>2, <1>3 DEF Ring

\* The free cell is not part of what lies in the ring.
LEMMA RingKeeps ==
  ASSUME NEW n \in Nat \ {0}, NEW from \in Cells(n), NEW to \in Cells(n), NEW row, NEW row2,
         \A i \in Cells(n) \ {to} : row2[i] = row[i]
  PROVE  Ring(row2, from, to, n) = Ring(row, from, to, n)
<1>1. Gap(from, to, n) \in Cells(n)
  BY RingShape
<1>2. ASSUME NEW k \in 1 .. Gap(from, to, n)
      PROVE  row2[(from + k - 1) % n] = row[(from + k - 1) % n]
  <2>1. k \in 1 .. n
    BY <1>1 DEF Cells
  <2>2. PICK c \in Cells(n) :
          c = (from + k - 1) % n /\ c = IF from + k <= n THEN from + k - 1 ELSE from + k - 1 - n
    BY <2>1, PlaceValue
  <2>3. Gap(from, to, n) = IF from <= to THEN to - from ELSE to + n - from
    BY GapValue
  <2>4. c # to
    BY <2>2, <2>3 DEF Cells
  <2> QED
    BY <2>2, <2>4
<1> HIDE DEF Gap
<1> QED
  BY <1>2 DEF Ring

\* A full cell that is handed over is the youngest.
LEMMA RingGrows ==
  ASSUME NEW n \in Nat \ {0}, NEW from \in Cells(n), NEW to \in Cells(n), NEW row, NEW S,
         \A i \in Cells(n) : row[i] \in S, After(to, n) # from
  PROVE  /\ Ring(row, from, After(to, n), n) = Append(Ring(row, from, to, n), row[to])
         /\ Len(Ring(row, from, to, n)) < n - 1
<1> DEFINE g == Gap(from, to, n)
           r == Ring(row, from, to, n)
           r2 == Ring(row, from, After(to, n), n)
<1>1. /\ After(to, n) = IF to = n - 1 THEN 0 ELSE to + 1
      /\ After(to, n) \in Cells(n)
  BY AfterValue
<1>2. g = IF from <= to THEN to - from ELSE to + n - from
  BY GapValue
<1>3. Gap(from, After(to, n), n) = g + 1 /\ g < n - 1
  <2>1. PICK t \in Cells(n) : t = After(to, n)
    BY <1>1
  <2>2. Gap(from, t, n) = IF from <= t THEN t - from ELSE t + n - from
    BY GapValue
  <2>3. t = IF to = n - 1 THEN 0 ELSE to + 1
    BY <1>1, <2>1
  <2> HIDE DEF g
  <2>4. t # from
    BY <2>1
  <2>5. Gap(from, t, n) = g + 1 /\ g < n - 1
    BY <1>2, <2>2, <2>3, <2>4 DEF Cells
  <2> QED
    BY <2>1, <2>5
<1>4. g \in Nat /\ r \in Seq(S) /\ Len(r) = g /\ \A k \in 1 .. g : r[k] = row[(from + k - 1) % n]
  BY RingShape DEF Cells
<1>5. /\ r2 \in Seq(S) /\ Len(r2) = g + 1
      /\ \A k \in 1 .. g + 1 : r2[k] = row[(from + k - 1) % n]
  BY <1>1, <1>3, RingShape
<1>6. r2[g + 1] = row[to]
  <2>1. g + 1 \in 1 .. n
    BY <1>3, <1>4
  <2>2. (from + (g + 1) - 1) % n
          = IF from + (g + 1) <= n THEN from + (g + 1) - 1 ELSE from + (g + 1) - 1 - n
    BY <2>1, PlaceValue
  <2> HIDE DEF g, r2
  <2>3. to = IF from + (g + 1) <= n THEN from + (g + 1) - 1 ELSE from + (g + 1) - 1 - n
    BY <1>2 DEF Cells
  <2> QED
    BY <1>4, <1>5, <2>2, <2>3
<1> HIDE DEF g, r, r2
<1>7. \A k \in 1 .. g : r2[k] = r[k]
  BY <1>4, <1>5
<1>8. row[to] \in S
  OBVIOUS
<1>9. r2 = Append(r, row[to])
  <2> DEFINE a == Append(r, row[to])
  <2>1. a \in Seq(S) /\ Len(a) = g + 1 /\ a[g + 1] = row[to] /\ \A k \in 1 .. g : a[k] = r[k]
    BY <1>4, <1>8
  <2> HIDE DEF a
  <2>2. \A k \in 1 .. g + 1 : r2[k] = a[k]
    BY <1>4, <1>6, <1>7, <2>1
  <2>3. r2 = a
    BY <1>4, <1>5, <2>1, <2>2
  <2> QED
    BY <2>3 DEF a
<1> QED
  BY <1>3, <1>4, <1>9 DEF r, r2

\* The cell that is given up held the oldest.
LEMMA RingShrinks ==
  ASSUME NEW n \in Nat \ {0}, NEW from \in Cells(n), NEW to \in Cells(n), NEW row, NEW S,
         \A i \in Cells(n) : row[i] \in S, from # to
  PROVE  /\ Ring(row, from, to, n) # <<>>
         /\ Head(Ring(row, from, to, n)) = row[from]
         /\ Tail(Ring(row, from, to, n)) = Ring(row, After(from, n), to, n)
<1> DEFINE g == Gap(from, to, n)
           r == Ring(row, from, to, n)
           f == After(from, n)
           r2 == Ring(row, f, to, n)
<1>1. /\ f = IF from = n - 1 THEN 0 ELSE from + 1
      /\ f \in Cells(n)
  BY AfterValue
<1>2. g = IF from <= to THEN to - from ELSE to + n - from
  BY GapValue
<1>3. Gap(f, to, n) = g - 1 /\ g >= 1
  <2>1. Gap(f, to, n) = IF f <= to THEN to - f ELSE to + n - f
    BY <1>1, GapValue
  <2> HIDE DEF g, f
  <2> QED
    BY <1>1, <1>2, <2>1 DEF Cells
<1>4. /\ g \in Nat /\ g < n /\ r \in Seq(S) /\ Len(r) = g
      /\ \A k \in 1 .. g : r[k] = row[(from + k - 1) % n]
  <2>1. g \in Cells(n)
    BY RingShape
  <2>2. r \in Seq(S) /\ Len(r) = g /\ \A k \in 1 .. g : r[k] = row[(from + k - 1) % n]
    BY RingShape
  <2> HIDE DEF g, r
  <2> QED
    BY <2>1, <2>2 DEF Cells
<1>5. /\ r2 \in Seq(S) /\ Len(r2) = g - 1
      /\ \A k \in 1 .. g - 1 : r2[k] = row[(f + k - 1) % n]
  BY <1>1, <1>3, RingShape
<1>6. r[1] = row[from]
  <2>1. (from + 1 - 1) % n = IF from + 1 <= n THEN from + 1 - 1 ELSE from + 1 - 1 - n
    BY PlaceValue
  <2>2. from = IF from + 1 <= n THEN from + 1 - 1 ELSE from + 1 - 1 - n
    BY DEF Cells
  <2> HIDE DEF g, r
  <2> QED
    BY <1>3, <1>4, <2>1, <2>2
<1>7. ASSUME NEW k \in 1 .. g - 1 PROVE r2[k] = r[k + 1]
  <2> k \in Nat /\ k \in 1 .. n /\ k + 1 \in 1 .. n /\ k + 1 \in 1 .. g
    BY <1>4
  <2> HIDE DEF g, r, r2, f
  <2>1. (f + k - 1) % n = IF f + k <= n THEN f + k - 1 ELSE f + k - 1 - n
    BY <1>1, PlaceValue
  <2>2. (from + (k + 1) - 1) % n
          = IF from + (k + 1) <= n THEN from + (k + 1) - 1 ELSE from + (k + 1) - 1 - n
    BY PlaceValue
  <2>3. (IF f + k <= n THEN f + k - 1 ELSE f + k - 1 - n)
          = IF from + (k + 1) <= n THEN from + (k + 1) - 1 ELSE from + (k + 1) - 1 - n
    BY <1>1 DEF Cells
  <2>4. r[k + 1] = row[(from + (k + 1) - 1) % n]
    BY <1>4
  <2>5. r2[k] = row[(f + k - 1) % n]
    BY <1>5
  <2> QED
    BY <2>1, <2>2, <2>3, <2>4, <2>5
<1> HIDE DEF g, r, r2, f
<1>8. r # <<>> /\ Head(r) = r[1]
  BY <1>3, <1>4
<1>9. Tail(r) = r2
  <2>1. Tail(r) \in Seq(S) /\ Len(Tail(r)) = g - 1 /\ \A k \in 1 .. g - 1 : Tail(r)[k] = r[k + 1]
    BY <1>3, <1>4
  <2>2. \A k \in 1 .. g - 1 : Tail(r)[k] = r2[k]
    BY <1>7, <2>1
  <2> QED
    BY <1>5, <2>1, <2>2
<1> QED
  BY <1>6, <1>8, <1>9 DEF r, r2, f

LEMMA RingEmpty ==
  ASSUME NEW n \in Nat \ {0}, NEW from \in Cells(n), NEW to \in Cells(n), NEW row
  PROVE  Gap(from, to, n) = 0 <=> from = to
  BY GapValue DEF Cells

-----------------------------------------------------------------------------
(* The rings of the two directions                                         *)

LEMMA Sizes ==
  /\ UART_TX_BUFFER_SIZE \in Nat \ {0} /\ UART_RX_BUFFER_SIZE \in Nat \ {0}
  /\ 0 \in TxCells /\ 0 \in RxCells /\ 0 \in Ports
  /\ \A i \in Nat : TxNext(i) \in TxCells /\ (i + 1) % UART_RX_BUFFER_SIZE \in RxCells
  BY PortsAssumption, RingsAssumption DEF TxCells, RxCells, Cells, Ports, TxNext

\* Bytes are pending where the ends of the ring differ.
LEMMA Pending ==
  ASSUME NEW p, tx_head[p] \in TxCells, tx_tail[p] \in TxCells
  PROVE  /\ uart_tx_pending(p) = Gap(tx_tail[p], tx_head[p], UART_TX_BUFFER_SIZE)
         /\ uart_tx_pending(p) \in Nat
         /\ uart_tx_pending(p) = 0 <=> tx_head[p] = tx_tail[p]
<1>1. uart_tx_pending(p) = Gap(tx_tail[p], tx_head[p], UART_TX_BUFFER_SIZE)
  BY DEF uart_tx_pending, Gap
<1>2. Gap(tx_tail[p], tx_head[p], UART_TX_BUFFER_SIZE) = 0 <=> tx_tail[p] = tx_head[p]
  BY Sizes, RingEmpty DEF TxCells
<1>3. Gap(tx_tail[p], tx_head[p], UART_TX_BUFFER_SIZE) \in TxCells
  BY Sizes, RingShape DEF TxCells
<1> QED
  BY <1>1, <1>2, <1>3 DEF TxCells, Cells

-----------------------------------------------------------------------------
(* No stranded byte                                                        *)

LEMMA PlacedFirst == Init => Placed
  BY Sizes DEF Init, Placed, NoCall, Steps

LEMMA PlacedKept == Placed /\ [Next]_vars => Placed'
<1> SUFFICES ASSUME Placed, [Next]_vars PROVE Placed'
  OBVIOUS
<1> USE DEF Placed, rx, tx, hw, Steps
<1>1. ASSUME NEW p \in Ports, NEW b \in Received, Arrive(p, b) PROVE Placed'
  BY <1>1 DEF Arrive
<1>2. ASSUME NEW p \in Ports, Shift(p) PROVE Placed'
  BY <1>2 DEF Shift
<1>3. ASSUME NEW p \in Ports, Sent(p) PROVE Placed'
  BY <1>3 DEF Sent
<1>4. ASSUME NEW p \in Ports, uart_irq_handler(p) PROVE Placed'
  <2>1. rx_head' \in [Ports -> RxCells] /\ UNCHANGED rx_tail
    BY <1>4, Sizes DEF uart_irq_handler, IsrReceive, RxNext, RxCells, Cells
  <2>2. tx_tail' \in [Ports -> TxCells] /\ txeie' \in [Ports -> BOOLEAN]
    <3>1. tx_tail[p] \in Nat
      BY DEF TxCells, Cells
    <3>2. (tx_tail[p] + 1) % UART_TX_BUFFER_SIZE \in TxCells
      BY <3>1, Sizes DEF TxNext
    <3> QED
      BY <1>4, <3>2 DEF uart_irq_handler, IsrTransmit
  <2> QED
    BY <1>4, <2>1, <2>2 DEF uart_irq_handler
<1>5. ASSUME NEW t \in Tasks, WriteCheck(t) PROVE Placed'
  BY <1>5 DEF WriteCheck, Goto, TxCells, Cells
<1>6. ASSUME NEW t \in Tasks, WritePut(t) PROVE Placed'
  BY <1>6 DEF WritePut, Goto
<1>7. ASSUME NEW t \in Tasks, WritePublish(t) PROVE Placed'
  BY <1>7, Sizes DEF WritePublish, Goto
<1>8. ASSUME NEW t \in Tasks, WriteKick(t) PROVE Placed'
  BY <1>8, Sizes DEF WriteKick, Kicked, Return, Goto, NoCall
<1>9. ASSUME NEW t \in Tasks, ReadCopy(t) PROVE Placed'
  <2>1. (loc[t].tail + 1) % UART_RX_BUFFER_SIZE \in RxCells
    <3>1. loc[t].tail \in RxCells OBVIOUS
    <3>2. loc[t].tail \in Nat BY <3>1, Sizes DEF RxCells, Cells
    <3> QED BY <3>2, Sizes
  <2>2. /\ DOMAIN loc' = DOMAIN loc
        /\ \A u \in Tasks :
             /\ DOMAIN loc'[u] = DOMAIN loc[u]
             /\ loc'[u].port = loc[u].port /\ loc'[u].head = loc[u].head
             /\ loc'[u].tail = IF u = t THEN (loc[t].tail + 1) % UART_RX_BUFFER_SIZE ELSE loc[u].tail
    <3>1. DOMAIN loc = Tasks /\ \A u \in Tasks : DOMAIN loc[u] = DOMAIN NoCall OBVIOUS
    <3> HIDE DEF Placed
    <3> QED BY <1>9, <3>1 DEF ReadCopy, NoCall
  <2>3. \A u \in Tasks :
          /\ DOMAIN loc'[u] = DOMAIN NoCall
          /\ loc'[u].port \in Ports /\ loc'[u].head \in Nat /\ loc'[u].tail \in RxCells
    BY <2>1, <2>2
  <2>4. UNCHANGED <<rx, tx, hw, pc>> BY <1>9 DEF ReadCopy
  <2> QED BY <2>2, <2>3, <2>4
<1>10. ASSUME NEW t \in Tasks, ReadPublish(t) PROVE Placed'
  BY <1>10, Sizes DEF ReadPublish, Return, Goto, NoCall
<1>11. ASSUME NEW t \in Tasks, FlushDrained(t) PROVE Placed'
  BY <1>11 DEF FlushDrained, Goto
<1>12. ASSUME NEW t \in Tasks, FlushOk(t) PROVE Placed'
  BY <1>12, Sizes DEF FlushOk, Return, Goto, NoCall
<1>13. ASSUME NEW t \in Tasks, FlushTimeout(t) PROVE Placed'
  BY <1>13, Sizes DEF FlushTimeout, Return, Goto, NoCall
<1>14. ASSUME NEW t \in Tasks, NEW p \in Ports, NEW text, Write(t, p, text) PROVE Placed'
  BY <1>14 DEF Write, Goto
<1>15. ASSUME NEW t \in Tasks, NEW p \in Ports, NEW len, Read(t, p, len) PROVE Placed'
  BY <1>15 DEF Read, Goto, RxCells, Cells
<1>16. ASSUME NEW t \in Tasks, NEW p \in Ports, Flush(t, p) PROVE Placed'
  BY <1>16 DEF Flush, Goto
<1>17. ASSUME UNCHANGED vars PROVE Placed'
  BY <1>17 DEF vars
<1> QED
  BY <1>1, <1>2, <1>3, <1>4, <1>5, <1>6, <1>7, <1>8, <1>9, <1>10, <1>11, <1>12, <1>13,
     <1>14, <1>15, <1>16, <1>17 DEF Next, Device, Task, Continue, Call

PendingCounts ==
  \A p \in Ports : uart_tx_pending(p) \in Nat /\ (uart_tx_pending(p) = 0 <=> tx_head[p] = tx_tail[p])

LEMMA PendingPlaced == Placed => PendingCounts
  BY Pending DEF Placed, PendingCounts

LEMMA PendingNext == Placed' => PendingCounts'
  BY PendingPlaced, PTL

\* The handler switches the interrupt off at an empty ring only; only the end of a
\* write ends Writing, and switches it on.
LEMMA ByteServedKept == Placed /\ NoStrandedByte /\ [Next]_vars => NoStrandedByte'
<1> SUFFICES ASSUME Placed, NoStrandedByte, [Next]_vars, Placed',
                    NEW q \in Ports, tx_head'[q] # tx_tail'[q], ~Writing(q)'
             PROVE  txeie'[q]
  <2>1. Placed /\ [Next]_vars => Placed'
    BY PlacedKept
  <2> QED
    BY <2>1, PendingNext DEF NoStrandedByte, PendingCounts
<1>a. tx_head[q] # tx_tail[q] /\ ~Writing(q) => txeie[q]
  <2>1. uart_tx_pending(q) \in Nat /\ (uart_tx_pending(q) = 0 <=> tx_head[q] = tx_tail[q])
    BY PendingPlaced DEF PendingCounts
  <2> QED
    BY <2>1 DEF NoStrandedByte
<1>b. ASSUME UNCHANGED <<tx_head, tx_tail, txeie>>, Writing(q) => Writing(q)'
      PROVE  txeie'[q]
  BY <1>a, <1>b
<1> USE DEF Placed, rx, tx, hw, Writing, Filling
<1>1. ASSUME NEW p \in Ports, NEW b \in Received, Arrive(p, b) PROVE txeie'[q]
  BY <1>1, <1>b DEF Arrive
<1>2. ASSUME NEW p \in Ports, Shift(p) PROVE txeie'[q]
  BY <1>2, <1>b DEF Shift
<1>3. ASSUME NEW p \in Ports, Sent(p) PROVE txeie'[q]
  BY <1>3, <1>b DEF Sent
<1>4. ASSUME NEW p \in Ports, uart_irq_handler(p) PROVE txeie'[q]
  <2>1. ~Writing(q) /\ UNCHANGED tx_head
    BY <1>4 DEF uart_irq_handler
  <2>2. CASE p # q \/ tdr[p] # NONE
    BY <1>4, <1>a, <2>1, <2>2 DEF uart_irq_handler, IsrTransmit
  <2>3. CASE p = q /\ tdr[p] = NONE
    BY <1>4, <1>a, <2>1, <2>3 DEF uart_irq_handler, IsrTransmit
  <2> QED
    BY <2>2, <2>3
<1>5. ASSUME NEW t \in Tasks, WriteCheck(t) PROVE txeie'[q]
  BY <1>5, <1>b DEF WriteCheck, Goto, At
<1>6. ASSUME NEW t \in Tasks, WritePut(t) PROVE txeie'[q]
  BY <1>6, <1>b DEF WritePut, Goto, At
<1>7. ASSUME NEW t \in Tasks, WritePublish(t) PROVE txeie'[q]
  <2>1. pc'[t] = "check" /\ loc'[t].port = loc[t].port
    BY <1>7 DEF WritePublish, Goto
  <2>2. loc[t].port # q
    BY <2>1
  <2>3. UNCHANGED <<tx_tail, txeie>> /\ tx_head'[q] = tx_head[q]
    BY <1>7, <2>2 DEF WritePublish
  <2>4. Writing(q) => Writing(q)'
    BY <1>7 DEF WritePublish, Goto, At
  <2> QED
    BY <1>a, <2>3, <2>4
<1>8. ASSUME NEW t \in Tasks, WriteKick(t) PROVE txeie'[q]
  BY <1>8, <1>a DEF WriteKick, Kicked, Return, Goto, At
<1>9. ASSUME NEW t \in Tasks, ReadCopy(t) PROVE txeie'[q]
  <2>1. \A u \in Tasks : loc'[u].port = loc[u].port
    BY <1>9 DEF ReadCopy, NoCall
  <2>2. UNCHANGED <<tx_head, tx_tail, txeie, pc>>
    BY <1>9 DEF ReadCopy
  <2> QED
    BY <1>b, <2>1, <2>2
<1>10. ASSUME NEW t \in Tasks, ReadPublish(t) PROVE txeie'[q]
  BY <1>10, <1>b DEF ReadPublish, Return, Goto, At
<1>11. ASSUME NEW t \in Tasks, FlushDrained(t) PROVE txeie'[q]
  BY <1>11, <1>b DEF FlushDrained, Goto, At
<1>12. ASSUME NEW t \in Tasks, FlushOk(t) PROVE txeie'[q]
  BY <1>12, <1>b DEF FlushOk, Return, Goto, At
<1>13. ASSUME NEW t \in Tasks, FlushTimeout(t) PROVE txeie'[q]
  BY <1>13, <1>b DEF FlushTimeout, Return, Goto, At
<1>14. ASSUME NEW t \in Tasks, NEW p \in Ports, NEW text, Write(t, p, text) PROVE txeie'[q]
  BY <1>14, <1>b DEF Write, Goto, At
<1>15. ASSUME NEW t \in Tasks, NEW p \in Ports, NEW len, Read(t, p, len) PROVE txeie'[q]
  BY <1>15, <1>b DEF Read, Goto, At
<1>16. ASSUME NEW t \in Tasks, NEW p \in Ports, Flush(t, p) PROVE txeie'[q]
  BY <1>16, <1>b DEF Flush, Goto, At
<1>17. ASSUME UNCHANGED vars PROVE txeie'[q]
  BY <1>17, <1>b DEF vars
<1> QED
  BY <1>1, <1>2, <1>3, <1>4, <1>5, <1>6, <1>7, <1>8, <1>9, <1>10, <1>11, <1>12, <1>13,
     <1>14, <1>15, <1>16, <1>17 DEF Next, Device, Task, Continue, Call

\* A byte in the ring does not wait for an interrupt that is switched off, unless a
\* writer is about to switch it on: also if sections mask nothing and tasks write
\* over each other.  (uart_write_buffer, uart_irq_handler)
THEOREM ByteServed == Spec => []NoStrandedByte
<1>1. Init => NoStrandedByte
  BY DEF Init, NoStrandedByte
<1> QED
  BY <1>1, PlacedFirst, PlacedKept, ByteServedKept, PTL DEF Spec

-----------------------------------------------------------------------------
(* Sections, and what a call has seen                                      *)

LEMMA CellInMemory ==
  ASSUME NEW p \in Ports, NEW i \in TxCells
  PROVE  TxCell(p, i) \in Memory
<1>1. PICK k \in Nat : k = UART_MAX_INSTANCES - 1 /\ p <= k /\ p \in Nat
  BY PortsAssumption DEF Ports
<1>2. PICK r \in Nat : r = UART_RX_BUFFER_SIZE
  BY Sizes
<1>3. p * r <= k * r /\ p * r \in Nat /\ k * r \in Nat
  BY <1>1
<1> QED
  BY <1>1, <1>2, <1>3, Sizes DEF TxCell, Memory, TxCells, Cells

LEMMA MineWritten ==
  ASSUME NEW t \in Tasks
  PROVE  Mine(t) \subseteq Written
  BY DEF Mine, Written

LEMMA CarriedFirst == Init => Carried
<1> SUFFICES ASSUME Init PROVE Carried
  OBVIOUS
<1> USE DEF Init
<1>1. rx_buf \in [Ports -> [RxCells -> Received \union {NONE}]]
  BY DEF RxCells, Cells
<1>2. /\ rdr \in [Ports -> Received \union {NONE}]
      /\ tx_buf \in [Memory -> Written \union {NONE}]
      /\ tdr \in [Ports -> Written \union {NONE}] /\ shift \in [Ports -> Written \union {NONE}]
      /\ tc \in [Ports -> BOOLEAN]
  OBVIOUS
<1>3. ASSUME NEW t \in Tasks
      PROVE  loc[t].src = <<>> /\ loc[t].left = 0 /\ loc[t].got = NONE
  BY <1>3 DEF NoCall
<1> HIDE DEF Init
<1>4. ASSUME NEW t \in Tasks
      PROVE  /\ loc[t].src \in Seq(Mine(t)) /\ loc[t].left \in Nat
             /\ loc[t].got \in Received \union {NONE}
  <2>1. <<>> \in Seq(Mine(t)) /\ 0 \in Nat /\ NONE \in Received \union {NONE}
    OBVIOUS
  <2> QED
    BY <1>3, <2>1, Zenon
<1> QED
  BY <1>1, <1>2, <1>4 DEF Carried

LEMMA CarriedKept ==
  ASSUME TextsTyped, Placed, Carried, Rightful, [Next]_vars PROVE Carried'
<1> USE DEF Placed, Carried, rx, tx, hw
<1>1. ASSUME NEW p \in Ports, NEW b \in Received, Arrive(p, b) PROVE Carried'
  BY <1>1 DEF Arrive
<1>2. ASSUME NEW p \in Ports, Shift(p) PROVE Carried'
  BY <1>2 DEF Shift
<1>3. ASSUME NEW p \in Ports, Sent(p) PROVE Carried'
  BY <1>3 DEF Sent
<1>4. ASSUME NEW p \in Ports, uart_irq_handler(p) PROVE Carried'
  <2>1. rx_buf' \in [Ports -> [RxCells -> Received \union {NONE}]]
    <3>1. \/ rx_buf' = rx_buf
          \/ rx_buf' = [rx_buf EXCEPT ![p] = [rx_buf[p] EXCEPT ![rx_head[p]] = rdr[p]]]
      BY <1>4 DEF uart_irq_handler, IsrReceive
    <3>2. [rx_buf[p] EXCEPT ![rx_head[p]] = rdr[p]] \in [RxCells -> Received \union {NONE}]
      <4>1. rx_buf[p] \in [RxCells -> Received \union {NONE}] /\ rdr[p] \in Received \union {NONE}
        OBVIOUS
      <4> QED
        BY <4>1
    <3> QED
      BY <3>1, <3>2
  <2>2. rdr' \in [Ports -> Received \union {NONE}]
    BY <1>4 DEF uart_irq_handler, IsrReceive
  <2>3. tx_buf[TxCell(p, tx_tail[p])] \in Written \union {NONE}
    BY CellInMemory
  <2>4. tdr' \in [Ports -> Written \union {NONE}] /\ tc' \in [Ports -> BOOLEAN]
    BY <1>4, <2>3 DEF uart_irq_handler, IsrTransmit
  <2> QED
    BY <1>4, <2>1, <2>2, <2>4 DEF uart_irq_handler
<1>5. ASSUME NEW t \in Tasks, WriteCheck(t) PROVE Carried'
  BY <1>5 DEF WriteCheck
<1>6. ASSUME NEW t \in Tasks, WritePut(t) PROVE Carried'
  <2>1. Head(loc[t].src) \in Written
    BY <1>6, MineWritten DEF WritePut, At, Rightful
  <2> QED
    BY <1>6, <2>1 DEF WritePut
<1>7. ASSUME NEW t \in Tasks, WritePublish(t) PROVE Carried'
  <2>1. Tail(loc[t].src) \in Seq(Mine(t))
    BY <1>7 DEF WritePublish, At, Rightful
  <2> QED
    BY <1>7, <2>1 DEF WritePublish
<1>8. ASSUME NEW t \in Tasks, WriteKick(t) PROVE Carried'
  BY <1>8 DEF WriteKick, Return, NoCall
<1>9. ASSUME NEW t \in Tasks, ReadCopy(t) PROVE Carried'
  <2>1. /\ loc[t].left - 1 \in Nat
        /\ rx_buf[loc[t].port][loc[t].tail] \in Received \union {NONE}
    <3>1. loc[t].left > 0 BY <1>9 DEF ReadCopy, ReadMore
    <3>2. loc[t].left \in Nat /\ loc[t].port \in Ports /\ loc[t].tail \in RxCells OBVIOUS
    <3>3. rx_buf[loc[t].port] \in [RxCells -> Received \union {NONE}] BY <3>2
    <3> QED BY <3>1, <3>2, <3>3
  <2>2. \A u \in Tasks :
          /\ loc'[u].src = loc[u].src
          /\ loc'[u].left = IF u = t THEN loc[t].left - 1 ELSE loc[u].left
          /\ loc'[u].got = IF u = t THEN rx_buf[loc[t].port][loc[t].tail] ELSE loc[u].got
    <3>1. DOMAIN loc = Tasks /\ \A u \in Tasks : DOMAIN loc[u] = DOMAIN NoCall OBVIOUS
    <3> HIDE DEF Placed, Carried
    <3> QED BY <1>9, <3>1 DEF ReadCopy, NoCall
  <2>3. \A u \in Tasks :
          /\ loc'[u].src \in Seq(Mine(u)) /\ loc'[u].left \in Nat
          /\ loc'[u].got \in Received \union {NONE}
    BY <2>1, <2>2
  <2>4. UNCHANGED <<rx, tx, hw, pc>> BY <1>9 DEF ReadCopy
  <2> QED BY <2>3, <2>4
<1>10. ASSUME NEW t \in Tasks, ReadPublish(t) PROVE Carried'
  BY <1>10 DEF ReadPublish, Return, NoCall
<1>11. ASSUME NEW t \in Tasks, FlushDrained(t) PROVE Carried'
  BY <1>11 DEF FlushDrained
<1>12. ASSUME NEW t \in Tasks, FlushOk(t) PROVE Carried'
  BY <1>12 DEF FlushOk, Return, NoCall
<1>13. ASSUME NEW t \in Tasks, FlushTimeout(t) PROVE Carried'
  BY <1>13 DEF FlushTimeout, Return, NoCall
<1>14. ASSUME NEW t \in Tasks, NEW p \in Ports, NEW text \in Texts[t], Write(t, p, text)
       PROVE  Carried'
  BY <1>14 DEF Write, TextsTyped
<1>15. ASSUME NEW t \in Tasks, NEW p \in Ports, NEW len \in ReadLens[t], Read(t, p, len)
       PROVE  Carried'
  BY <1>15 DEF Read, TextsTyped
<1>16. ASSUME NEW t \in Tasks, NEW p \in Ports, Flush(t, p) PROVE Carried'
  BY <1>16 DEF Flush
<1>17. ASSUME UNCHANGED vars PROVE Carried'
  BY <1>17 DEF vars
<1> QED
  BY <1>1, <1>2, <1>3, <1>4, <1>5, <1>6, <1>7, <1>8, <1>9, <1>10, <1>11, <1>12, <1>13,
     <1>14, <1>15, <1>16, <1>17 DEF Next, Device, Task, Continue, Call

LEMMA RightfulKept == ASSUME Placed, Rightful, [Next]_vars PROVE Rightful'
<1> USE DEF Placed, Rightful, Filling, Goto, At
<1>1. ASSUME NEW p \in Ports, NEW b \in Received, Arrive(p, b) PROVE Rightful'
  BY <1>1 DEF Arrive
<1>2. ASSUME NEW p \in Ports, Shift(p) \/ Sent(p) \/ uart_irq_handler(p) PROVE Rightful'
  BY <1>2 DEF Shift, Sent, uart_irq_handler
<1>3. ASSUME NEW t \in Tasks, WriteCheck(t) PROVE Rightful'
  BY <1>3 DEF WriteCheck, NoCall
<1>4. ASSUME NEW t \in Tasks, WritePut(t) PROVE Rightful'
  BY <1>4 DEF WritePut
<1>5. ASSUME NEW t \in Tasks, WritePublish(t) PROVE Rightful'
  BY <1>5 DEF WritePublish
<1>6. ASSUME NEW t \in Tasks,
             WriteKick(t) \/ ReadPublish(t) \/ FlushDrained(t) \/ FlushOk(t) \/ FlushTimeout(t)
      PROVE  Rightful'
  BY <1>6 DEF WriteKick, ReadPublish, FlushDrained, FlushOk, FlushTimeout, Return
<1>7. ASSUME NEW t \in Tasks, ReadCopy(t) PROVE Rightful'
  BY <1>7 DEF ReadCopy, NoCall
<1>8. ASSUME NEW t \in Tasks, NEW p \in Ports, NEW text \in Texts[t], Write(t, p, text)
      PROVE  Rightful'
  BY <1>8 DEF Write
<1>9. ASSUME NEW t \in Tasks, NEW p \in Ports, NEW len \in ReadLens[t], Read(t, p, len)
      PROVE  Rightful'
  BY <1>9 DEF Read
<1>10. ASSUME NEW t \in Tasks, NEW p \in Ports, Flush(t, p) PROVE Rightful'
  BY <1>10 DEF Flush
<1>11. ASSUME UNCHANGED vars PROVE Rightful'
  BY <1>11 DEF vars
<1> QED
  BY <1>1, <1>2, <1>3, <1>4, <1>5, <1>6, <1>7, <1>8, <1>9, <1>10, <1>11
     DEF Next, Device, Task, Continue, Call

\* One writer, or one reader, is apart from itself.
LEMMA WriterApart == OneWriter /\ Rightful => FillApart
  BY DEF OneWriter, Rightful, FillApart

LEMMA ReaderApart == OneReader /\ Rightful => ReadApart
  BY DEF OneReader, Rightful, ReadApart

LEMMA CalmSteps == [CalmNext]_vars => [Next]_vars
  BY DEF CalmNext, Next

\* In the calm a task takes a step only while no other is in a section.
LEMMA ExclusiveKept ==
  ASSUME Placed, Exclusive, [CalmNext]_vars PROVE Exclusive'
<1> USE DEF At, Goto
<1>1. ASSUME NEW p \in Ports, Device(p) PROVE UNCHANGED pc
  BY <1>1 DEF Device, Arrive, Shift, Sent, uart_irq_handler
<1>2. ASSUME NEW t \in Tasks, Continue(t)
      PROVE  UNCHANGED pc \/ \E s : pc' = [pc EXCEPT ![t] = s]
  BY <1>2 DEF Continue, WriteCheck, WritePut, WritePublish, WriteKick, ReadCopy, ReadPublish,
              FlushDrained, FlushOk, FlushTimeout, Return
<1>3. ASSUME NEW t \in Tasks, NEW p \in Ports, Call(t, p)
      PROVE  \E s : pc' = [pc EXCEPT ![t] = s]
  BY <1>3 DEF Call, Write, Read, Flush
<1>4. ASSUME NEW t \in Tasks, Alone(t), Task(t) PROVE Exclusive'
  BY <1>2, <1>3, <1>4 DEF Task, Alone, Exclusive, Placed
<1>5. ASSUME UNCHANGED pc PROVE Exclusive'
  BY <1>5 DEF Exclusive
<1> QED
  BY <1>1, <1>4, <1>5 DEF CalmNext, vars

LEMMA CalmApart == Exclusive => FillApart
  BY DEF Exclusive, FillApart, Section

LEMMA WritersKept ==
  ASSUME Placed, Carried, Rightful, FillApart, Writers, [Next]_vars, Placed'
  PROVE  Writers'
<1> USE DEF Placed, rx, tx, hw, Goto, At
<1>a. ASSUME UNCHANGED <<tx_buf, tx_head, tx_tail>>,
             \A u \in Tasks : pc'[u] \in {"put", "publish"} =>
               /\ pc'[u] = pc[u] /\ loc'[u].port = loc[u].port
               /\ loc'[u].src = loc[u].src /\ loc'[u].head = loc[u].head
      PROVE  Writers'
  BY <1>a DEF Writers, TxCell
<1>1. ASSUME NEW p \in Ports, NEW b \in Received, Arrive(p, b) PROVE Writers'
  BY <1>1, <1>a DEF Arrive
<1>2. ASSUME NEW p \in Ports, Shift(p) PROVE Writers'
  BY <1>2, <1>a DEF Shift
<1>3. ASSUME NEW p \in Ports, Sent(p) PROVE Writers'
  BY <1>3, <1>a DEF Sent
<1>4. ASSUME NEW p \in Ports, uart_irq_handler(p) PROVE Writers'
  <2>1. UNCHANGED <<tx_buf, tx_head, pc, loc>>
    BY <1>4 DEF uart_irq_handler
  <2>2. ASSUME NEW u \in Tasks, pc[u] \in {"put", "publish"}
        PROVE  TxNext(loc[u].head) # tx_tail'[loc[u].port]
    <3>1. loc[u].head = tx_head[loc[u].port] /\ TxNext(loc[u].head) # tx_tail[loc[u].port]
      BY <2>2 DEF Writers
    <3>2. CASE tx_tail' = tx_tail
      BY <3>1, <3>2
    <3>3. CASE /\ tx_head[p] # tx_tail[p]
               /\ tx_tail' = [tx_tail EXCEPT ![p] = (tx_tail[p] + 1) % UART_TX_BUFFER_SIZE]
      <4>1. CASE loc[u].port # p
        BY <3>1, <3>3, <4>1
      <4>2. CASE loc[u].port = p
        <5>1. PICK h \in TxCells, k \in TxCells : h = tx_head[p] /\ k = tx_tail[p] /\ h # k
          BY <3>3
        <5>2. After(h, UART_TX_BUFFER_SIZE) # After(k, UART_TX_BUFFER_SIZE)
          <6>1. /\ After(h, UART_TX_BUFFER_SIZE) = IF h = UART_TX_BUFFER_SIZE - 1 THEN 0 ELSE h + 1
                /\ After(k, UART_TX_BUFFER_SIZE) = IF k = UART_TX_BUFFER_SIZE - 1 THEN 0 ELSE k + 1
            BY Sizes, AfterValue DEF TxCells
          <6>2. h \in 0 .. UART_TX_BUFFER_SIZE - 1 /\ k \in 0 .. UART_TX_BUFFER_SIZE - 1
            BY DEF TxCells, Cells
          <6>3. UART_TX_BUFFER_SIZE \in Nat /\ h # k
            BY <5>1, Sizes
          <6> QED
            BY <6>1, <6>2, <6>3
        <5>3. TxNext(loc[u].head) = After(h, UART_TX_BUFFER_SIZE)
          BY <3>1, <4>2, <5>1 DEF TxNext, After
        <5>4. tx_tail'[loc[u].port] = After(k, UART_TX_BUFFER_SIZE)
          BY <3>3, <4>2, <5>1 DEF After
        <5> QED
          BY <5>2, <5>3, <5>4
      <4> QED
        BY <4>1, <4>2
    <3> QED
      BY <1>4, <3>2, <3>3 DEF uart_irq_handler, IsrTransmit
  <2> QED
    BY <2>1, <2>2 DEF Writers, TxCell
<1>5. ASSUME NEW t \in Tasks, WriteCheck(t) PROVE Writers'
  <2>1. /\ UNCHANGED <<tx_buf, tx_head, tx_tail>>
        /\ \A u \in Tasks \ {t} : pc'[u] = pc[u] /\ loc'[u] = loc[u]
        /\ loc'[t].head = tx_head[loc[t].port]
        /\ loc'[t].port = loc[t].port /\ loc'[t].src = loc[t].src
        /\ pc'[t] \in {"put", "kick"}
        /\ pc'[t] = "put" => TxNext(tx_head[loc[t].port]) # tx_tail[loc[t].port]
    BY <1>5 DEF WriteCheck, NoCall
  <2> QED
    BY <2>1 DEF Writers, TxCell
<1>6. ASSUME NEW t \in Tasks, WritePut(t) PROVE Writers'
  <2>1. \A u \in Tasks \ {t} : pc'[u] \notin {"put", "publish"}
    BY <1>6 DEF WritePut, FillApart, Filling
  <2>2. /\ UNCHANGED <<tx_head, tx_tail, loc>>
        /\ tx_buf' = [tx_buf EXCEPT ![TxCell(loc[t].port, loc[t].head)] = Head(loc[t].src)]
        /\ pc[t] = "put"
    BY <1>6 DEF WritePut
  <2>3. /\ loc[t].head = tx_head[loc[t].port]
        /\ TxNext(loc[t].head) # tx_tail[loc[t].port]
    BY <2>2 DEF Writers
  <2>4. TxCell(loc[t].port, loc[t].head) \in Memory
    BY <2>3, CellInMemory
  <2>5. tx_buf'[TxCell(loc[t].port, loc[t].head)] = Head(loc[t].src)
    BY <2>2, <2>4 DEF Carried
  <2> QED
    BY <2>1, <2>2, <2>3, <2>5 DEF Writers, TxCell
<1>7. ASSUME NEW t \in Tasks, WritePublish(t) PROVE Writers'
  <2>1. \A u \in Tasks : pc'[u] \notin {"put", "publish"}
    BY <1>7 DEF WritePublish, FillApart, Filling
  <2> QED
    BY <2>1 DEF Writers
<1>8. ASSUME NEW t \in Tasks, WriteKick(t) PROVE Writers'
  BY <1>8, <1>a DEF WriteKick, Return
<1>9. ASSUME NEW t \in Tasks, ReadCopy(t) PROVE Writers'
  BY <1>9, <1>a DEF ReadCopy
<1>10. ASSUME NEW t \in Tasks, ReadPublish(t) PROVE Writers'
  BY <1>10, <1>a DEF ReadPublish, Return
<1>11. ASSUME NEW t \in Tasks, FlushDrained(t) PROVE Writers'
  BY <1>11, <1>a DEF FlushDrained
<1>12. ASSUME NEW t \in Tasks, FlushOk(t) PROVE Writers'
  BY <1>12, <1>a DEF FlushOk, Return
<1>13. ASSUME NEW t \in Tasks, FlushTimeout(t) PROVE Writers'
  BY <1>13, <1>a DEF FlushTimeout, Return
<1>14. ASSUME NEW t \in Tasks, NEW p \in Ports, NEW text, Write(t, p, text) PROVE Writers'
  BY <1>14, <1>a DEF Write
<1>15. ASSUME NEW t \in Tasks, NEW p \in Ports, NEW len, Read(t, p, len) PROVE Writers'
  BY <1>15, <1>a DEF Read
<1>16. ASSUME NEW t \in Tasks, NEW p \in Ports, Flush(t, p) PROVE Writers'
  BY <1>16, <1>a DEF Flush
<1>17. ASSUME UNCHANGED vars PROVE Writers'
  BY <1>17, <1>a DEF vars
<1> QED
  BY <1>1, <1>2, <1>3, <1>4, <1>5, <1>6, <1>7, <1>8, <1>9, <1>10, <1>11, <1>12, <1>13,
     <1>14, <1>15, <1>16, <1>17 DEF Next, Device, Task, Continue, Call

\* Of two places in a ring, the one that lies further on is not the nearer.
LEMMA GapApart ==
  ASSUME NEW n \in Nat \ {0}, NEW a \in Cells(n), NEW b \in Cells(n), NEW c \in Cells(n)
  PROVE  /\ Gap(a, a, n) = 0
         /\ Gap(a, b, n) \in Nat
         /\ b # c => Gap(a, b, n) # Gap(a, c, n)
         /\ After(b, n) # a => Gap(a, After(b, n), n) = Gap(a, b, n) + 1
         /\ b # c /\ Gap(a, b, n) <= Gap(a, c, n) => After(b, n) # a
<1>1. /\ Gap(a, a, n) = 0 /\ Gap(a, b, n) \in Nat
      /\ Gap(a, b, n) = IF a <= b THEN b - a ELSE b + n - a
      /\ Gap(a, c, n) = IF a <= c THEN c - a ELSE c + n - a
  <2>1. /\ Gap(a, a, n) = IF a <= a THEN a - a ELSE a + n - a
        /\ Gap(a, b, n) = IF a <= b THEN b - a ELSE b + n - a
        /\ Gap(a, c, n) = IF a <= c THEN c - a ELSE c + n - a
    BY GapValue
  <2> QED
    BY <2>1 DEF Cells
<1>2. PICK d \in Cells(n) : d = After(b, n) /\ d = IF b = n - 1 THEN 0 ELSE b + 1
  BY AfterValue
<1>3. Gap(a, d, n) = IF a <= d THEN d - a ELSE d + n - a
  BY GapValue
<1>4. d # a => Gap(a, d, n) = Gap(a, b, n) + 1
  BY <1>1, <1>2, <1>3 DEF Cells
<1>5. b # c => Gap(a, b, n) # Gap(a, c, n)
  BY <1>1 DEF Cells
<1>6. b # c /\ Gap(a, b, n) <= Gap(a, c, n) => d # a
  BY <1>1, <1>2 DEF Cells
<1> QED
  BY <1>1, <1>2, <1>4, <1>5, <1>6

LEMMA ReadingsKept ==
  ASSUME Placed, ReadApart, Readings, [Next]_vars, Placed'
  PROVE  Readings'
<1> USE DEF Placed, rx, tx, hw, Goto, At
<1>a. ASSUME UNCHANGED <<rx_head, rx_tail>>,
             \A u \in Tasks :
               \/ pc'[u] # "copy" /\ loc'[u].got = NONE
               \/ /\ pc'[u] = "copy" => pc[u] = "copy"
                  /\ pc'[u] = "copy" => loc'[u].head = loc[u].head /\ loc'[u].tail = loc[u].tail
                  /\ pc'[u] # "copy" => pc[u] # "copy" /\ loc'[u].got = loc[u].got
                  /\ loc'[u].port = loc[u].port
      PROVE  Readings'
  BY <1>a DEF Readings
<1>1. ASSUME NEW p \in Ports, NEW b \in Received, Arrive(p, b) PROVE Readings'
  BY <1>1, <1>a DEF Arrive
<1>2. ASSUME NEW p \in Ports, Shift(p) PROVE Readings'
  BY <1>2, <1>a DEF Shift
<1>3. ASSUME NEW p \in Ports, Sent(p) PROVE Readings'
  BY <1>3, <1>a DEF Sent
<1>4. ASSUME NEW p \in Ports, uart_irq_handler(p) PROVE Readings'
  <2>1. UNCHANGED <<rx_tail, pc, loc>>
    BY <1>4 DEF uart_irq_handler
  <2>2. ASSUME NEW q \in Ports
        PROVE  /\ Gap(rx_tail[q], rx_head[q], UART_RX_BUFFER_SIZE) \in Nat
               /\ Gap(rx_tail[q], rx_head'[q], UART_RX_BUFFER_SIZE) \in Nat
               /\ Gap(rx_tail[q], rx_head[q], UART_RX_BUFFER_SIZE)
                    <= Gap(rx_tail[q], rx_head'[q], UART_RX_BUFFER_SIZE)
    <3>1. rx_head'[q] = rx_head[q] \/ /\ rx_head'[q] = After(rx_head[q], UART_RX_BUFFER_SIZE)
                                      /\ rx_head'[q] # rx_tail[q]
      BY <1>4 DEF uart_irq_handler, IsrReceive, RxRoom, RxNext, After
    <3>2. Gap(rx_tail[q], rx_head[q], UART_RX_BUFFER_SIZE) \in Nat
      BY Sizes, GapApart DEF RxCells
    <3>3. ASSUME After(rx_head[q], UART_RX_BUFFER_SIZE) # rx_tail[q]
          PROVE  Gap(rx_tail[q], After(rx_head[q], UART_RX_BUFFER_SIZE), UART_RX_BUFFER_SIZE)
                   = Gap(rx_tail[q], rx_head[q], UART_RX_BUFFER_SIZE) + 1
      BY <3>3, Sizes, GapApart DEF RxCells
    <3> QED
      BY <3>1, <3>2, <3>3
  <2>3. ASSUME NEW u \in Tasks, pc[u] = "copy", NEW q \in Ports, q = loc[u].port
        PROVE  /\ loc[u].head \in RxCells
               /\ Gap(rx_tail[q], loc[u].tail, UART_RX_BUFFER_SIZE)
                    <= Gap(rx_tail[q], loc[u].head, UART_RX_BUFFER_SIZE)
               /\ Gap(rx_tail[q], loc[u].head, UART_RX_BUFFER_SIZE)
                    <= Gap(rx_tail[q], rx_head'[q], UART_RX_BUFFER_SIZE)
    <3>1. /\ loc[u].head \in RxCells
          /\ Gap(rx_tail[q], loc[u].tail, UART_RX_BUFFER_SIZE)
               <= Gap(rx_tail[q], loc[u].head, UART_RX_BUFFER_SIZE)
          /\ Gap(rx_tail[q], loc[u].head, UART_RX_BUFFER_SIZE)
               <= Gap(rx_tail[q], rx_head[q], UART_RX_BUFFER_SIZE)
      BY <2>3 DEF Readings
    <3>2. Gap(rx_tail[q], loc[u].head, UART_RX_BUFFER_SIZE) \in Nat
      BY <3>1, Sizes, GapApart DEF RxCells
    <3> QED
      BY <2>2, <3>1, <3>2
  <2> QED
    BY <2>1, <2>3 DEF Readings
<1>5. ASSUME NEW t \in Tasks, WriteCheck(t) PROVE Readings'
  BY <1>5, <1>a DEF WriteCheck, NoCall
<1>6. ASSUME NEW t \in Tasks, WritePut(t) PROVE Readings'
  BY <1>6, <1>a DEF WritePut
<1>7. ASSUME NEW t \in Tasks, WritePublish(t) PROVE Readings'
  BY <1>7, <1>a DEF WritePublish, NoCall
<1>8. ASSUME NEW t \in Tasks, WriteKick(t) PROVE Readings'
  BY <1>8, <1>a DEF WriteKick, Return, NoCall
<1>9. ASSUME NEW t \in Tasks, ReadCopy(t) PROVE Readings'
  <2>1. /\ UNCHANGED <<rx_head, rx_tail, pc>> /\ pc[t] = "copy" /\ loc[t].head # loc[t].tail
        /\ \A u \in Tasks \ {t} : loc'[u] = loc[u]
        /\ loc'[t].head = loc[t].head /\ loc'[t].port = loc[t].port
        /\ loc'[t].tail = After(loc[t].tail, UART_RX_BUFFER_SIZE)
    BY <1>9 DEF ReadCopy, ReadMore, After, NoCall
  <2>2. PICK q \in Ports : q = loc[t].port
    OBVIOUS
  <2>3. /\ loc[t].head \in RxCells
        /\ Gap(rx_tail[q], loc[t].tail, UART_RX_BUFFER_SIZE)
             <= Gap(rx_tail[q], loc[t].head, UART_RX_BUFFER_SIZE)
        /\ Gap(rx_tail[q], loc[t].head, UART_RX_BUFFER_SIZE)
             <= Gap(rx_tail[q], rx_head[q], UART_RX_BUFFER_SIZE)
    BY <2>1, <2>2 DEF Readings
  <2>4. /\ Gap(rx_tail[q], loc[t].tail, UART_RX_BUFFER_SIZE) \in Nat
        /\ Gap(rx_tail[q], loc[t].tail, UART_RX_BUFFER_SIZE)
             # Gap(rx_tail[q], loc[t].head, UART_RX_BUFFER_SIZE)
        /\ After(loc[t].tail, UART_RX_BUFFER_SIZE) # rx_tail[q] =>
             Gap(rx_tail[q], After(loc[t].tail, UART_RX_BUFFER_SIZE), UART_RX_BUFFER_SIZE)
               = Gap(rx_tail[q], loc[t].tail, UART_RX_BUFFER_SIZE) + 1
        /\ After(loc[t].tail, UART_RX_BUFFER_SIZE) # rx_tail[q]
    <3>1. /\ loc[t].tail \in Cells(UART_RX_BUFFER_SIZE) /\ loc[t].head \in Cells(UART_RX_BUFFER_SIZE)
          /\ rx_tail[q] \in Cells(UART_RX_BUFFER_SIZE) /\ loc[t].tail # loc[t].head
          /\ UART_RX_BUFFER_SIZE \in Nat \ {0}
      BY <2>1, <2>3, Sizes DEF RxCells
    <3> QED
      BY <2>3, <3>1, GapApart
  <2>5. Gap(rx_tail[q], loc[t].head, UART_RX_BUFFER_SIZE) \in Nat
    BY <2>3, Sizes, GapApart DEF RxCells
  <2>6. Gap(rx_tail[q], loc'[t].tail, UART_RX_BUFFER_SIZE)
          <= Gap(rx_tail[q], loc[t].head, UART_RX_BUFFER_SIZE)
    BY <2>1, <2>3, <2>4, <2>5
  <2> QED
    BY <2>1, <2>2, <2>3, <2>6 DEF Readings
<1>10. ASSUME NEW t \in Tasks, ReadPublish(t) PROVE Readings'
  <2>1. /\ pc'[t] = "idle" /\ loc'[t].got = NONE
        /\ \A u \in Tasks \ {t} : pc'[u] = pc[u] /\ loc'[u] = loc[u] /\ pc[u] # "copy"
    BY <1>10 DEF ReadPublish, Return, NoCall, ReadApart
  <2> QED
    BY <2>1 DEF Readings
<1>11. ASSUME NEW t \in Tasks, FlushDrained(t) PROVE Readings'
  BY <1>11, <1>a DEF FlushDrained
<1>12. ASSUME NEW t \in Tasks, FlushOk(t) PROVE Readings'
  BY <1>12, <1>a DEF FlushOk, Return, NoCall
<1>13. ASSUME NEW t \in Tasks, FlushTimeout(t) PROVE Readings'
  BY <1>13, <1>a DEF FlushTimeout, Return, NoCall
<1>14. ASSUME NEW t \in Tasks, NEW p \in Ports, NEW text, Write(t, p, text) PROVE Readings'
  BY <1>14, <1>a DEF Write, Readings
<1>15. ASSUME NEW t \in Tasks, NEW p \in Ports, NEW len, Read(t, p, len) PROVE Readings'
  <2>1. /\ UNCHANGED <<rx_head, rx_tail>> /\ pc'[t] = "copy"
        /\ \A u \in Tasks \ {t} : pc'[u] = pc[u] /\ loc'[u] = loc[u]
        /\ loc'[t].port = p /\ loc'[t].head = rx_head[p] /\ loc'[t].tail = rx_tail[p]
    BY <1>15 DEF Read, NoCall
  <2>2. /\ Gap(rx_tail[p], rx_tail[p], UART_RX_BUFFER_SIZE) = 0
        /\ Gap(rx_tail[p], rx_head[p], UART_RX_BUFFER_SIZE) \in Nat
    BY Sizes, GapApart DEF RxCells
  <2> QED
    BY <2>1, <2>2 DEF Readings
<1>16. ASSUME NEW t \in Tasks, NEW p \in Ports, Flush(t, p) PROVE Readings'
  BY <1>16, <1>a DEF Flush, Readings
<1>17. ASSUME UNCHANGED vars PROVE Readings'
  BY <1>17, <1>a DEF vars
<1> QED
  BY <1>1, <1>2, <1>3, <1>4, <1>5, <1>6, <1>7, <1>8, <1>9, <1>10, <1>11, <1>12, <1>13,
     <1>14, <1>15, <1>16, <1>17 DEF Next, Device, Task, Continue, Call

-----------------------------------------------------------------------------
(* Reception                                                               *)

RxStep ==
  [\E p \in Ports : Rx!Put(p) \/ Rx!Take(p) \/ Rx!Move(p)]_<<[p \in Ports |-> RxQueue(p)],
                                                         [p \in Ports |-> RxOut(p)]>>

LEMMA RxPutStep ==
  ASSUME NEW p \in Ports, Len(RxQueue(p)) < UART_RX_BUFFER_SIZE - 1,
         RxQueue(p)' = Append(RxQueue(p), rdr[p]),
         \A q \in Ports \ {p} : RxQueue(q)' = RxQueue(q),
         \A q \in Ports : RxOut(q)' = RxOut(q)
  PROVE  RxStep
<1>1. Rx!Put(p)
  BY DEF Rx!Put
<1> QED
  BY <1>1 DEF RxStep

LEMMA RxTakeStep ==
  ASSUME NEW p \in Ports, RxQueue(p) # <<>>, RxQueue(p)' = Tail(RxQueue(p)),
         RxOut(p)' = Head(RxQueue(p)),
         \A q \in Ports \ {p} : RxQueue(q)' = RxQueue(q) /\ RxOut(q)' = RxOut(q)
  PROVE  RxStep
<1>1. Rx!Take(p)
  BY DEF Rx!Take
<1> QED
  BY <1>1 DEF RxStep

LEMMA RxMoveStep ==
  ASSUME NEW p \in Ports, RxOut(p)' = NONE, \A q \in Ports : RxQueue(q)' = RxQueue(q),
         \A q \in Ports \ {p} : RxOut(q)' = RxOut(q)
  PROVE  RxStep
<1>1. Rx!Move(p)
  BY DEF Rx!Move
<1> QED
  BY <1>1 DEF RxStep

LEMMA RxRests ==
  ASSUME \A q \in Ports : RxQueue(q)' = RxQueue(q) /\ RxOut(q)' = RxOut(q)
  PROVE  RxStep
  BY DEF RxStep

\* A port's queue begins where its reader is, if it has one.
RxView ==
  \A p \in Ports :
    /\ RxQueue(p) = Ring(rx_buf[p], RxFrom(p), rx_head[p], UART_RX_BUFFER_SIZE)
    /\ RxFrom(p) \in RxCells
    /\ Gap(rx_tail[p], RxFrom(p), UART_RX_BUFFER_SIZE)
         <= Gap(rx_tail[p], rx_head[p], UART_RX_BUFFER_SIZE)
    /\ \A t \in Tasks : pc[t] = "copy" /\ loc[t].port = p =>
         RxFrom(p) = loc[t].tail /\ RxOut(p) = loc[t].got
    /\ (\A t \in Tasks : ~(pc[t] = "copy" /\ loc[t].port = p)) =>
         RxFrom(p) = rx_tail[p] /\ RxOut(p) = NONE

LEMMA RxSeen == Placed /\ ReadApart /\ Readings => RxView
<1> SUFFICES ASSUME Placed, ReadApart, Readings, NEW p \in Ports
             PROVE  /\ RxQueue(p) = Ring(rx_buf[p], RxFrom(p), rx_head[p], UART_RX_BUFFER_SIZE)
                    /\ RxFrom(p) \in RxCells
                    /\ Gap(rx_tail[p], RxFrom(p), UART_RX_BUFFER_SIZE)
                         <= Gap(rx_tail[p], rx_head[p], UART_RX_BUFFER_SIZE)
                    /\ \A t \in Tasks : pc[t] = "copy" /\ loc[t].port = p =>
                         RxFrom(p) = loc[t].tail /\ RxOut(p) = loc[t].got
                    /\ (\A t \in Tasks : ~(pc[t] = "copy" /\ loc[t].port = p)) =>
                         RxFrom(p) = rx_tail[p] /\ RxOut(p) = NONE
  BY DEF RxView
<1>1. RxQueue(p) = Ring(rx_buf[p], RxFrom(p), rx_head[p], UART_RX_BUFFER_SIZE)
  BY DEF RxQueue, Ring, Gap
<1>2. CASE \E t \in Tasks : pc[t] = "copy" /\ loc[t].port = p
  <2>1. PICK t \in Tasks : pc[t] = "copy" /\ loc[t].port = p
    BY <1>2
  <2>2. Readers(p) = {t}
    BY <2>1 DEF Readers, ReadApart
  <2>3. RxFrom(p) = loc[t].tail /\ RxOut(p) = loc[t].got
    BY <2>2 DEF RxFrom, RxOut
  <2>4. \A u \in Tasks : pc[u] = "copy" /\ loc[u].port = p => u = t
    BY <2>1 DEF ReadApart
  <2>5. loc[t].tail \in RxCells /\ loc[t].head \in RxCells
    BY <2>1 DEF Placed, Readings
  <2>6. /\ Gap(rx_tail[p], loc[t].tail, UART_RX_BUFFER_SIZE)
             <= Gap(rx_tail[p], loc[t].head, UART_RX_BUFFER_SIZE)
        /\ Gap(rx_tail[p], loc[t].head, UART_RX_BUFFER_SIZE)
             <= Gap(rx_tail[p], rx_head[p], UART_RX_BUFFER_SIZE)
    BY <2>1 DEF Readings
  <2>7. /\ Gap(rx_tail[p], loc[t].tail, UART_RX_BUFFER_SIZE) \in Nat
        /\ Gap(rx_tail[p], loc[t].head, UART_RX_BUFFER_SIZE) \in Nat
        /\ Gap(rx_tail[p], rx_head[p], UART_RX_BUFFER_SIZE) \in Nat
    <3>1. /\ rx_tail[p] \in RxCells /\ rx_head[p] \in RxCells
      BY DEF Placed
    <3> QED
      BY <2>5, <3>1, Sizes, GapApart DEF RxCells
  <2> QED
    BY <1>1, <2>1, <2>3, <2>4, <2>5, <2>6, <2>7
<1>3. CASE \A t \in Tasks : ~(pc[t] = "copy" /\ loc[t].port = p)
  <2>1. Readers(p) = {}
    BY <1>3 DEF Readers
  <2>2. RxFrom(p) = rx_tail[p] /\ RxOut(p) = NONE
    BY <2>1 DEF RxFrom, RxOut
  <2>3. rx_tail[p] \in RxCells /\ rx_head[p] \in RxCells
    BY DEF Placed
  <2>4. /\ Gap(rx_tail[p], rx_tail[p], UART_RX_BUFFER_SIZE) = 0
        /\ Gap(rx_tail[p], rx_head[p], UART_RX_BUFFER_SIZE) \in Nat
    BY <2>3, Sizes, GapApart DEF RxCells
  <2> QED
    BY <1>1, <1>3, <2>2, <2>3, <2>4
<1> QED
  BY <1>2, <1>3

LEMMA RxSeenNext == Placed' /\ ReadApart' /\ Readings' => RxView'
  BY RxSeen, PTL

\* A step that leaves the ring and its readers alone leaves the queue alone.
LEMMA RxFrame ==
  ASSUME RxView, RxView', NEW p \in Ports, rx_buf'[p] = rx_buf[p],
         rx_head'[p] = rx_head[p], rx_tail'[p] = rx_tail[p],
         \A t \in Tasks : pc[t] = "copy" /\ loc[t].port = p <=> pc'[t] = "copy" /\ loc'[t].port = p,
         \A t \in Tasks : pc[t] = "copy" /\ loc[t].port = p =>
           loc'[t].tail = loc[t].tail /\ loc'[t].got = loc[t].got
  PROVE  RxQueue(p)' = RxQueue(p) /\ RxOut(p)' = RxOut(p) /\ RxFrom(p)' = RxFrom(p)
<1>1. RxFrom(p)' = RxFrom(p) /\ RxOut(p)' = RxOut(p)
  BY DEF RxView
<1>2. /\ RxQueue(p) = Ring(rx_buf[p], RxFrom(p), rx_head[p], UART_RX_BUFFER_SIZE)
      /\ RxQueue(p)' = Ring(rx_buf'[p], RxFrom(p)', rx_head'[p], UART_RX_BUFFER_SIZE)
  BY DEF RxView
<1> QED
  BY <1>1, <1>2

LEMMA ReceiveSteps ==
  ASSUME Placed, Carried, ReadApart, Readings, RxView, RxView', NEW p \in Ports, uart_irq_handler(p)
  PROVE  RxStep
<1> USE DEF Placed
<1>1. UNCHANGED <<rx_tail, pc, loc>> /\ IsrReceive(p)
  BY DEF uart_irq_handler
<1>2. CASE UNCHANGED <<rx_buf, rx_head>>
  BY <1>1, <1>2, RxFrame, RxRests
<1>3. CASE rdr[p] # NONE /\ RxRoom(p)
  <2>1. /\ rx_buf' = [rx_buf EXCEPT ![p] = [rx_buf[p] EXCEPT ![rx_head[p]] = rdr[p]]]
        /\ rx_head' = [rx_head EXCEPT ![p] = After(rx_head[p], UART_RX_BUFFER_SIZE)]
        /\ After(rx_head[p], UART_RX_BUFFER_SIZE) # rx_tail[p]
    BY <1>1, <1>3 DEF IsrReceive, RxRoom, RxNext, After
  <2>2. ASSUME NEW q \in Ports \ {p}
        PROVE  RxQueue(q)' = RxQueue(q) /\ RxOut(q)' = RxOut(q)
    <3>1. rx_buf'[q] = rx_buf[q] /\ rx_head'[q] = rx_head[q]
      BY <2>1 DEF Carried
    <3> QED
      BY <1>1, <3>1, RxFrame
  <2>3. RxFrom(p)' = RxFrom(p) /\ RxOut(p)' = RxOut(p)
    BY <1>1 DEF RxView
  <2>4. PICK from \in RxCells, head \in RxCells : from = RxFrom(p) /\ head = rx_head[p]
    BY DEF RxView
  <2>row. PICK row, row2 : row = rx_buf[p] /\ row2 = [row EXCEPT ![head] = rdr[p]]
    OBVIOUS
  <2>5. After(head, UART_RX_BUFFER_SIZE) # from
    <3>1. /\ Gap(rx_tail[p], head, UART_RX_BUFFER_SIZE) \in Nat
          /\ After(head, UART_RX_BUFFER_SIZE) # rx_tail[p] =>
               Gap(rx_tail[p], After(head, UART_RX_BUFFER_SIZE), UART_RX_BUFFER_SIZE)
                 = Gap(rx_tail[p], head, UART_RX_BUFFER_SIZE) + 1
      BY Sizes, GapApart DEF RxCells
    <3>2. Gap(rx_tail[p], from, UART_RX_BUFFER_SIZE) <= Gap(rx_tail[p], head, UART_RX_BUFFER_SIZE)
      BY <2>4 DEF RxView
    <3> QED
      BY <2>1, <2>4, <3>1, <3>2
  <2>6. /\ row \in [RxCells -> Received \union {NONE}]
        /\ \A i \in RxCells : row2[i] \in Received \union {NONE}
        /\ row2[head] = rdr[p]
        /\ \A i \in RxCells \ {head} : row2[i] = row[i]
    BY <2>row, <2>4 DEF Carried
  <2>7. /\ Ring(row2, from, After(head, UART_RX_BUFFER_SIZE), UART_RX_BUFFER_SIZE)
             = Append(Ring(row2, from, head, UART_RX_BUFFER_SIZE), row2[head])
        /\ Len(Ring(row2, from, head, UART_RX_BUFFER_SIZE)) < UART_RX_BUFFER_SIZE - 1
    BY <2>5, <2>6, Sizes, RingGrows DEF RxCells
  <2>8. Ring(row2, from, head, UART_RX_BUFFER_SIZE) = Ring(row, from, head, UART_RX_BUFFER_SIZE)
    <3>1. /\ UART_RX_BUFFER_SIZE \in Nat \ {0}
          /\ from \in Cells(UART_RX_BUFFER_SIZE) /\ head \in Cells(UART_RX_BUFFER_SIZE)
          /\ \A i \in Cells(UART_RX_BUFFER_SIZE) \ {head} : row2[i] = row[i]
      BY <2>6, Sizes DEF RxCells
    <3> QED
      BY <3>1, RingKeeps, Zenon
  <2>9. RxQueue(p) = Ring(row, from, head, UART_RX_BUFFER_SIZE)
    BY <2>row, <2>4 DEF RxView
  <2>10. RxQueue(p)' = Ring(row2, from, After(head, UART_RX_BUFFER_SIZE), UART_RX_BUFFER_SIZE)
    <3>1. rx_buf'[p] = row2 /\ rx_head'[p] = After(head, UART_RX_BUFFER_SIZE)
      BY <2>row, <2>1, <2>4 DEF Carried
    <3>2. RxQueue(p)' = Ring(rx_buf'[p], RxFrom(p)', rx_head'[p], UART_RX_BUFFER_SIZE)
      BY DEF RxView
    <3> QED
      BY <2>3, <2>4, <3>1, <3>2
  <2>11. RxQueue(p)' = Append(RxQueue(p), rdr[p]) /\ Len(RxQueue(p)) < UART_RX_BUFFER_SIZE - 1
    BY <2>6, <2>7, <2>8, <2>9, <2>10
  <2> QED
    BY <2>2, <2>3, <2>11, RxPutStep
<1> QED
  BY <1>1, <1>2, <1>3 DEF IsrReceive

LEMMA ReadSteps ==
  ASSUME Placed, Carried, ReadApart, Readings, RxView, RxView', NEW t \in Tasks, ReadCopy(t)
  PROVE  RxStep
<1> USE DEF Placed
<1>1. /\ UNCHANGED <<rx_buf, rx_head, rx_tail, pc>> /\ pc[t] = "copy" /\ loc[t].head # loc[t].tail
      /\ \A u \in Tasks \ {t} : loc'[u] = loc[u]
      /\ loc'[t].port = loc[t].port
      /\ loc'[t].tail = After(loc[t].tail, UART_RX_BUFFER_SIZE)
      /\ loc'[t].got = rx_buf[loc[t].port][loc[t].tail]
  BY DEF ReadCopy, ReadMore, After, NoCall, At, rx
<1>2. PICK p \in Ports, from \in RxCells, head \in RxCells :
         p = loc[t].port /\ from = loc[t].tail /\ head = rx_head[p]
  OBVIOUS
<1>row. PICK row : row = rx_buf[p]
  OBVIOUS
<1>3. ASSUME NEW q \in Ports \ {p}
      PROVE  RxQueue(q)' = RxQueue(q) /\ RxOut(q)' = RxOut(q)
  BY <1>1, <1>2, RxFrame
<1>4. /\ RxFrom(p) = from /\ RxFrom(p)' = After(from, UART_RX_BUFFER_SIZE)
      /\ RxOut(p)' = row[from]
  BY <1>row, <1>1, <1>2 DEF RxView
<1>5. from # head
  <2>1. /\ loc[t].head \in RxCells
        /\ Gap(rx_tail[p], from, UART_RX_BUFFER_SIZE)
             <= Gap(rx_tail[p], loc[t].head, UART_RX_BUFFER_SIZE)
        /\ Gap(rx_tail[p], loc[t].head, UART_RX_BUFFER_SIZE)
             <= Gap(rx_tail[p], head, UART_RX_BUFFER_SIZE)
    BY <1>1, <1>2 DEF Readings
  <2>2. /\ Gap(rx_tail[p], from, UART_RX_BUFFER_SIZE) \in Nat
        /\ Gap(rx_tail[p], loc[t].head, UART_RX_BUFFER_SIZE) \in Nat
        /\ Gap(rx_tail[p], from, UART_RX_BUFFER_SIZE)
             # Gap(rx_tail[p], loc[t].head, UART_RX_BUFFER_SIZE)
    <3>1. /\ UART_RX_BUFFER_SIZE \in Nat \ {0} /\ from # loc[t].head
          /\ from \in Cells(UART_RX_BUFFER_SIZE) /\ loc[t].head \in Cells(UART_RX_BUFFER_SIZE)
          /\ rx_tail[p] \in Cells(UART_RX_BUFFER_SIZE)
      BY <1>1, <1>2, <2>1, Sizes DEF RxCells
    <3> QED
      BY <3>1, GapApart
  <2> QED
    BY <2>1, <2>2
<1>6. \A i \in RxCells : row[i] \in Received \union {NONE}
  BY <1>row, <1>2 DEF Carried
<1>7. /\ Ring(row, from, head, UART_RX_BUFFER_SIZE) # <<>>
      /\ Head(Ring(row, from, head, UART_RX_BUFFER_SIZE)) = row[from]
      /\ Tail(Ring(row, from, head, UART_RX_BUFFER_SIZE))
           = Ring(row, After(from, UART_RX_BUFFER_SIZE), head, UART_RX_BUFFER_SIZE)
  BY <1>5, <1>6, Sizes, RingShrinks DEF RxCells
<1>8. /\ RxQueue(p) = Ring(row, from, head, UART_RX_BUFFER_SIZE)
      /\ RxQueue(p)' = Ring(row, After(from, UART_RX_BUFFER_SIZE), head, UART_RX_BUFFER_SIZE)
  <2>1. RxQueue(p)' = Ring(rx_buf'[p], RxFrom(p)', rx_head'[p], UART_RX_BUFFER_SIZE)
    BY DEF RxView
  <2>2. RxQueue(p) = Ring(rx_buf[p], RxFrom(p), rx_head[p], UART_RX_BUFFER_SIZE)
    BY DEF RxView
  <2> QED
    BY <1>row, <1>1, <1>2, <1>4, <2>1, <2>2
<1> QED
  BY <1>3, <1>4, <1>7, <1>8, RxTakeStep

LEMMA ReadEnds ==
  ASSUME Placed, ReadApart, RxView, RxView', NEW t \in Tasks, ReadPublish(t)
  PROVE  RxStep
<1> USE DEF Placed
<1>1. /\ UNCHANGED <<rx_buf, rx_head>> /\ pc[t] = "copy" /\ pc'[t] = "idle"
      /\ \A u \in Tasks \ {t} : pc'[u] = pc[u] /\ loc'[u] = loc[u] /\ pc[u] # "copy"
      /\ rx_tail' = [rx_tail EXCEPT ![loc[t].port] = loc[t].tail]
  BY DEF ReadPublish, Return, Goto, At, ReadApart
<1>2. PICK p \in Ports : p = loc[t].port
  OBVIOUS
<1>3. ASSUME NEW q \in Ports \ {p}
      PROVE  RxQueue(q)' = RxQueue(q) /\ RxOut(q)' = RxOut(q)
  BY <1>1, <1>2, RxFrame
<1>4. RxFrom(p) = loc[t].tail /\ RxFrom(p)' = loc[t].tail /\ RxOut(p)' = NONE
  BY <1>1, <1>2 DEF RxView
<1>5. RxQueue(p)' = RxQueue(p)
  <2>1. RxQueue(p)' = Ring(rx_buf'[p], RxFrom(p)', rx_head'[p], UART_RX_BUFFER_SIZE)
    BY DEF RxView
  <2>2. RxQueue(p) = Ring(rx_buf[p], RxFrom(p), rx_head[p], UART_RX_BUFFER_SIZE)
    BY DEF RxView
  <2> QED
    BY <1>1, <1>4, <2>1, <2>2
<1> QED
  BY <1>3, <1>4, <1>5, RxMoveStep

LEMMA ReadBegins ==
  ASSUME Placed, Readings, ReadApart', RxView, RxView',
         NEW t \in Tasks, NEW p \in Ports, NEW len, Read(t, p, len)
  PROVE  RxStep
<1> USE DEF Placed
<1>1. /\ UNCHANGED <<rx_buf, rx_head, rx_tail>> /\ pc[t] = "idle" /\ pc'[t] = "copy"
      /\ \A u \in Tasks \ {t} : pc'[u] = pc[u] /\ loc'[u] = loc[u] /\ pc[u] # "copy"
      /\ loc'[t].port = p /\ loc'[t].tail = rx_tail[p] /\ loc'[t].got = loc[t].got
  BY DEF Read, Goto, At, ReadApart, NoCall, rx
<1>2. ASSUME NEW q \in Ports \ {p}
      PROVE  RxQueue(q)' = RxQueue(q) /\ RxOut(q)' = RxOut(q)
  BY <1>1, RxFrame
<1>3. loc[t].got = NONE
  BY <1>1 DEF Readings
<1>4. RxFrom(p) = rx_tail[p] /\ RxFrom(p)' = rx_tail[p] /\ RxOut(p) = NONE /\ RxOut(p)' = NONE
  BY <1>1, <1>3 DEF RxView
<1>5. RxQueue(p)' = RxQueue(p)
  <2>1. RxQueue(p)' = Ring(rx_buf'[p], RxFrom(p)', rx_head'[p], UART_RX_BUFFER_SIZE)
    BY DEF RxView
  <2>2. RxQueue(p) = Ring(rx_buf[p], RxFrom(p), rx_head[p], UART_RX_BUFFER_SIZE)
    BY DEF RxView
  <2> QED
    BY <1>1, <1>4, <2>1, <2>2
<1> QED
  BY <1>2, <1>4, <1>5, RxRests

LEMMA RxImplements ==
  ASSUME Placed, Carried, ReadApart, ReadApart', Readings, RxView, RxView', [Next]_vars
  PROVE  RxStep
<1> USE DEF Placed, rx, tx, hw, Goto, At
<1>a. ASSUME UNCHANGED <<rx_buf, rx_head, rx_tail>>,
             \A u \in Tasks :
               \/ pc[u] # "copy" /\ pc'[u] # "copy"
               \/ pc'[u] = pc[u] /\ loc'[u] = loc[u]
      PROVE  RxStep
  BY <1>a, RxFrame, RxRests
<1>1. ASSUME NEW p \in Ports, NEW b \in Received, Arrive(p, b) PROVE RxStep
  BY <1>1, <1>a DEF Arrive
<1>2. ASSUME NEW p \in Ports, Shift(p) PROVE RxStep
  BY <1>2, <1>a DEF Shift
<1>3. ASSUME NEW p \in Ports, Sent(p) PROVE RxStep
  BY <1>3, <1>a DEF Sent
<1>4. ASSUME NEW p \in Ports, uart_irq_handler(p) PROVE RxStep
  BY <1>4, ReceiveSteps
<1>5. ASSUME NEW t \in Tasks, WriteCheck(t) PROVE RxStep
  BY <1>5, <1>a DEF WriteCheck
<1>6. ASSUME NEW t \in Tasks, WritePut(t) PROVE RxStep
  BY <1>6, <1>a DEF WritePut
<1>7. ASSUME NEW t \in Tasks, WritePublish(t) PROVE RxStep
  BY <1>7, <1>a DEF WritePublish
<1>8. ASSUME NEW t \in Tasks, WriteKick(t) PROVE RxStep
  BY <1>8, <1>a DEF WriteKick, Return
<1>9. ASSUME NEW t \in Tasks, ReadCopy(t) PROVE RxStep
  BY <1>9, ReadSteps
<1>10. ASSUME NEW t \in Tasks, ReadPublish(t) PROVE RxStep
  BY <1>10, ReadEnds
<1>11. ASSUME NEW t \in Tasks, FlushDrained(t) PROVE RxStep
  BY <1>11, <1>a DEF FlushDrained
<1>12. ASSUME NEW t \in Tasks, FlushOk(t) PROVE RxStep
  BY <1>12, <1>a DEF FlushOk, Return
<1>13. ASSUME NEW t \in Tasks, FlushTimeout(t) PROVE RxStep
  BY <1>13, <1>a DEF FlushTimeout, Return
<1>14. ASSUME NEW t \in Tasks, NEW p \in Ports, NEW text, Write(t, p, text) PROVE RxStep
  BY <1>14, <1>a DEF Write
<1>15. ASSUME NEW t \in Tasks, NEW p \in Ports, NEW len, Read(t, p, len) PROVE RxStep
  BY <1>15, ReadBegins
<1>16. ASSUME NEW t \in Tasks, NEW p \in Ports, Flush(t, p) PROVE RxStep
  BY <1>16, <1>a DEF Flush
<1>17. ASSUME UNCHANGED vars PROVE RxStep
  BY <1>17, <1>a DEF vars
<1> QED
  BY <1>1, <1>2, <1>3, <1>4, <1>5, <1>6, <1>7, <1>8, <1>9, <1>10, <1>11, <1>12, <1>13,
     <1>14, <1>15, <1>16, <1>17 DEF Next, Device, Task, Continue, Call

ReadInv == Placed /\ Rightful /\ Carried /\ Readings

LEMMA RightfulFirst == Init => Rightful
  BY DEF Init, Rightful, Filling

LEMMA ReadFirst == Init => ReadInv
<1> SUFFICES ASSUME Init PROVE ReadInv
  OBVIOUS
<1>1. Placed /\ Rightful /\ Carried
  BY PlacedFirst, RightfulFirst, CarriedFirst
<1>2. \A t \in Tasks : pc[t] = "idle" /\ loc[t].got = NONE
  BY DEF Init, NoCall
<1> QED
  BY <1>1, <1>2 DEF ReadInv, Readings

LEMMA ReadKept == ASSUME TextsTyped, OneReader, ReadInv, [Next]_vars PROVE ReadInv'
<1>1. Placed' /\ Rightful' /\ Carried'
  BY PlacedKept, RightfulKept, CarriedKept DEF ReadInv
<1>2. ReadApart
  BY ReaderApart DEF ReadInv
<1> QED
  BY <1>1, <1>2, ReadingsKept DEF ReadInv

LEMMA RxFirst == Init => Rx!Init
<1> SUFFICES ASSUME Init, NEW p \in Ports PROVE RxQueue(p) = <<>> /\ RxOut(p) = NONE
  BY DEF Rx!Init
<1>1. \A t \in Tasks : pc[t] = "idle"
  BY DEF Init
<1>2. RxView
  <2>1. ReadApart
    BY <1>1 DEF ReadApart
  <2> QED
    BY <2>1, ReadFirst, RxSeen DEF ReadInv
<1>3. RxFrom(p) = rx_tail[p] /\ RxOut(p) = NONE
  BY <1>1, <1>2 DEF RxView
<1>4. /\ rx_tail[p] = 0 /\ rx_head[p] = 0
      /\ RxQueue(p) = Ring(rx_buf[p], rx_tail[p], rx_head[p], UART_RX_BUFFER_SIZE)
  BY <1>2, <1>3 DEF RxView, Init
<1>5. Gap(0, 0, UART_RX_BUFFER_SIZE) = 0
  BY Sizes, GapApart DEF RxCells
<1>6. Ring(rx_buf[p], 0, 0, UART_RX_BUFFER_SIZE) = <<>>
  BY <1>5 DEF Ring
<1> QED
  BY <1>3, <1>4, <1>6

\* What the task that reads reads from a port is what arrived and found room, in
\* order and once, for every ring size and port, any number of writers and any mask:
\* with one reader, as in the application, no section is needed.  (uart_irq_handler
\* against uart_read_buffer)
THEOREM ReceivedInOrder == ASSUME TextsTyped, OneReader PROVE Spec => RxFifo
<1>1. ReadInv /\ [Next]_vars => ReadInv'
  BY ReadKept
<1>2. ReadInv /\ [Next]_vars /\ ReadInv' => RxStep
  <2> SUFFICES ASSUME ReadInv, [Next]_vars, ReadInv' PROVE RxStep
    OBVIOUS
  <2>1. ReadApart /\ ReadApart'
    <3>1. Rightful /\ Rightful'
      BY DEF ReadInv
    <3> QED
      BY <3>1 DEF OneReader, Rightful, ReadApart
  <2>2. RxView /\ RxView'
    BY <2>1, RxSeen, RxSeenNext DEF ReadInv
  <2> QED
    BY <2>1, <2>2, RxImplements DEF ReadInv
<1> QED
  BY <1>1, <1>2, ReadFirst, RxFirst, PTL DEF Spec, RxFifo, Rx!Spec, RxStep

-----------------------------------------------------------------------------
(* Transmission                                                            *)

TxStep ==
  [\E p \in Ports : Tx!Put(p) \/ Tx!Take(p) \/ Tx!Move(p)]_<<[p \in Ports |-> TxQueue(p)], tdr>>

\* A port's row of uart_tx_buf.
TxRow(p) == [i \in TxCells |-> tx_buf[TxCell(p, i)]]

TxView ==
  \A p \in Ports :
    TxQueue(p) = Ring(TxRow(p), tx_tail[p], tx_head[p], UART_TX_BUFFER_SIZE)

LEMMA TxSeen == Placed => TxView
<1> SUFFICES ASSUME Placed, NEW p \in Ports
             PROVE  TxQueue(p) = Ring(TxRow(p), tx_tail[p], tx_head[p], UART_TX_BUFFER_SIZE)
  BY DEF TxView
<1>1. PICK n \in Nat \ {0}, from \in TxCells, to \in TxCells :
         /\ from \in Cells(n) /\ to \in Cells(n)
         /\ n = UART_TX_BUFFER_SIZE /\ from = tx_tail[p] /\ to = tx_head[p]
         /\ uart_tx_pending(p) = Gap(from, to, n) /\ Gap(from, to, n) \in Cells(n)
  <2>1. tx_tail[p] \in TxCells /\ tx_head[p] \in TxCells
    BY DEF Placed
  <2> QED
    BY <2>1, Sizes, Pending, RingShape DEF TxCells
<1>2. ASSUME NEW k \in 1 .. Gap(from, to, n)
      PROVE  TxRow(p)[(from + k - 1) % n] = tx_buf[TxCell(p, (from + k - 1) % n)]
  <2>1. k \in 1 .. n
    BY <1>1 DEF Cells
  <2>2. (from + k - 1) % n \in Cells(n)
    BY <1>1, <2>1, PlaceValue
  <2> QED
    BY <1>1, <2>2 DEF TxRow, TxCells
<1> HIDE DEF Gap
<1> QED
  BY <1>1, <1>2 DEF TxQueue, Ring

LEMMA TxSeenNext == Placed' => TxView'
  BY TxSeen, PTL

\* Two cells of the ring of a port, or of two ports, are two bytes of memory.
LEMMA CellsApart ==
  ASSUME RowsApart, NEW p \in Ports, NEW q \in Ports, NEW i \in TxCells, NEW j \in TxCells,
         TxCell(p, i) = TxCell(q, j)
  PROVE  p = q /\ i = j
<1>1. PICK r \in Nat : r = UART_RX_BUFFER_SIZE
  BY Sizes
<1>2. p \in Nat /\ q \in Nat /\ i \in Nat /\ j \in Nat /\ p * r + i = q * r + j
  BY <1>1 DEF TxCell, Ports, TxCells, Cells
<1>3. ASSUME NEW a \in Ports, NEW b \in Ports, NEW k \in TxCells, NEW l \in TxCells, a < b
      PROVE  a * r + k # b * r + l
  <2>1. a \in Nat /\ b \in Nat /\ a + 1 <= b /\ k \in Nat /\ l \in Nat
    BY <1>3 DEF Ports, TxCells, Cells
  <2>2. UART_TX_BUFFER_SIZE <= r
    BY <1>1, <1>3, PortsAssumption DEF RowsApart, Ports
  <2>3. k < r
    BY <1>1, <2>1, <2>2, Sizes DEF TxCells, Cells
  <2>4. (a + 1) * r <= b * r /\ (a + 1) * r = a * r + r
    BY <2>1
  <2> QED
    BY <2>1, <2>3, <2>4
<1>4. p = q
  <2>1. ~(p < q) /\ ~(q < p)
    BY <1>2, <1>3
  <2> QED
    BY <1>2, <2>1
<1>5. p * r \in Nat
  BY <1>2
<1> QED
  BY <1>2, <1>4, <1>5

LEMMA TxPutStep ==
  ASSUME NEW t \in Tasks, pc[t] = "publish", NEW p \in Ports, p = loc[t].port,
         Len(TxQueue(p)) < UART_TX_BUFFER_SIZE - 1,
         TxQueue(p)' = Append(TxQueue(p), Head(loc[t].src)),
         \A q \in Ports \ {p} : TxQueue(q)' = TxQueue(q),
         UNCHANGED tdr
  PROVE  TxStep
<1>1. Tx!Put(p)
  BY DEF Tx!Put
<1> QED
  BY <1>1 DEF TxStep

LEMMA TxTakeStep ==
  ASSUME NEW p \in Ports, TxQueue(p) # <<>>, TxQueue(p)' = Tail(TxQueue(p)),
         tdr' = [tdr EXCEPT ![p] = Head(TxQueue(p))],
         \A q \in Ports \ {p} : TxQueue(q)' = TxQueue(q)
  PROVE  TxStep
<1>1. Tx!Take(p)
  BY DEF Tx!Take
<1> QED
  BY <1>1 DEF TxStep

LEMMA TxMoveStep ==
  ASSUME NEW p \in Ports, tdr' = [tdr EXCEPT ![p] = NONE],
         \A q \in Ports : TxQueue(q)' = TxQueue(q)
  PROVE  TxStep
<1>1. Tx!Move(p)
  BY DEF Tx!Move
<1> QED
  BY <1>1 DEF TxStep

LEMMA TxRests ==
  ASSUME \A q \in Ports : TxQueue(q)' = TxQueue(q), UNCHANGED tdr
  PROVE  TxStep
  BY DEF TxStep

\* A queue changes with its row and its ends only.
LEMMA TxFrame ==
  ASSUME TxView, TxView', NEW p \in Ports, UNCHANGED tx_buf,
         tx_head'[p] = tx_head[p], tx_tail'[p] = tx_tail[p]
  PROVE  TxQueue(p)' = TxQueue(p)
<1>1. TxRow(p)' = TxRow(p)
  BY DEF TxRow, TxCell
<1>2. /\ TxQueue(p) = Ring(TxRow(p), tx_tail[p], tx_head[p], UART_TX_BUFFER_SIZE)
      /\ TxQueue(p)' = Ring(TxRow(p)', tx_tail'[p], tx_head'[p], UART_TX_BUFFER_SIZE)
  BY DEF TxView
<1> QED
  BY <1>1, <1>2

LEMMA RowTyped ==
  ASSUME Carried, NEW p \in Ports, NEW i \in TxCells
  PROVE  TxRow(p)[i] = tx_buf[TxCell(p, i)] /\ TxRow(p)[i] \in Written \union {NONE}
  BY CellInMemory DEF TxRow, Carried

LEMMA TransmitSteps ==
  ASSUME Placed, Carried, TxView, TxView', NEW p \in Ports, uart_irq_handler(p)
  PROVE  TxStep
<1> USE DEF Placed
<1>1. UNCHANGED <<tx_buf, tx_head>> /\ IsrTransmit(p)
  BY DEF uart_irq_handler
<1>2. CASE UNCHANGED <<tdr, tx_tail>>
  BY <1>1, <1>2, TxFrame, TxRests
<1>3. CASE tdr[p] = NONE /\ tx_head[p] # tx_tail[p]
  <2>1. /\ tdr' = [tdr EXCEPT ![p] = tx_buf[TxCell(p, tx_tail[p])]]
        /\ tx_tail' = [tx_tail EXCEPT ![p] = After(tx_tail[p], UART_TX_BUFFER_SIZE)]
    BY <1>1, <1>3 DEF IsrTransmit, After
  <2>2. \A q \in Ports \ {p} : TxQueue(q)' = TxQueue(q)
    BY <1>1, <2>1, TxFrame
  <2>3. PICK from \in TxCells, to \in TxCells :
          from = tx_tail[p] /\ to = tx_head[p] /\ from # to
    BY <1>3
  <2>row. PICK row : row = TxRow(p)
    OBVIOUS
  <2>4. /\ UART_TX_BUFFER_SIZE \in Nat \ {0}
        /\ from \in Cells(UART_TX_BUFFER_SIZE) /\ to \in Cells(UART_TX_BUFFER_SIZE)
        /\ \A i \in Cells(UART_TX_BUFFER_SIZE) : row[i] \in Written \union {NONE}
    BY <2>row, <2>3, Sizes, RowTyped DEF TxCells
  <2>5. /\ Ring(row, from, to, UART_TX_BUFFER_SIZE) # <<>>
        /\ Head(Ring(row, from, to, UART_TX_BUFFER_SIZE)) = row[from]
        /\ Tail(Ring(row, from, to, UART_TX_BUFFER_SIZE))
             = Ring(row, After(from, UART_TX_BUFFER_SIZE), to, UART_TX_BUFFER_SIZE)
    <3> HIDE DEF Placed
    <3>1. PICK S : S = Written \union {NONE}
      OBVIOUS
    <3>2. \A i \in Cells(UART_TX_BUFFER_SIZE) : row[i] \in S
      BY <2>4, <3>1
    <3>3. from # to
      BY <2>3
    <3> QED
      BY <2>4, <3>2, <3>3, RingShrinks
  <2>6. row[from] = tx_buf[TxCell(p, tx_tail[p])]
    BY <2>row, <2>3, RowTyped
  <2>7. TxRow(p)' = row
    BY <2>row, <1>1, <2>3 DEF TxRow, TxCell
  <2>8. /\ TxQueue(p) = Ring(row, from, to, UART_TX_BUFFER_SIZE)
        /\ TxQueue(p)' = Ring(row, After(from, UART_TX_BUFFER_SIZE), to, UART_TX_BUFFER_SIZE)
    <3>1. TxQueue(p)' = Ring(TxRow(p)', tx_tail'[p], tx_head'[p], UART_TX_BUFFER_SIZE)
      BY DEF TxView
    <3>2. TxQueue(p) = Ring(TxRow(p), tx_tail[p], tx_head[p], UART_TX_BUFFER_SIZE)
      BY DEF TxView
    <3>3. tx_tail'[p] = After(from, UART_TX_BUFFER_SIZE) /\ tx_head'[p] = to
      BY <1>1, <2>1, <2>3
    <3> QED
      BY <2>row, <2>3, <2>7, <3>1, <3>2, <3>3
  <2> QED
    BY <2>1, <2>2, <2>5, <2>6, <2>8, TxTakeStep
<1> QED
  BY <1>1, <1>2, <1>3 DEF IsrTransmit

LEMMA PutSteps ==
  ASSUME RowsApart, Placed, Writers, TxView, TxView', NEW t \in Tasks, WritePut(t)
  PROVE  TxStep
<1> USE DEF Placed
<1>1. /\ UNCHANGED <<tx_head, tx_tail, tdr>> /\ pc[t] = "put"
      /\ tx_buf' = [tx_buf EXCEPT ![TxCell(loc[t].port, loc[t].head)] = Head(loc[t].src)]
  BY DEF WritePut, At, hw
<1>2. PICK p \in Ports, head \in TxCells : p = loc[t].port /\ head = tx_head[p] /\ head = loc[t].head
  BY <1>1 DEF Writers
<1>3. ASSUME NEW q \in Ports, NEW i \in TxCells, q # p \/ i # head
      PROVE  tx_buf'[TxCell(q, i)] = tx_buf[TxCell(q, i)]
  <2>1. TxCell(q, i) # TxCell(p, head)
    BY <1>3, CellsApart
  <2> QED
    BY <1>1, <1>2, <2>1
<1>4. ASSUME NEW q \in Ports PROVE TxQueue(q)' = TxQueue(q)
  <2>1. /\ TxQueue(q) = Ring(TxRow(q), tx_tail[q], tx_head[q], UART_TX_BUFFER_SIZE)
        /\ TxQueue(q)' = Ring(TxRow(q)', tx_tail[q], tx_head[q], UART_TX_BUFFER_SIZE)
    BY <1>1 DEF TxView
  <2>2. \A i \in TxCells \ {tx_head[q]} : TxRow(q)'[i] = TxRow(q)[i]
    <3>1. ASSUME NEW i \in TxCells \ {tx_head[q]}
          PROVE  tx_buf'[TxCell(q, i)] = tx_buf[TxCell(q, i)]
      BY <1>2, <1>3
    <3> QED
      BY <3>1 DEF TxRow, TxCell
  <2>3. /\ UART_TX_BUFFER_SIZE \in Nat \ {0}
        /\ tx_tail[q] \in Cells(UART_TX_BUFFER_SIZE) /\ tx_head[q] \in Cells(UART_TX_BUFFER_SIZE)
        /\ \A i \in Cells(UART_TX_BUFFER_SIZE) \ {tx_head[q]} : TxRow(q)'[i] = TxRow(q)[i]
    BY <2>2, Sizes DEF TxCells
  <2>4. Ring(TxRow(q)', tx_tail[q], tx_head[q], UART_TX_BUFFER_SIZE)
          = Ring(TxRow(q), tx_tail[q], tx_head[q], UART_TX_BUFFER_SIZE)
    BY <2>3, RingKeeps
  <2> QED
    BY <2>1, <2>4
<1> QED
  BY <1>1, <1>4, TxRests

LEMMA PublishSteps ==
  ASSUME Placed, Carried, Writers, TxView, TxView', NEW t \in Tasks, WritePublish(t)
  PROVE  TxStep
<1> USE DEF Placed
<1>1. /\ UNCHANGED <<tx_buf, tx_tail, tdr>> /\ pc[t] = "publish"
      /\ tx_head' = [tx_head EXCEPT ![loc[t].port] = After(loc[t].head, UART_TX_BUFFER_SIZE)]
  BY DEF WritePublish, At, hw, TxNext, After
<1>2. PICK p \in Ports, from \in TxCells, to \in TxCells :
         p = loc[t].port /\ to = tx_head[p] /\ to = loc[t].head /\ from = tx_tail[p]
  BY <1>1 DEF Writers
<1>row. PICK row : row = TxRow(p)
  OBVIOUS
<1>3. /\ After(to, UART_TX_BUFFER_SIZE) # from
      /\ tx_buf[TxCell(p, to)] = Head(loc[t].src)
  BY <1>1, <1>2 DEF Writers, TxNext, After
<1>4. \A q \in Ports \ {p} : TxQueue(q)' = TxQueue(q)
  BY <1>1, <1>2, TxFrame
<1>5. /\ UART_TX_BUFFER_SIZE \in Nat \ {0}
      /\ from \in Cells(UART_TX_BUFFER_SIZE) /\ to \in Cells(UART_TX_BUFFER_SIZE)
      /\ \A i \in Cells(UART_TX_BUFFER_SIZE) : row[i] \in Written \union {NONE}
  BY <1>row, <1>2, Sizes, RowTyped DEF TxCells
<1>6. /\ Ring(row, from, After(to, UART_TX_BUFFER_SIZE), UART_TX_BUFFER_SIZE)
           = Append(Ring(row, from, to, UART_TX_BUFFER_SIZE), row[to])
      /\ Len(Ring(row, from, to, UART_TX_BUFFER_SIZE)) < UART_TX_BUFFER_SIZE - 1
  BY <1>3, <1>5, RingGrows
<1>7. row[to] = Head(loc[t].src)
  BY <1>row, <1>2, <1>3, RowTyped
<1>8. TxRow(p)' = row
  BY <1>row, <1>1, <1>2 DEF TxRow, TxCell
<1>9. /\ TxQueue(p) = Ring(row, from, to, UART_TX_BUFFER_SIZE)
      /\ TxQueue(p)' = Ring(row, from, After(to, UART_TX_BUFFER_SIZE), UART_TX_BUFFER_SIZE)
  <2>1. TxQueue(p)' = Ring(TxRow(p)', tx_tail'[p], tx_head'[p], UART_TX_BUFFER_SIZE)
    BY DEF TxView
  <2>2. TxQueue(p) = Ring(TxRow(p), tx_tail[p], tx_head[p], UART_TX_BUFFER_SIZE)
    BY DEF TxView
  <2>3. tx_tail'[p] = from /\ tx_head'[p] = After(to, UART_TX_BUFFER_SIZE)
    BY <1>1, <1>2
  <2> QED
    BY <1>row, <1>2, <1>8, <2>1, <2>2, <2>3
<1> QED
  BY <1>1, <1>2, <1>4, <1>6, <1>7, <1>9, TxPutStep

LEMMA TxImplements ==
  ASSUME RowsApart, Placed, Carried, Rightful, Writers, TxView, TxView', [Next]_vars
  PROVE  TxStep
<1> USE DEF Placed, rx, tx, hw
<1>a. ASSUME UNCHANGED <<tx_buf, tx_head, tx_tail, tdr>> PROVE TxStep
  BY <1>a, TxFrame, TxRests
<1>1. ASSUME NEW p \in Ports, NEW b \in Received, Arrive(p, b) PROVE TxStep
  BY <1>1, <1>a DEF Arrive
<1>2. ASSUME NEW p \in Ports, Shift(p) PROVE TxStep
  <2>1. UNCHANGED <<tx_buf, tx_head, tx_tail>> /\ tdr' = [tdr EXCEPT ![p] = NONE]
    BY <1>2 DEF Shift
  <2> QED
    BY <2>1, TxFrame, TxMoveStep
<1>3. ASSUME NEW p \in Ports, Sent(p) PROVE TxStep
  BY <1>3, <1>a DEF Sent
<1>4. ASSUME NEW p \in Ports, uart_irq_handler(p) PROVE TxStep
  BY <1>4, TransmitSteps
<1>5. ASSUME NEW t \in Tasks, WriteCheck(t) PROVE TxStep
  BY <1>5, <1>a DEF WriteCheck
<1>6. ASSUME NEW t \in Tasks, WritePut(t) PROVE TxStep
  BY <1>6, PutSteps
<1>7. ASSUME NEW t \in Tasks, WritePublish(t) PROVE TxStep
  BY <1>7, PublishSteps
<1>8. ASSUME NEW t \in Tasks, WriteKick(t) PROVE TxStep
  BY <1>8, <1>a DEF WriteKick
<1>9. ASSUME NEW t \in Tasks, ReadCopy(t) PROVE TxStep
  BY <1>9, <1>a DEF ReadCopy
<1>10. ASSUME NEW t \in Tasks, ReadPublish(t) PROVE TxStep
  BY <1>10, <1>a DEF ReadPublish
<1>11. ASSUME NEW t \in Tasks, FlushDrained(t) PROVE TxStep
  BY <1>11, <1>a DEF FlushDrained
<1>12. ASSUME NEW t \in Tasks, FlushOk(t) PROVE TxStep
  BY <1>12, <1>a DEF FlushOk
<1>13. ASSUME NEW t \in Tasks, FlushTimeout(t) PROVE TxStep
  BY <1>13, <1>a DEF FlushTimeout
<1>14. ASSUME NEW t \in Tasks, NEW p \in Ports, Call(t, p) PROVE TxStep
  BY <1>14, <1>a DEF Call, Write, Read, Flush
<1>15. ASSUME UNCHANGED vars PROVE TxStep
  BY <1>15, <1>a DEF vars
<1> QED
  BY <1>1, <1>2, <1>3, <1>4, <1>5, <1>6, <1>7, <1>8, <1>9, <1>10, <1>11, <1>12, <1>13,
     <1>14, <1>15 DEF Next, Device, Task, Continue

LEMMA TxFirst == Init => Tx!Init
<1> SUFFICES ASSUME Init, NEW p \in Ports PROVE TxQueue(p) = <<>>
  BY DEF Tx!Init, Init
<1>1. tx_head[p] = tx_tail[p]
  BY DEF Init
<1>2. uart_tx_pending(p) = 0
  BY <1>1, PlacedFirst, PendingPlaced DEF PendingCounts
<1> QED
  BY <1>2 DEF TxQueue

FillInv == Placed /\ Rightful /\ Carried /\ Writers

LEMMA FillFirst == Init => FillInv
<1> SUFFICES ASSUME Init PROVE FillInv
  OBVIOUS
<1>1. \A t \in Tasks : pc[t] = "idle"
  BY DEF Init
<1> QED
  BY <1>1, PlacedFirst, RightfulFirst, CarriedFirst DEF FillInv, Writers

\* A step while one task at most fills the ring keeps the invariant, and is a step
\* of the queue.
LEMMA FillKept ==
  ASSUME TextsTyped, RowsApart, FillInv, FillApart, [Next]_vars
  PROVE  FillInv' /\ TxView /\ TxView' /\ TxStep
<1>1. Placed' /\ Rightful' /\ Carried'
  BY PlacedKept, RightfulKept, CarriedKept DEF FillInv
<1>2. Writers'
  BY <1>1, WritersKept DEF FillInv
<1>3. TxView /\ TxView'
  BY <1>1, TxSeen, TxSeenNext DEF FillInv
<1>4. TxStep
  BY <1>3, TxImplements DEF FillInv
<1> QED
  BY <1>1, <1>2, <1>3, <1>4 DEF FillInv

LEMMA ExclusiveFirst == Init => Exclusive
  BY DEF Init, Exclusive, Section, Filling

\* Each port transmits what the one task that writes has written to it: every byte
\* enqueued, in order and once, whatever the interrupts do and sections mask, when
\* no port's ring runs into the next row.  (uart_write_buffer against
\* uart_irq_handler)
THEOREM SentByOne == ASSUME TextsTyped, RowsApart, OneWriter PROVE Spec => TxFifo
<1>1. FillInv /\ [Next]_vars => FillInv' /\ TxStep
  BY WriterApart, FillKept DEF FillInv
<1> QED
  BY <1>1, FillFirst, TxFirst, PTL DEF Spec, TxFifo, Tx!Spec, TxStep

\* The same for any number of writers, in the executions where no task is switched
\* away from inside a section; with the mask as configured there are others, and
\* in those bytes are lost.
THEOREM SentInOrder == ASSUME TextsTyped, RowsApart PROVE CalmSpec => TxFifo
<1>1. FillInv /\ Exclusive /\ [CalmNext]_vars => FillInv' /\ Exclusive' /\ TxStep
  <2> SUFFICES ASSUME FillInv, Exclusive, [CalmNext]_vars PROVE FillInv' /\ Exclusive' /\ TxStep
    OBVIOUS
  <2>1. [Next]_vars
    BY CalmSteps
  <2>2. FillInv' /\ TxStep
    BY <2>1, CalmApart, FillKept
  <2> QED
    BY <2>2, ExclusiveKept DEF FillInv
<1> QED
  BY <1>1, FillFirst, ExclusiveFirst, TxFirst, PTL DEF CalmSpec, TxFifo, Tx!Spec, TxStep

-----------------------------------------------------------------------------
(* Flushing                                                                *)

\* Tasks write different bytes, so that each knows its own.
BytesApart == \A t, u \in Tasks : t # u => Mine(t) \intersect Mine(u) = {}

\* TC is set by the last byte that leaves only; a byte that goes in clears it.
LEMMA QuietKept ==
  ASSUME Placed, Carried, Quiet, [Next]_vars PROVE Quiet'
<1> USE DEF Placed, Carried, rx, tx, hw, Quiet
<1>1. ASSUME NEW p \in Ports, NEW b \in Received, Arrive(p, b) PROVE Quiet'
  BY <1>1 DEF Arrive
<1>2. ASSUME NEW p \in Ports, Shift(p) PROVE Quiet'
  BY <1>2 DEF Shift
<1>3. ASSUME NEW p \in Ports, Sent(p) PROVE Quiet'
  BY <1>3 DEF Sent
<1>4. ASSUME NEW p \in Ports, uart_irq_handler(p) PROVE Quiet'
  <2>1. UNCHANGED shift /\ IsrTransmit(p)
    BY <1>4 DEF uart_irq_handler
  <2>2. CASE UNCHANGED <<tdr, tc>>
    BY <2>1, <2>2
  <2>3. CASE \E b : tdr' = [tdr EXCEPT ![p] = b] /\ tc' = [tc EXCEPT ![p] = FALSE]
    BY <2>1, <2>3
  <2> QED
    BY <2>1, <2>2, <2>3 DEF IsrTransmit
<1>5. ASSUME NEW t \in Tasks, WriteCheck(t) \/ WritePut(t) \/ WritePublish(t) \/ WriteKick(t)
      PROVE  Quiet'
  BY <1>5 DEF WriteCheck, WritePut, WritePublish, WriteKick
<1>6. ASSUME NEW t \in Tasks,
             ReadCopy(t) \/ ReadPublish(t) \/ FlushDrained(t) \/ FlushTimeout(t)
      PROVE  Quiet'
  BY <1>6 DEF ReadCopy, ReadPublish, FlushDrained, FlushTimeout
<1>7. ASSUME NEW t \in Tasks, FlushOk(t) PROVE Quiet'
  BY <1>7 DEF FlushOk
<1>8. ASSUME NEW t \in Tasks, NEW p \in Ports, Call(t, p) PROVE Quiet'
  BY <1>8 DEF Call, Write, Read, Flush
<1>9. ASSUME UNCHANGED vars PROVE Quiet'
  BY <1>9 DEF vars
<1> QED
  BY <1>1, <1>2, <1>3, <1>4, <1>5, <1>6, <1>7, <1>8, <1>9 DEF Next, Device, Task, Continue

\* What a step adds to a queue is the byte of a writer.
LEMMA QueueGrows ==
  ASSUME Placed, Carried, TxView, TxStep, NEW p \in Ports,
         NEW i \in DOMAIN TxQueue(p)'
  PROVE  \/ \E j \in DOMAIN TxQueue(p) : TxQueue(p)'[i] = TxQueue(p)[j]
         \/ \E t \in Tasks : pc[t] = "publish" /\ TxQueue(p)'[i] = Head(loc[t].src)
<1>1. TxQueue(p) \in Seq(Written \union {NONE})
  <2>1. /\ UART_TX_BUFFER_SIZE \in Nat \ {0}
        /\ tx_tail[p] \in Cells(UART_TX_BUFFER_SIZE) /\ tx_head[p] \in Cells(UART_TX_BUFFER_SIZE)
        /\ \A k \in Cells(UART_TX_BUFFER_SIZE) : TxRow(p)[k] \in Written \union {NONE}
    BY Sizes, RowTyped DEF Placed, TxCells
  <2>2. Ring(TxRow(p), tx_tail[p], tx_head[p], UART_TX_BUFFER_SIZE) \in Seq(Written \union {NONE})
    BY <2>1, RingShape
  <2> QED
    BY <2>2 DEF TxView
<1>2. CASE TxQueue(p)' = TxQueue(p)
  BY <1>2
<1>3. CASE \E q \in Ports : Tx!Put(q)
  <2>1. PICK q \in Ports, t \in Tasks :
          /\ pc[t] = "publish"
          /\ [x \in Ports |-> TxQueue(x)]'
               = [[x \in Ports |-> TxQueue(x)] EXCEPT ![q] = Append(@, Head(loc[t].src))]
    <3>1. PICK q \in Ports : Tx!Put(q)
      BY <1>3
    <3>2. PICK b \in {Head(loc[t].src) : t \in {u \in Tasks : pc[u] = "publish" /\ loc[u].port = q}} :
             [x \in Ports |-> TxQueue(x)]'
               = [[x \in Ports |-> TxQueue(x)] EXCEPT ![q] = Append(@, b)]
      BY <3>1 DEF Tx!Put
    <3>3. PICK t \in Tasks : pc[t] = "publish" /\ b = Head(loc[t].src)
      BY <3>2
    <3> QED
      BY <3>2, <3>3
  <2>2. TxQueue(p)' = IF p = q THEN Append(TxQueue(p), Head(loc[t].src)) ELSE TxQueue(p)
    BY <2>1
  <2>3. CASE p = q
    <3>1. TxQueue(p)' = Append(TxQueue(p), Head(loc[t].src))
      BY <2>2, <2>3
    <3>2. i \in 1 .. Len(TxQueue(p)) + 1
      BY <1>1, <3>1
    <3>3. CASE i \in 1 .. Len(TxQueue(p))
      BY <1>1, <3>1, <3>3
    <3>4. CASE i = Len(TxQueue(p)) + 1
      BY <1>1, <2>1, <3>1, <3>4
    <3> QED
      BY <1>1, <3>2, <3>3, <3>4
  <2> QED
    BY <1>2, <2>2, <2>3
<1>4. CASE \E q \in Ports : Tx!Take(q)
  <2>1. PICK q \in Ports :
          /\ [x \in Ports |-> TxQueue(x)][q] # <<>>
          /\ [x \in Ports |-> TxQueue(x)]'
               = [[x \in Ports |-> TxQueue(x)] EXCEPT ![q] = Tail(@)]
    BY <1>4 DEF Tx!Take
  <2>2. TxQueue(p)' = IF p = q THEN Tail(TxQueue(p)) ELSE TxQueue(p)
    BY <2>1
  <2>3. CASE p = q
    <3>1. TxQueue(p)' = Tail(TxQueue(p)) /\ TxQueue(p) # <<>>
      BY <2>1, <2>2, <2>3
    <3>2. i \in 1 .. Len(TxQueue(p)) - 1 /\ TxQueue(p)'[i] = TxQueue(p)[i + 1]
      BY <1>1, <3>1
    <3>3. i + 1 \in DOMAIN TxQueue(p)
      BY <1>1, <3>2
    <3> QED
      BY <3>2, <3>3
  <2> QED
    BY <1>2, <2>2, <2>3
<1>5. CASE \E q \in Ports : Tx!Move(q)
  <2>1. [x \in Ports |-> TxQueue(x)]' = [x \in Ports |-> TxQueue(x)]
    BY <1>5 DEF Tx!Move
  <2>2. TxQueue(p)' = TxQueue(p)
    BY <2>1
  <2> QED
    BY <1>2, <2>2
<1>6. CASE UNCHANGED <<[x \in Ports |-> TxQueue(x)], tdr>>
  <2>1. TxQueue(p)' = TxQueue(p)
    BY <1>6
  <2> QED
    BY <1>2, <2>1
<1> QED
  BY <1>3, <1>4, <1>5, <1>6 DEF TxStep

\* A flush comes to wait for TC where it finds the ring drained.
LEMMA Waits ==
  ASSUME Placed, [Next]_vars, NEW u \in Tasks, pc'[u] = "wait_tc"
  PROVE  \/ pc[u] = "wait_tc" /\ loc'[u] = loc[u]
         \/ FlushDrained(u)
<1> USE DEF Placed, Goto, At
<1>1. CASE \E p \in Ports : (\E b \in Received : Arrive(p, b)) \/ Shift(p) \/ Sent(p) \/ uart_irq_handler(p)
  BY <1>1 DEF Arrive, Shift, Sent, uart_irq_handler
<1>2. ASSUME NEW t \in Tasks, WriteCheck(t) \/ WritePut(t) \/ WritePublish(t) \/ WriteKick(t)
      PROVE  pc[u] = "wait_tc" /\ loc'[u] = loc[u]
  BY <1>2 DEF WriteCheck, WritePut, WritePublish, WriteKick, Return
<1>3. ASSUME NEW t \in Tasks, ReadCopy(t) \/ ReadPublish(t) \/ FlushOk(t) \/ FlushTimeout(t)
      PROVE  pc[u] = "wait_tc" /\ loc'[u] = loc[u]
  BY <1>3 DEF ReadCopy, ReadPublish, FlushOk, FlushTimeout, Return
<1>4. ASSUME NEW t \in Tasks, FlushDrained(t)
      PROVE  (pc[u] = "wait_tc" /\ loc'[u] = loc[u]) \/ FlushDrained(u)
  <2>1. pc' = [pc EXCEPT ![t] = "wait_tc"] /\ loc' = loc
    BY <1>4 DEF FlushDrained
  <2> QED
    BY <1>4, <2>1
<1>5. ASSUME NEW t \in Tasks, NEW p \in Ports, Call(t, p)
      PROVE  pc[u] = "wait_tc" /\ loc'[u] = loc[u]
  BY <1>5 DEF Call, Write, Read, Flush
<1>6. CASE UNCHANGED vars
  BY <1>6 DEF vars
<1> QED
  BY <1>1, <1>2, <1>3, <1>4, <1>5, <1>6 DEF Next, Device, Task, Continue

LEMMA FlushesKept ==
  ASSUME BytesApart, Placed, Carried, Rightful, TxView, TxView', TxStep, Flushes, [Next]_vars
  PROVE  Flushes'
<1> SUFFICES ASSUME NEW u \in Tasks, pc'[u] = "wait_tc", NEW p \in Ports, p = loc'[u].port,
                    NEW i \in DOMAIN TxQueue(p)'
             PROVE  TxQueue(p)'[i] \notin Mine(u)
  <2>1. \A u \in Tasks : pc'[u] = "wait_tc" => loc'[u].port \in Ports
    BY PlacedKept DEF Placed
  <2>2. \A u \in Tasks : pc'[u] = "wait_tc" =>
          \A q \in Ports : q = loc'[u].port =>
            \A i \in DOMAIN TxQueue(q)' : TxQueue(q)'[i] \notin Mine(u)
    OBVIOUS
  <2> QED
    BY <2>1, <2>2 DEF Flushes
<1>1. CASE pc[u] = "wait_tc" /\ loc'[u] = loc[u]
  <2>1. ASSUME NEW j \in DOMAIN TxQueue(p) PROVE TxQueue(p)[j] \notin Mine(u)
    BY <1>1, <2>1 DEF Flushes
  <2>2. ASSUME NEW t \in Tasks, pc[t] = "publish" PROVE Head(loc[t].src) \notin Mine(u)
    <3>1. t # u
      BY <1>1, <2>2
    <3>2. Head(loc[t].src) \in Mine(t)
      BY <2>2 DEF Carried, Rightful
    <3> QED
      BY <3>1, <3>2 DEF BytesApart
  <2> QED
    BY <2>1, <2>2, QueueGrows
<1>2. CASE FlushDrained(u)
  <2>1. UNCHANGED <<tx_buf, tx_head, tx_tail>> /\ uart_tx_pending(p) = 0
    BY <1>2 DEF FlushDrained, tx
  <2>2. TxQueue(p)' = TxQueue(p)
    BY <2>1, TxFrame
  <2>3. DOMAIN TxQueue(p) = {}
    BY <2>1 DEF TxQueue
  <2> QED
    BY <2>2, <2>3
<1> QED
  BY <1>1, <1>2, Waits

FlushStep ==
  [\A t \in Tasks : FlushOk(t) => Mine(t) \intersect OnTheWay(loc[t].port) = {}]_vars

FlushInv == FillInv /\ Quiet /\ Flushes

LEMMA FlushFirst == Init => FlushInv
<1> SUFFICES ASSUME Init PROVE Quiet /\ Flushes
  BY FillFirst DEF FlushInv
<1>1. Quiet
  BY DEF Init, Quiet
<1>2. Flushes
  BY DEF Init, Flushes
<1> QED
  BY <1>1, <1>2

LEMMA FlushKept ==
  ASSUME TextsTyped, RowsApart, BytesApart, FlushInv, FillApart, [Next]_vars
  PROVE  FlushInv' /\ FlushStep
<1>1. FillInv' /\ TxView /\ TxView' /\ TxStep
  BY FillKept DEF FlushInv
<1>2. Quiet'
  BY QuietKept DEF FlushInv, FillInv
<1>3. Flushes'
  BY <1>1, FlushesKept DEF FlushInv, FillInv
<1>4. FlushStep
  <2> SUFFICES ASSUME NEW t \in Tasks, FlushOk(t)
               PROVE  Mine(t) \intersect OnTheWay(loc[t].port) = {}
    BY DEF FlushStep
  <2>1. PICK p \in Ports : p = loc[t].port
    BY DEF FlushInv, FillInv, Placed
  <2>2. pc[t] = "wait_tc" /\ tc[p]
    BY <2>1 DEF FlushOk, At, Complete
  <2>3. tdr[p] = NONE /\ shift[p] = NONE
    BY <2>2 DEF FlushInv, Quiet
  <2>4. \A i \in DOMAIN TxQueue(p) : TxQueue(p)[i] \notin Mine(t)
    BY <2>1, <2>2 DEF FlushInv, Flushes
  <2>5. NONE \notin Mine(t)
    BY MineWritten DEF TextsTyped, Bytes
  <2> QED
    BY <2>1, <2>3, <2>4, <2>5 DEF OnTheWay
<1> QED
  BY <1>1, <1>2, <1>3, <1>4 DEF FlushInv

LEMMA OneIsApart == OneWriter => BytesApart
  BY DEF OneWriter, BytesApart, Mine

\* When uart_flush succeeds, nothing the one task that writes has written is still
\* under way, whatever sections mask.  (uart_flush against uart_irq_handler)
THEOREM FlushByOne == ASSUME TextsTyped, RowsApart, OneWriter PROVE Spec => FlushedIsSent
<1>1. FlushInv /\ [Next]_vars => FlushInv' /\ FlushStep
  <2> SUFFICES ASSUME FlushInv, [Next]_vars PROVE FlushInv' /\ FlushStep
    OBVIOUS
  <2>1. FillApart /\ BytesApart
    BY WriterApart, OneIsApart DEF FlushInv, FillInv
  <2> QED
    BY <2>1, FlushKept
<1> QED
  BY <1>1, FlushFirst, PTL DEF Spec, FlushedIsSent, FlushStep

\* The same for any number of tasks that write different bytes, in the executions
\* where no task is switched away from inside a section.
THEOREM FlushTellsTruth ==
  ASSUME TextsTyped, RowsApart, BytesApart
  PROVE  CalmSpec => FlushedIsSent
<1>1. FlushInv /\ Exclusive /\ [CalmNext]_vars => FlushInv' /\ Exclusive' /\ FlushStep
  <2> SUFFICES ASSUME FlushInv, Exclusive, [CalmNext]_vars
               PROVE  FlushInv' /\ Exclusive' /\ FlushStep
    OBVIOUS
  <2>1. [Next]_vars /\ FillApart
    BY CalmSteps, CalmApart
  <2>2. FlushInv' /\ FlushStep
    BY <2>1, FlushKept
  <2> QED
    BY <2>2, ExclusiveKept DEF FlushInv, FillInv
<1> QED
  BY <1>1, FlushFirst, ExclusiveFirst, PTL DEF CalmSpec, FlushedIsSent, FlushStep

\* Where a section masks the context switch, every execution is calm.
THEOREM MaskedIsCalm == ASSUME SectionMasks PROVE Spec => CalmSpec
<1>1. [Next]_vars => [CalmNext]_vars
  <2>1. ASSUME NEW t \in Tasks, Task(t) PROVE Alone(t)
    BY <2>1 DEF Task, Continue, Call, At, WriteCheck, WritePut, WritePublish, WriteKick,
                ReadCopy, ReadPublish, FlushDrained, FlushOk, FlushTimeout, Write, Read, Flush
  <2> QED
    BY <2>1 DEF Next, CalmNext
<1> QED
  BY <1>1, PTL DEF Spec, CalmSpec

=============================================================================
