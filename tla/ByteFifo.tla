------------------------------- MODULE ByteFifo -------------------------------
(***************************************************************************)
(* What the ring buffers of drivers/uart.c promise: each port's bytes come *)
(* out in the order they went in, each once, only bytes that were offered  *)
(* go in, and no port disturbs another.                                    *)
(***************************************************************************)
EXTENDS Naturals, Sequences

CONSTANTS Ports, CAP, NONE

VARIABLES
  offer,   \* for each port, bytes that may enter in the next step
  queue,   \* bytes inside
  out      \* the byte that came out last, until it is moved on

Init == queue = [p \in Ports |-> <<>>] /\ out = [p \in Ports |-> NONE]

Put(p) ==
  /\ Len(queue[p]) < CAP
  /\ \E b \in offer[p] : queue' = [queue EXCEPT ![p] = Append(@, b)]
  /\ UNCHANGED out

Take(p) ==
  /\ queue[p] # <<>>
  /\ out'   = [out EXCEPT ![p] = Head(queue[p])]
  /\ queue' = [queue EXCEPT ![p] = Tail(@)]

Move(p) == out' = [out EXCEPT ![p] = NONE] /\ UNCHANGED queue

Spec == Init /\ [][\E p \in Ports : Put(p) \/ Take(p) \/ Move(p)]_<<queue, out>>

=============================================================================
