------------------------------- MODULE TaskLife -------------------------------
(***************************************************************************)
(* What the kernel promises about a thread, with no table, no interrupts   *)
(* and no context switch: core/scheduler.h read as an abstract machine.    *)
(* One thread at most runs; a sleeping thread is woken by the tick that    *)
(* reaches its wake-up time and by nothing else; an ended thread never     *)
(* comes back, its stack does.                                             *)
(***************************************************************************)
EXTENDS Integers

CONSTANTS Threads, SleepTicks

VARIABLES
  life,   \* what each thread is doing
  due,    \* its wake-up time, 0 when it has none
  now     \* ticks since the start

vars == <<life, due, now>>

Init ==
  /\ life \in [Threads -> {"free", "READY", "RUNNING"}]
  /\ \E first \in Threads : \A t \in Threads : life[t] = "RUNNING" <=> t = first
  /\ due = [t \in Threads |-> 0]
  /\ now = 0

Become(t, state) == life' = [life EXCEPT ![t] = state]
Alarm(t, when)   == due' = [due EXCEPT ![t] = when]

Spawn(t) == life[t] = "free" /\ Become(t, "READY") /\ UNCHANGED <<due, now>>

Dispatch(t) ==
  /\ life[t] = "READY" /\ due[t] = 0
  /\ \A u \in Threads : life[u] # "RUNNING"
  /\ Become(t, "RUNNING")
  /\ UNCHANGED <<due, now>>

\* A thread is not interrupted between setting its alarm and blocking.
Preempt(t) ==
  /\ life[t] = "RUNNING" /\ due[t] = 0
  /\ Become(t, "READY")
  /\ UNCHANGED <<due, now>>

SetAlarm(t, n) ==
  /\ life[t] \in {"READY", "RUNNING", "BLOCKED"}   \* it may have blocked itself
  /\ Alarm(t, now + n)
  /\ UNCHANGED <<life, now>>

Block(t) ==
  /\ life[t] \in {"READY", "RUNNING"}
  /\ Become(t, "BLOCKED")
  /\ UNCHANGED <<due, now>>

Unblock(t) ==
  /\ life[t] = "BLOCKED" /\ due[t] = 0      \* not a sleeper
  /\ Become(t, "READY")
  /\ UNCHANGED <<due, now>>

Retire(t) ==
  /\ life[t] \in {"READY", "RUNNING", "BLOCKED"}
  /\ Become(t, "ZOMBIE") /\ Alarm(t, 0)
  /\ UNCHANGED now

Reap(t) == life[t] = "ZOMBIE" /\ Become(t, "free") /\ UNCHANGED <<due, now>>

Rings(t) == life[t] = "BLOCKED" /\ due[t] = now + 1

Tick ==
  /\ now' = now + 1
  /\ life' = [t \in Threads |-> IF Rings(t) THEN "READY" ELSE life[t]]
  /\ due'  = [t \in Threads |-> IF Rings(t) THEN 0 ELSE due[t]]

Next ==
  \/ Tick
  \/ \E t \in Threads :
       \/ Spawn(t) \/ Dispatch(t) \/ Preempt(t) \/ Block(t) \/ Unblock(t)
       \/ Retire(t) \/ Reap(t)
       \/ \E n \in SleepTicks : SetAlarm(t, n)

Spec == Init /\ [][Next]_vars

=============================================================================
