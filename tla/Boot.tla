--------------------------------- MODULE Boot ---------------------------------
(***************************************************************************)
(* main() of app/main.c on the clock of SystemClock: it calls              *)
(* system_clock_config_hz, ignores the result, and computes the console's  *)
(* divisor and the tick's reload value from get_system_clock_hz, while the *)
(* hardware may still be moving.  Later calls of system_clock_config_hz,   *)
(* which the application does not make, and the reboot command follow.     *)
(***************************************************************************)
EXTENDS SystemClock, UartConfig

VARIABLES
  stage,                \* main: "clock", "wait", "uart", "running"; "changed" by a later call
  brr, reload           \* USART2's BRR and SysTick's RVR, 0 when not set

booted   == <<stage, brr, reload>>
bootVars == <<vars, booted>>

BootInit == Init /\ stage = "clock" /\ brr = 0 /\ reload = 0

Baud == 115200
TicksPerSecond == 1000
Hz(mhz) == mhz * 1000000

\* main asks for 80 MHz; the model lets it ask for any.
MainClock ==
  /\ stage = "clock" /\ stage' = "wait"
  /\ \E mhz \in Targets : system_clock_config_hz(mhz)
  /\ UNCHANGED <<brr, reload>>

\* uart_init, whose other registers are those of UartSetup.
MainUart ==
  /\ stage = "wait" /\ pc = "idle" /\ stage' = "uart"
  /\ brr' = Brr(Hz(system_clock_val_hz), Baud, FALSE)
  /\ UNCHANGED <<vars, reload>>

Mut_Reload(hz, ticks_hz) == hz \div ticks_hz            \* mutant: one clock too many
Reload(hz, ticks_hz)     == (hz \div ticks_hz) - 1

\* systick_init, which refuses what RVR's 24 bits cannot hold.
systick_init ==
  /\ stage = "uart" /\ stage' = "running"
  /\ LET value == Reload(Hz(system_clock_val_hz), TicksPerSecond)
     IN  reload' = IF value <= 16777215 THEN value ELSE reload
  /\ UNCHANGED <<vars, brr>>

LaterCall ==
  /\ stage \in {"running", "changed"} /\ stage' = "changed"
  /\ \E mhz \in Targets : system_clock_config_hz(mhz)
  /\ UNCHANGED <<brr, reload>>

\* A reset restores the registers, Reset_Handler the variables.
cmd_reboot_handler ==
  /\ stage \in {"running", "changed"} /\ pc = "idle"
  /\ on' = MsiOnly /\ ready' = MsiOnly
  /\ sw' = "MSI" /\ sws' = "MSI"
  /\ pllcfg' = PllAtReset
  /\ range' = 1 /\ vos' = 1 /\ latency' = 0
  /\ system_clock_val_hz' = 4
  /\ pc' = "idle" /\ target' = 0 /\ result' = "none"
  /\ stage' = "clock" /\ brr' = 0 /\ reload' = 0

BootNext ==
  \/ MainClock \/ MainUart \/ systick_init \/ LaterCall \/ cmd_reboot_handler
  \/ (ClockWorks \/ ConfigContinues) /\ UNCHANGED booted

BootSpec == BootInit /\ [][BootNext]_bootVars

-----------------------------------------------------------------------------
(* Properties                                                              *)

\* When the clock was configured as main asked, a tick is one millisecond of the clock
\* really in use, and the console runs at a rate that the other end can follow.
\* (systick_init, uart_init; app_commands.c:175 prints ticks as milliseconds)
RatesAgree ==
  stage = "running" /\ result = "ok" =>
    /\ (reload + 1) * TicksPerSecond = Hz(Frequency(sws))
    /\ Near(Rate(Hz(Frequency(sws)), brr, FALSE), Baud)

=============================================================================
