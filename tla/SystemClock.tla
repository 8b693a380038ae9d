----------------------------- MODULE SystemClock -----------------------------
(***************************************************************************)
(* core/system_clock.c: system_clock_config_hz against oscillators, PLL    *)
(* and clock switch, which answer late or, as far as a bounded wait can    *)
(* tell, never.  An action is the code from one wait to the next: nothing  *)
(* else writes these registers, and the hardware moves between the writes  *)
(* and the wait that follows them.  Frequencies are in MHz.                *)
(***************************************************************************)
EXTENDS Naturals

CONSTANT Targets        \* arguments of system_clock_config_hz

ASSUME TargetsAssumption == Targets \subseteq Nat

VARIABLES
  on, ready,            \* RCC_CR: each source's ON and RDY bits
  sw, sws,              \* RCC_CFGR: the source requested, the source in use
  pllcfg,               \* RCC_PLLCFGR: its fields as they are encoded
  range, vos,           \* PWR_CR1.VOS: the range written, the range it reads back
  latency,              \* FLASH_ACR.LATENCY
  system_clock_val_hz,
  pc, target, result    \* the call under way, what the last one returned

supply == <<range, vos, latency>>
regs   == <<on, ready, sw, sws, pllcfg, supply>>
vars   == <<regs, system_clock_val_hz, pc, target, result>>

Sources == {"MSI", "HSI16", "PLL"}

\* SYSCLK = (HSI16 / PLLM) * PLLN / PLLR
PllOut(cfg) == ((16 \div (cfg.pllm + 1)) * cfg.plln) \div (2 * (cfg.pllr + 1))
Frequency(s) == [MSI |-> 4, HSI16 |-> 16, PLL |-> PllOut(pllcfg)][s]

MsiOnly    == [s \in Sources |-> s = "MSI"]
PllAtReset == [pllm |-> 0, plln |-> 16, pllr |-> 0]

Init ==
  /\ on = MsiOnly /\ ready = MsiOnly
  /\ sw = "MSI" /\ sws = "MSI"
  /\ pllcfg = PllAtReset
  /\ range = 1 /\ vos = 1 /\ latency = 0
  /\ system_clock_val_hz = 4
  /\ pc = "idle" /\ target = 0 /\ result = "none"

-----------------------------------------------------------------------------
(* The hardware                                                            *)

\* A source starts or stops some time after it is told to; the PLL needs its input.
Settle(s) ==
  /\ ready[s] # on[s]
  /\ s = "PLL" /\ on[s] => ready["HSI16"]
  /\ ready' = [ready EXCEPT ![s] = on[s]]
  /\ UNCHANGED <<on, sw, sws, pllcfg, supply, system_clock_val_hz, pc, target, result>>

\* The multiplexer follows SW once the source requested is ready.
Switch ==
  /\ sws # sw /\ ready[sw]
  /\ sws' = sw
  /\ UNCHANGED <<on, ready, sw, pllcfg, supply, system_clock_val_hz, pc, target, result>>

Regulate ==
  /\ vos # range
  /\ vos' = range
  /\ UNCHANGED <<on, ready, sw, sws, pllcfg, range, latency, system_clock_val_hz, pc, target, result>>

-----------------------------------------------------------------------------
(* The program                                                             *)

Range1 == 1
Range2 == 2

Mut_VosFor(mhz) == IF mhz <= 32 THEN Range2 ELSE Range1    \* mutant: range 2 beyond 26 MHz
VosFor(mhz)     == IF mhz <= 26 THEN Range2 ELSE Range1

\* The highest frequency each latency but the last allows.
Steps(v) ==
  IF v = Range1 THEN <<16, 32, 48, 64>> ELSE <<6, 12, 18>>

LatencyFor(mhz, v) ==
  LET slower == {i \in DOMAIN Steps(v) : mhz > Steps(v)[i]}
  IN  IF slower = {} THEN 0 ELSE CHOOSE i \in slower : \A j \in slower : j <= i

PllTargets == {24, 32, 48, 64, 80}

Mut_PllFor(mhz) ==                     \* mutant: PLLR of 24 MHz is that of the others
  [pllm |-> 1, plln |-> [t \in PllTargets |-> IF t = 24 THEN 12 ELSE t \div 4][mhz], pllr |-> 0]
PllFor(mhz) ==
  [pllm |-> 1, plln |-> [t \in PllTargets |-> IF t = 24 THEN 12 ELSE t \div 4][mhz],
   pllr |-> IF mhz = 24 THEN 1 ELSE 0]

Mut_Stopped(s) == TRUE                 \* mutant: does not wait for a source to stop
Stopped(s)     == ~ready[s]

Mut_InUse(s) == sw = s                 \* mutant: polls SW, not SWS
InUse(s)     == sws = s

\* What the code polls for at each place.
Awaited(label) ==
  \/ label = "msi_ready" /\ ready["MSI"]
  \/ label = "msi_used" /\ InUse("MSI")
  \/ label \in {"pll_stopped", "pll_stopped_again"} /\ Stopped("PLL")
  \/ label = "hsi_stopped" /\ Stopped("HSI16")
  \/ label = "vos_set" /\ vos = range
  \/ label = "hsi_ready" /\ ready["HSI16"]
  \/ label = "hsi_used" /\ InUse("HSI16")
  \/ label = "pll_ready" /\ ready["PLL"]
  \/ label = "pll_used" /\ InUse("PLL")

Continue(from, to) == pc = from /\ Awaited(from) /\ pc' = to /\ UNCHANGED <<ready, sws, target>>
Power(s, bit)      == on' = [on EXCEPT ![s] = bit]
Return(code)       == pc' = "idle" /\ result' = code

\* system_clock_config_hz is called, and system_clock_set_default begins.
system_clock_config_hz(mhz) ==
  /\ pc = "idle"
  /\ pc' = "msi_ready" /\ target' = mhz /\ result' = "none"
  /\ Power("MSI", TRUE)
  /\ UNCHANGED <<ready, sw, sws, pllcfg, supply, system_clock_val_hz>>

SelectMsi ==
  /\ Continue("msi_ready", "msi_used")
  /\ sw' = "MSI"
  /\ UNCHANGED <<on, pllcfg, supply, system_clock_val_hz, result>>

OnMsi ==
  /\ Continue("msi_used", "pll_stopped")
  /\ system_clock_val_hz' = 4
  /\ Power("PLL", FALSE)
  /\ UNCHANGED <<sw, pllcfg, supply, result>>

StopHsi ==
  /\ Continue("pll_stopped", "hsi_stopped")
  /\ Power("HSI16", FALSE)
  /\ UNCHANGED <<sw, pllcfg, supply, system_clock_val_hz, result>>

\* system_clock_set_default has returned; power_set_vos begins.
SetVos ==
  /\ Continue("hsi_stopped", "vos_set")
  /\ range' = VosFor(target)
  /\ UNCHANGED <<on, sw, pllcfg, vos, latency, system_clock_val_hz, result>>

\* flash_set_latency, whatever comes of the rest of the call.
SetLatency ==
  /\ pc = "vos_set" /\ Awaited(pc)
  /\ latency' = LatencyFor(target, VosFor(target))
  /\ UNCHANGED <<ready, sw, sws, pllcfg, range, vos, system_clock_val_hz, target>>

KeepMsi ==
  /\ SetLatency /\ target \notin {16} \union PllTargets
  /\ Return(IF target = 4 THEN "ok" ELSE "unsupported")
  /\ UNCHANGED on

StartHsi ==
  /\ SetLatency /\ target \in {16} \union PllTargets
  /\ pc' = "hsi_ready"
  /\ Power("HSI16", TRUE)
  /\ UNCHANGED result

SelectHsi ==
  /\ Continue("hsi_ready", "hsi_used")
  /\ sw' = "HSI16"
  /\ UNCHANGED <<on, pllcfg, supply, system_clock_val_hz, result>>

OnHsi ==
  /\ pc = "hsi_used" /\ Awaited(pc) /\ target = 16
  /\ system_clock_val_hz' = 16
  /\ Return("ok")
  /\ UNCHANGED <<regs, target>>

StopPll ==
  /\ target # 16
  /\ Continue("hsi_used", "pll_stopped_again")
  /\ Power("PLL", FALSE)
  /\ UNCHANGED <<sw, pllcfg, supply, system_clock_val_hz, result>>

StartPll ==
  /\ Continue("pll_stopped_again", "pll_ready")
  /\ pllcfg' = PllFor(target)
  /\ Power("PLL", TRUE)
  /\ UNCHANGED <<sw, supply, system_clock_val_hz, result>>

SelectPll ==
  /\ Continue("pll_ready", "pll_used")
  /\ sw' = "PLL"
  /\ UNCHANGED <<on, pllcfg, supply, system_clock_val_hz, result>>

OnPll ==
  /\ pc = "pll_used" /\ Awaited(pc)
  /\ system_clock_val_hz' = target
  /\ Return("ok")
  /\ UNCHANGED <<regs, target>>

\* wait_for_flag_set, wait_for_flag_clear and wait_for_reg_mask_eq give up.
Timeout ==
  /\ pc # "idle" /\ ~Awaited(pc)
  /\ Return("timeout")
  /\ UNCHANGED <<regs, system_clock_val_hz, target>>

ClockWorks == Switch \/ Regulate \/ \E s \in Sources : Settle(s)

ConfigContinues ==
  \/ SelectMsi \/ OnMsi \/ StopHsi \/ SetVos \/ KeepMsi
  \/ StartHsi \/ SelectHsi \/ OnHsi
  \/ StopPll \/ StartPll \/ SelectPll \/ OnPll
  \/ Timeout

Next ==
  \/ \E mhz \in Targets : system_clock_config_hz(mhz)
  \/ ClockWorks \/ ConfigContinues

Spec == Init /\ [][Next]_vars

-----------------------------------------------------------------------------
(* Properties                                                              *)

\* What a voltage range and a latency allow, from the tables at the head of the
\* source file.
Limit(v, ws) ==
  IF v = Range1 THEN <<16, 32, 48, 64, 80>>[ws + 1] ELSE <<6, 12, 18, 26, 26>>[ws + 1]

\* The clock in use is never faster than the voltage range and the flash latency
\* allow: not between the steps of a change of clock, up or down, and not when the
\* switch comes after the program has given up waiting for it.
FlashKeepsUp == Frequency(sws) <= Limit(vos, latency)

\* The source in use runs, and so does the input of a running PLL: no call, and no
\* call after one that failed half-way, switches off what the CPU runs on.
SourceAlive ==
  /\ on[sws] /\ ready[sws]
  /\ ready["PLL"] => ready["HSI16"]

\* The PLL is configured only while it is stopped; a reset, which stops it, may
\* come at any time.
PllStable == [][pllcfg' # pllcfg /\ on'["PLL"] => ~on["PLL"] /\ ~ready["PLL"]]_vars

\* A call that reports success has left SYSCLK at the target, and
\* get_system_clock_hz says so.
SuccessIsReal ==
  result = "ok" => system_clock_val_hz = target /\ Frequency(sws) = target

\* get_system_clock_hz, between calls, returns the frequency of SYSCLK.
\* (core/system_clock.h:44, "Get current System Clock in Hz")
HzReported == pc = "idle" => system_clock_val_hz = Frequency(sws)

=============================================================================
