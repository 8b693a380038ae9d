------------------------------ MODULE ClockProofs ------------------------------
(***************************************************************************)
(* Theorems about system_clock_config_hz, called by main and by anyone     *)
(* later, for every sequence of target frequencies: waits that fail        *)
(* anywhere, hardware that follows late, and reboots.                      *)
(*                                                                         *)
(* The inductive invariant says of the registers, wherever the last call   *)
(* has left them, that the sources in use and requested run (Powered) and  *)
(* are slow enough (Supplied); of a call under way, what it has            *)
(* established by the place it has reached (Progress); and of the last     *)
(* call that reported success, that nothing is left to move (Succeeded).   *)
(***************************************************************************)
EXTENDS Boot, TLAPS

Places == {"idle", "msi_ready", "msi_used", "pll_stopped", "hsi_stopped", "vos_set",
           "hsi_ready", "hsi_used", "pll_stopped_again", "pll_ready", "pll_used"}

ClockTypes ==
  /\ on \in [Sources -> BOOLEAN] /\ ready \in [Sources -> BOOLEAN]
  /\ sw \in Sources /\ sws \in Sources
  /\ pllcfg \in [pllm : Nat, plln : Nat, pllr : Nat]
  /\ range \in {Range1, Range2} /\ vos \in {Range1, Range2} /\ latency \in 0..4
  /\ system_clock_val_hz \in Nat /\ target \in Nat
  /\ pc \in Places /\ result \in {"none", "ok", "unsupported", "timeout"}

Runs(s) == on[s] /\ ready[s]

\* The source in use and the one requested run, MSI always does, and HSI16 does as
\* long as there is anything of the PLL.
Powered ==
  /\ Runs("MSI") /\ Runs(sw) /\ Runs(sws)
  /\ on["PLL"] \/ ready["PLL"] => Runs("HSI16")

\* Off the MSI the voltage is the one written and allows both sources.
Supplied ==
  sw # "MSI" \/ sws # "MSI" =>
    /\ vos = range
    /\ Frequency(sw) <= Limit(vos, latency) /\ Frequency(sws) <= Limit(vos, latency)

\* system_clock_set_default is past its first switch.
OnDefault == pc \in {"pll_stopped", "hsi_stopped", "vos_set", "hsi_ready"}

\* The voltage and the flash are those of the target, a source of which is due.
Ascending == pc \in {"hsi_ready", "hsi_used", "pll_stopped_again", "pll_ready", "pll_used"}

Progress ==
  /\ pc # "idle" => result = "none"
  /\ pc = "msi_used" => sw = "MSI"
  /\ OnDefault => sw = "MSI" /\ sws = "MSI" /\ system_clock_val_hz = 4
  /\ pc = "pll_stopped" => ~on["PLL"]
  /\ pc \in {"hsi_stopped", "vos_set", "hsi_ready", "hsi_used", "pll_stopped_again"} =>
       ~on["PLL"] /\ ~ready["PLL"]
  /\ pc = "vos_set" => range = VosFor(target)
  /\ Ascending =>
       /\ on["HSI16"] /\ target \in {16} \union PllTargets
       /\ vos = range /\ vos = VosFor(target) /\ latency = LatencyFor(target, vos)
  /\ pc = "hsi_used" => sw = "HSI16"
  /\ pc \in {"pll_stopped_again", "pll_ready"} => sw = "HSI16" /\ sws = "HSI16"
  /\ pc \in {"pll_stopped_again", "pll_ready", "pll_used"} => target # 16
  /\ pc \in {"pll_ready", "pll_used"} => on["PLL"] /\ pllcfg = PllFor(target)
  /\ pc = "pll_used" => sw = "PLL"

Succeeded ==
  result = "ok" =>
    /\ pc = "idle" /\ sw = sws
    /\ target \in {4, 16} \union PllTargets
    /\ system_clock_val_hz = target /\ Frequency(sws) = target

ClockInv == ClockTypes /\ Powered /\ Supplied /\ Progress /\ Succeeded

\* What main has computed, it has computed of the frequency that is reported.
BootInv ==
  /\ stage \in {"uart", "running"} =>
       pc = "idle" /\ brr = Brr(Hz(system_clock_val_hz), Baud, FALSE)
  /\ stage = "running" /\ result = "ok" =>
       reload = Reload(Hz(system_clock_val_hz), TicksPerSecond)

-----------------------------------------------------------------------------
(* The tables.                                                              *)

LEMMA Frequencies ==
  Frequency("MSI") = 4 /\ Frequency("HSI16") = 16 /\ Frequency("PLL") = PllOut(pllcfg)
  BY DEF Frequency

\* The fields chosen for a target make the PLL run at it.
LEMMA PllExact ==
  ASSUME NEW mhz \in PllTargets
  PROVE  /\ PllFor(mhz) \in [pllm : Nat, plln : Nat, pllr : Nat]
         /\ PllOut(PllFor(mhz)) = mhz
<1>1. CASE mhz = 24
  BY <1>1 DEF PllFor, PllOut, PllTargets
<1>2. CASE mhz = 32
  BY <1>2 DEF PllFor, PllOut, PllTargets
<1>3. CASE mhz = 48
  BY <1>3 DEF PllFor, PllOut, PllTargets
<1>4. CASE mhz = 64
  BY <1>4 DEF PllFor, PllOut, PllTargets
<1>5. CASE mhz = 80
  BY <1>5 DEF PllFor, PllOut, PllTargets
<1> QED
  BY <1>1, <1>2, <1>3, <1>4, <1>5 DEF PllTargets

\* MSI is slow enough for whatever voltage and latency are set.
LEMMA LimitMsi ==
  ASSUME NEW v \in {Range1, Range2}, NEW ws \in 0..4
  PROVE  Limit(v, ws) \in Nat /\ 4 <= Limit(v, ws)
<1>1. ws = 0 \/ ws = 1 \/ ws = 2 \/ ws = 3 \/ ws = 4
  OBVIOUS
<1> QED
  BY <1>1 DEF Limit, Range1, Range2

\* The latency is the number of steps that the frequency is above.
LEMMA LatencyBy ==
  ASSUME NEW mhz \in Nat, NEW v, NEW k \in DOMAIN Steps(v),
         DOMAIN Steps(v) \subseteq Nat, mhz > Steps(v)[k],
         \A j \in DOMAIN Steps(v) : mhz > Steps(v)[j] => j <= k
  PROVE  LatencyFor(mhz, v) = k
<1> DEFINE slower == {i \in DOMAIN Steps(v) : mhz > Steps(v)[i]}
<1>1. k \in slower /\ \A j \in slower : j <= k
  OBVIOUS
<1>2. \A i \in slower : (\A j \in slower : j <= i) => i = k
  BY <1>1
<1> QED
  BY <1>1, <1>2 DEF LatencyFor

LEMMA LatencyZero ==
  ASSUME NEW mhz \in Nat, NEW v, \A j \in DOMAIN Steps(v) : ~(mhz > Steps(v)[j])
  PROVE  LatencyFor(mhz, v) = 0
  BY DEF LatencyFor

\* flash_latency_for_freq: what it allows is enough, up to the last step.
LEMMA LatencyFits ==
  ASSUME NEW mhz \in Nat
  PROVE  LET v == VosFor(mhz) IN
         /\ v \in {Range1, Range2}
         /\ LatencyFor(mhz, v) \in 0..4
         /\ mhz <= 80 => mhz <= Limit(v, LatencyFor(mhz, v))
<1>1. CASE mhz <= 26
  <2>1. VosFor(mhz) = Range2
    BY <1>1 DEF VosFor
  <2>2. Steps(Range2) = <<6, 12, 18>>
    BY DEF Steps, Range1, Range2
  <2>3. mhz <= 6 => LatencyFor(mhz, Range2) = 0
    BY <2>2, LatencyZero
  <2>4. mhz > 6 /\ mhz <= 12 => LatencyFor(mhz, Range2) = 1
    BY <2>2, LatencyBy
  <2>5. mhz > 12 /\ mhz <= 18 => LatencyFor(mhz, Range2) = 2
    BY <2>2, LatencyBy
  <2>6. mhz > 18 => LatencyFor(mhz, Range2) = 3
    BY <2>2, LatencyBy
  <2>7. /\ Limit(Range2, 0) = 6 /\ Limit(Range2, 1) = 12 /\ Limit(Range2, 2) = 18
        /\ Limit(Range2, 3) = 26
    BY DEF Limit, Range1, Range2
  <2> QED
    BY <1>1, <2>1, <2>3, <2>4, <2>5, <2>6, <2>7
<1>2. CASE mhz > 26
  <2>1. VosFor(mhz) = Range1
    BY <1>2 DEF VosFor
  <2>2. Steps(Range1) = <<16, 32, 48, 64>>
    BY DEF Steps
  <2>3. mhz <= 32 => LatencyFor(mhz, Range1) = 1
    BY <1>2, <2>2, LatencyBy
  <2>4. mhz > 32 /\ mhz <= 48 => LatencyFor(mhz, Range1) = 2
    BY <2>2, LatencyBy
  <2>5. mhz > 48 /\ mhz <= 64 => LatencyFor(mhz, Range1) = 3
    BY <2>2, LatencyBy
  <2>6. mhz > 64 => LatencyFor(mhz, Range1) = 4
    BY <2>2, LatencyBy
  <2>7. /\ Limit(Range1, 1) = 32 /\ Limit(Range1, 2) = 48 /\ Limit(Range1, 3) = 64
        /\ Limit(Range1, 4) = 80
    BY DEF Limit
  <2> QED
    BY <1>2, <2>1, <2>3, <2>4, <2>5, <2>6, <2>7
<1> QED
  BY <1>1, <1>2

-----------------------------------------------------------------------------
(* The steps.                                                               *)

LEMMA TargetTypes == \A mhz \in Targets : mhz \in Nat
  BY TargetsAssumption

LEMMA HardwareKeeps ==
  ASSUME ClockInv, ClockWorks
  PROVE  ClockInv'
<1> USE DEF ClockInv, regs, supply
<1>1. CASE Switch
  <2>1. /\ Runs(sw) /\ sws # sw /\ sws' = sw
        /\ UNCHANGED <<on, ready, sw, pllcfg, supply, system_clock_val_hz, pc, target, result>>
    BY <1>1 DEF Switch, Powered, Runs
  <2>2. \A s : Frequency(s)' = Frequency(s)
    BY <2>1 DEF Frequency, PllOut
  <2>3. ClockTypes' /\ Powered'
    BY <2>1 DEF ClockTypes, Powered, Runs
  <2>4. Supplied'
    BY <2>1, <2>2 DEF Supplied
  <2>5. Progress'
    BY <2>1 DEF Progress, OnDefault, Ascending
  <2>6. Succeeded'
    BY <2>1 DEF Succeeded
  <2> QED
    BY <2>3, <2>4, <2>5, <2>6
<1>2. CASE Regulate
  <2>1. /\ vos # range /\ vos' = range
        /\ UNCHANGED <<on, ready, sw, sws, pllcfg, range, latency, system_clock_val_hz, pc, target,
                       result>>
    BY <1>2 DEF Regulate
  <2>2. \A s : Frequency(s)' = Frequency(s)
    BY <2>1 DEF Frequency, PllOut
  <2>3. ClockTypes' /\ Powered' /\ Supplied'
    BY <2>1 DEF ClockTypes, Powered, Runs, Supplied
  <2>4. Progress'
    BY <2>1 DEF Progress, OnDefault, Ascending
  <2>5. Succeeded'
    BY <2>1, <2>2 DEF Succeeded
  <2> QED
    BY <2>3, <2>4, <2>5
<1>3. ASSUME NEW s \in Sources, Settle(s) PROVE ClockInv'
  <2>1. /\ ready[s] # on[s] /\ (s = "PLL" /\ on[s] => ready["HSI16"])
        /\ ready' = [ready EXCEPT ![s] = on[s]]
        /\ UNCHANGED <<on, sw, sws, pllcfg, range, vos, latency, system_clock_val_hz, pc, target,
                       result>>
    BY <1>3 DEF Settle
  <2>2. \A r : Frequency(r)' = Frequency(r)
    BY <2>1 DEF Frequency, PllOut
  <2>3. ClockTypes'
    BY <2>1 DEF ClockTypes
  <2>4. Powered'
    BY <2>1 DEF ClockTypes, Powered, Runs, Sources
  <2>5. Progress'
    BY <2>1 DEF ClockTypes, Progress, OnDefault, Ascending, Sources
  <2>6. Supplied' /\ Succeeded'
    BY <2>1, <2>2 DEF Supplied, Succeeded
  <2> QED
    BY <2>3, <2>4, <2>5, <2>6
<1> QED
  BY <1>1, <1>2, <1>3 DEF ClockWorks

\* A call begins with MSI switched on, whatever the last one has left.
LEMMA CallKeeps ==
  ASSUME ClockInv, NEW mhz \in Targets, system_clock_config_hz(mhz)
  PROVE  ClockInv'
<1> USE DEF ClockInv, supply
<1>1. /\ pc' = "msi_ready" /\ target' = mhz /\ result' = "none"
      /\ on' = on
      /\ UNCHANGED <<ready, sw, sws, pllcfg, range, vos, latency, system_clock_val_hz>>
  BY DEF system_clock_config_hz, Power, ClockTypes, Powered, Runs
<1>2. \A s : Frequency(s)' = Frequency(s)
  BY <1>1 DEF Frequency, PllOut
<1>3. ClockTypes' /\ Powered' /\ Supplied'
  BY <1>1, <1>2, TargetTypes DEF ClockTypes, Places, Powered, Runs, Supplied
<1>4. Progress' /\ Succeeded'
  BY <1>1 DEF Progress, OnDefault, Ascending, Succeeded
<1> QED
  BY <1>3, <1>4

\* system_clock_set_default: nothing is switched off before MSI is in use.
LEMMA DefaultKeeps ==
  ASSUME ClockInv, SelectMsi \/ OnMsi \/ StopHsi
  PROVE  ClockInv'
<1> USE DEF ClockInv, supply, Continue, Power
<1>1. \A s : Frequency(s)' = Frequency(s)
  BY DEF SelectMsi, OnMsi, StopHsi, Frequency, PllOut
<1>2. CASE SelectMsi
  <2>1. ClockTypes' /\ Powered'
    BY <1>2 DEF SelectMsi, ClockTypes, Places, Sources, Powered, Runs
  <2>2. Supplied'
    BY <1>1, <1>2, Frequencies, LimitMsi DEF SelectMsi, ClockTypes, Supplied
  <2>3. Progress' /\ Succeeded'
    BY <1>2 DEF SelectMsi, Progress, OnDefault, Ascending, Succeeded
  <2> QED
    BY <2>1, <2>2, <2>3
<1>3. CASE OnMsi
  <2>1. sws = "MSI" /\ sw = "MSI"
    BY <1>3 DEF OnMsi, Awaited, InUse, Progress
  <2>2. ClockTypes' /\ Powered' /\ Supplied'
    BY <1>3, <2>1 DEF OnMsi, ClockTypes, Places, Sources, Powered, Runs, Supplied
  <2>3. Progress' /\ Succeeded'
    BY <1>3, <2>1 DEF OnMsi, Progress, OnDefault, Ascending, Succeeded, ClockTypes, Sources
  <2> QED
    BY <2>2, <2>3
<1>4. CASE StopHsi
  <2>1. sws = "MSI" /\ sw = "MSI" /\ ~ready["PLL"] /\ ~on["PLL"]
    BY <1>4 DEF StopHsi, Awaited, Stopped, Progress, OnDefault
  <2>2. ClockTypes' /\ Powered' /\ Supplied'
    BY <1>4, <2>1 DEF StopHsi, ClockTypes, Places, Sources, Powered, Runs, Supplied
  <2>3. Progress' /\ Succeeded'
    BY <1>4, <2>1 DEF StopHsi, Progress, OnDefault, Ascending, Succeeded, ClockTypes, Sources
  <2> QED
    BY <2>2, <2>3
<1> QED
  BY <1>2, <1>3, <1>4

\* Voltage and latency are changed on MSI, to what the target needs.
LEMMA SupplyKeeps ==
  ASSUME ClockInv, SetVos \/ KeepMsi \/ StartHsi
  PROVE  ClockInv'
<1> USE DEF ClockInv, supply, Continue, Power
<1>1. sw = "MSI" /\ sws = "MSI" /\ system_clock_val_hz = 4 /\ result = "none"
  BY DEF SetVos, KeepMsi, StartHsi, SetLatency, Progress, OnDefault
<1>2. CASE SetVos
  <2>1. ClockTypes' /\ Powered' /\ Supplied'
    BY <1>1, <1>2, LatencyFits
    DEF SetVos, ClockTypes, Places, Powered, Runs, Supplied
  <2>2. Progress' /\ Succeeded'
    BY <1>1, <1>2 DEF SetVos, Progress, OnDefault, Ascending, Succeeded
  <2> QED
    BY <2>1, <2>2
<1>3. CASE KeepMsi
  <2>1. /\ UNCHANGED <<on, ready, sw, sws, pllcfg, range, vos, system_clock_val_hz, target>>
        /\ latency' = LatencyFor(target, VosFor(target)) /\ pc' = "idle"
        /\ result' = IF target = 4 THEN "ok" ELSE "unsupported"
    BY <1>3 DEF KeepMsi, SetLatency, Return
  <2>2. ClockTypes' /\ Powered' /\ Supplied'
    BY <1>1, <2>1, LatencyFits DEF ClockTypes, Places, Powered, Runs, Supplied
  <2>3. Frequency(sws)' = 4
    BY <1>1, <2>1 DEF Frequency
  <2>4. Progress' /\ Succeeded'
    BY <1>1, <2>1, <2>3 DEF Progress, OnDefault, Ascending, Succeeded
  <2> QED
    BY <2>2, <2>4
<1>4. CASE StartHsi
  <2>1. /\ UNCHANGED <<ready, sw, sws, pllcfg, range, vos, system_clock_val_hz, target, result>>
        /\ latency' = LatencyFor(target, VosFor(target)) /\ pc' = "hsi_ready"
        /\ on' = [on EXCEPT !["HSI16"] = TRUE]
        /\ target \in {16} \union PllTargets
        /\ vos = range /\ range = VosFor(target) /\ pc = "vos_set"
    BY <1>4 DEF StartHsi, SetLatency, Awaited, Progress
  <2>2. ClockTypes' /\ Powered' /\ Supplied'
    BY <1>1, <2>1, LatencyFits DEF ClockTypes, Places, Sources, Powered, Runs, Supplied
  <2>3. Progress' /\ Succeeded'
    BY <1>1, <2>1 DEF Progress, OnDefault, Ascending, Succeeded, ClockTypes, Sources
  <2> QED
    BY <2>2, <2>3
<1> QED
  BY <1>2, <1>3, <1>4

\* What the supply has been set for is fast enough for HSI16 and for the target.
LEMMA AscendingFits ==
  ASSUME ClockInv, Ascending
  PROVE  /\ vos = range
         /\ 4 <= Limit(vos, latency) /\ 16 <= Limit(vos, latency)
         /\ target <= Limit(vos, latency)
<1>1. /\ target \in {16} \union PllTargets /\ vos = range
      /\ vos = VosFor(target) /\ latency = LatencyFor(target, vos)
  BY DEF ClockInv, Progress
<1>2. target \in Nat /\ 16 <= target /\ target <= 80
  BY <1>1 DEF PllTargets
<1>3. Limit(vos, latency) \in Nat
  BY LimitMsi DEF ClockInv, ClockTypes
<1>4. target <= Limit(vos, latency)
  BY <1>1, <1>2, LatencyFits
<1> QED
  BY <1>1, <1>2, <1>3, <1>4

LEMMA AscentKeeps ==
  ASSUME ClockInv, SelectHsi \/ OnHsi \/ StopPll \/ StartPll \/ SelectPll \/ OnPll
  PROVE  ClockInv'
<1> USE DEF ClockInv, supply, Continue, Power
<1>1. Ascending
  BY DEF SelectHsi, OnHsi, StopPll, StartPll, SelectPll, OnPll, Ascending
<1>2. CASE SelectHsi
  <2>1. \A s : Frequency(s)' = Frequency(s)
    BY <1>2 DEF SelectHsi, Frequency, PllOut
  <2>2. on["HSI16"] /\ ready["HSI16"] /\ sws = "MSI"
    BY <1>1, <1>2 DEF SelectHsi, Awaited, Progress, OnDefault
  <2>3. ClockTypes' /\ Powered'
    BY <1>2, <2>2 DEF SelectHsi, ClockTypes, Places, Sources, Powered, Runs
  <2>4. Supplied'
    BY <1>1, <1>2, <2>1, <2>2, Frequencies, AscendingFits DEF SelectHsi, Supplied
  <2>5. Progress' /\ Succeeded'
    BY <1>2 DEF SelectHsi, Progress, OnDefault, Ascending, Succeeded
  <2> QED
    BY <2>3, <2>4, <2>5
<1>3. CASE OnHsi
  <2>1. /\ UNCHANGED <<on, ready, sw, sws, pllcfg, range, vos, latency, target>>
        /\ system_clock_val_hz' = 16 /\ pc' = "idle" /\ result' = "ok"
        /\ target = 16 /\ sws = "HSI16" /\ sw = "HSI16"
    BY <1>3 DEF OnHsi, Awaited, InUse, Progress, Return, regs
  <2>2. \A s : Frequency(s)' = Frequency(s)
    BY <2>1 DEF Frequency, PllOut
  <2>3. ClockTypes' /\ Powered' /\ Supplied'
    BY <2>1, <2>2 DEF ClockTypes, Places, Powered, Runs, Supplied
  <2>4. Progress' /\ Succeeded'
    BY <2>1, <2>2, Frequencies DEF Progress, OnDefault, Ascending, Succeeded
  <2> QED
    BY <2>3, <2>4
<1>4. CASE StopPll
  <2>1. /\ UNCHANGED <<on, ready, sw, sws, pllcfg, range, vos, latency, system_clock_val_hz, target,
                       result>>
        /\ pc = "hsi_used" /\ pc' = "pll_stopped_again" /\ sws = "HSI16" /\ sw = "HSI16"
        /\ target # 16
    BY <1>4 DEF StopPll, Awaited, InUse, Progress, ClockTypes, Sources
  <2>2. \A s : Frequency(s)' = Frequency(s)
    BY <2>1 DEF Frequency, PllOut
  <2>3. ClockTypes' /\ Powered' /\ Supplied'
    BY <2>1, <2>2 DEF ClockTypes, Places, Powered, Runs, Supplied
  <2>4. Progress' /\ Succeeded'
    BY <2>1, <2>2 DEF Progress, OnDefault, Ascending, Succeeded
  <2> QED
    BY <2>3, <2>4
<1>5. CASE StartPll
  <2>1. /\ UNCHANGED <<ready, sw, sws, range, vos, latency, system_clock_val_hz, target, result>>
        /\ pc = "pll_stopped_again" /\ pc' = "pll_ready"
        /\ sws = "HSI16" /\ sw = "HSI16" /\ target \in PllTargets
        /\ pllcfg' = PllFor(target) /\ on' = [on EXCEPT !["PLL"] = TRUE]
    BY <1>1, <1>5 DEF StartPll, Progress
  <2>2. Frequency(sws)' = 16 /\ Frequency(sw)' = 16
    BY <2>1 DEF Frequency
  <2>3. ClockTypes' /\ Powered'
    BY <2>1, PllExact DEF ClockTypes, Places, Sources, Powered, Runs
  <2>4. Supplied'
    BY <1>1, <2>1, <2>2, AscendingFits DEF Supplied
  <2>5. Progress' /\ Succeeded'
    BY <2>1 DEF Progress, OnDefault, Ascending, Succeeded, ClockTypes, Sources
  <2> QED
    BY <2>3, <2>4, <2>5
<1>6. CASE SelectPll
  <2>1. /\ UNCHANGED <<on, ready, sws, pllcfg, range, vos, latency, system_clock_val_hz, target,
                       result>>
        /\ pc = "pll_ready" /\ pc' = "pll_used" /\ sws = "HSI16" /\ sw' = "PLL"
        /\ on["PLL"] /\ ready["PLL"] /\ target \in PllTargets /\ pllcfg = PllFor(target)
    BY <1>1, <1>6 DEF SelectPll, Awaited, Progress
  <2>2. Frequency(sws)' = 16 /\ Frequency(sw)' = target
    BY <2>1, PllExact DEF Frequency
  <2>3. ClockTypes' /\ Powered'
    BY <2>1 DEF ClockTypes, Places, Sources, Powered, Runs
  <2>4. Supplied'
    BY <1>1, <2>1, <2>2, AscendingFits DEF Supplied
  <2>5. Progress' /\ Succeeded'
    BY <1>1, <2>1 DEF Progress, OnDefault, Ascending, Succeeded
  <2> QED
    BY <2>3, <2>4, <2>5
<1>7. CASE OnPll
  <2>1. /\ UNCHANGED <<on, ready, sw, sws, pllcfg, range, vos, latency, target>>
        /\ system_clock_val_hz' = target /\ pc' = "idle" /\ result' = "ok"
        /\ sws = "PLL" /\ sw = "PLL" /\ target \in PllTargets /\ pllcfg = PllFor(target)
    BY <1>1, <1>7 DEF OnPll, Awaited, InUse, Progress, Return, regs
  <2>2. \A s : Frequency(s)' = Frequency(s)
    BY <2>1 DEF Frequency, PllOut
  <2>3. Frequency(sws)' = target
    BY <2>1, <2>2, Frequencies, PllExact
  <2>4. ClockTypes' /\ Powered' /\ Supplied'
    BY <2>1, <2>2 DEF ClockTypes, Places, Powered, Runs, Supplied
  <2>5. Progress' /\ Succeeded'
    BY <2>1, <2>3 DEF Progress, OnDefault, Ascending, Succeeded
  <2> QED
    BY <2>4, <2>5
<1> QED
  BY <1>2, <1>3, <1>4, <1>5, <1>6, <1>7

\* A wait that fails leaves everything where it is.
LEMMA TimeoutKeeps ==
  ASSUME ClockInv, Timeout
  PROVE  ClockInv'
<1> USE DEF ClockInv, regs, supply
<1>1. /\ UNCHANGED <<on, ready, sw, sws, pllcfg, range, vos, latency, system_clock_val_hz, target>>
      /\ pc' = "idle" /\ result' = "timeout"
  BY DEF Timeout, Return
<1>2. \A s : Frequency(s)' = Frequency(s)
  BY <1>1 DEF Frequency, PllOut
<1>3. ClockTypes' /\ Powered' /\ Supplied'
  BY <1>1, <1>2 DEF ClockTypes, Places, Powered, Runs, Supplied
<1>4. Progress' /\ Succeeded'
  BY <1>1 DEF Progress, OnDefault, Ascending, Succeeded
<1> QED
  BY <1>3, <1>4

LEMMA ClockInit == Init => ClockInv
<1> SUFFICES ASSUME Init PROVE ClockInv
  OBVIOUS
<1>1. ClockTypes
  BY DEF Init, ClockTypes, MsiOnly, PllAtReset, Sources, Places, Range1, Range2
<1>2. Powered /\ Supplied
  BY DEF Init, Powered, Runs, MsiOnly, Sources, Supplied
<1>3. Progress /\ Succeeded
  BY DEF Init, Progress, OnDefault, Ascending, Succeeded
<1> QED
  BY <1>1, <1>2, <1>3 DEF ClockInv

LEMMA ClockKept ==
  ASSUME ClockInv, UNCHANGED vars
  PROVE  ClockInv'
<1>1. UNCHANGED <<on, ready, sw, sws, pllcfg, range, vos, latency, system_clock_val_hz, pc, target,
                  result>>
  BY DEF vars, regs, supply
<1>2. \A s : Frequency(s)' = Frequency(s)
  BY <1>1 DEF Frequency, PllOut
<1> QED
  BY <1>1, <1>2 DEF ClockInv, ClockTypes, Powered, Runs, Supplied, Progress, OnDefault, Ascending,
                    Succeeded

LEMMA ClockStep ==
  ASSUME ClockInv, [Next]_vars
  PROVE  ClockInv'
<1>1. ASSUME ConfigContinues PROVE ClockInv'
  BY <1>1, DefaultKeeps, SupplyKeeps, AscentKeeps, TimeoutKeeps DEF ConfigContinues
<1> QED
  BY <1>1, HardwareKeeps, CallKeeps, ClockKept DEF Next

-----------------------------------------------------------------------------
(* main on this clock, and reboots.                                         *)

LEMMA RebootResets ==
  ASSUME cmd_reboot_handler
  PROVE  ClockInv'
<1>1. /\ on' = MsiOnly /\ ready' = MsiOnly /\ sw' = "MSI" /\ sws' = "MSI" /\ pllcfg' = PllAtReset
      /\ range' = 1 /\ vos' = 1 /\ latency' = 0 /\ system_clock_val_hz' = 4
      /\ pc' = "idle" /\ target' = 0 /\ result' = "none"
  BY DEF cmd_reboot_handler
<1>2. ClockTypes'
  BY <1>1 DEF ClockTypes, MsiOnly, PllAtReset, Sources, Places, Range1, Range2
<1>3. Powered' /\ Supplied'
  BY <1>1 DEF Powered, Runs, MsiOnly, Sources, Supplied
<1>4. Progress' /\ Succeeded'
  BY <1>1 DEF Progress, OnDefault, Ascending, Succeeded
<1> QED
  BY <1>2, <1>3, <1>4 DEF ClockInv

\* Every step of the whole is a step of the clock, a reset, or none to the clock.
LEMMA BootSteps ==
  ASSUME [BootNext]_bootVars
  PROVE  [Next]_vars \/ cmd_reboot_handler
<1>1. MainUart \/ systick_init => UNCHANGED vars
  BY SMT DEF MainUart, systick_init, Brr, Usartdiv, Baud, Reload, Hz, TicksPerSecond
<1>2. MainClock \/ LaterCall => Next
  BY DEF MainClock, LaterCall, Next
<1>3. UNCHANGED bootVars => UNCHANGED vars
  BY DEF bootVars
<1> QED
  BY <1>1, <1>2, <1>3 DEF BootNext, Next

LEMMA BootClock == BootSpec => []ClockInv
<1>1. BootInit => ClockInv
  BY ClockInit DEF BootInit
<1>2. ClockInv /\ [BootNext]_bootVars => ClockInv'
  BY BootSteps, ClockStep, RebootResets
<1> QED
  BY <1>1, <1>2, PTL DEF BootSpec

\* Whatever the sequence of calls, the clock in use is never faster than voltage and
\* flash allow, on the way up, on the way down, and after a call that gave up.
\* (power_set_vos, flash_set_latency, before every switch of source)
THEOREM NeverTooFast == BootSpec => []FlashKeepsUp
<1>1. ClockInv => FlashKeepsUp
  <2> SUFFICES ASSUME ClockInv PROVE FlashKeepsUp
    OBVIOUS
  <2>1. CASE sws = "MSI"
    BY <2>1, Frequencies, LimitMsi DEF ClockInv, ClockTypes, FlashKeepsUp
  <2>2. CASE sws # "MSI"
    BY <2>2 DEF ClockInv, Supplied, FlashKeepsUp
  <2> QED
    BY <2>1, <2>2
<1> QED
  BY <1>1, BootClock, PTL

\* No call switches off the source the CPU runs on, or the input of a running PLL,
\* also after calls that failed half-way.
\* (system_clock_set_default, which waits for MSI to be in use)
THEOREM SourceRuns == BootSpec => []SourceAlive
<1>1. ClockInv => SourceAlive
  BY DEF ClockInv, Powered, Runs, SourceAlive
<1> QED
  BY <1>1, BootClock, PTL

\* A call that returned success has left the clock at the target, for good: nothing
\* that was started comes late to move it.  (system_clock_config_hz)
THEOREM SuccessHolds == BootSpec => []SuccessIsReal
<1>1. ClockInv => SuccessIsReal
  BY DEF ClockInv, Succeeded, SuccessIsReal
<1> QED
  BY <1>1, BootClock, PTL

\* The PLL is configured only while it is switched off and has stopped.
\* (clock_enable_pll)
THEOREM PllConfiguredStopped == BootSpec => PllStable
<1>1. ASSUME ClockInv, [Next]_vars, pllcfg' # pllcfg
      PROVE  ~on["PLL"] /\ ~ready["PLL"]
  <2>1. StartPll
    BY <1>1 DEF Next, ClockWorks, Switch, Regulate, Settle, ConfigContinues, system_clock_config_hz,
                SelectMsi, OnMsi, StopHsi, SetVos, SetLatency, KeepMsi, StartHsi, SelectHsi, OnHsi,
                StopPll, SelectPll, OnPll, Timeout, regs, vars
  <2> QED
    BY <1>1, <2>1 DEF StartPll, Continue, ClockInv, Progress
<1>2. ASSUME cmd_reboot_handler PROVE ~on'["PLL"]
  BY <1>2 DEF cmd_reboot_handler, MsiOnly, Sources
<1>3. ClockInv /\ [BootNext]_bootVars
        => [pllcfg' # pllcfg /\ on'["PLL"] => ~on["PLL"] /\ ~ready["PLL"]]_vars
  BY <1>1, <1>2, BootSteps
<1> QED
  BY <1>3, BootClock, PTL DEF BootSpec, PllStable

-----------------------------------------------------------------------------
(* What main computes from the frequency.                                   *)

LEMMA BootInvInit == BootInit => BootInv
  BY DEF BootInit, BootInv

\* A frequency that a successful call reports has a reload value that fits.
ReloadIsSmall(mhz) == Reload(Hz(mhz), TicksPerSecond) <= 16777215

LEMMA ReloadFits ==
  ASSUME NEW mhz \in {4, 16} \union PllTargets
  PROVE  ReloadIsSmall(mhz)
<1>1. mhz \in Nat /\ mhz <= 80
  BY DEF PllTargets
<1> QED
  BY SMT, <1>1 DEF ReloadIsSmall, Reload, Hz, TicksPerSecond

LEMMA BootInvStep ==
  ASSUME ClockInv, BootInv, [BootNext]_bootVars
  PROVE  BootInv'
<1>1. CASE MainClock \/ LaterCall
  BY <1>1 DEF MainClock, LaterCall, BootInv
<1>2. CASE MainUart
  BY <1>2 DEF MainUart, BootInv, vars
<1>3. CASE systick_init
  <2>1. /\ UNCHANGED <<pc, system_clock_val_hz, result, brr>> /\ stage = "uart"
        /\ LET value == Reload(Hz(system_clock_val_hz), TicksPerSecond)
           IN  reload' = IF value <= 16777215 THEN value ELSE reload
    BY SMT, <1>3 DEF systick_init, vars
  <2>2. result = "ok" => ReloadIsSmall(system_clock_val_hz)
    BY ReloadFits DEF ClockInv, Succeeded
  <2> QED
    BY SMT, <2>1, <2>2
    DEF BootInv, ReloadIsSmall, Reload, Hz, TicksPerSecond, Brr, Usartdiv, Baud
<1>4. CASE cmd_reboot_handler
  BY <1>4 DEF cmd_reboot_handler, BootInv
<1>5. CASE (ClockWorks \/ ConfigContinues) /\ UNCHANGED booted
  <2>1. CASE ClockWorks
    <3>1. UNCHANGED <<pc, system_clock_val_hz, result>>
      BY <2>1 DEF ClockWorks, Switch, Regulate, Settle
    <3> QED
      BY <1>5, <3>1 DEF BootInv, booted
  <2>2. CASE ConfigContinues
    <3>1. pc # "idle"
      BY <2>2 DEF ConfigContinues, SelectMsi, OnMsi, StopHsi, SetVos, SetLatency, KeepMsi, StartHsi,
                  SelectHsi, OnHsi, StopPll, StartPll, SelectPll, OnPll, Timeout, Continue
    <3> QED
      BY <1>5, <3>1 DEF BootInv, booted
  <2> QED
    BY <1>5, <2>1, <2>2
<1>6. CASE UNCHANGED bootVars
  BY <1>6 DEF BootInv, bootVars, booted, vars
<1> QED
  BY <1>1, <1>2, <1>3, <1>4, <1>5, <1>6 DEF BootNext

\* The rates main has chosen for each frequency a call may report.
LEMMA RatesFit ==
  ASSUME NEW mhz \in {4, 16} \union PllTargets
  PROVE  /\ (Reload(Hz(mhz), TicksPerSecond) + 1) * TicksPerSecond = Hz(mhz)
         /\ Near(Rate(Hz(mhz), Brr(Hz(mhz), Baud, FALSE), FALSE), Baud)
<1> USE DEF Reload, Hz, TicksPerSecond, Near, Rate, Brr, Usartdiv, Baud
<1>1. CASE mhz = 4
  BY SMT, <1>1
<1>2. CASE mhz = 16
  BY SMT, <1>2
<1>3. CASE mhz = 24
  BY SMT, <1>3
<1>4. CASE mhz = 32
  BY SMT, <1>4
<1>5. CASE mhz = 48
  BY SMT, <1>5
<1>6. CASE mhz = 64
  BY SMT, <1>6
<1>7. CASE mhz = 80
  BY SMT, <1>7
<1> QED
  BY <1>1, <1>2, <1>3, <1>4, <1>5, <1>6, <1>7 DEF PllTargets

\* When the first call succeeded, a tick is one millisecond of the clock in use and the
\* console's rate is one the other end can follow, whatever the target was.
\* (main: systick_init, uart_init, from get_system_clock_hz)
THEOREM RatesRight == BootSpec => []RatesAgree
<1>1. ClockInv /\ BootInv => RatesAgree
  BY RatesFit DEF ClockInv, Succeeded, BootInv, RatesAgree
<1>2. ClockInv /\ BootInv /\ [BootNext]_bootVars => BootInv'
  BY BootInvStep
<1> QED
  BY <1>1, <1>2, BootClock, BootInvInit, PTL DEF BootSpec
=============================================================================
