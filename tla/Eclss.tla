-------------------------------- MODULE Eclss --------------------------------
(***************************************************************************)
(* Environmental control and life support (subsystems/eclss/): the cabin,  *)
(* the oxygen generator, the CO2 scrubber with its two beds, and faults.   *)
(*                                                                         *)
(* Partial pressures are integers in a unit of the instance; what a tick   *)
(* adds or removes is a constant of that unit, because the mass of air     *)
(* cancels out of CabinAtmosphere.update.  The pressure of the cabin has a *)
(* coarser unit, of O2PerPressure of those.  Temperature does not change,  *)
(* humidity and the water recovered influence nothing else; they are left  *)
(* out.                                                                    *)
(***************************************************************************)
EXTENDS Bus, FiniteSetsExt

CONSTANTS
  O2Start, O2Low,             \* partial pressures: at first, and 21.0 kPa
  O2Consumed, O2Produced,     \* per tick, by the crew and by the generator
  Co2Start, Co2High,          \* at first, and the 0.4 kPa to scrub from
  Co2Exhaled, ScrubGain,      \* per tick; removed is in proportion to the share
  PressureStart, LeakRates,   \* at first, and what leaks in a tick
  O2PerPressure,              \* units of O2 in a unit of the cabin's pressure
  RegenerationTicks,          \* CDRA_REGENERATION_INTERVAL_S
  Co2Max,                     \* bound: CO2 is not counted beyond
  LowestPressure              \* bound: a leak is not followed further down

VARIABLES
  o2, co2, pressure,
  bed, sinceSwitch,           \* _active_bed, _time_since_regeneration
  failed,                     \* the faults of devices that are set
  leak,                       \* cabin_leak_rate_kpa_s
  outage                      \* history: O2 has not been up to O2Low since the
                              \* generator failed or the cabin leaked

cabin == <<o2, co2, pressure>>
eclssVars == <<cabin, bed, sinceSwitch, failed, leak, outage>>

Devices == {"o2_gen_fault", "co2_scrub_fault", "water_recovery_fault"}
FaultTypes == Devices \cup {"cabin_leak"}

ASSUME EclssConstants ==
  /\ O2Start \in Int /\ O2Low \in Int /\ O2Consumed \in Nat /\ O2Produced \in Nat
  /\ O2Start >= O2Low /\ O2Produced >= O2Consumed
  /\ Co2Start \in Int /\ Co2High \in Int /\ Co2Exhaled \in Nat /\ ScrubGain \in Nat
  /\ O2PerPressure \in Nat /\ PressureStart \in Int /\ LeakRates \subseteq Nat \ {0}
  /\ RegenerationTicks \in Nat /\ Co2Max \in Int /\ LowestPressure \in Int

------------------------------------------------------------------------------
(* The generator runs below O2Low.                                         *)
\* Mutant: any fault stops it.
ProducedIfWell == IF failed = {} /\ o2 < O2Low THEN O2Produced ELSE 0
\* Mutant: it gives up when the pressure is far below.
ProducedNearby ==
  IF "o2_gen_fault" \notin failed /\ o2 < O2Low /\ o2 >= O2Low - O2Consumed
  THEN O2Produced ELSE 0
Produced == IF "o2_gen_fault" \notin failed /\ o2 < O2Low THEN O2Produced ELSE 0

(* The scrubber removes in proportion to the share of CO2 in the air, and  *)
(* nothing when that is negative.                                          *)
Scrubbing == "co2_scrub_fault" \notin failed /\ co2 > Co2High
Removed == IF Scrubbing /\ pressure > 0 THEN (ScrubGain * co2) \div pressure ELSE 0

(* The bed is switched after it has scrubbed for the interval.             *)
SwitchBed ==
  IF ~Scrubbing THEN UNCHANGED <<bed, sinceSwitch>>
  ELSE IF sinceSwitch + 1 >= RegenerationTicks
       THEN bed' = 1 - bed /\ sinceSwitch' = 0
       ELSE sinceSwitch' = sinceSwitch + 1 /\ UNCHANGED bed

(* The share a gas has of the air is kept when the pressure drops from     *)
(* pressure to p.                                                          *)
Leaked(partial, p) ==
  IF p = pressure THEN partial
  ELSE IF pressure > 0 THEN (partial * p) \div pressure
  ELSE (partial * (-p)) \div (-pressure)

(* CabinAtmosphere.update: there is no less O2 than 1 % of the air had.    *)
UpdateCabin ==
  LET p == pressure - leak IN
  /\ pressure' = p
  /\ o2' = Leaked(Max({o2 + Produced - O2Consumed,
                        (pressure * O2PerPressure) \div 100}), p)
  /\ co2' = Min({Leaked(Max({co2 + Co2Exhaled - Removed, 0}), p), Co2Max})

(* _on_tick.  At a pressure of 0 the step divides by zero.  Otherwise it   *)
(* changes the cabin, and then json.dumps fails on the ECLSSFaults object  *)
(* in the state: telemetry.eclss.state is never published.                 *)
EclssTick ==
  /\ Waiting(<<"eclss", "tick">>)
  /\ queue' = Taken(queue, <<"eclss", "tick">>)
  /\ HandlesTick("eclss", {})
  /\ IF pressure = 0 THEN UNCHANGED <<cabin, bed, sinceSwitch>>
     ELSE pressure - leak >= LowestPressure /\ UpdateCabin /\ SwitchBed
  /\ outage' = ((outage /\ o2' < O2Low) \/ "o2_gen_fault" \in failed \/ leak > 0)
  /\ UNCHANGED <<deployed, events, failed, leak>>

------------------------------------------------------------------------------
(* _inject_fault; any other type, or none, does nothing.                   *)
InjectFault(type, rate) ==
  /\ failed' = failed \cup (Devices \cap {type})
  /\ leak' = IF type = "cabin_leak" THEN rate ELSE leak

(* _clear_fault; any other type, or none, clears all faults.               *)
ClearFault(type) ==
  /\ failed' = CASE type \in Devices -> failed \ {type}
                 [] type = "cabin_leak" -> failed
                 [] OTHER -> {}
  /\ leak' = IF type \in Devices THEN leak ELSE 0

(* _on_uplink.                                                             *)
EclssCommand ==
  LET m == Head(queue[<<"eclss", "uplink">>]) IN
  /\ Waiting(<<"eclss", "uplink">>)
  /\ queue' = Taken(queue, <<"eclss", "uplink">>)
  /\ \/ /\ m.target \in {"eclss", "all"} /\ m.opcode = "SET_FAULT"
        /\ \E rate \in LeakRates : InjectFault(m.type, rate)
     \/ /\ m.target \in {"eclss", "all"} /\ m.opcode = "CLEAR_FAULT"
        /\ ClearFault(m.type)
     \/ /\ m.target \in {"eclss", "all"} => m.opcode \notin {"SET_FAULT", "CLEAR_FAULT"}
        /\ UNCHANGED <<failed, leak>>
  /\ outage' = (outage \/ "o2_gen_fault" \in failed' \/ leak' > 0)
  /\ UNCHANGED <<deployed, events, history, cabin, bed, sinceSwitch>>

EclssInit ==
  /\ o2 = O2Start /\ co2 = Co2Start /\ pressure = PressureStart
  /\ bed = 0 /\ sinceSwitch = 0
  /\ failed = {} /\ leak = 0 /\ outage = FALSE

EclssNext == EclssTick \/ EclssCommand
==============================================================================
