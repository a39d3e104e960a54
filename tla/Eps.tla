-------------------------------- MODULE Eps ---------------------------------
(***************************************************************************)
(* The electrical power simulator (eps/simulator.go, distribution.go,      *)
(* battery.go, solar.go).                                                  *)
(*                                                                         *)
(* Its two subscriptions, orchestrator.tick and command.uplink, each have  *)
(* a goroutine; handleTick and handleCommand hold e.mu from beginning to   *)
(* end, the request for the state of the dynamics included, so each is one *)
(* step.  Power is in units coarser than the limits on the rate of the     *)
(* battery (2.2 W and 3.6 W): every surplus or deficit is at the limit.    *)
(* Of the charge only the rates and the threshold of one half matter.      *)
(***************************************************************************)
EXTENDS Integers, Sequences, SequencesExt, FiniteSets, FiniteSetsExt

CONSTANTS
  Names,        \* loads a POWER_ON or POWER_OFF may name
  InitialLoads, \* the loads of NewEPSSimulator
  MaxPower,     \* Bus.MaxPower
  OnPower, OnPriority,   \* what POWER_ON gives a load: 500 W and 5
  PanelCount,   \* Solar.PanelCount
  PanelIds,     \* ids a solar_array_failure may name, some of no panel
  PanelPower,   \* what a panel in the sun supplies
  Suns,         \* in_sun of the answers; no answer is FALSE
  Full, InitialCharge, ChargeStep, DischargeStep,   \* the battery
  MaxCommands   \* bound: commands

Load == [name : Names, power : Nat, priority : Nat, active : BOOLEAN]

ASSUME EpsConstants ==
  /\ InitialLoads \in Seq(Load)
  /\ \A i, j \in DOMAIN InitialLoads : InitialLoads[i].name = InitialLoads[j].name => i = j
  /\ {MaxPower, OnPower, OnPriority, PanelPower, MaxCommands} \subseteq Nat
  /\ PanelCount \in Nat \ {0} /\ PanelIds \subseteq Int /\ Suns \subseteq BOOLEAN
  /\ {ChargeStep, DischargeStep, Full} \subseteq Nat \ {0} /\ InitialCharge \in 0..Full

VARIABLES
  loads,         \* Bus.Loads, in the order of the slice
  shedding,      \* State.Shedding
  soc,           \* Batteries[0].SOC
  panels,        \* Faults.PanelFailures
  batteryFailed, \* Faults.BatteryFailed
  telemetry,     \* the last telemetry.eps.state
  commands       \* counter for the bound

vars == <<loads, shedding, soc, panels, batteryFailed, telemetry, commands>>

------------------------------------------------------------------------------
(* The distribution bus.                                                   *)
Active(ls) == {i \in DOMAIN ls : ls[i].active}
Drawn(ls) == [i \in DOMAIN ls |-> IF ls[i].active THEN ls[i].power ELSE 0]

(* A sum as the loop makes it, one element after the other from the first. *)
SumOf(w) ==
  LET total[k \in 0..Len(w)] == IF k = 0 THEN 0 ELSE total[k-1] + w[k]
  IN  total[Len(w)]

ComputeTotalLoad(ls) == SumOf(Drawn(ls))
PositionOf(ls, name) == {i \in DOMAIN ls : ls[i].name = name}

\* Mutant: the name is not looked up.
AddLoadAgain(ls, name, power, priority) ==
  Append(ls, [name |-> name, power |-> power, priority |-> priority, active |-> TRUE])

(* A load of that name is changed where it is, and switched on.            *)
AddLoad(ls, name, power, priority) ==
  LET new == [name |-> name, power |-> power, priority |-> priority, active |-> TRUE]
  IN  IF PositionOf(ls, name) = {}
        THEN Append(ls, new)
        ELSE [ls EXCEPT ![Min(PositionOf(ls, name))] = new]

RemoveLoad(ls, name) ==
  IF PositionOf(ls, name) = {} THEN ls ELSE RemoveAt(ls, Min(PositionOf(ls, name)))

(* sort.SliceStable: ls in the order of key, loads of one key as they were. *)
SliceStable(ls, key) ==
  LET Before(i, j) == key[i] < key[j] \/ (key[i] = key[j] /\ i < j)
      Rank(i) == 1 + Cardinality({j \in DOMAIN ls : Before(j, i)})
  IN  [k \in DOMAIN ls |-> ls[CHOOSE i \in DOMAIN ls : Rank(i) = k]]

Falling(ls) == SliceStable(ls, [i \in DOMAIN ls |-> -ls[i].priority])
Rising(ls) == SliceStable(ls, [i \in DOMAIN ls |-> ls[i].priority])

\* Mutant: the load with the highest number goes first.
GoesAfter(ls, i, j) ==
  ls[i].priority > ls[j].priority \/ (ls[i].priority = ls[j].priority /\ i < j)

(* The load with the lowest number goes first, then the first of those.    *)
GoesBefore(ls, i, j) ==
  ls[i].priority < ls[j].priority \/ (ls[i].priority = ls[j].priority /\ i < j)

\* Mutant: one load is switched off, enough or not.
ShedOne(ls) ==
  LET s == Falling(ls) IN
  [i \in DOMAIN s |-> [s[i] EXCEPT !.active =
     @ /\ (ComputeTotalLoad(s) > MaxPower => \E j \in Active(s) : GoesBefore(s, j, i))]]

(* The power of load i and of the active ones that go after it.            *)
TotalFrom(ls, i) ==
  SumOf([j \in DOMAIN ls |-> IF GoesBefore(ls, j, i) THEN 0 ELSE Drawn(ls)[j]])

(* One load after the other is switched off while the active ones are over *)
(* the limit: a load stays on when those that go after it, and it, are not.*)
ShedLoad(ls) ==
  LET s == Falling(ls) IN
  [i \in DOMAIN s |-> [s[i] EXCEPT !.active = @ /\ TotalFrom(s, i) <= MaxPower]]

UpTo(ls, k) == [i \in DOMAIN ls |-> [ls[i] EXCEPT !.active = @ \/ i <= k]]

\* Mutant: the limit is not checked.
RestoreAll(ls) == UpTo(Rising(ls), Len(ls))

\* Mutant: a load that fits exactly is refused.
RestoreBelow(ls) ==
  LET s == Rising(ls)
      Fits(k) == s[k].active \/ ComputeTotalLoad(UpTo(s, k)) < MaxPower
  IN  UpTo(s, Max({k \in 0..Len(s) : \A j \in 1..k : Fits(j)}))

(* Switch loads on, lowest number first, up to the first that does not fit.*)
RestoreLoad(ls) ==
  LET s == Rising(ls)
      Fits(k) == s[k].active \/ ComputeTotalLoad(UpTo(s, k)) <= MaxPower
  IN  UpTo(s, Max({k \in 0..Len(s) : \A j \in 1..k : Fits(j)}))

------------------------------------------------------------------------------
(* Supply.                                                                 *)

(* Ids of no panel are in the list and are not counted.                    *)
FailedCount == Len(panels) - Cardinality({i \in DOMAIN panels : panels[i] \notin 0..PanelCount - 1})

SolarPower(inSun) == IF inSun THEN PanelPower * (PanelCount - FailedCount) ELSE 0

Half == Full \div 2
Charge == Min({soc + ChargeStep, Full})
Discharge == Max({soc - DischargeStep, 0})

(* A failed battery is forced down by 0.05 of its capacity in Wh, which is *)
(* taken from a charge between 0 and 1: it is empty at once.               *)
ForceDischarge == 0

Supply(solar, total) ==
  CASE batteryFailed              -> ForceDischarge
    [] ~batteryFailed /\ solar > total -> Charge
    [] ~batteryFailed /\ solar < total -> Discharge
    [] ~batteryFailed /\ solar = total -> soc

------------------------------------------------------------------------------
(* handleTick.                                                             *)
Overloaded ==
  /\ ComputeTotalLoad(loads) > MaxPower
  /\ shedding' = TRUE
  /\ loads' = ShedLoad(loads)

\* Mutant: shedding is over when every load is on again.
RecoversFully ==
  /\ ComputeTotalLoad(loads) <= MaxPower /\ shedding /\ soc' > Half
  /\ loads' = RestoreLoad(loads)
  /\ shedding' = (Active(loads') # DOMAIN loads')

(* The charge is more than a half: shedding is over when there is power to *)
(* spare, whether or not every load is on again.                           *)
Recovers ==
  /\ ComputeTotalLoad(loads) <= MaxPower /\ shedding /\ soc' > Half
  /\ loads' = RestoreLoad(loads)
  /\ shedding' = (ComputeTotalLoad(loads') >= MaxPower)

Steady ==
  /\ ComputeTotalLoad(loads) <= MaxPower /\ ~(shedding /\ soc' > Half)
  /\ UNCHANGED <<loads, shedding>>

Tick(inSun) ==
  LET solar == SolarPower(inSun) IN
  /\ soc' = Supply(solar, ComputeTotalLoad(loads))
  /\ Overloaded \/ Recovers \/ Steady
  /\ telemetry' = [inSun |-> inSun, solar |-> solar, total |-> ComputeTotalLoad(loads'),
                   shedding |-> shedding', failures |-> panels]
  /\ UNCHANGED <<panels, batteryFailed, commands>>

------------------------------------------------------------------------------
(* handleCommand: a command for this subsystem that can be parsed.         *)
Command == commands < MaxCommands /\ commands' = commands + 1 /\ UNCHANGED <<soc, telemetry>>

PowerOn(name) ==
  /\ Command
  /\ loads' = AddLoad(loads, name, OnPower, OnPriority)
  /\ UNCHANGED <<shedding, panels, batteryFailed>>

PowerOff(name) ==
  /\ Command
  /\ loads' = RemoveLoad(loads, name)
  /\ UNCHANGED <<shedding, panels, batteryFailed>>

(* The flag is set also when nothing has to be switched off.               *)
ShedCommand ==
  /\ Command
  /\ loads' = ShedLoad(loads)
  /\ shedding' = TRUE
  /\ UNCHANGED <<panels, batteryFailed>>

\* Mutant: a panel can fail twice.
PanelFailsAgain(id) ==
  /\ Command
  /\ panels' = Append(panels, id)
  /\ UNCHANGED <<loads, shedding, batteryFailed>>

PanelFails(id) ==
  /\ Command
  /\ panels' = IF id \in ToSet(panels) THEN panels ELSE Append(panels, id)
  /\ UNCHANGED <<loads, shedding, batteryFailed>>

BatteryFails ==
  /\ Command
  /\ batteryFailed' = TRUE
  /\ UNCHANGED <<loads, shedding, panels>>

PanelsCleared ==
  /\ Command
  /\ panels' = <<>>
  /\ UNCHANGED <<loads, shedding, batteryFailed>>

BatteryCleared ==
  /\ Command
  /\ batteryFailed' = FALSE
  /\ UNCHANGED <<loads, shedding, panels>>

(* Any other type clears everything, the empty one included.               *)
AllCleared ==
  /\ Command
  /\ panels' = <<>> /\ batteryFailed' = FALSE
  /\ UNCHANGED <<loads, shedding>>

HandleCommand ==
  \/ \E name \in Names : PowerOn(name) \/ PowerOff(name)
  \/ ShedCommand
  \/ \E id \in PanelIds : PanelFails(id)
  \/ BatteryFails \/ PanelsCleared \/ BatteryCleared \/ AllCleared

HandleTick == \E inSun \in Suns : Tick(inSun)

Init ==
  /\ loads = InitialLoads /\ shedding = FALSE /\ soc = InitialCharge
  /\ panels = <<>> /\ batteryFailed = FALSE /\ commands = 0
  /\ telemetry = [inSun |-> FALSE, solar |-> 0, total |-> 0, shedding |-> FALSE,
                  failures |-> <<>>]

Next == HandleTick \/ HandleCommand

Spec == Init /\ [][Next]_vars

(* The ticks go on.                                                        *)
FairSpec == Spec /\ WF_vars(HandleTick)

------------------------------------------------------------------------------
(* The types of the variables; no two loads have the same name, so that    *)
(* POWER_OFF removes what POWER_ON added, and no panel is listed twice.    *)
TypeOK ==
  /\ loads \in Seq(Load) /\ IsInjective([i \in DOMAIN loads |-> loads[i].name])
  /\ shedding \in BOOLEAN /\ batteryFailed \in BOOLEAN
  /\ soc \in 0..Full
  /\ panels \in Seq(PanelIds) /\ IsInjective(panels)
  /\ telemetry \in [inSun : BOOLEAN, solar : Int, total : Nat, shedding : BOOLEAN,
                    failures : Seq(PanelIds)]

(* Every state published after a tick is within the power of the bus,      *)
(* whatever was switched on since the last one.                            *)
PublishedWithinLimit == telemetry.total <= MaxPower

(* The solar power published is that of the panels that are well, after    *)
(* any sequence of failures and repairs, of panels that exist or not.      *)
SolarPowerOfWellPanels ==
  telemetry.inSun =>
    telemetry.solar = PanelPower * Cardinality({p \in 0..PanelCount - 1 :
                                                  p \notin ToSet(telemetry.failures)})

ActiveNames(ls) == {ls[i].name : i \in Active(ls)}
WithName(ls, name) == ls[Min(PositionOf(ls, name))]

(* No more is shed than needed: of the loads a step switches off, none has *)
(* a higher number than one left on, and with the last of them the others  *)
(* would still be over the limit.                                          *)
ShedsInOrder ==
  [][LET off == {n \in ActiveNames(loads) \ ActiveNames(loads') : PositionOf(loads', n) # {}}
     IN  \A n \in off :
           /\ \A m \in ActiveNames(loads') :
                WithName(loads', n).priority <= WithName(loads', m).priority
           /\ (\A m \in off : WithName(loads', m).priority <= WithName(loads', n).priority)
                => \E m \in off :
                     /\ WithName(loads', m).priority = WithName(loads', n).priority
                     /\ ComputeTotalLoad(loads') + WithName(loads', m).power > MaxPower]_vars

(* The flag goes out only when no load can be switched on, in order, any   *)
(* more: the load with the lowest number that is off would not fit.        *)
ClearedWhenNextDoesNotFit ==
  [][shedding /\ ~shedding' =>
       LET off == DOMAIN loads' \ Active(loads') IN
       off # {} =>
         \E i \in off :
           /\ \A j \in off : loads'[i].priority <= loads'[j].priority
           /\ ComputeTotalLoad(loads') + loads'[i].power > MaxPower]_vars

AtLimit == ComputeTotalLoad(loads) = MaxPower
ChargeLow == soc <= Half

(* Shedding ends, unless the charge falls to a half or the loads that are  *)
(* on take exactly the power of the bus, when the flag stays.              *)
SheddingEnds == shedding ~> (~shedding \/ AtLimit \/ ChargeLow)

(* Once the commands end the loads settle: no load is switched on and off  *)
(* in turn, whatever the sun and the battery do.                           *)
NoThrashing == <>[][loads' = loads]_vars

(* What docs/SCENARIOS.md says of load_shed_test: a failure of the solar   *)
(* array leads to automatic load shedding.                                 *)
SolarFailureSheds ==
  (0..PanelCount - 1 \subseteq ToSet(panels))
    ~> (shedding \/ ~(0..PanelCount - 1 \subseteq ToSet(panels)))
==============================================================================
