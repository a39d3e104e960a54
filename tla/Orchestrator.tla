---------------------------- MODULE Orchestrator ----------------------------
(***************************************************************************)
(* The time keeper and scenario controller (orchestrator/orchestrator.py,  *)
(* orchestrator/scenario.py).                                              *)
(*                                                                         *)
(* One asyncio event loop runs the main loop of Orchestrator.run, the NATS *)
(* callback _on_command and the HTTP handlers.  A coroutine runs without   *)
(* interruption from one await to the next, so every step below is the     *)
(* code between two awaits, and a command may arrive at each of them.  A   *)
(* publish takes effect when it is called: only what follows it can be     *)
(* delayed.                                                                *)
(*                                                                         *)
(* Time is counted in integers: wall time times time_scale is simulated    *)
(* time.  With a unit of 5 ms for both, Interval = 20 is the 100 ms of the *)
(* loop, Window = 2 the 0.01 s of check_faults and rate 1 a time_scale of  *)
(* 1.0; with a wall unit of 100 ms (Interval = 1) and a simulated unit of  *)
(* 5 ms, rate 1 is a time_scale of 0.05.                                   *)
(***************************************************************************)
EXTENDS Integers, FiniteSets

CONSTANTS
  Scenarios,    \* the scenario files that can be loaded
  Names,        \* the paths and ids a request may hold; some name no file
  Default,      \* DEFAULT_SCENARIO_PATH
  Duration,     \* duration_sec of each scenario
  InitialRate,  \* time_scale of each scenario
  FaultTime,    \* per scenario, time_sec of each entry of its fault list
  Rates,        \* the time scales a scenario or a request may ask for
  Window,       \* the 0.01 s of check_faults
  Interval,     \* TICK_INTERVAL_S
  MaxLag,       \* bound: wall time between two iterations of the loop
  MaxTicks,     \* bound: tick numbers
  MaxCommands   \* bound: number of requests in a behaviour

ASSUME OrchestratorConstants ==
  /\ Scenarios \subseteq Names /\ Default \in Scenarios
  /\ Duration \in [Scenarios -> Int]
  /\ Rates \subseteq Int /\ InitialRate \in [Scenarios -> Rates]
  /\ \A s \in Scenarios : \A i \in DOMAIN FaultTime[s] :
        i \in Int /\ FaultTime[s][i] \in Int
  /\ Window \in Nat \ {0} /\ Interval \in Nat /\ MaxLag \in Nat
  /\ MaxTicks \in Nat /\ MaxCommands \in Nat

VARIABLES
  scenario, sim_time, tick_number, time_scale, paused, running,
  pc,        \* where the main loop is suspended
  due,       \* the rest of the list check_faults returned to this tick
  lag,       \* wall time since _last_wall
  age,       \* wall time since this iteration of the loop began
  \* History, read by the properties only:
  runLag,    \* the part of age during which paused was False
  fired,     \* faults of the loaded scenario published since it was loaded
  leaped,    \* its faults whose whole window one tick has stepped over
  stale,     \* a scenario was loaded since check_faults was called
  resumed,   \* a RESUME was handled since the scenario last completed
  asked,     \* the name the last accepted load request gave, "none" at first
  commands   \* requests handled so far

clock == <<lag, age, runLag>>
control == <<scenario, sim_time, tick_number, time_scale, paused, running>>
vars ==
  <<control, pc, due, clock, fired, leaped, stale, resumed, asked, commands>>

Abs(n) == IF n < 0 THEN -n ELSE n

------------------------------------------------------------------------------
(* check_faults: the entries whose time is closer than Window to sim_time. *)
\* Mutants: the first takes whatever is already past, the second takes the
\* window to begin at the fault's time.
DueLate(s, t) == {i \in DOMAIN FaultTime[s] : t >= FaultTime[s][i]}
DueForward(s, t) ==
  {i \in DOMAIN FaultTime[s] : 0 <= t - FaultTime[s][i] /\ t - FaultTime[s][i] < Window}
Due(s, t) == {i \in DOMAIN FaultTime[s] : Abs(t - FaultTime[s][i]) < Window}

\* Has the loaded scenario run its time?  Mutant: only an exact hit counts.
CompleteExact == sim_time = Duration[scenario]
Complete == sim_time >= Duration[scenario]

(* For the history: the entries whose whole window lies between two times. *)
SteppedOver(s, from, to) ==
  {i \in DOMAIN FaultTime[s] :
     from <= FaultTime[s][i] - Window /\ FaultTime[s][i] + Window <= to}

(* The while loop is about to run its body: right after the setup, or when *)
(* asyncio.sleep has returned, an interval after the iteration began.      *)
AtLoopHead == pc = "setup" \/ (pc = "sleep" /\ age >= Interval)

(* now - self._last_wall; run() sets _last_wall just before the loop.      *)
WallElapsed == IF pc = "setup" THEN 0 ELSE lag

\* Mutant: _last_wall is not moved when an iteration begins.
RestartForgets == lag' = lag /\ age' = 0 /\ runLag' = 0
RestartClock == lag' = 0 /\ age' = 0 /\ runLag' = 0

(* The tick: time advances and orchestrator.tick is published.             *)
Tick ==
  /\ AtLoopHead /\ running /\ ~paused /\ tick_number < MaxTicks
  /\ sim_time' = sim_time + WallElapsed * time_scale
  /\ tick_number' = tick_number + 1
  /\ pc' = "tickSent"
  /\ leaped' = leaped \cup SteppedOver(scenario, sim_time, sim_time')
  /\ RestartClock
  /\ UNCHANGED <<scenario, time_scale, paused, running, due, fired, stale,
                 resumed, asked, commands>>

\* Mutant: running is not looked at while the simulation is paused.
IdleIterationDeaf ==
  /\ AtLoopHead /\ paused
  /\ pc' = "sleep"
  /\ RestartClock
  /\ UNCHANGED <<control, due, fired, leaped, stale, resumed, asked, commands>>

(* An iteration with paused set goes straight to asyncio.sleep.            *)
IdleIteration ==
  /\ AtLoopHead /\ running /\ paused
  /\ pc' = "sleep"
  /\ RestartClock
  /\ UNCHANGED <<control, due, fired, leaped, stale, resumed, asked, commands>>

(* The condition of the while loop is false; run() and the process end.    *)
LeaveLoop ==
  /\ AtLoopHead /\ ~running
  /\ pc' = "exited"
  /\ UNCHANGED <<control, due, clock, fired, leaped, stale, resumed, asked, commands>>

(* orchestrator.status is published; its fields are those of this moment.  *)
PublishStatus ==
  /\ pc = "tickSent"
  /\ pc' = "statusSent"
  /\ UNCHANGED <<control, due, clock, fired, leaped, stale, resumed, asked, commands>>

(* The body of the for loop over the faults: publish the first one of the  *)
(* list, or, when there is none left, end the tick.                        *)
InjectFrom(list, isStale) ==
  \/ \E i \in list :
       /\ \A j \in list : i <= j
       /\ due' = list \ {i}
       /\ fired' = IF isStale THEN fired ELSE fired \cup {i}
       /\ pc' = "injecting"
       /\ UNCHANGED <<paused, resumed>>
  \/ /\ list = {}
     /\ due' = {}
     /\ paused' = (paused \/ Complete)
     /\ resumed' = (resumed /\ sim_time < Duration[scenario])
     /\ pc' = "sleep"
     /\ UNCHANGED fired

CheckFaults ==
  /\ pc = "statusSent"
  /\ InjectFrom(Due(scenario, sim_time), FALSE)
  /\ stale' = FALSE
  /\ UNCHANGED <<scenario, sim_time, tick_number, time_scale, running, clock,
                 leaped, asked, commands>>

NextFault ==
  /\ pc = "injecting"
  /\ InjectFrom(due, stale)
  /\ UNCHANGED <<scenario, sim_time, tick_number, time_scale, running, clock,
                 leaped, stale, asked, commands>>

(* A publish that raises ends run() and with it the process.               *)
PublishRaises ==
  /\ \/ AtLoopHead /\ running /\ ~paused
     \/ pc \in {"tickSent", "statusSent", "injecting"}
  /\ pc' = "exited"
  /\ UNCHANGED <<control, due, clock, fired, leaped, stale, resumed, asked, commands>>

(* Wall time passes while the loop is suspended.                           *)
Elapse ==
  /\ pc \notin {"setup", "exited"} /\ age < MaxLag
  /\ age' = age + 1
  /\ lag' = lag + 1
  /\ runLag' = IF paused THEN runLag ELSE runLag + 1
  /\ UNCHANGED <<control, pc, due, fired, leaped, stale, resumed, asked, commands>>

------------------------------------------------------------------------------
(* Requests: _on_command, and the HTTP handlers, which answer from the     *)
(* moment the server is up.                                                *)
Request ==
  /\ pc # "exited" /\ commands < MaxCommands
  /\ commands' = commands + 1

(* The file a load request names: only the key "path" is read.             *)
PathOf(key, name) == IF key = "path" THEN name ELSE Default

(* _load_scenario; the announcement is published in the same step.         *)
Load(key, name) ==
  LET s == PathOf(key, name) IN
  /\ Request
  /\ s \in Scenarios
  /\ scenario' = s /\ sim_time' = 0 /\ tick_number' = 0
  /\ time_scale' = InitialRate[s] /\ paused' = TRUE
  /\ fired' = {} /\ leaped' = {} /\ stale' = TRUE /\ resumed' = FALSE
  /\ asked' = name
  /\ UNCHANGED <<running, pc, due, clock>>

(* Scenario.load raises when there is no such file; nothing has changed.   *)
LoadRaises(key, name) ==
  /\ Request
  /\ PathOf(key, name) \notin Scenarios
  /\ UNCHANGED <<control, pc, due, clock, fired, leaped, stale, resumed, asked>>

SetTimeScale(rate) ==
  /\ Request
  /\ time_scale' = rate
  /\ UNCHANGED <<scenario, sim_time, tick_number, paused, running, pc, due,
                 clock, fired, leaped, stale, resumed, asked>>

Pause ==
  /\ Request
  /\ paused' = TRUE
  /\ UNCHANGED <<scenario, sim_time, tick_number, time_scale, running, pc, due,
                 clock, fired, leaped, stale, resumed, asked>>

\* Mutant: the wall clock is not restarted.
ResumeKeepsClock ==
  /\ Request
  /\ paused' = FALSE
  /\ resumed' = TRUE
  /\ UNCHANGED <<scenario, sim_time, tick_number, time_scale, running, pc, due,
                 clock, fired, leaped, stale, asked>>

Resume ==
  /\ Request
  /\ paused' = FALSE /\ lag' = 0
  /\ resumed' = TRUE
  /\ UNCHANGED <<scenario, sim_time, tick_number, time_scale, running, pc, due,
                 age, runLag, fired, leaped, stale, asked>>

(* STOP exists on NATS only, and NATS is subscribed to last.               *)
Stop ==
  /\ Request
  /\ pc # "setup"
  /\ running' = FALSE
  /\ UNCHANGED <<scenario, sim_time, tick_number, time_scale, paused, pc, due,
                 clock, fired, leaped, stale, resumed, asked>>

------------------------------------------------------------------------------
(* run() has loaded the default scenario and is setting up HTTP and NATS.  *)
Init ==
  /\ scenario = Default /\ sim_time = 0 /\ tick_number = 0
  /\ time_scale = InitialRate[Default] /\ paused = TRUE /\ running = TRUE
  /\ pc = "setup" /\ due = {}
  /\ lag = 0 /\ age = 0 /\ runLag = 0
  /\ fired = {} /\ leaped = {} /\ stale = FALSE /\ resumed = FALSE
  /\ asked = "none" /\ commands = 0

Loop == Tick \/ IdleIteration \/ LeaveLoop \/ PublishStatus \/ CheckFaults \/ NextFault

Command ==
  \/ \E key \in {"path", "scenario_id"}, name \in Names :
        Load(key, name) \/ LoadRaises(key, name)
  \/ \E rate \in Rates : SetTimeScale(rate)
  \/ Pause \/ Resume \/ Stop

Next == Loop \/ Elapse \/ PublishRaises \/ Command

Spec == Init /\ [][Next]_vars

(* The event loop keeps running ready coroutines and wall time passes.     *)
FairSpec == Spec /\ WF_vars(Loop) /\ WF_vars(Elapse)

------------------------------------------------------------------------------
(* The types of the variables; the clock of the next tick is not ahead of  *)
(* the iteration, nor is the part of it that was not paused (_last_wall,   *)
(* sim_time).                                                              *)
TypeOK ==
  /\ scenario \in Scenarios /\ sim_time \in Int /\ tick_number \in Nat
  /\ time_scale \in Rates /\ paused \in BOOLEAN /\ running \in BOOLEAN
  /\ pc \in {"setup", "tickSent", "statusSent", "injecting", "sleep", "exited"}
  /\ due \subseteq Int /\ fired \subseteq Int /\ leaped \subseteq Int
  /\ lag \in 0..MaxLag /\ age \in 0..MaxLag /\ runLag \in 0..MaxLag
  /\ lag <= age /\ runLag <= age
  /\ stale \in BOOLEAN /\ resumed \in BOOLEAN
  /\ commands \in 0..MaxCommands

(* The wall time the next tick will turn into simulated time is time that  *)
(* passed with the simulation running: a pause of any length, taken at any *)
(* await, adds nothing (the reset of _last_wall in RESUME).                *)
PausedTimeNeverSimulated == ~paused => lag <= runLag

(* At whatever rate and however late the ticks are, a fault of the loaded  *)
(* scenario goes unpublished only if one tick stepped over its whole       *)
(* window: between ticks, every fault whose window simulated time has      *)
(* entered from before has been published, or was stepped over, whatever   *)
(* was loaded, paused or resumed in the middle of a tick.  (A fault        *)
(* earlier than Window after the start has no window entirely after it.)   *)
OnlyLeapsSkipFaults ==
  pc \in {"setup", "sleep"} =>
    \A i \in DOMAIN FaultTime[scenario] :
       FaultTime[scenario][i] >= Window =>
         i \in fired \cup leaped \/ sim_time <= FaultTime[scenario][i] - Window

(* docs/ARCHITECTURE.md:41: faults are executed at specified sim times.    *)
(* Between ticks no fault that is Window or more in the past is unpublished. *)
FaultsExecuted ==
  pc = "sleep" =>
    \A i \in DOMAIN FaultTime[scenario] :
       i \in fired \/ sim_time < FaultTime[scenario][i] + Window

(* The faults still to be published in a tick are near the time they will  *)
(* be stamped with (self.sim_time is read again at each publish), unless a *)
(* scenario was loaded in between.                                         *)
FaultsPublishedOnTime ==
  pc = "injecting" /\ ~stale =>
    \A i \in due : /\ i \in DOMAIN FaultTime[scenario]
                   /\ Abs(sim_time - FaultTime[scenario][i]) < Window

(* A scenario past its duration is not running between ticks unless it was *)
(* resumed after it completed.                                             *)
CompletedNeedsResume ==
  pc = "sleep" /\ ~paused /\ sim_time >= Duration[scenario] => resumed

(* docs/SCENARIOS.md:30: the load request names the scenario.              *)
LoadsTheNamedScenario == asked # "none" => scenario = asked

(* A running simulation comes to an end by itself: its scenario completes  *)
(* and pauses it (rates are positive and requests finitely many).          *)
EveryRunEnds == ~paused ~> (paused \/ pc = "exited")

(* STOP ends the process wherever the loop was when it came.               *)
StopEnds == ~running ~> pc = "exited"
==============================================================================
