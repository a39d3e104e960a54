------------------------- MODULE OrchestratorProofs -------------------------
(***************************************************************************)
(* Proofs about Orchestrator for every set of scenarios, every rate and    *)
(* every interval.                                                         *)
(***************************************************************************)
EXTENDS Orchestrator, TLAPS

(* The parts of the assumption on the constants that most steps need.      *)
LEMMA Bounds ==
  /\ Window \in Nat \ {0} /\ Interval \in Nat /\ MaxLag \in Nat
  /\ MaxTicks \in Nat /\ MaxCommands \in Nat
  /\ Rates \subseteq Int
  /\ Default \in Scenarios
  /\ \A s \in Scenarios : InitialRate[s] \in Rates
  BY OrchestratorConstants

(* check_faults returns entries of the fault list that was asked.          *)
LEMMA DueInList ==
  ASSUME NEW s \in Scenarios, NEW t \in Int
  PROVE  /\ Due(s, t) \subseteq DOMAIN FaultTime[s]
         /\ Due(s, t) \subseteq Int
  BY OrchestratorConstants DEF Due

LEMMA SteppedInList ==
  ASSUME NEW s \in Scenarios, NEW from, NEW to
  PROVE  SteppedOver(s, from, to) \subseteq Int
  BY OrchestratorConstants DEF SteppedOver

(* Every step of Next is one of these; the cases of each proof below.      *)
LEMMA Steps ==
  ASSUME NEW P, [Next]_vars,
         Tick => P, IdleIteration => P, LeaveLoop => P, PublishStatus => P,
         CheckFaults => P, NextFault => P, PublishRaises => P, Elapse => P,
         ASSUME NEW key, NEW name, Load(key, name) PROVE P,
         ASSUME NEW key, NEW name, LoadRaises(key, name) PROVE P,
         ASSUME NEW rate \in Rates, SetTimeScale(rate) PROVE P,
         Pause => P, Resume => P, Stop => P,
         UNCHANGED vars => P
  PROVE  P
  BY DEF Next, Loop, Command

------------------------------------------------------------------------------
(* Every variable stays in its type; in particular the wall time that will *)
(* be simulated never exceeds the time since the iteration began.          *)
THEOREM TypeCorrect == Spec => []TypeOK
<1>1. Init => TypeOK
  <2> SUFFICES ASSUME Init PROVE TypeOK
    OBVIOUS
  <2>1. scenario \in Scenarios /\ time_scale \in Rates
    BY Bounds DEF Init
  <2>2. /\ sim_time \in Int /\ tick_number \in Nat
        /\ lag \in 0..MaxLag /\ age \in 0..MaxLag /\ runLag \in 0..MaxLag
        /\ lag <= age /\ runLag <= age /\ commands \in 0..MaxCommands
    BY Bounds DEF Init
  <2>3. /\ paused \in BOOLEAN /\ running \in BOOLEAN /\ stale \in BOOLEAN
        /\ resumed \in BOOLEAN /\ pc = "setup" /\ due = {} /\ fired = {} /\ leaped = {}
    BY DEF Init
  <2> QED BY <2>1, <2>2, <2>3 DEF TypeOK
<1>2. TypeOK /\ [Next]_vars => TypeOK'
  <2> SUFFICES ASSUME TypeOK, [Next]_vars PROVE TypeOK'
    OBVIOUS
  <2> USE Bounds DEF TypeOK
  <2>1. Tick => TypeOK'
    <3> SUFFICES ASSUME Tick PROVE TypeOK'
      OBVIOUS
    <3>1. leaped' \subseteq Int
      BY SteppedInList DEF Tick
    <3>2. lag' = 0 /\ age' = 0 /\ runLag' = 0 /\ pc' = "tickSent"
      BY DEF Tick, RestartClock
    <3>3. sim_time' \in Int /\ tick_number' \in Nat
      BY DEF Tick, WallElapsed
    <3>4. UNCHANGED <<scenario, time_scale, paused, running, due, fired, stale,
                      resumed, commands>>
      BY DEF Tick
    <3> QED BY <3>1, <3>2, <3>3, <3>4
  <2>2. IdleIteration => TypeOK'
    BY DEF IdleIteration, RestartClock, control
  <2>3. LeaveLoop => TypeOK'
    BY DEF LeaveLoop, control, clock
  <2>4. PublishStatus => TypeOK'
    BY DEF PublishStatus, control, clock
  <2>5. ASSUME NEW list \in SUBSET Int, NEW b \in BOOLEAN, InjectFrom(list, b)
        PROVE  /\ due' \subseteq Int /\ fired' \subseteq Int
               /\ paused' \in BOOLEAN /\ resumed' \in BOOLEAN
               /\ pc' \in {"injecting", "sleep"}
    <3>1. CASE list = {}
      BY <2>5, <3>1 DEF InjectFrom, Complete
    <3>2. CASE list # {}
      BY <2>5, <3>2 DEF InjectFrom
    <3> QED BY <3>1, <3>2
  <2>6. CheckFaults => TypeOK'
    BY <2>5, DueInList DEF CheckFaults, clock
  <2>7. NextFault => TypeOK'
    BY <2>5 DEF NextFault, clock
  <2>8. PublishRaises => TypeOK'
    BY DEF PublishRaises, control, clock
  <2>9. Elapse => TypeOK'
    <3> SUFFICES ASSUME Elapse PROVE TypeOK'
      OBVIOUS
    <3>1. /\ lag' \in 0..MaxLag /\ age' \in 0..MaxLag /\ lag' <= age'
          /\ UNCHANGED <<control, pc, due, fired, leaped, stale, resumed, asked, commands>>
      BY DEF Elapse
    <3>2. runLag' \in 0..MaxLag /\ runLag' <= age'
      BY DEF Elapse
    <3> QED BY <3>1, <3>2 DEF control
  <2>r. Request => commands' \in 0..MaxCommands
    BY DEF Request
  <2>10. ASSUME NEW key, NEW name, Load(key, name) PROVE TypeOK'
    <3>1. /\ scenario' \in Scenarios /\ time_scale' \in Rates
          /\ sim_time' = 0 /\ tick_number' = 0 /\ fired' = {} /\ leaped' = {}
      BY <2>10 DEF Load
    <3>2. /\ paused' \in BOOLEAN /\ stale' \in BOOLEAN /\ resumed' \in BOOLEAN
          /\ UNCHANGED <<running, pc, due, lag, age, runLag>> /\ Request
      BY <2>10 DEF Load, clock
    <3> QED BY <3>1, <3>2, <2>r
  <2>11. ASSUME NEW key, NEW name, LoadRaises(key, name) PROVE TypeOK'
    <3>1. Request /\ UNCHANGED <<control, pc, due, clock, fired, leaped, stale, resumed, asked>>
      BY <2>11 DEF LoadRaises
    <3> QED BY <3>1, <2>r DEF control, clock
  <2>12. ASSUME NEW rate \in Rates, SetTimeScale(rate) PROVE TypeOK'
    BY <2>12, <2>r DEF SetTimeScale, clock
  <2>13. Pause => TypeOK'
    BY <2>r DEF Pause, clock
  <2>14. Resume => TypeOK'
    <3> SUFFICES ASSUME Resume PROVE TypeOK'
      OBVIOUS
    <3>1. /\ paused' \in BOOLEAN /\ resumed' \in BOOLEAN
          /\ UNCHANGED <<running, stale>>
      BY DEF Resume
    <3>2. lag' = 0 /\ UNCHANGED <<age, runLag>>
      BY DEF Resume
    <3>3. /\ UNCHANGED <<scenario, sim_time, tick_number, time_scale, pc, due, fired, leaped>>
          /\ Request
      BY DEF Resume
    <3> QED BY <3>1, <3>2, <3>3, <2>r
  <2>15. Stop => TypeOK'
    BY <2>r DEF Stop, clock
  <2>16. UNCHANGED vars => TypeOK'
    BY DEF vars, control, clock
  <2> QED
    BY <2>1, <2>2, <2>3, <2>4, <2>6, <2>7, <2>8, <2>9, <2>10, <2>11, <2>12,
       <2>13, <2>14, <2>15, <2>16, Steps
<1> QED BY <1>1, <1>2, PTL DEF Spec

------------------------------------------------------------------------------
(* Time spent paused is never simulated.  The property is inductive as it  *)
(* stands: both clocks grow together while the simulation runs, and the    *)
(* step that ends a pause sets lag to zero.                                *)
THEOREM PausedTimeNotSimulated == Spec => []PausedTimeNeverSimulated
<1>1. Init => PausedTimeNeverSimulated
  BY DEF Init, PausedTimeNeverSimulated
<1>2. TypeOK /\ PausedTimeNeverSimulated /\ [Next]_vars => PausedTimeNeverSimulated'
  <2> SUFFICES ASSUME TypeOK, PausedTimeNeverSimulated, [Next]_vars
               PROVE  PausedTimeNeverSimulated'
    OBVIOUS
  <2> USE DEF PausedTimeNeverSimulated
  <2>0. lag \in Int /\ runLag \in Int /\ 0 <= runLag
    BY DEF TypeOK
  <2>1. Tick => PausedTimeNeverSimulated'
    BY DEF Tick, RestartClock
  <2>2. IdleIteration => PausedTimeNeverSimulated'
    BY DEF IdleIteration, RestartClock
  <2>3. UNCHANGED <<paused, clock>> => PausedTimeNeverSimulated'
    BY DEF clock
  <2>4. ASSUME NEW list, NEW b, InjectFrom(list, b), UNCHANGED clock
        PROVE  PausedTimeNeverSimulated'
    BY <2>4 DEF InjectFrom, clock
  <2>5. Elapse => PausedTimeNeverSimulated'
    BY <2>0 DEF Elapse, control
  <2>6. ASSUME NEW key, NEW name, Load(key, name) PROVE PausedTimeNeverSimulated'
    BY <2>6 DEF Load
  <2>7. Resume => PausedTimeNeverSimulated'
    BY <2>0 DEF Resume
  <2>8. Pause => PausedTimeNeverSimulated'
    BY DEF Pause
  <2>9. LeaveLoop \/ PublishStatus \/ PublishRaises => UNCHANGED <<paused, clock>>
    BY DEF LeaveLoop, PublishStatus, PublishRaises, control
  <2>10. ASSUME NEW key, NEW name, LoadRaises(key, name)
         PROVE  UNCHANGED <<paused, clock>>
    BY <2>10 DEF LoadRaises, control
  <2>11. ASSUME NEW rate \in Rates, SetTimeScale(rate)
         PROVE  UNCHANGED <<paused, clock>>
    BY <2>11 DEF SetTimeScale
  <2>12. Stop => UNCHANGED <<paused, clock>>
    BY DEF Stop
  <2>13. UNCHANGED vars => UNCHANGED <<paused, clock>>
    BY DEF vars, control
  <2>14. CheckFaults \/ NextFault => PausedTimeNeverSimulated'
    BY <2>4 DEF CheckFaults, NextFault
  <2> QED
    BY <2>1, <2>2, <2>3, <2>5, <2>6, <2>7, <2>8, <2>9, <2>10, <2>11, <2>12,
       <2>13, <2>14, Steps
<1> QED BY <1>1, <1>2, TypeCorrect, PTL DEF Spec

------------------------------------------------------------------------------
(* What is known of fault i of the loaded scenario at each point of a      *)
(* tick.  Between ticks simulated time has not entered its window unless   *)
(* it was published or stepped over; once the tick has advanced the time   *)
(* it can be at most inside the window; while the list is being published  *)
(* it may still be in the list, and only there as long as no scenario was  *)
(* loaded meanwhile.                                                       *)
FaultState(i) ==
  LET f == FaultTime[scenario][i]
      done == fired \cup leaped IN
  f >= Window =>
    /\ pc \in {"setup", "sleep"} => i \in done \/ sim_time <= f - Window
    /\ pc \in {"tickSent", "statusSent"} => i \in done \/ sim_time < f + Window
    /\ pc = "injecting" =>
         i \in done \/ (~stale /\ i \in due) \/ sim_time <= f - Window

FaultInv == \A i \in DOMAIN FaultTime[scenario] : FaultState(i)

(* No fault is skipped but by a tick that steps over its whole window, for *)
(* every scenario, rate and lag, whatever is loaded, paused, resumed or    *)
(* rescaled in between.                                                    *)
THEOREM FaultsSkippedByLeapsOnly == Spec => []OnlyLeapsSkipFaults
<1>1. Init => FaultInv
  <2> SUFFICES ASSUME Init, NEW i \in DOMAIN FaultTime[scenario]
               PROVE  FaultState(i)
    BY DEF FaultInv
  <2>1. FaultTime[scenario][i] \in Int
    BY OrchestratorConstants DEF Init
  <2> QED BY <2>1, Bounds DEF Init, FaultState
<1>2. TypeOK /\ FaultInv /\ [Next]_vars => FaultInv'
  <2> SUFFICES ASSUME TypeOK, FaultInv, [Next]_vars PROVE FaultInv'
    OBVIOUS
  <2>t. \A s \in Scenarios : \A i \in DOMAIN FaultTime[s] :
           i \in Int /\ FaultTime[s][i] \in Int
    BY OrchestratorConstants
  <2>u. /\ scenario \in Scenarios /\ sim_time \in Int /\ Window \in Int
        /\ stale \in BOOLEAN
    BY Bounds DEF TypeOK
  <2>1. Tick => FaultInv'
    <3> SUFFICES ASSUME Tick, NEW i \in DOMAIN FaultTime[scenario]
                 PROVE  FaultState(i)'
      BY DEF Tick, FaultInv
    <3>1. PICK f \in Int : f = FaultTime[scenario][i]
      BY <2>t, <2>u
    <3>2. FaultState(i)
      BY DEF FaultInv
    <3>3. /\ pc \in {"setup", "sleep"} /\ pc' = "tickSent"
          /\ UNCHANGED <<scenario, fired, stale, due>>
          /\ leaped' = leaped \cup SteppedOver(scenario, sim_time, sim_time')
      BY DEF Tick, AtLoopHead
    <3>4. sim_time' \in Int
      BY Bounds DEF Tick, TypeOK, WallElapsed
    <3>5. CASE f >= Window /\ i \notin fired \cup leaped /\ sim_time' >= f + Window
      <4>1. sim_time <= f - Window
        BY <3>1, <3>2, <3>3, <3>5 DEF FaultState
      <4>2. i \in SteppedOver(scenario, sim_time, sim_time')
        BY <3>1, <3>4, <3>5, <4>1, <2>u DEF SteppedOver
      <4> QED BY <3>3, <4>2 DEF FaultState
    <3>6. CASE ~(f >= Window /\ i \notin fired \cup leaped /\ sim_time' >= f + Window)
      BY <3>1, <3>3, <3>4, <3>6, <2>u DEF FaultState
    <3> QED BY <3>5, <3>6
  <2>2. ASSUME UNCHANGED <<scenario, sim_time, fired, leaped, stale, due>>,
               \/ pc' = pc
               \/ pc' = "exited"
               \/ pc = "setup" /\ pc' = "sleep"
               \/ pc = "tickSent" /\ pc' = "statusSent"
        PROVE  FaultInv'
    <3> SUFFICES ASSUME NEW i \in DOMAIN FaultTime[scenario] PROVE FaultState(i)'
      BY <2>2 DEF FaultInv
    <3>1. FaultState(i)
      BY DEF FaultInv
    <3> QED BY <2>2, <3>1 DEF FaultState
  <2>3. CheckFaults => FaultInv'
    <3> SUFFICES ASSUME CheckFaults, NEW i \in DOMAIN FaultTime[scenario]
                 PROVE  FaultState(i)'
      BY DEF CheckFaults, FaultInv
    <3> DEFINE list == Due(scenario, sim_time)
               f == FaultTime[scenario][i]
    <3>1. /\ pc = "statusSent" /\ InjectFrom(list, FALSE) /\ ~stale'
          /\ UNCHANGED <<scenario, sim_time, leaped>>
      BY DEF CheckFaults
    <3>2. FaultState(i) /\ f \in Int
      BY <2>t, <2>u DEF FaultInv
    <3>3. CASE f >= Window /\ i \notin fired \cup leaped
      <4>1. i \in list \/ sim_time <= f - Window
        BY <3>1, <3>2, <3>3, <2>u DEF FaultState, Due, Abs
      <4>2. CASE list = {}
        BY <3>1, <4>1, <4>2 DEF InjectFrom, FaultState
      <4>3. CASE list # {}
        <5>1. PICK j \in list : due' = list \ {j} /\ fired' = fired \cup {j}
                               /\ pc' = "injecting"
          BY <3>1, <4>3 DEF InjectFrom
        <5> QED BY <5>1, <4>1, <3>1 DEF FaultState
      <4> QED BY <4>2, <4>3
    <3>4. CASE f >= Window /\ i \in fired \cup leaped
      <4>1. i \in fired' \cup leaped'
        BY <3>1, <3>4 DEF InjectFrom
      <4> QED BY <4>1, <3>1 DEF FaultState
    <3>5. CASE ~(f >= Window)
      BY <3>1, <3>5 DEF FaultState
    <3> QED BY <3>3, <3>4, <3>5
  <2>4. NextFault => FaultInv'
    <3> SUFFICES ASSUME NextFault, NEW i \in DOMAIN FaultTime[scenario]
                 PROVE  FaultState(i)'
      BY DEF NextFault, FaultInv
    <3>1. /\ pc = "injecting" /\ InjectFrom(due, stale)
          /\ UNCHANGED <<scenario, sim_time, leaped, stale>>
      BY DEF NextFault
    <3>2. FaultState(i)
      BY DEF FaultInv
    <3>3. CASE due = {}
      BY <3>1, <3>2, <3>3 DEF InjectFrom, FaultState
    <3>4. CASE due # {}
      <4>1. PICK j \in due : /\ due' = due \ {j} /\ pc' = "injecting"
                            /\ fired' = IF stale THEN fired ELSE fired \cup {j}
        BY <3>1, <3>4 DEF InjectFrom
      <4>2. CASE stale
        BY <4>1, <4>2, <3>1, <3>2 DEF FaultState
      <4>3. CASE ~stale
        <5>1. i \in fired \/ i \in due => i \in fired' \/ i \in due'
          BY <4>1, <4>3
        <5>2. fired \subseteq fired' /\ leaped' = leaped
          BY <3>1, <4>1
        <5> DEFINE f == FaultTime[scenario][i]
        <5>3. f >= Window => i \in fired \cup leaped \/ i \in due \/ sim_time <= f - Window
          BY <3>1, <3>2 DEF FaultState
        <5>4. f >= Window => i \in fired' \cup leaped' \/ i \in due' \/ sim_time' <= f - Window
          BY <5>1, <5>2, <5>3, <3>1
        <5>5. ~stale' /\ pc' = "injecting" /\ scenario' = scenario
          BY <4>1, <4>3, <3>1
        <5>6. /\ pc' \notin {"setup", "sleep", "tickSent", "statusSent"}
              /\ FaultTime[scenario'][i] = f
          BY <5>5
        <5> QED BY <5>4, <5>5, <5>6 DEF FaultState
      <4> QED BY <4>2, <4>3
    <3> QED BY <3>3, <3>4
  <2>5. ASSUME NEW key, NEW name, Load(key, name) PROVE FaultInv'
    <3>1. /\ scenario' \in Scenarios /\ sim_time' = 0
          /\ UNCHANGED pc
      BY <2>5 DEF Load
    <3> SUFFICES ASSUME NEW i \in DOMAIN FaultTime[scenario']
                 PROVE  FaultState(i)'
      BY DEF FaultInv
    <3>2. FaultTime[scenario'][i] \in Int
      BY <2>t, <3>1
    <3>3. FaultTime[scenario'][i] >= Window =>
             /\ sim_time' <= FaultTime[scenario'][i] - Window
             /\ sim_time' < FaultTime[scenario'][i] + Window
      BY <3>1, <3>2, Bounds
    <3> QED BY <3>3 DEF FaultState
  <2>6. IdleIteration \/ LeaveLoop \/ PublishStatus \/ PublishRaises \/ Elapse => FaultInv'
    BY <2>2 DEF IdleIteration, LeaveLoop, PublishStatus, PublishRaises, Elapse,
               AtLoopHead, control
  <2>7. ASSUME NEW key, NEW name, LoadRaises(key, name) PROVE FaultInv'
    BY <2>2, <2>7 DEF LoadRaises, control
  <2>8. ASSUME NEW rate \in Rates, SetTimeScale(rate) PROVE FaultInv'
    BY <2>2, <2>8 DEF SetTimeScale
  <2>9. Pause \/ Resume \/ Stop => FaultInv'
    BY <2>2 DEF Pause, Resume, Stop
  <2>10. UNCHANGED vars => FaultInv'
    BY <2>2 DEF vars, control
  <2> QED
    BY <2>1, <2>3, <2>4, <2>5, <2>6, <2>7, <2>8, <2>9, <2>10, Steps
<1>3. FaultInv => OnlyLeapsSkipFaults
  BY DEF FaultInv, FaultState, OnlyLeapsSkipFaults
<1> QED BY <1>1, <1>2, <1>3, TypeCorrect, PTL DEF Spec

------------------------------------------------------------------------------
(* The list of a tick is used up against the time it was made for: only    *)
(* Tick and Load move sim_time or change the scenario, and the first does  *)
(* not happen while a list is being published, the second sets stale.      *)
THEOREM FaultsOnTime == Spec => []FaultsPublishedOnTime
<1>1. Init => FaultsPublishedOnTime
  BY DEF Init, FaultsPublishedOnTime
<1>2. TypeOK /\ FaultsPublishedOnTime /\ [Next]_vars => FaultsPublishedOnTime'
  <2> SUFFICES ASSUME TypeOK, FaultsPublishedOnTime, [Next]_vars
               PROVE  FaultsPublishedOnTime'
    OBVIOUS
  <2> USE DEF FaultsPublishedOnTime
  <2>1. pc' # "injecting" \/ stale' => FaultsPublishedOnTime'
    OBVIOUS
  <2>2. UNCHANGED <<scenario, sim_time, due, pc, stale>> => FaultsPublishedOnTime'
    OBVIOUS
  <2>3. Tick \/ IdleIteration \/ LeaveLoop \/ PublishStatus \/ PublishRaises
          => pc' # "injecting"
    BY DEF Tick, IdleIteration, LeaveLoop, PublishStatus, PublishRaises
  <2>4. CheckFaults => FaultsPublishedOnTime'
    <3> SUFFICES ASSUME CheckFaults, NEW i \in due'
                 PROVE  /\ i \in DOMAIN FaultTime[scenario']
                        /\ Abs(sim_time' - FaultTime[scenario'][i]) < Window
      OBVIOUS
    <3>1. InjectFrom(Due(scenario, sim_time), FALSE) /\ UNCHANGED <<scenario, sim_time>>
      BY DEF CheckFaults
    <3>2. i \in Due(scenario, sim_time)
      BY <3>1 DEF InjectFrom
    <3> QED BY <3>1, <3>2 DEF Due
  <2>5. NextFault => FaultsPublishedOnTime'
    <3> SUFFICES ASSUME NextFault PROVE FaultsPublishedOnTime'
      OBVIOUS
    <3>1. /\ pc = "injecting" /\ InjectFrom(due, stale)
          /\ UNCHANGED <<scenario, sim_time, stale>>
      BY DEF NextFault
    <3>2. due' \subseteq due
      BY <3>1 DEF InjectFrom
    <3> QED BY <3>1, <3>2
  <2>6. ASSUME NEW key, NEW name, Load(key, name) PROVE stale'
    BY <2>6 DEF Load
  <2>7. Elapse => UNCHANGED <<scenario, sim_time, due, pc, stale>>
    BY DEF Elapse, control
  <2>8. ASSUME NEW key, NEW name, LoadRaises(key, name)
        PROVE  UNCHANGED <<scenario, sim_time, due, pc, stale>>
    BY <2>8 DEF LoadRaises, control
  <2>9. ASSUME NEW rate \in Rates, SetTimeScale(rate)
        PROVE  UNCHANGED <<scenario, sim_time, due, pc, stale>>
    BY <2>9 DEF SetTimeScale
  <2>10. Pause \/ Resume \/ Stop => UNCHANGED <<scenario, sim_time, due, pc, stale>>
    BY DEF Pause, Resume, Stop
  <2>11. UNCHANGED vars => UNCHANGED <<scenario, sim_time, due, pc, stale>>
    BY DEF vars, control
  <2> HIDE DEF FaultsPublishedOnTime
  <2> QED
    BY <2>1, <2>2, <2>3, <2>4, <2>5, <2>6, <2>7, <2>8, <2>9, <2>10, <2>11, Steps
<1> QED BY <1>1, <1>2, TypeCorrect, PTL DEF Spec

------------------------------------------------------------------------------
(* A tick that ends past the duration leaves the simulation paused, and    *)
(* what ends that pause is a load, which starts at time zero and paused,   *)
(* or a RESUME, which sets resumed.                                        *)
THEOREM CompletedStaysPaused == Spec => []CompletedNeedsResume
<1>1. Init => CompletedNeedsResume
  BY DEF Init, CompletedNeedsResume
<1>2. TypeOK /\ CompletedNeedsResume /\ [Next]_vars => CompletedNeedsResume'
  <2> SUFFICES ASSUME TypeOK, CompletedNeedsResume, [Next]_vars
               PROVE  CompletedNeedsResume'
    OBVIOUS
  <2> USE DEF CompletedNeedsResume
  <2>1. pc' # "sleep" \/ paused' \/ resumed' => CompletedNeedsResume'
    OBVIOUS
  <2>2. UNCHANGED <<scenario, sim_time, paused, resumed, pc>> => CompletedNeedsResume'
    OBVIOUS
  <2>3. Tick \/ LeaveLoop \/ PublishStatus \/ PublishRaises => pc' # "sleep"
    BY DEF Tick, LeaveLoop, PublishStatus, PublishRaises
  <2>4. IdleIteration \/ Pause => paused'
    BY DEF IdleIteration, Pause, control
  <2>5. ASSUME NEW list, NEW b, InjectFrom(list, b), UNCHANGED <<scenario, sim_time>>
        PROVE  CompletedNeedsResume'
    <3>1. CASE list # {}
      <4>1. pc' = "injecting"
        BY <2>5, <3>1 DEF InjectFrom
      <4> QED BY <4>1
    <3>2. CASE list = {}
      BY <2>5, <3>2 DEF InjectFrom, Complete
    <3> QED BY <3>1, <3>2
  <2>6. CheckFaults \/ NextFault => CompletedNeedsResume'
    BY <2>5 DEF CheckFaults, NextFault
  <2>7. ASSUME NEW key, NEW name, Load(key, name) PROVE paused'
    BY <2>7 DEF Load
  <2>8. Resume => resumed'
    BY DEF Resume
  <2>9. Elapse \/ Stop => UNCHANGED <<scenario, sim_time, paused, resumed, pc>>
    BY DEF Elapse, Stop, control
  <2>10. ASSUME NEW key, NEW name, LoadRaises(key, name)
         PROVE  UNCHANGED <<scenario, sim_time, paused, resumed, pc>>
    BY <2>10 DEF LoadRaises, control
  <2>11. ASSUME NEW rate \in Rates, SetTimeScale(rate)
         PROVE  UNCHANGED <<scenario, sim_time, paused, resumed, pc>>
    BY <2>11 DEF SetTimeScale
  <2>12. UNCHANGED vars => UNCHANGED <<scenario, sim_time, paused, resumed, pc>>
    BY DEF vars, control
  <2> HIDE DEF CompletedNeedsResume
  <2> QED
    BY <2>1, <2>2, <2>3, <2>4, <2>6, <2>7, <2>8, <2>9, <2>10, <2>11, <2>12, Steps
<1> QED BY <1>1, <1>2, TypeCorrect, PTL DEF Spec
==============================================================================
