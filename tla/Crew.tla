--------------------------------- MODULE Crew --------------------------------
(***************************************************************************)
(* The crew (subsystems/crew/): a cyclic timeline of activities and the    *)
(* consumables.  A tick is one unit of time (the ticks of the orchestrator *)
(* carry no dt_s, so tick_dt_s = 1.0 is used at every rate).  sim_time is  *)
(* read modulo the length of the timeline only, and kept so.               *)
(***************************************************************************)
EXTENDS Bus, FiniteSetsExt

CONSTANTS
  Durations,     \* duration_s of the activities of _DEFAULT_TIMELINE
  StoresStart,   \* per consumable, the amount at first
  StoresUsed     \* per consumable, what the crew uses in a tick

VARIABLES
  crewTime,      \* sim_time modulo the length of the timeline
  activity,      \* published: the index of current_activity, 0 before any
  announced,     \* published: the index of next_activity
  stores         \* ConsumablesTracker

crewVars == <<crewTime, activity, announced, stores>>

Activities == 1..Len(Durations)

(* The end of each activity: the cumulative sum of the durations.          *)
Ends == LET end[i \in 0..Len(Durations)] ==
              IF i = 0 THEN 0 ELSE end[i - 1] + Durations[i]
        IN end
TotalDuration == Ends[Len(Durations)]

ASSUME CrewConstants ==
  /\ Durations \in Seq(Nat \ {0}) /\ Durations # <<>>
  /\ StoresStart \in [DOMAIN StoresStart -> Nat]
  /\ StoresUsed \in [DOMAIN StoresStart -> Nat]

(* get_current_activity: the first whose end is later.                     *)
Current(t) == Min({i \in Activities : t < Ends[i]})

(* get_next_activity: the one after it, around the end of the timeline.    *)
\* Mutant: not around it.
AfterStuck(t) == Min({Current(t) + 1, Len(Durations)})
\* Mutant: one too far at the end of the timeline.
AfterBeyond(t) == Current(t) + 1
After(t) == (Current(t) % Len(Durations)) + 1

(* consume: what is left of a consumable.                                  *)
Consumed(c) == Max({0, stores[c] - StoresUsed[c]})

(* _on_tick; the state published goes to whoever checks telemetry.         *)
CrewTick ==
  LET t == (crewTime + 1) % TotalDuration IN
  /\ Waiting(<<"crew", "tick">>)
  /\ crewTime' = t /\ activity' = Current(t) /\ announced' = After(t)
  /\ stores' = [c \in DOMAIN stores |-> Consumed(c)]
  /\ queue' = Sent(Taken(queue, <<"crew", "tick">>), "crew", State(0, {}))
  /\ HandlesTick("crew", {"crew"})
  /\ UNCHANGED <<deployed, events>>

CrewInit ==
  /\ crewTime = 0 /\ activity = 0 /\ announced = 0 /\ stores = StoresStart
==============================================================================
