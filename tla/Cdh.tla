--------------------------------- MODULE Cdh ---------------------------------
(***************************************************************************)
(* Command and data handling (subsystems/cdh/): telemetry is packed,       *)
(* checked against limits and published again as verified; commands are    *)
(* verified and answered.  Each subsystem has a subscription of its own.   *)
(*                                                                         *)
(* Of telemetry a message carries its number and the parameters that are   *)
(* beyond what the limits allow.  The stored queue is never filled, so the *)
(* handlers keep no state: verified and responses are what they published. *)
(***************************************************************************)
EXTENDS Bus

VARIABLES
  verified,   \* per subsystem, the states published as verified, in order
  responses   \* the commands answered on telemetry.cdh.cmd_response

cdhVars == <<verified, responses>>

Verifies == {"eclss", "thermal", "eps", "crew"}

(* What verify accepts; a SET_PARAM without its parameter or an             *)
(* EXEC_SEQUENCE without its sequence counts as another command.            *)
ValidCommands == {"POWER_ON", "POWER_OFF", "SET_MODE", "RESET", "LOAD_SEQUENCE",
                  "EXEC_SEQUENCE", "SET_PARAM", "NOOP"}

(* _configure_limits: the parameters with a limit, by the names it uses.   *)
\* Mutant: by the names under which they are published.
LimitedAsPublished ==
  [eclss |-> {"o2_partial_kpa", "co2_partial_kpa", "cabin_temp_c"},
   thermal |-> {"loop_a_temp_in_c"}, eps |-> {"bus_voltage", "battery_soc"}, crew |-> {}]
Limited ==
  [eclss |-> {"o2_partial_kpa", "co2_partial_kpa", "cabin_temp_c"},
   thermal |-> {"loop_a_temp_in"}, eps |-> {"bus_voltage_v", "soc_pct"}, crew |-> {}]

(* check: the limit events a message gives rise to.                        *)
Alarms(s, m) == Limited[s] \cap m.off

(* _on_tlm.  An empty request is no JSON; a message with an alarm cannot   *)
(* be serialised, as limit events are objects.  Both end in an exception.  *)
(* States without a number (0) are published too, but not recorded.        *)
CdhTelemetry(s) ==
  LET m == Head(queue[<<"cdh", s>>]) IN
  /\ Waiting(<<"cdh", s>>)
  /\ queue' = Taken(queue, <<"cdh", s>>)
  /\ verified' =
       IF m.kind = "telemetry" /\ m.version > 0 /\ Alarms(s, m) = {}
       THEN [verified EXCEPT ![s] = Append(@, m.version)]
       ELSE verified
  /\ UNCHANGED <<deployed, events, history, responses>>

(* _on_uplink: only the field "command" counts, whatever the target.       *)
CdhCommand ==
  LET m == Head(queue[<<"cdh", "uplink">>]) IN
  /\ Waiting(<<"cdh", "uplink">>)
  /\ queue' = Taken(queue, <<"cdh", "uplink">>)
  /\ responses' = IF m.command \in ValidCommands
                  THEN responses \cup {m.command} ELSE responses
  /\ UNCHANGED <<deployed, events, history, verified>>

(* _on_tick: publish_state.                                                *)
CdhTick ==
  /\ Waiting(<<"cdh", "tick">>)
  /\ queue' = Sent(Taken(queue, <<"cdh", "tick">>), "cdh", State(0, {}))
  /\ HandlesTick("cdh", {"cdh"})
  /\ UNCHANGED <<deployed, events, cdhVars>>

CdhInit ==
  /\ verified = [s \in Verifies |-> <<>>]
  /\ responses = {}

CdhNext == CdhTick \/ CdhCommand \/ \E s \in Verifies : CdhTelemetry(s)
==============================================================================
