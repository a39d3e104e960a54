------------------------------ MODULE MCStation ------------------------------
(* Values for the constants of Station: the deployments in which services  *)
(* that exchange messages meet, and the calls and commands that make a     *)
(* difference to one of them.                                              *)
EXTENDS Station

Streaming == {"mcp", "browser"}
Asking == {"mcp", "agent"}
Verifying == {"mcp", "agent", "browser", "cdh"}
Commanding == {"mcp", "agent", "eclss", "ground"}
Controlling == {"mcp", "agent", "orchestrator"}
Breathing == {"orchestrator", "eclss", "ground"}
Working == {"orchestrator", "crew", "cdh", "ground"}
Bridging == {"mdm", "ground"}
Moving == {"robotics", "ground"}

MCDeployments == {Streaming, Asking, Verifying, Commanding, Controlling, Breathing,
                  Working, Bridging, Moving}

MCMaxEvents ==
  [d \in MCDeployments |-> IF d \in {Verifying, Commanding, Controlling} THEN 2 ELSE 3]

MCMaxVersion == [d \in MCDeployments |-> IF d = Asking THEN 2 ELSE 3]

MCSubscriptions ==
  {<<"mcp", "eps">>, <<"mcp", "crew">>, <<"cdh", "eps">>, <<"cdh", "crew">>,
   <<"cdh", "uplink">>, <<"cdh", "tick">>,
   <<"eclss", "uplink">>, <<"eclss", "tick">>, <<"crew", "tick">>,
   <<"orchestrator", "orchestrator">>, <<"mdm", "uplink">>, <<"robotics", "uplink">>}

MCCall(via, op, on, opcode) == [via |-> via, op |-> op, on |-> on, opcode |-> opcode]
MCAsks ==
  [d \in MCDeployments |->
     CASE d = Asking ->
            {MCCall(via, "telemetry", "eps", "none") : via \in {"query", "http"}}
       [] d = Verifying ->
            {MCCall("tool", "telemetry", "eps", "none"),
             MCCall("tool", "command", "cdh", "NOOP")}
       [] d = Commanding ->
            {MCCall("tool", "command", "eclss", "CLEAR_FAULT"),
             MCCall("http", "inject_fault", "eclss", "none")}
       [] d = Controlling ->
            {MCCall("http", op, "none", "none") : op \in {"history", "list", "tools"}}
            \cup {MCCall("tool", op, "none", "none") : op \in {"set_time_scale", "malformed"}}
            \cup {MCCall("query", op, "none", "none") : op \in {"scenario", "unknown", "status"}}
            \cup {MCCall("tool", "telemetry", "robotics", "none")}
       [] OTHER -> {}]

MCStatusOrder == <<"eps", "crew">>
MCParameters == [s \in {"eps", "crew"} |-> IF s = "eps" THEN {"battery_soc"} ELSE {}]

MCGroundCommands ==
  [d \in MCDeployments |->
     CASE d \in {Breathing, Commanding} ->
            {Command("eclss", "SET_FAULT", "o2_gen_fault", "none"),
             Command("all", "SET_FAULT", "cabin_leak", "none"),
             Command("eclss", "SET_FAULT", "co2_scrub_fault", "none"),
             Command("eclss", "CLEAR_FAULT", "o2_gen_fault", "none"),
             Command("all", "CLEAR_FAULT", "cabin_leak", "none")}
       [] d = Working -> {Command("cdh", "none", "none", "NOOP")}
       [] d \in {Bridging, Moving} ->
            {Command("number", "none", "none", "none"),
             Command("eclss", "none", "none", "none")}
       [] OTHER -> {}]

MCLowestPressure == -1

MCDurations == <<3, 1, 2>>
MCStoresStart == [food |-> 2, water |-> 3, o2 |-> 1]
MCStoresUsed == [food |-> 1, water |-> 2, o2 |-> 1]
==============================================================================
