------------------------------- MODULE Station -------------------------------
(***************************************************************************)
(* The Python services together, on one bus: the orchestrator's ticks      *)
(* drive ECLSS, C&DH and the crew; commands from the ground and from the   *)
(* MCP server reach ECLSS, C&DH and the bridges; telemetry reaches C&DH    *)
(* and the clients of the MCP server.                                      *)
(*                                                                         *)
(* Which services run is chosen once per behaviour (Deployments): services *)
(* that do not exchange messages need not be looked at together.           *)
(***************************************************************************)
EXTENDS Mcp, Eclss, Cdh, Crew, Bridge

CONSTANTS
  GroundCommands,  \* per deployment, what the ground may send on command.uplink
  Parameters       \* per publisher, parameters it may find out of limits

(* What EPS and thermal call the values they publish that have a limit.    *)
Reported ==
  [eps |-> {"bus_voltage", "battery_soc"}, thermal |-> {"loop_a_temp_in_c"}]

ASSUME StationConstants ==
  /\ Subsystems \cap {"tick", "uplink", "orchestrator"} = {}
  /\ Publishers \cap {"eclss", "cdh", "crew"} = {}
  /\ \A s \in Publishers : <<"mcp", s>> \in Subscriptions
  /\ \A s \in Publishers \cap Verifies :
       <<"cdh", s>> \in Subscriptions /\ Parameters[s] \subseteq Reported[s]
  /\ \A d \in Deployments : MaxEvents[d] \in Nat

stationVars == <<bus, mcpVars, eclssVars, cdhVars, crewVars, bridgeVars>>

------------------------------------------------------------------------------
(* Orchestrator.run, as far as the others see it: ticks, at no fixed rate. *)
Tick ==
  /\ "orchestrator" \in deployed
  /\ HasSubscriber("tick") /\ \A sub \in Subscriptions : Room(sub[2])
  /\ queue' = Sent(queue, "tick", TickMessage)
  /\ UNCHANGED <<deployed, events, history>>

(* Its _on_command: what it does is the subject of module Orchestrator; to *)
(* the caller matters that it sends no reply.                              *)
OrchestratorCommand ==
  /\ Waiting(<<"orchestrator", "orchestrator">>)
  /\ queue' = Taken(queue, <<"orchestrator", "orchestrator">>)
  /\ UNCHANGED <<deployed, events, history>>

(* A service that is not modelled here publishes its state (external).     *)
PublishState(s) ==
  /\ HasSubscriber(s) /\ Room(s) /\ version[s] < MaxVersion[deployed]
  /\ version' = [version EXCEPT ![s] = @ + 1]
  /\ \E off \in {{}, Parameters[s]} :
        queue' = Sent(queue, s, State(version[s] + 1, off))
  /\ published' = published \cup {s}
  /\ UNCHANGED <<deployed, events, ticked, call, cache, client>>

(* The ground sends a command (external).                                  *)
SendCommand(m) ==
  /\ "ground" \in deployed /\ HasSubscriber("uplink") /\ Room("uplink")
  /\ Spend
  /\ queue' = Sent(queue, "uplink", m)
  /\ UNCHANGED <<deployed, history>>

------------------------------------------------------------------------------
Init == BusInit /\ McpInit /\ EclssInit /\ CdhInit /\ CrewInit /\ BridgeInit

Outside ==
  /\ \/ Tick \/ OrchestratorCommand
     \/ \E m \in GroundCommands[deployed] : SendCommand(m)
  /\ UNCHANGED <<mcpVars, eclssVars, cdhVars, crewVars, bridgeVars>>

McpStep ==
  /\ McpNext \/ \E s \in Publishers : PublishState(s)
  /\ UNCHANGED <<eclssVars, cdhVars, crewVars, bridgeVars>>

EclssStep == EclssNext /\ UNCHANGED <<mcpVars, cdhVars, crewVars, bridgeVars>>
CdhStep == CdhNext /\ UNCHANGED <<mcpVars, eclssVars, crewVars, bridgeVars>>
CrewStep == CrewTick /\ UNCHANGED <<mcpVars, eclssVars, cdhVars, bridgeVars>>
BridgeStep ==
  (BridgeNext \/ ProcessNext) /\ UNCHANGED <<mcpVars, eclssVars, cdhVars, crewVars>>

Next == Outside \/ McpStep \/ EclssStep \/ CdhStep \/ CrewStep \/ BridgeStep

Spec == Init /\ [][Next]_stationVars

(* The event loops run what is ready, the orchestrator goes on ticking,    *)
(* and timers fire: a call that waits is answered, or expires; a stream    *)
(* that is quiet sends its keepalive.  Nothing is assumed of the ground,   *)
(* of callers and clients, of the processes behind the bridges, or of      *)
(* those who publish.                                                      *)
Fairness ==
  /\ WF_queue(Tick) /\ WF_queue(EclssTick) /\ WF_queue(EclssCommand)
  /\ \A c \in Calls : WF_call(Handle(c))
  /\ \A k \in Clients : WF_client(Forget(k))
  /\ WF_stdout(ReadFrame)
FairSpec == Spec /\ Fairness

------------------------------------------------------------------------------
(* The types of the variables.                                             *)
CallType ==
  [via : DOMAIN OpsVia \cup {"none"}, op : HttpOps \cup {"none"}, on : Names,
   opcode : Names, pc : {"none", "asked", "sending", "waiting", "answered"},
   step : Nat,
   answer : [kind : {"none", "result", "error", "failed", "fresh", "cached"},
             version : Nat]]

TypeOK ==
  /\ deployed \in Deployments /\ DOMAIN queue = Subscriptions /\ events \in 0..MaxEvents[deployed]
  /\ call \in [Calls -> CallType]
  /\ cache \in [Subsystems -> Nat] /\ version \in [Subsystems -> Nat \ {0}]
  /\ \A k \in Clients :
       client[k].at \in {"away", "added", "streaming", "gone", "leaked", "closed"}
  /\ o2 \in Int /\ co2 \in Int /\ pressure \in Int /\ leak \in Nat
  /\ bed \in {0, 1} /\ sinceSwitch \in 0..RegenerationTicks
  /\ failed \subseteq Devices /\ outage \in BOOLEAN
  /\ responses \subseteq ValidCommands
  /\ crewTime \in 0..TotalDuration
  /\ activity \in 0..Len(Durations) /\ announced \in 0..Len(Durations)
  /\ mode \in Modes /\ at \in {"connecting", "running", "ended"}
  /\ connected \in BOOLEAN /\ alive \in BOOLEAN
  /\ stdin \in 0..StdinSize /\ Len(stdout) <= PipeSize

(* The MCP server does what McpService promises its callers: one answer    *)
(* each, in order on a NATS subject, and no telemetry that goes back.      *)
Service ==
  INSTANCE McpService WITH
    Calls <- Calls, Serial <- NatsChannels, NoAnswer <- NoAnswer,
    Results <- {Result, Error, Failed},
    via <- [c \in Calls |-> call[c].via], about <- [c \in Calls |-> call[c].on],
    answer <- [c \in Calls |-> call[c].answer]
ImplementsService == Service!Spec

(* All calls are answered in the end, whoever is not there to answer the   *)
(* server (handle_query, handle_tool_call, and the timeouts below them).   *)
Unanswered == {c \in Calls : call[c].pc # "none" /\ call[c].answer = NoAnswer}
CallsAnswered == Unanswered # {} ~> Unanswered = {}

(* The states among messages are those after a given one and up to another,*)
(* each once and in order.                                                 *)
Carries(messages, after, upTo) ==
  LET states == {i \in DOMAIN messages : messages[i].kind = "telemetry"} IN
  /\ after <= upTo
  /\ {messages[i].version : i \in states} = after + 1 .. upTo
  /\ \A i, j \in states : i < j => messages[i].version < messages[j].version

(* The states of s among the items of a stream are, from the first of them *)
(* up to a given one, each there once and in order.                        *)
Streams(items, s, upTo) ==
  LET own == {i \in DOMAIN items : items[i][1] = s} IN
  /\ \A i \in own : \A v \in items[i][2] .. upTo : \E j \in own : items[j][2] = v
  /\ \A i \in own : items[i][2] <= upTo
  /\ \A i, j \in own : i < j => items[i][2] < items[j][2]

(* The items hold all states of s after a given one and up to another.     *)
Reaches(items, s, after, upTo) ==
  \A v \in after + 1 .. upTo : \E i \in DOMAIN items : items[i] = <<s, v>>

(* A client of the stream misses nothing that is published from its        *)
(* registration on.  What was written to it or waits in its queue, and     *)
(* then what waits in NATS, is a run of states, each once and in the order *)
(* of publication; it ends with the newest and begins no later than with   *)
(* the first that was published after the client registered.  What waited  *)
(* in NATS at that moment comes as well (_broadcast_telemetry,             *)
(* http_sse_stream).                                                       *)
StreamsComplete ==
  \A k \in Clients, s \in Publishers :
    LET items == client[k].written \o client[k].waiting IN
    Registered(k) =>
      \E heard \in 0..version[s] :
        /\ Streams(items, s, heard)
        /\ Reaches(items, s, client[k].from[s], heard)
        /\ Carries(queue[<<"mcp", s>>], heard, version[s])

(* The queue of a client that has left a stream is discarded, even when    *)
(* there is no more telemetry (the keepalive of http_sse_stream).          *)
Gone == {k \in Clients : client[k].at = "gone"}
GoneClientsForgotten == Gone # {} ~> Gone = {}

(* While the generator works and the cabin does not leak, and has not      *)
(* since O2 was last up to the threshold of the generator, O2 is never     *)
(* more than the consumption of one tick below it, whatever other faults   *)
(* are set and cleared (ECLSSSimulator._step, CabinAtmosphere.update).     *)
OxygenHeld == outage \/ o2 >= O2Low - O2Consumed

(* O2 comes back after any outage, at whatever pressure the leak has left, *)
(* once generator and cabin are in order; unless it left none.             *)
OxygenRecovers ==
  o2 < O2Low ~> o2 >= O2Low \/ "o2_gen_fault" \in failed \/ leak > 0 \/ pressure = 0

(* The activity the crew publishes changes only to the one it announced    *)
(* as next, and as long as it does not, the announcement stands            *)
(* (get_current_activity, get_next_activity).                              *)
NextActivityComes ==
  [][activity # 0 =>
       IF activity' = activity THEN announced' = announced ELSE activity' = announced]_stationVars

(* Every state of the other services is published as verified, once and in *)
(* order, whatever requests and commands C&DH cannot read come in between. *)
(* It rests on the names in the limits not being those that are published. *)
VerifiedInOrder ==
  "cdh" \in deployed =>
    \A s \in Publishers \cap Verifies :
      /\ \A i \in DOMAIN verified[s] : verified[s][i] = i + 1
      /\ Carries(queue[<<"cdh", s>>], Len(verified[s]) + 1, version[s])

(* The frames with a packet in them, and the lines of JSON, are published  *)
(* in the order they were written, each once and none left out, as far as  *)
(* the bridge has read (read_mdm_output, _process_frame, read_telemetry).  *)
FramesInOrder ==
  mode = "spawn" /\ connected =>
    LET read == 1 .. Len(frames) - Len(stdout) IN
    /\ {relayed[i] : i \in DOMAIN relayed} = {f \in read : Publishable(f)}
    /\ \A i, j \in DOMAIN relayed : i < j => relayed[i] < relayed[j]

(* The frames in the pipe are read, unless the process exits, however many *)
(* commands wait for the pipe in the other direction.                      *)
FramesRead ==
  (mode = "spawn" /\ at = "running" /\ stdout # <<>>) ~> (stdout = <<>> \/ at = "ended")

(* docs/ARCHITECTURE.md:30: every subsystem computes its state on a tick   *)
(* and publishes it.                                                       *)
TickedHavePublished == ticked \subseteq published
==============================================================================
