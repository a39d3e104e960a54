--------------------------------- MODULE Mcp ---------------------------------
(***************************************************************************)
(* The MCP server (subsystems/mcp/server.py, handlers.py): calls from NATS *)
(* (mcp.query, mcp.tool.call) and from HTTP, each of which asks the bus    *)
(* for something and waits for the answer; and the clients of the          *)
(* server-sent event stream, to which all telemetry is broadcast.          *)
(*                                                                         *)
(* One event loop runs all of it.  A step is the code between two awaits:  *)
(* a call sends a request and waits; then an answer comes, or the timeout, *)
(* or the 503 by which NATS says that nobody subscribes to the subject.    *)
(* The calls of one NATS subject are handled one at a time (module Bus),   *)
(* those of HTTP concurrently.                                             *)
(*                                                                         *)
(* What telemetry says is abstracted to the number of its state.           *)
(***************************************************************************)
EXTENDS Bus

CONSTANTS
  MaxCalls,      \* bound: calls in a behaviour
  Asks,          \* per deployment, the calls that may be made
  StatusOrder,   \* the subsystems, in the order get_status asks them
  Answering,     \* subsystems with someone who answers requests for telemetry
  Publishers,    \* subsystems whose telemetry comes from outside the model
  MaxVersion,    \* bound: per deployment, states of a subsystem
  Clients        \* clients of the stream

VARIABLES
  call,          \* per call: how it was made and how far it is
  cache,         \* TelemetryHandler._cache: a version, 0 for no entry
  version,       \* the newest state a subsystem has published or answered
  client         \* per client: its queue, what has been written to it, and
                 \* (history) the newest states when it registered

mcpVars == <<call, cache, version, client>>

Calls == 1..MaxCalls
Subsystems == {StatusOrder[i] : i \in 1..Len(StatusOrder)}

------------------------------------------------------------------------------
(* The operations each way in offers.                                      *)
QueryOps == {"telemetry", "command", "scenario", "status", "unknown", "malformed"}
ToolOps == {"telemetry", "command", "list", "scenario", "set_time_scale",
            "inject_fault", "unknown", "malformed"}
HttpOps == ToolOps \cup {"history", "status", "tools"}

OpsVia == [query |-> QueryOps, tool |-> ToolOps, http |-> HttpOps]

ASSUME McpConstants ==
  /\ MaxCalls \in Nat
  /\ StatusOrder \in Seq(STRING) /\ "none" \notin Subsystems
  /\ Answering \subseteq Subsystems /\ Publishers \subseteq Subsystems
  /\ DOMAIN Asks = Deployments
  /\ \A d \in Deployments : \A a \in Asks[d] :
       /\ a.via \in DOMAIN OpsVia /\ a.op \in OpsVia[a.via]
       /\ a.op = "telemetry" =>
            a.on \in Subsystems \/ \A sub \in Subscriptions : sub[2] # a.on

(* The subsystems and opcodes calls name.                                  *)
Names == {"none"} \cup UNION {{a.on, a.opcode} : a \in UNION {Asks[d] : d \in Deployments}}

NatsChannels == {"query", "tool"}

(* Answers.  A reading carries the number of the state it shows.  A failed *)
(* command is answered with success = False in the data, and no "error":   *)
(* handle_tool_call calls that a success.                                  *)
NoAnswer == [kind |-> "none", version |-> 0]
Result == [kind |-> "result", version |-> 0]
Error == [kind |-> "error", version |-> 0]
Failed == [kind |-> "failed", version |-> 0]
Reading(kind, v) == [kind |-> kind, version |-> v]

NotMade == [via |-> "none", op |-> "none", on |-> "none", opcode |-> "none",
            pc |-> "none", step |-> 0, answer |-> NoAnswer]

(* What the caller gets when there is no answer from the bus.              *)
NoLuck(c) == IF call[c].op = "command" THEN Failed ELSE Error

(* The subject a call waits on, and what it sends there.  The opcode of a  *)
(* command is sent as "opcode" and its parameters as "args", so a fault    *)
(* type is not where the services look for it.                             *)
Subject(c) ==
  CASE call[c].op = "telemetry" -> call[c].on
    [] call[c].op = "status" -> StatusOrder[call[c].step]
    [] call[c].op = "scenario" -> "scenario"
    [] call[c].op = "set_time_scale" -> "orchestrator"
    [] OTHER -> "uplink"

Body(c) ==
  CASE call[c].op = "set_time_scale" ->
         Command("orchestrator", "SET_TIME_SCALE", "none", "none")
    [] call[c].op = "inject_fault" ->
         Command(call[c].on, "INJECT_FAULT", "none", "none")
    [] call[c].op = "command" ->
         Command(call[c].on, call[c].opcode, "none", "none")
    [] OTHER -> EmptyRequest

Finish(c, a) ==
  call' = [call EXCEPT ![c].pc = "answered", ![c].answer = a]

------------------------------------------------------------------------------
(* Calls are numbered in the order they are made.                          *)
Ask(c, a) ==
  /\ Spend
  /\ call[c].pc = "none" /\ \A d \in Calls : d < c => call[d].pc # "none"
  /\ call' = [call EXCEPT ![c] =
       [via |-> a.via, op |-> a.op, on |-> a.on, opcode |-> a.opcode,
        pc |-> "asked", step |-> 1, answer |-> NoAnswer]]
  /\ UNCHANGED <<deployed, queue, history, cache, version, client>>

(* A handler starts on a call; NATS gives one call of a subject at a time. *)
MayStart(c) ==
  call[c].via \in NatsChannels =>
    \A d \in Calls : d < c /\ call[d].via = call[c].via => call[d].pc = "answered"

(* The lists of subsystems and of tools.                                   *)
Lists == {"list", "tools"}

(* get_history asks JetStream about a stream by a method it does not have. *)
GetHistory(c) == call[c].op = "history" /\ Finish(c, Error)

(* Calls that need nobody else: the lists, and what ends in an error.      *)
AnswerAtOnce(c) ==
  /\ call[c].pc = "asked" /\ MayStart(c)
  /\ \/ call[c].op \in Lists /\ Finish(c, Result)
     \/ call[c].op \in {"unknown", "malformed"} /\ Finish(c, Error)
     \/ GetHistory(c)
  /\ UNCHANGED <<bus, cache, version, client>>

AsksTheBus(c) ==
  call[c].op \notin Lists \cup {"unknown", "malformed", "history"}

(* nc.request, and the publish with an inbox of send_command.              *)
SendRequest(c) ==
  /\ \/ call[c].pc = "asked" /\ MayStart(c) /\ AsksTheBus(c)
     \/ call[c].pc = "sending"
  /\ queue' = Sent(queue, Subject(c), Body(c))
  /\ call' = [call EXCEPT ![c].pc = "waiting"]
  /\ UNCHANGED <<deployed, events, history, cache, version, client>>

(* get_status has heard, or not, from one subsystem: on to the next.       *)
NextStatus(c) ==
  IF call[c].step < Len(StatusOrder)
  THEN call' = [call EXCEPT ![c].pc = "sending", ![c].step = @ + 1]
  ELSE Finish(c, Result)

\* Mutant: the cache keeps its first entry.
ReplyKeepsFirst(c) ==
  /\ call[c].pc = "waiting" /\ Subject(c) \in Answering
  /\ \/ /\ call[c].op = "telemetry"
        /\ cache' = [cache EXCEPT ![call[c].on] = IF @ = 0 THEN version[call[c].on] ELSE @]
        /\ Finish(c, Reading("fresh", version[call[c].on]))
     \/ /\ call[c].op = "status"
        /\ NextStatus(c)
        /\ UNCHANGED cache
  /\ UNCHANGED <<bus, version, client>>

(* The answer to a request for telemetry arrives; it shows the state the   *)
(* subsystem has then.  The one who answers handles requests in turn, so   *)
(* answers come in the order of the states they show.                      *)
Reply(c) ==
  /\ call[c].pc = "waiting" /\ Subject(c) \in Answering
  /\ \/ /\ call[c].op = "telemetry"
        /\ cache' = [cache EXCEPT ![call[c].on] = version[call[c].on]]
        /\ Finish(c, Reading("fresh", version[call[c].on]))
     \/ /\ call[c].op = "status"
        /\ NextStatus(c)
        /\ UNCHANGED cache
  /\ UNCHANGED <<bus, version, client>>

(* Nobody has answered in time: 2 s for telemetry and the scenario, 1 s    *)
(* for a command (the default of next_msg), 5 s for the rest.  Only a      *)
(* request for telemetry has the cache to fall back on.                    *)
Expire(c) ==
  /\ call[c].pc = "waiting" /\ HasSubscriber(Subject(c))
  /\ \/ /\ call[c].op = "telemetry"
        /\ Finish(c, IF cache[call[c].on] = 0 THEN Error
                     ELSE Reading("cached", cache[call[c].on]))
     \/ call[c].op = "status" /\ NextStatus(c)
     \/ call[c].op \notin {"telemetry", "status"} /\ Finish(c, NoLuck(c))
  /\ UNCHANGED <<bus, cache, version, client>>

\* Mutant: the exception leaves the callback without an answer.
NoRespondersUncaught(c) ==
  /\ call[c].pc = "waiting" /\ ~HasSubscriber(Subject(c))
  /\ \/ call[c].op = "status" /\ NextStatus(c)
     \/ /\ call[c].op # "status"
        /\ call' = [call EXCEPT ![c].pc = "answered"]
  /\ UNCHANGED <<bus, cache, version, client>>

(* NATS says that nobody subscribes.  That is no TimeoutError: only        *)
(* get_status and send_command catch it, otherwise the handler of the      *)
(* channel answers with an error (aiohttp with a 500).                     *)
NoResponders(c) ==
  /\ call[c].pc = "waiting" /\ ~HasSubscriber(Subject(c))
  /\ \/ call[c].op = "status" /\ NextStatus(c)
     \/ call[c].op # "status" /\ Finish(c, NoLuck(c))
  /\ UNCHANGED <<bus, cache, version, client>>

------------------------------------------------------------------------------
(* The stream.  _sse_clients holds the queue of every client that is       *)
(* neither away nor closed.                                                *)
Away == [at |-> "away", waiting |-> <<>>, written |-> <<>>,
         from |-> [s \in Subsystems |-> 0]]
Registered(k) == client[k].at \in {"added", "streaming", "gone", "leaked"}

Connect(k) ==
  /\ {"mcp", "browser"} \subseteq deployed /\ client[k].at = "away"
  /\ Spend
  /\ client' = [client EXCEPT ![k].at = "added", ![k].from = version]
  /\ UNCHANGED <<deployed, queue, history, call, cache, version>>

Prepare(k) ==
  /\ client[k].at = "added"
  /\ client' = [client EXCEPT ![k].at = "streaming"]
  /\ UNCHANGED <<bus, call, cache, version>>

(* prepare raises because the client has left: it is outside the try, so   *)
(* the queue stays registered for good.                                    *)
PrepareRaises(k) ==
  /\ client[k].at = "added"
  /\ client' = [client EXCEPT ![k].at = "leaked"]
  /\ UNCHANGED <<bus, call, cache, version>>

Write(k) ==
  /\ client[k].at = "streaming" /\ client[k].waiting # <<>>
  /\ client' = [client EXCEPT ![k].waiting = Tail(@),
                              ![k].written = Append(@, Head(client[k].waiting))]
  /\ UNCHANGED <<bus, call, cache, version>>

Leave(k) ==
  /\ client[k].at = "streaming"
  /\ client' = [client EXCEPT ![k].at = "gone"]
  /\ UNCHANGED <<bus, call, cache, version>>

\* Mutant: no timeout on the queue, so no keepalive.
ForgetOnData(k) ==
  /\ client[k].at = "gone" /\ client[k].waiting # <<>>
  /\ client' = [client EXCEPT ![k] = [Away EXCEPT !.at = "closed"]]
  /\ UNCHANGED <<bus, call, cache, version>>

(* Writing telemetry or, after 30 s without any, a keepalive to a client   *)
(* that is gone raises, and its queue is discarded.                        *)
Forget(k) ==
  /\ client[k].at = "gone"
  /\ client' = [client EXCEPT ![k] = [Away EXCEPT !.at = "closed"]]
  /\ UNCHANGED <<bus, call, cache, version>>

\* Mutant: a client misses what comes before its response is prepared.
BroadcastToPrepared(s) ==
  LET m == Head(queue[<<"mcp", s>>]) IN
  /\ Waiting(<<"mcp", s>>)
  /\ queue' = Taken(queue, <<"mcp", s>>)
  /\ client' =
       IF m.kind # "telemetry" THEN client
       ELSE [k \in Clients |->
               IF Registered(k) /\ client[k].at # "added"
               THEN [client[k] EXCEPT !.waiting = Append(@, <<s, m.version>>)]
               ELSE client[k]]
  /\ UNCHANGED <<deployed, events, history, call, cache, version>>

(* _broadcast_telemetry.  The empty request of a call comes here as well;  *)
(* it is no JSON and the callback fails.                                   *)
Broadcast(s) ==
  LET m == Head(queue[<<"mcp", s>>]) IN
  /\ Waiting(<<"mcp", s>>)
  /\ queue' = Taken(queue, <<"mcp", s>>)
  /\ client' =
       IF m.kind # "telemetry" THEN client
       ELSE [k \in Clients |->
               IF Registered(k)
               THEN [client[k] EXCEPT !.waiting = Append(@, <<s, m.version>>)]
               ELSE client[k]]
  /\ UNCHANGED <<deployed, events, history, call, cache, version>>

------------------------------------------------------------------------------
McpInit ==
  /\ call = [c \in Calls |-> NotMade]
  /\ cache = [s \in Subsystems |-> 0]
  /\ version = [s \in Subsystems |-> 1]
  /\ client = [k \in Clients |-> Away]

Handle(c) == AnswerAtOnce(c) \/ SendRequest(c) \/ Reply(c) \/ Expire(c) \/ NoResponders(c)

McpNext ==
  \/ \E c \in Calls : Handle(c) \/ \E a \in Asks[deployed] : Ask(c, a)
  \/ \E k \in Clients : \/ Connect(k) \/ Prepare(k) \/ PrepareRaises(k)
                        \/ Write(k) \/ Leave(k) \/ Forget(k)
  \/ \E s \in Subsystems : Broadcast(s)
==============================================================================
