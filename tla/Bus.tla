--------------------------------- MODULE Bus ---------------------------------
(***************************************************************************)
(* NATS as the Python services use it.                                     *)
(*                                                                         *)
(* nats-py gives every subscription a queue and a task of its own: the     *)
(* messages of one subscription are handled one after the other, those of  *)
(* different subscriptions of one service interleave at the awaits.  An    *)
(* exception in a callback is logged and the next message is handled.      *)
(*                                                                         *)
(* Every service is a container of its own that runs whether or not the    *)
(* others do; deployed says which ones do in a behaviour, and which of the *)
(* people and programs outside are there.  The subject                     *)
(* telemetry.<s>.state is named s here, command.uplink is "uplink",        *)
(* orchestrator.tick is "tick", command.orchestrator is "orchestrator".    *)
(***************************************************************************)
EXTENDS Integers, Sequences

CONSTANTS
  Deployments,    \* who may be there together
  Subscriptions,  \* pairs of a service and a subject
  Backlog,        \* bound: messages waiting before the outside sends one more
  MaxEvents       \* bound: per deployment, events from outside in a behaviour

VARIABLES
  deployed,       \* the services that run, and who else is there
  queue,          \* per subscription, the messages not yet handled
  events,         \* events from outside so far
  \* History, read by the properties only:
  ticked,         \* the services that have handled a tick
  published       \* the subsystems whose state has been published by one

history == <<ticked, published>>
bus == <<deployed, queue, events, history>>

HasSubscriber(subject) ==
  \E sub \in Subscriptions : sub[1] \in deployed /\ sub[2] = subject

(* The queues after m is published on a subject.                           *)
Sent(q, subject, m) ==
  [sub \in Subscriptions |->
     IF sub[1] \in deployed /\ sub[2] = subject THEN Append(q[sub], m) ELSE q[sub]]

(* The queues after the first message of a subscription has been taken.    *)
Taken(q, sub) == [q EXCEPT ![sub] = Tail(@)]

Waiting(sub) == sub \in Subscriptions /\ queue[sub] # <<>>

(* A service that handles a tick, and the states it publishes.             *)
HandlesTick(service, states) ==
  ticked' = ticked \cup {service} /\ published' = published \cup states

(* The outside sends no more than the bound allows.                        *)
Room(subject) ==
  \A sub \in Subscriptions : sub[2] = subject => Len(queue[sub]) < Backlog

Spend == events < MaxEvents[deployed] /\ events' = events + 1

------------------------------------------------------------------------------
(* Messages.  A request for telemetry has an empty body, which is no JSON. *)
TickMessage == [kind |-> "tick"]
EmptyRequest == [kind |-> "request"]
State(version, off) == [kind |-> "telemetry", version |-> version, off |-> off]

(* A command: its target, its opcode (or action), the fault type its       *)
(* payload names, and the field "command" that only C&DH reads.            *)
Command(target, opcode, type, command) ==
  [kind |-> "command", target |-> target, opcode |-> opcode, type |-> type,
   command |-> command]

BusInit ==
  /\ deployed \in Deployments
  /\ queue = [sub \in Subscriptions |-> <<>>]
  /\ events = 0 /\ ticked = {} /\ published = {}
==============================================================================
