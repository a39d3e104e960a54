----------------------------- MODULE McpService ------------------------------
(***************************************************************************)
(* What the MCP server promises its callers, whatever it does to get the   *)
(* answers: a call is answered once; calls on one NATS subject are         *)
(* answered in the order they were made; and telemetry does not go back:   *)
(* a reading is at least as new as every reading of that subsystem that    *)
(* any caller has been given before.                                       *)
(***************************************************************************)
EXTENDS Integers

CONSTANTS
  Calls,     \* 1..n: calls are numbered in the order they are made
  Serial,    \* the channels whose calls are handled one after the other
  NoAnswer,  \* not answered yet
  Results    \* the answers that hold no telemetry

VARIABLES
  via,       \* the channel a call came by, "none" before it is made
  about,     \* the subsystem it asks about
  answer     \* its answer

vars == <<via, about, answer>>

Answered(c) == answer[c] # NoAnswer
IsReading(c) == Answered(c) /\ answer[c] \notin Results

Ask(c, channel, subject) ==
  /\ via[c] = "none" /\ channel # "none"
  /\ \A d \in Calls : d < c => via[d] # "none"
  /\ via' = [via EXCEPT ![c] = channel]
  /\ about' = [about EXCEPT ![c] = subject]
  /\ UNCHANGED answer

Answer(c, a) ==
  /\ via[c] # "none" /\ ~Answered(c) /\ a # NoAnswer
  /\ via[c] \in Serial =>
       \A d \in Calls : d < c /\ via[d] = via[c] => Answered(d)
  /\ a \notin Results =>
       \A d \in Calls :
          IsReading(d) /\ about[d] = about[c] => a.version >= answer[d].version
  /\ answer' = [answer EXCEPT ![c] = a]
  /\ UNCHANGED <<via, about>>

Init ==
  /\ via = [c \in Calls |-> "none"]
  /\ about = [c \in Calls |-> "none"]
  /\ answer = [c \in Calls |-> NoAnswer]

(* The channel, the subject and the answer are whatever the step chooses.  *)
Next == \E c \in Calls : Ask(c, via'[c], about'[c]) \/ Answer(c, answer'[c])

Spec == Init /\ [][Next]_vars
==============================================================================
