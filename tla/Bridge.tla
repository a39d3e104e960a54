-------------------------------- MODULE Bridge -------------------------------
(***************************************************************************)
(* The bridges between the pipes of a process and NATS, of the MDM         *)
(* (subsystems/mdm/bridge.py) and of the robot arm                         *)
(* (subsystems/robotics/bridge.py), which have the same tasks and the same *)
(* two modes: "spawn", with the process as a child, and "pipe", with the   *)
(* output of the process as the bridge's own input.                        *)
(*                                                                         *)
(* A frame of the MDM is its number, and the words the bridge finds in it: *)
(* the count of a frame is written with the low byte first and read with   *)
(* the high byte first, so that any count but 0 is taken for the largest,  *)
(* 32.  Frames are complete and of one size, as the MDM writes no others.  *)
(* A line of the robot arm is a frame of 0 words when it is not JSON.      *)
(***************************************************************************)
EXTENDS Bus

CONSTANTS
  Modes,         \* the ways the bridge may be started
  PipeSize,      \* frames the pipe out of the process holds
  StdinSize,     \* frames that may be on their way into it before drain waits
  MaxFrames      \* bound: frames the process writes in a behaviour

VARIABLES
  mode,
  at,            \* where main is: "connecting", "running" or "ended"
  connected,     \* self.nc
  alive,         \* the process runs
  stdout, stdin, \* what is in the pipes: frames, and the number of commands
  frames,        \* history: the words of each frame that was written
  relayed        \* history: the frames published

bridgeVars == <<mode, at, connected, alive, stdout, stdin, frames, relayed>>

ASSUME BridgeConstants ==
  /\ Modes \subseteq {"spawn", "pipe"}
  /\ PipeSize \in Nat \ {0} /\ StdinSize \in Nat \ {0} /\ MaxFrames \in Nat

Bridged == {"mdm", "robotics"}
InUse == deployed \cap Bridged # {}
Arm == "robotics" \in deployed

(* The side of the process (external).  It writes what it sends when the   *)
(* pipe has room, and is stuck until then; it takes a command in between.  *)
Writes(words) ==
  /\ InUse /\ alive /\ Len(stdout) < PipeSize /\ Len(frames) < MaxFrames
  /\ frames' = Append(frames, words)
  /\ stdout' = Append(stdout, Len(frames) + 1)
  /\ UNCHANGED <<bus, mode, at, connected, alive, stdin, relayed>>

TakesCommand ==
  /\ InUse /\ alive /\ stdin > 0 /\ Len(stdout) < PipeSize
  /\ stdin' = stdin - 1
  /\ UNCHANGED <<bus, mode, at, connected, alive, stdout, frames, relayed>>

Exits ==
  /\ InUse /\ alive
  /\ alive' = FALSE
  /\ UNCHANGED <<bus, mode, at, connected, stdout, stdin, frames, relayed>>

------------------------------------------------------------------------------
(* connect_nats: without NATS the bridge runs on and only logs.            *)
Connect_nats(success) ==
  /\ InUse /\ at = "connecting"
  /\ connected' = success
  /\ at' = "running"
  /\ UNCHANGED <<bus, mode, alive, stdout, stdin, frames, relayed>>

(* from_bytes and _process_frame: a frame with fewer than two words holds  *)
(* no packet, any other is published on the subject of its packet type.    *)
(* Of the robot arm every line of JSON is published.                       *)
HoldsPacket(f) == frames[f] >= 2
IsJson(f) == frames[f] # 0
Publishable(f) == IF Arm THEN IsJson(f) ELSE HoldsPacket(f)

\* Mutant: the task that reads also waits for drain.
ReadFrameWhenDrained ==
  /\ at = "running" /\ mode = "spawn" /\ stdout # <<>> /\ stdin < StdinSize
  /\ stdout' = Tail(stdout)
  /\ relayed' = IF connected /\ Publishable(Head(stdout))
                THEN Append(relayed, Head(stdout)) ELSE relayed
  /\ UNCHANGED <<bus, mode, at, connected, alive, stdin, frames>>

\* Mutant: two frames are taken for one.
ReadFrameTwice ==
  /\ at = "running" /\ mode = "spawn" /\ stdout # <<>>
  /\ stdout' = IF Len(stdout) > 1 THEN Tail(Tail(stdout)) ELSE <<>>
  /\ relayed' = IF connected /\ Publishable(Head(stdout))
                THEN Append(relayed, Head(stdout)) ELSE relayed
  /\ UNCHANGED <<bus, mode, at, connected, alive, stdin, frames>>

(* An iteration of read_mdm_output, or read_telemetry: a task of its own.  *)
ReadFrame ==
  /\ at = "running" /\ mode = "spawn" /\ stdout # <<>>
  /\ stdout' = Tail(stdout)
  /\ relayed' = IF connected /\ Publishable(Head(stdout))
                THEN Append(relayed, Head(stdout)) ELSE relayed
  /\ UNCHANGED <<bus, mode, at, connected, alive, stdin, frames>>

(* In pipe mode wait() reads standard input itself, to the end and without *)
(* an await: the task that should read frames never runs, nor a callback.  *)
Swallow ==
  /\ at = "running" /\ mode = "pipe" /\ stdout # <<>>
  /\ stdout' = <<>>
  /\ UNCHANGED <<bus, mode, at, connected, alive, stdin, frames, relayed>>

(* wait() returns; run() and main() end, and what is unread is lost.       *)
BridgeEnds ==
  /\ at = "running" /\ ~alive /\ (mode = "pipe" => stdout = <<>>)
  /\ at' = "ended"
  /\ UNCHANGED <<bus, mode, connected, alive, stdout, stdin, frames, relayed>>

(* _on_command.  The robot arm is sent any command as a line.  For the MDM *)
(* a target that is a name cannot be shifted into a command word: nothing  *)
(* is sent.  The callback waits in drain while the pipe is full; the task  *)
(* that reads does not.                                                    *)
Sendable(m) == Arm \/ m.target = "number"

BridgeCommand ==
  \E b \in Bridged :
    /\ Waiting(<<b, "uplink">>)
    /\ at = "running" /\ mode = "spawn" /\ connected /\ stdin < StdinSize
    /\ queue' = Taken(queue, <<b, "uplink">>)
    /\ stdin' = IF Sendable(Head(queue[<<b, "uplink">>])) /\ alive THEN stdin + 1 ELSE stdin
    /\ UNCHANGED <<deployed, events, history, mode, at, connected, alive,
                   stdout, frames, relayed>>

BridgeInit ==
  /\ mode \in Modes /\ (~InUse => mode = CHOOSE m \in Modes : TRUE)
  /\ ~(Bridged \subseteq deployed)
  /\ at = "connecting" /\ connected = FALSE
  /\ alive = TRUE /\ stdout = <<>> /\ stdin = 0
  /\ frames = <<>> /\ relayed = <<>>

ProcessNext ==
  \/ \E words \in {0, IF Arm THEN 1 ELSE 32} : Writes(words)
  \/ TakesCommand \/ Exits

BridgeNext ==
  \/ \E success \in BOOLEAN : Connect_nats(success)
  \/ ReadFrame \/ Swallow \/ BridgeEnds \/ BridgeCommand
==============================================================================
