-------------------------------- MODULE Mdm ---------------------------------
(***************************************************************************)
(* The executive of the multiplexer/demultiplexer (mdm/mdm_core.c), its    *)
(* command handler (cmd_handler.c) and its message queues (bus_1553.c).    *)
(*                                                                         *)
(* One thread runs mdm_main_loop.  An iteration is cut where a part of it  *)
(* ends: a message received, the pipe read, the cyclic tasks, one stored   *)
(* sequence after the other, the sleep.  pc says which part comes next.    *)
(*                                                                         *)
(* A command is a member of Commands; what its bytes spell is given by     *)
(* functions on Commands.  Commands whose effect is on a mode, a flag or a *)
(* parameter, which no decision of the code reads, are one kind, "nop".    *)
(***************************************************************************)
EXTENDS Integers, Sequences

CONSTANTS
  Commands,      \* command packets, received or stored
  Uplinked,      \* those that may be received
  Blank,         \* the command that zeroed memory spells
  Code,          \* Code[c]: kind of c
  Sum,           \* Sum[c]: sum of the code and the eight stored parameters
  Delay,         \* Delay[c]: step_delay_us / 1000000 of a stored command
  SeqId, Count,  \* SeqId[c], Count[c]: params[0], params[1]
  At,            \* At[c][o]: the command that params spells from offset o on
  SeqMax,        \* STORED_SEQ_MAX, 16
  StepMax,       \* STORED_CMD_MAX, 32
  Byte,          \* values of a UINT8, 256
  IdWidth,       \* values of the bit field sequence_id, 16
  CountWidth,    \* values of the bit field cmd_count, 64
  ParamBytes,    \* sizeof(cmd_params), 64
  Ring,          \* BUS_MSG_MAX, 32
  Period,        \* ticks of cycle_10s, 1000
  Threshold,     \* errors that cycle_10s tolerates, 100
  Word,          \* values of a UINT32: unsigned long, 64 bits in the build
  MaxMessages,   \* bound: messages received
  MaxUptime      \* bound: seconds that pass while no sequence waits

Kinds == {"nop", "refused", "unknown", "warm", "cold", "abort", "exec"}
Slots == 1..SeqMax
Steps == 0..(StepMax - 1)

ASSUME MdmConstants ==
  /\ Blank \in Commands /\ Uplinked \subseteq Commands
  /\ Code \in [Commands -> Kinds] /\ Code[Blank] = "nop"
  /\ Sum \in [Commands -> Nat] /\ Delay \in [Commands -> Nat]
  /\ SeqId \in [Commands -> 0..(Byte - 1)] /\ Count \in [Commands -> 0..(Byte - 1)]
  /\ At \in [Commands -> [0..(Byte - 1) -> Commands]]
  /\ {SeqMax, StepMax, Byte, IdWidth, CountWidth, ParamBytes, Ring, Period, Word} \subseteq Nat \ {0}
  /\ {Threshold, MaxMessages, MaxUptime} \subseteq Nat

VARIABLES
  slots,      \* stored_sequences
  received, processed, rejected,   \* cmd_received, cmd_processed, cmd_rejected
  rx,         \* bus_rx_queue, from head to tail
  tx,         \* messages in bus_tx_queue
  errors,     \* bus_error_count
  warned,     \* warning_flags & 0x04
  tick,       \* tick_count, of which only the remainder by Period is read
  uptime,     \* uptime_seconds
  pc, next,   \* position in the loop; next: the stored sequence it looks at
  asked,      \* history: the id with which a slot was last loaded
  done,       \* history: commands taken from a slot since it was loaded
  age,        \* history: seconds that have begun since a slot was loaded
  sent        \* counter for the bound

counters == <<received, processed, rejected>>
history == <<asked, done, age>>
sequences == <<slots, history>>
bus == <<tx, errors, warned>>
vars == <<slots, received, processed, rejected, rx, tx, errors, warned, tick, uptime,
          pc, next, asked, done, age, sent>>

Slot == [active : BOOLEAN, id : 0..(IdWidth - 1), count : 0..StepMax, step : 0..StepMax,
         entry : [Steps -> Commands], started : Nat]

Message == [type : {"BC_TO_RT", "RT_TO_BC"}, command : Commands]

Cleared == [active |-> FALSE, id |-> 0, count |-> 0, step |-> 0,
            entry |-> [k \in Steps |-> Blank], started |-> 0]

------------------------------------------------------------------------------
(* Stored sequences in their slots.                                        *)

\* Mutant: the search ends at the first free slot.
LoadedBeforeFree(id) ==
  {i \in Slots : slots[i].active /\ slots[i].id = id /\ \A j \in 1..i : slots[j].active}

(* The slots that hold the sequence id.  The field has fewer bits than id. *)
Loaded(id) == {i \in Slots : slots[i].active /\ slots[i].id = id}

FirstFree == {i \in Slots : ~slots[i].active /\ \A j \in 1..(i - 1) : slots[j].active}

Truncated(n, width) == IF n < width THEN n ELSE n % width

Clamped(n) == IF n > StepMax THEN StepMax ELSE n

(* UINT8 idx = 2 + (i * 10): wraps.                                        *)
Offset(k) == Truncated(2 + 10 * k, Byte)

\* Mutant: a sequence goes on where the one before it in the slot stopped.
LoadSlotContinuing(sl, c, now) ==
  LET n == Clamped(Truncated(Count[c], CountWidth)) IN
  [sl EXCEPT !.active = TRUE, !.id = Truncated(SeqId[c], IdWidth), !.count = n,
             !.started = now,
             !.entry = [k \in Steps |-> IF k < n /\ Offset(k) + 9 < ParamBytes
                                          THEN At[c][Offset(k)] ELSE @[k]]]

\* Mutant: the number of commands is not limited to the size of the array.
LoadSlotUnclamped(sl, c, now) ==
  LET n == Truncated(Count[c], CountWidth) IN
  [sl EXCEPT !.active = TRUE, !.id = Truncated(SeqId[c], IdWidth), !.count = n,
             !.step = 0, !.started = now,
             !.entry = [k \in Steps |-> IF k < n /\ Offset(k) + 9 < ParamBytes
                                          THEN At[c][Offset(k)] ELSE @[k]]]

(* A command list of n entries is read from the parameters; an entry that  *)
(* they do not reach stays what it was.                                    *)
LoadSlot(sl, c, now) ==
  LET n == Clamped(Truncated(Count[c], CountWidth)) IN
  [sl EXCEPT !.active = TRUE, !.id = Truncated(SeqId[c], IdWidth), !.count = n,
             !.step = 0, !.started = now,
             !.entry = [k \in Steps |-> IF k < n /\ Offset(k) + 9 < ParamBytes
                                          THEN At[c][Offset(k)] ELSE @[k]]]

------------------------------------------------------------------------------
(* cmd_process: validation, dispatch and the counters.  queue is what the  *)
(* receive queue holds besides the command.                                *)

Accept == /\ received' = received + 1 /\ processed' = processed + 1
          /\ UNCHANGED rejected

Reject(n) == /\ received' = received + 1 /\ rejected' = rejected + n
             /\ UNCHANGED processed

Invalid(queue) ==
  Reject(1) /\ rx' = queue /\ UNCHANGED <<sequences, bus, tick, uptime>>

Nop(c, queue) ==
  /\ Code[c] = "nop"
  /\ Accept /\ rx' = queue /\ UNCHANGED <<sequences, bus, tick, uptime>>

\* Mutant: a handler that fails is not counted.
RefusedUncounted(c, queue) ==
  /\ Code[c] = "refused"
  /\ Reject(0) /\ rx' = queue /\ UNCHANGED <<sequences, bus, tick, uptime>>

Refused(c, queue) ==
  /\ Code[c] = "refused"
  /\ Reject(1) /\ rx' = queue /\ UNCHANGED <<sequences, bus, tick, uptime>>

(* Counted by cmd_dispatch and again by cmd_process.                       *)
Unknown(c, queue) ==
  /\ Code[c] = "unknown"
  /\ Reject(2) /\ rx' = queue /\ UNCHANGED <<sequences, bus, tick, uptime>>

WarmReset(c, queue) ==
  /\ Code[c] = "warm"
  /\ Accept /\ tick' = 0 /\ rx' = queue /\ UNCHANGED <<sequences, bus, uptime>>

\* Mutant: a cold reset keeps the stored sequences.
ColdResetKeeping(c, queue) ==
  /\ Code[c] = "cold"
  /\ received' = 0 /\ processed' = 1 /\ rejected' = 0
  /\ rx' = <<>> /\ tx' = 0 /\ errors' = 0 /\ warned' = FALSE
  /\ tick' = 0 /\ uptime' = 0
  /\ UNCHANGED sequences

(* mdm_init clears the whole structure, the queues and the counters with   *)
(* it; cmd_process then counts the reset as processed.                     *)
ColdReset(c, queue) ==
  /\ Code[c] = "cold"
  /\ received' = 0 /\ processed' = 1 /\ rejected' = 0
  /\ rx' = <<>> /\ tx' = 0 /\ errors' = 0 /\ warned' = FALSE
  /\ tick' = 0 /\ uptime' = 0
  /\ slots' = [i \in Slots |-> Cleared]
  /\ asked' = [i \in Slots |-> 0] /\ done' = [i \in Slots |-> 0] /\ age' = [i \in Slots |-> 0]

AbortSequences(c, queue) ==
  /\ Code[c] = "abort"
  /\ slots' = [i \in Slots |-> [slots[i] EXCEPT !.active = FALSE]]
  /\ Accept /\ rx' = queue /\ UNCHANGED <<history, bus, tick, uptime>>

(* A sequence that is loaded already is left as it is.                     *)
AlreadyLoaded(c, queue) ==
  /\ Code[c] = "exec" /\ Loaded(SeqId[c]) # {}
  /\ Accept /\ rx' = queue /\ UNCHANGED <<sequences, bus, tick, uptime>>

LoadSequence(c, queue) ==
  /\ Code[c] = "exec" /\ Loaded(SeqId[c]) = {}
  /\ \E i \in FirstFree :
       /\ slots' = [slots EXCEPT ![i] = LoadSlot(@, c, uptime)]
       /\ asked' = [asked EXCEPT ![i] = SeqId[c]]
       /\ done' = [done EXCEPT ![i] = 0] /\ age' = [age EXCEPT ![i] = 0]
  /\ Accept /\ rx' = queue /\ UNCHANGED <<bus, tick, uptime>>

AllSlotsFull(c, queue) ==
  /\ Code[c] = "exec" /\ \A i \in Slots : slots[i].active /\ slots[i].id # SeqId[c]
  /\ Reject(1) /\ rx' = queue /\ UNCHANGED <<sequences, bus, tick, uptime>>

CmdProcess(c, valid, queue) ==
  \/ ~valid /\ Invalid(queue)
  \/ valid /\ \/ Nop(c, queue) \/ Refused(c, queue) \/ Unknown(c, queue)
              \/ WarmReset(c, queue) \/ ColdReset(c, queue) \/ AbortSequences(c, queue)
              \/ AlreadyLoaded(c, queue) \/ LoadSequence(c, queue) \/ AllSlotsFull(c, queue)

------------------------------------------------------------------------------
(* The loop.                                                               *)

(* The 1553 hardware puts a message in the receive queue.                  *)
Deliver(m) ==
  /\ sent < MaxMessages /\ Len(rx) < Ring - 1
  /\ sent' = sent + 1 /\ rx' = Append(rx, m)
  /\ UNCHANGED <<counters, sequences, bus, tick, uptime, pc, next>>

(* The command is read over the data of the message, which is shorter: the *)
(* checksum is taken over bytes beyond it and may come out either way.     *)
ServiceCommand(valid) ==
  /\ pc = "bus" /\ rx # <<>> /\ Head(rx).type = "BC_TO_RT"
  /\ CmdProcess(Head(rx).command, valid, Tail(rx))
  /\ UNCHANGED <<pc, next, sent>>

(* bus_send_message: a full queue is an error, counted in eight bits.      *)
ServiceRequest ==
  /\ pc = "bus" /\ rx # <<>> /\ Head(rx).type = "RT_TO_BC"
  /\ rx' = Tail(rx)
  /\ tx' = IF tx = Ring - 1 THEN tx ELSE tx + 1
  /\ errors' = IF tx = Ring - 1 THEN (IF errors + 1 = Byte THEN 0 ELSE errors + 1) ELSE errors
  /\ UNCHANGED <<counters, sequences, warned, tick, uptime, pc, next, sent>>

BusIdle ==
  /\ pc = "bus" /\ rx = <<>> /\ pc' = "stdin"
  /\ UNCHANGED <<counters, sequences, bus, rx, tick, uptime, next, sent>>

(* The pipe holds no frame, a part of one, or one that is not valid; or a  *)
(* valid one, which is then overwritten by a message of the queue.         *)
ReadStdin(valid) ==
  /\ pc = "stdin" /\ pc' = "tasks"
  /\ rx' = IF valid /\ rx # <<>> THEN Tail(rx) ELSE rx
  /\ UNCHANGED <<counters, sequences, bus, tick, uptime, next, sent>>

\* Mutant: a limit that the counter cannot reach.
CycleTenSecondsWide == warned \/ (tick = 0 /\ errors > Byte)

CycleTenSeconds == warned \/ (tick = 0 /\ errors > Threshold)

(* scheduler_dispatch, and mdm_output_tlm: it asks the sending function    *)
(* for messages until that fails, and so fills the queue.                  *)
Tasks ==
  /\ pc = "tasks" /\ pc' = "sequences" /\ next' = 1
  /\ warned' = CycleTenSeconds
  /\ tx' = Ring - 1
  /\ errors' = IF errors + 1 = Byte THEN 0 ELSE errors + 1
  /\ UNCHANGED <<counters, sequences, rx, tick, uptime, sent>>

Pending(sl) == sl.step < sl.count
Current(sl) == sl.entry[sl.step]
(* An unsigned difference: of a clock behind it, it is nearly a Word.      *)
Elapsed(sl) == IF uptime >= sl.started THEN uptime - sl.started
                                       ELSE Word + uptime - sl.started
Due(sl) == /\ sl.active /\ Pending(sl)
           /\ Elapsed(sl) >= Delay[Current(sl)]
(* The packet that is built for a stored command has no checksum: it is    *)
(* accepted when its bytes happen to add up to zero.                       *)
Accepted(sl) == (sl.id + sl.step + Sum[Current(sl)]) % Byte = 0

AfterSlot == IF next = SeqMax THEN pc' = "sleep" /\ next' = next
                              ELSE pc' = "sequences" /\ next' = next + 1

Stepped(sl) == [sl EXCEPT !.step = @ + 1]
Completed(sl) == [sl EXCEPT !.active = @ /\ Pending(sl)]

RunStored ==
  /\ pc = "sequences" /\ Due(slots[next]) /\ pc' = "advance"
  /\ CmdProcess(Current(slots[next]), Accepted(slots[next]), rx)
  /\ UNCHANGED <<next, sent>>

(* The command may have cleared or switched off the slot it came from.     *)
Advance ==
  /\ pc = "advance" /\ AfterSlot
  /\ slots' = [slots EXCEPT ![next] = Completed(Stepped(@))]
  /\ done' = [done EXCEPT ![next] = @ + 1]
  /\ UNCHANGED <<counters, asked, age, bus, rx, tick, uptime, sent>>

\* Mutant: a sequence is looked at only when a command of it is due.
WaitOnly ==
  /\ pc = "sequences" /\ ~Due(slots[next]) /\ AfterSlot
  /\ UNCHANGED <<counters, sequences, bus, rx, tick, uptime, sent>>

Wait ==
  /\ pc = "sequences" /\ ~Due(slots[next]) /\ AfterSlot
  /\ slots' = [slots EXCEPT ![next] = Completed(@)]
  /\ UNCHANGED <<counters, history, bus, rx, tick, uptime, sent>>

(* The iteration ends; s seconds have begun since the last one did.  The   *)
(* clock is monotonic, and 2^64 ms are more than it ever counts.           *)
Sleep(s) ==
  /\ pc = "sleep" /\ pc' = "bus"
  /\ s > 0 => uptime < MaxUptime \/ \E i \in Slots : slots[i].active /\ Pending(slots[i])
  /\ tick' = (IF tick + 1 = Period THEN 0 ELSE tick + 1)
  /\ uptime' = uptime + s
  /\ age' = [i \in Slots |-> IF slots[i].active THEN age[i] + s ELSE 0]
  /\ UNCHANGED <<counters, slots, asked, done, bus, rx, next, sent>>

Init ==
  /\ slots = [i \in Slots |-> Cleared]
  /\ received = 0 /\ processed = 0 /\ rejected = 0
  /\ rx = <<>> /\ tx = 0 /\ errors = 0 /\ warned = FALSE
  /\ tick = 0 /\ uptime = 0 /\ pc = "bus" /\ next = 1
  /\ asked = [i \in Slots |-> 0] /\ done = [i \in Slots |-> 0]
  /\ age = [i \in Slots |-> 0] /\ sent = 0

Service == \/ \E valid \in BOOLEAN : ServiceCommand(valid)
           \/ ServiceRequest \/ BusIdle

Loop == \/ Service
        \/ \E valid \in BOOLEAN : ReadStdin(valid)
        \/ Tasks \/ RunStored \/ Advance \/ Wait
        \/ \E s \in {0, 1} : Sleep(s)

Hardware ==
  \/ \E c \in Uplinked : Deliver([type |-> "BC_TO_RT", command |-> c])
  \/ Deliver([type |-> "RT_TO_BC", command |-> Blank])

Next == Loop \/ Hardware

Spec == Init /\ [][Next]_vars

(* The thread runs, and the clock does: every iteration sleeps.            *)
FairSpec == Spec /\ WF_vars(Loop) /\ SF_vars(Sleep(1))

------------------------------------------------------------------------------
(* What has to hold.                                                       *)

(* Types: a slot never says that it has more commands, or is further, than *)
(* its array is long, and no queue or counter leaves its range.            *)
TypeOK ==
  /\ slots \in [Slots -> Slot]
  /\ {received, processed, rejected, sent} \subseteq Nat /\ uptime \in Nat
  /\ rx \in Seq(Message) /\ tx \in 0..(Ring - 1)
  /\ errors \in 0..(Byte - 1) /\ warned \in BOOLEAN /\ tick \in 0..(Period - 1)
  /\ pc \in {"bus", "stdin", "tasks", "sequences", "advance", "sleep"} /\ next \in Slots
  /\ asked \in [Slots -> 0..(Byte - 1)] /\ done \in [Slots -> Nat]
  /\ age \in [Slots -> Nat]

(* No command gets lost in the books: whatever is received, by bus or from *)
(* a stored sequence, was processed or rejected, a cold reset among them.  *)
(* (There is no equality: cmd_dispatch counts an unknown code twice, and a *)
(* cold reset counts itself after it has cleared the counters.)            *)
EveryCommandCounted == received <= processed + rejected

(* cmd_stored_sequence_step "executes commands when delays expire": none   *)
(* before so many seconds have begun since the sequence was loaded, which  *)
(* is what every delay of it counts from.  The elapsed time is an unsigned *)
(* difference of readings, so this needs that no sequence outlives a reset *)
(* of the clock.                                                           *)
DelaysKept ==
  pc = "sequences" /\ Due(slots[next]) => age[next] >= Delay[Current(slots[next])]

(* A sequence is in one slot at most, however slots are freed and taken in *)
(* between; but an id that does not fit in the field is never found again. *)
LoadedOnce ==
  \A i, j \in Slots :
    i # j /\ slots[i].active /\ slots[j].active /\ slots[i].id = slots[j].id
      => asked[i] >= IdWidth \/ asked[j] >= IdWidth

(* A sequence takes its commands from the first on, whatever the sequence  *)
(* before it in the slot did: ended, was aborted or reset the computer.    *)
StartsAtFirstCommand == \A i \in Slots : slots[i].active => slots[i].step = done[i]

(* Every sequence ends, one of no commands too (a count of 64 is stored as *)
(* 0), even when its commands abort, reset or load sequences.              *)
SequencesEnd == \A i \in Slots : slots[i].active ~> ~slots[i].active

(* The output task overflows the queue in every iteration: in spite of the *)
(* wrap of the counter the warning comes, and comes back after a reset,    *)
(* when the resets (as many as MaxMessages allows) leave it the time.      *)
OverflowsReported == []<>warned

(* cmd_stored_sequence_step "executes commands when delays expire": a      *)
(* command that is due is not refused for its checksum.                    *)
StoredCommandsRun == pc = "sequences" /\ Due(slots[next]) => Accepted(slots[next])
==============================================================================
