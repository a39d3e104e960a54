----------------------------- MODULE MdmProofs ------------------------------
(* Proofs about Mdm: the types, the books of the command handler, what a   *)
(* slot holds, and the delays of stored commands.                          *)
EXTENDS Mdm, TLAPS

LEMMA Constants ==
  /\ SeqMax \in Nat \ {0} /\ StepMax \in Nat \ {0} /\ Byte \in Nat \ {0}
  /\ IdWidth \in Nat \ {0} /\ CountWidth \in Nat \ {0} /\ ParamBytes \in Nat \ {0}
  /\ Ring \in Nat \ {0} /\ Period \in Nat \ {0} /\ Word \in Nat \ {0}
BY MdmConstants DEF MdmConstants

LEMMA CommandTypes ==
  ASSUME NEW c \in Commands
  PROVE  /\ SeqId[c] \in 0..(Byte - 1) /\ Count[c] \in 0..(Byte - 1)
         /\ \A o \in 0..(Byte - 1) : At[c][o] \in Commands
<1>1. At[c] \in [0..(Byte - 1) -> Commands]
  BY MdmConstants DEF MdmConstants
<1>2. QED
  BY <1>1, MdmConstants DEF MdmConstants

(* What a bit field keeps of a number is in the field, and is the number   *)
(* if that fits.                                                           *)
LEMMA TruncatedType ==
  ASSUME NEW n \in Nat, NEW width \in Nat \ {0}
  PROVE  /\ Truncated(n, width) \in 0..(width - 1)
         /\ n < width => Truncated(n, width) = n
<1>1. n % width \in 0..(width - 1)
  OBVIOUS
<1>2. QED
  BY <1>1 DEF Truncated

LEMMA OffsetType ==
  ASSUME NEW k \in Steps
  PROVE  Offset(k) \in 0..(Byte - 1)
<1>1. 2 + 10 * k \in Nat
  BY Constants DEF Steps
<1>2. QED
  BY <1>1, Constants, TruncatedType DEF Offset

(* A loaded slot has the type of a slot, and stands at its first command.  *)
LEMMA LoadSlotType ==
  ASSUME NEW sl \in Slot, NEW c \in Commands, NEW now \in Nat
  PROVE  /\ LoadSlot(sl, c, now) \in Slot
         /\ LoadSlot(sl, c, now).id = Truncated(SeqId[c], IdWidth)
         /\ LoadSlot(sl, c, now).step = 0
         /\ LoadSlot(sl, c, now).active /\ LoadSlot(sl, c, now).started = now
<1> DEFINE n == Clamped(Truncated(Count[c], CountWidth))
           list == [k \in Steps |-> IF k < n /\ Offset(k) + 9 < ParamBytes
                                      THEN At[c][Offset(k)] ELSE sl.entry[k]]
<1>1. n \in 0..StepMax
  <2>1. Truncated(Count[c], CountWidth) \in Nat
    BY Constants, CommandTypes, TruncatedType
  <2>2. QED
    BY <2>1, Constants DEF Clamped
<1>2. list \in [Steps -> Commands]
  BY CommandTypes, OffsetType DEF Slot
<1>3. Truncated(SeqId[c], IdWidth) \in 0..(IdWidth - 1)
  BY Constants, CommandTypes, TruncatedType
<1>4. LoadSlot(sl, c, now) =
        [sl EXCEPT !.active = TRUE, !.id = Truncated(SeqId[c], IdWidth), !.count = n,
                   !.step = 0, !.started = now, !.entry = list]
  BY DEF LoadSlot
<1> DEFINE loaded == [active |-> TRUE, id |-> Truncated(SeqId[c], IdWidth), count |-> n,
                      step |-> 0, entry |-> list, started |-> now]
<1> HIDE DEF n, list
<1>5. LoadSlot(sl, c, now) = loaded
  BY <1>4 DEF Slot
<1>6. loaded \in Slot
  BY <1>1, <1>2, <1>3, Constants DEF Slot
<1>7. QED
  BY <1>5, <1>6

LEMMA ClearedType == Cleared \in Slot /\ Cleared.active = FALSE /\ Cleared.step = 0
BY Constants, MdmConstants DEF MdmConstants, Cleared, Slot

LEMMA CompletedType ==
  ASSUME NEW sl \in Slot
  PROVE  /\ Completed(sl) \in Slot /\ Completed(sl).active \in BOOLEAN
         /\ Completed(sl).active => sl.active
         /\ Completed(sl).id = sl.id /\ Completed(sl).step = sl.step
         /\ Completed(sl).started = sl.started
BY DEF Completed, Slot, Pending

------------------------------------------------------------------------------
(* What a command does, whatever it is.  It leaves the stored sequences    *)
(* alone, or switches them all off, or clears them, or loads one slot.     *)

Queues == /\ rx \in Seq(Message) /\ tx \in 0..(Ring - 1) /\ errors \in 0..(Byte - 1)
          /\ warned \in BOOLEAN /\ tick \in 0..(Period - 1) /\ uptime \in Nat

Records == /\ slots \in [Slots -> Slot] /\ asked \in [Slots -> 0..(Byte - 1)]
           /\ done \in [Slots -> Nat] /\ age \in [Slots -> Nat]

Books == /\ received \in Nat /\ processed \in Nat /\ rejected \in Nat
         /\ EveryCommandCounted

LEMMA CommandCases ==
  ASSUME NEW P, NEW c, NEW valid, NEW queue, CmdProcess(c, valid, queue),
         UNCHANGED sequences => P, ColdReset(c, queue) => P,
         AbortSequences(c, queue) => P, LoadSequence(c, queue) => P
  PROVE  P
BY DEF CmdProcess, Invalid, Nop, Refused, Unknown, WarmReset, AlreadyLoaded, AllSlotsFull

LEMMA CommandQueues ==
  ASSUME Queues, NEW c, NEW valid, NEW queue \in Seq(Message), CmdProcess(c, valid, queue)
  PROVE  Queues'
<1>1. 0 \in 0..(Ring - 1) /\ 0 \in 0..(Byte - 1) /\ 0 \in 0..(Period - 1)
  BY Constants
<1>2. <<>> \in Seq(Message) /\ 0 \in Nat
  OBVIOUS
<1>3. ColdReset(c, queue) => Queues'
  BY <1>1, <1>2 DEF ColdReset, Queues
<1>4. /\ UNCHANGED <<bus, uptime>>
      /\ \/ rx' = queue /\ tick' = tick
         \/ rx' = queue /\ tick' = 0
      => Queues'
  BY <1>1 DEF Queues, bus
<1>5. \/ ColdReset(c, queue)
      \/ rx' = queue /\ UNCHANGED <<bus, uptime>> /\ (tick' = tick \/ tick' = 0)
  BY DEF CmdProcess, Invalid, Nop, Refused, Unknown, WarmReset, AbortSequences,
     AlreadyLoaded, LoadSequence, AllSlotsFull
<1>6. QED
  BY <1>3, <1>4, <1>5

LEMMA CommandBooks ==
  ASSUME Books, NEW c, NEW valid, NEW queue, CmdProcess(c, valid, queue)
  PROVE  Books'
BY DEF CmdProcess, Invalid, Nop, Refused, Unknown, WarmReset, ColdReset, AbortSequences,
   AlreadyLoaded, LoadSequence, AllSlotsFull, Accept, Reject, Books, EveryCommandCounted

LEMMA CommandRecords ==
  ASSUME Records, uptime \in Nat, NEW c \in Commands, NEW valid, NEW queue,
         CmdProcess(c, valid, queue)
  PROVE  Records' /\ \A i \in Slots : slots'[i].step \in {0, slots[i].step}
<1> USE DEF Records
<1>1. CASE UNCHANGED sequences
  BY <1>1 DEF sequences, history
<1>2. CASE ColdReset(c, queue)
  <2>1. 0 \in 0..(Byte - 1)
    BY Constants
  <2>2. QED
    BY <1>2, <2>1, ClearedType DEF ColdReset
<1>3. CASE AbortSequences(c, queue)
  <2>1. \A i \in Slots : /\ [slots[i] EXCEPT !.active = FALSE] \in Slot
                         /\ [slots[i] EXCEPT !.active = FALSE].step = slots[i].step
    BY DEF Slot
  <2>2. QED
    BY <1>3, <2>1 DEF AbortSequences, history
<1>4. CASE LoadSequence(c, queue)
  <2>1. PICK i \in FirstFree :
           /\ slots' = [slots EXCEPT ![i] = LoadSlot(@, c, uptime)]
           /\ asked' = [asked EXCEPT ![i] = SeqId[c]]
           /\ done' = [done EXCEPT ![i] = 0] /\ age' = [age EXCEPT ![i] = 0]
    BY <1>4 DEF LoadSequence
  <2>2. i \in Slots
    BY DEF FirstFree
  <2>3. LoadSlot(slots[i], c, uptime) \in Slot /\ LoadSlot(slots[i], c, uptime).step = 0
    BY <2>2, LoadSlotType
  <2>4. SeqId[c] \in 0..(Byte - 1)
    BY CommandTypes
  <2>5. QED
    BY <2>1, <2>2, <2>3, <2>4
<1>5. QED
  BY <1>1, <1>2, <1>3, <1>4, CommandCases

(* What the slots hold together with their history.                        *)
Held == LoadedOnce /\ StartsAtFirstCommand

LEMMA CommandHeld ==
  ASSUME Records, Held, uptime \in Nat, NEW c \in Commands, NEW valid, NEW queue,
         CmdProcess(c, valid, queue)
  PROVE  Held'
<1> USE DEF Records, Held, LoadedOnce, StartsAtFirstCommand
<1>1. CASE UNCHANGED sequences
  BY <1>1 DEF sequences, history
<1>2. CASE ColdReset(c, queue)
  BY <1>2, ClearedType DEF ColdReset
<1>3. CASE AbortSequences(c, queue)
  <2>1. \A i \in Slots : slots'[i].active = FALSE
    BY <1>3 DEF AbortSequences, Slot
  <2>2. QED
    BY <2>1
<1>4. CASE LoadSequence(c, queue)
  <2> DEFINE new(i) == LoadSlot(slots[i], c, uptime)
  <2>1. PICK i \in FirstFree :
           /\ slots' = [slots EXCEPT ![i] = new(i)]
           /\ asked' = [asked EXCEPT ![i] = SeqId[c]]
           /\ done' = [done EXCEPT ![i] = 0]
    BY <1>4 DEF LoadSequence
  <2>2. i \in Slots /\ \A j \in Slots : slots[j].active => slots[j].id # SeqId[c]
    BY <1>4 DEF LoadSequence, FirstFree, Loaded
  <2>3. new(i).id = Truncated(SeqId[c], IdWidth) /\ new(i).step = 0
    BY <2>2, LoadSlotType
  <2>4. SeqId[c] < IdWidth => new(i).id = SeqId[c]
    BY <2>3, Constants, CommandTypes, TruncatedType
  <2>5. SeqId[c] \in Nat
    BY CommandTypes
  <2> HIDE DEF new
  <2>6. \A j \in Slots : j # i => slots'[j] = slots[j] /\ asked'[j] = asked[j] /\ done'[j] = done[j]
    BY <2>1, <2>2
  <2>7. slots'[i] = new(i) /\ asked'[i] = SeqId[c] /\ done'[i] = 0
    BY <2>1, <2>2
  <2>8. SeqId[c] >= IdWidth \/ SeqId[c] < IdWidth
    BY <2>5, Constants
  <2>9. LoadedOnce'
    BY <2>2, <2>4, <2>6, <2>7, <2>8
  <2>10. StartsAtFirstCommand'
    BY <2>3, <2>6, <2>7
  <2>11. QED
    BY <2>9, <2>10
<1>5. QED
  BY <1>1, <1>2, <1>3, <1>4, CommandCases

------------------------------------------------------------------------------
(* The loop.                                                               *)

(* A command that has been taken from a slot was in the array.             *)
Inside == pc = "advance" => slots[next].step < StepMax

Places == /\ pc \in {"bus", "stdin", "tasks", "sequences", "advance", "sleep"}
          /\ next \in Slots /\ sent \in Nat

IInv == Queues /\ Records /\ Books /\ Held /\ Places /\ Inside

LEMMA LoopSteps ==
  ASSUME NEW P, Next,
         \A m \in Message : Deliver(m) => P,
         \A valid \in BOOLEAN : ServiceCommand(valid) => P,
         ServiceRequest => P, BusIdle => P,
         \A valid \in BOOLEAN : ReadStdin(valid) => P,
         Tasks => P, RunStored => P, Advance => P, Wait => P,
         \A s \in {0, 1} : Sleep(s) => P
  PROVE  P
<1>1. /\ \A c \in Uplinked : [type |-> "BC_TO_RT", command |-> c] \in Message
      /\ [type |-> "RT_TO_BC", command |-> Blank] \in Message
  BY MdmConstants DEF MdmConstants, Message
<1>2. QED
  BY <1>1 DEF Next, Loop, Service, Hardware

LEMMA InitHolds == Init => IInv
<1> SUFFICES ASSUME Init PROVE IInv
  OBVIOUS
<1>1. Queues
  <2>1. <<>> \in Seq(Message)
    OBVIOUS
  <2>3. 0 \in 0..(Ring - 1) /\ 0 \in 0..(Byte - 1) /\ 0 \in 0..(Period - 1)
    BY Constants
  <2>2. QED
    BY <2>1, <2>3 DEF Init, Queues
<1>6. Books
  BY DEF Init, Books, EveryCommandCounted
<1>5. Places
  BY Constants DEF Init, Places, Slots
<1>2. 0 \in 0..(Byte - 1)
  BY Constants
<1>3. Records /\ Held
  BY <1>2, ClearedType DEF Init, Records, Held, LoadedOnce, StartsAtFirstCommand
<1>4. QED
  BY <1>1, <1>3, <1>5, <1>6 DEF IInv, Inside, Init

(* The two steps that process a command.                                   *)
LEMMA ServiceHolds ==
  ASSUME IInv, NEW valid \in BOOLEAN, ServiceCommand(valid)
  PROVE  IInv'
<1>1. Head(rx).command \in Commands /\ Tail(rx) \in Seq(Message)
  <2>1. rx \in Seq(Message) /\ rx # <<>>
    BY DEF IInv, Queues, ServiceCommand
  <2>2. Head(rx) \in Message /\ Tail(rx) \in Seq(Message)
    BY <2>1
  <2>3. QED
    BY <2>2 DEF Message
<1>2. CmdProcess(Head(rx).command, valid, Tail(rx))
  BY DEF ServiceCommand
<1>3. uptime \in Nat
  BY DEF IInv, Queues
<1>4. Queues'
  BY <1>1, <1>2, CommandQueues DEF IInv
<1>5. Books'
  BY <1>2, CommandBooks DEF IInv
<1>6. Records'
  BY <1>1, <1>2, <1>3, CommandRecords DEF IInv
<1>7. Held'
  BY <1>1, <1>2, <1>3, CommandHeld DEF IInv
<1>8. Places' /\ Inside'
  BY DEF IInv, Places, Inside, ServiceCommand
<1>9. QED
  BY <1>4, <1>5, <1>6, <1>7, <1>8 DEF IInv

LEMMA RunStoredHolds ==
  ASSUME IInv, RunStored
  PROVE  IInv'
<1> DEFINE c == Current(slots[next])
           valid == Accepted(slots[next])
<1>1. next \in Slots /\ slots[next] \in Slot /\ next' = next /\ pc' = "advance" /\ sent' = sent
  BY DEF IInv, Places, Records, RunStored
<1>2. slots[next].step \in 0..(StepMax - 1)
  BY <1>1, Constants DEF RunStored, Due, Pending, Slot
<1>3. c \in Commands
  BY <1>1, <1>2 DEF Current, Slot, Steps
<1>4. CmdProcess(c, valid, rx)
  BY DEF RunStored
<1> HIDE DEF c, valid
<1>5. uptime \in Nat /\ rx \in Seq(Message)
  BY DEF IInv, Queues
<1>6. Queues'
  BY <1>4, <1>5, CommandQueues DEF IInv
<1>7. Books'
  BY <1>4, CommandBooks DEF IInv
<1>8. Records' /\ \A i \in Slots : slots'[i].step \in {0, slots[i].step}
  BY <1>3, <1>4, <1>5, CommandRecords DEF IInv
<1>9. Held'
  BY <1>3, <1>4, <1>5, CommandHeld DEF IInv
<1>10. slots'[next].step < StepMax
  BY <1>1, <1>2, <1>8, Constants
<1>11. Places' /\ Inside'
  BY <1>1, <1>10 DEF IInv, Places, Inside
<1>12. QED
  BY <1>6, <1>7, <1>8, <1>9, <1>11 DEF IInv

(* Where the scan of the slots goes on.                                    *)
LEMMA AfterSlotPlaces ==
  ASSUME next \in Slots, AfterSlot
  PROVE  pc' \in {"sequences", "sleep"} /\ next' \in Slots
BY Constants DEF AfterSlot, Slots

LEMMA AdvanceHolds ==
  ASSUME IInv, Advance
  PROVE  IInv'
<1> DEFINE stepped == Stepped(slots[next])
           new == Completed(stepped)
<1>1. next \in Slots /\ slots[next] \in Slot /\ sent' = sent /\ sent \in Nat
  BY DEF IInv, Places, Records, Advance
<1>2. slots[next].step + 1 \in 0..StepMax
  BY <1>1, Constants DEF IInv, Inside, Advance, Slot
<1>3. /\ stepped \in Slot /\ stepped.step = slots[next].step + 1
      /\ stepped.id = slots[next].id /\ stepped.active = slots[next].active
  BY <1>1, <1>2 DEF Stepped, Slot
<1>4. slots' = [slots EXCEPT ![next] = new] /\ done' = [done EXCEPT ![next] = @ + 1]
  BY DEF Advance
<1>5. asked' = asked /\ age' = age
  BY DEF Advance
<1> HIDE DEF stepped
<1>6. new \in Slot
  BY <1>3, CompletedType
<1>7. /\ new.active => slots[next].active
      /\ new.id = slots[next].id /\ new.step = slots[next].step + 1
  BY <1>3, CompletedType
<1> HIDE DEF new
<1>13. Records'
  <2>1. slots' \in [Slots -> Slot] /\ done' \in [Slots -> Nat]
    BY <1>1, <1>4, <1>6 DEF IInv, Records
  <2>2. QED
    BY <2>1, <1>5 DEF IInv, Records
<1>14. \A i \in Slots : i # next => slots'[i] = slots[i] /\ done'[i] = done[i]
  BY <1>4 DEF IInv, Records
<1>15. slots'[next] = new /\ done'[next] = done[next] + 1
  BY <1>1, <1>4 DEF IInv, Records
<1>8. LoadedOnce'
  BY <1>5, <1>7, <1>14, <1>15 DEF IInv, Held, LoadedOnce
<1>9. StartsAtFirstCommand'
  BY <1>7, <1>14, <1>15 DEF IInv, Held, StartsAtFirstCommand
<1>10. Queues' /\ Books'
  BY DEF IInv, Advance, bus, counters, Queues, Books, EveryCommandCounted
<1>11. Places' /\ Inside'
  BY <1>1, AfterSlotPlaces DEF Advance, Places, Inside
<1>12. QED
  BY <1>8, <1>9, <1>10, <1>11, <1>13 DEF IInv, Held

LEMMA WaitHolds ==
  ASSUME IInv, Wait
  PROVE  IInv'
<1> DEFINE new == Completed(slots[next])
<1>1. next \in Slots /\ slots[next] \in Slot /\ sent' = sent /\ sent \in Nat
  BY DEF IInv, Places, Records, Wait
<1>2. new \in Slot
  BY <1>1, CompletedType
<1>3. /\ new.active => slots[next].active
      /\ new.id = slots[next].id /\ new.step = slots[next].step
  BY <1>1, CompletedType
<1>10. slots' = [slots EXCEPT ![next] = new]
  BY DEF Wait
<1>11. UNCHANGED <<asked, done, age>>
  BY DEF Wait, history
<1> HIDE DEF new
<1>12. slots' \in [Slots -> Slot]
  BY <1>1, <1>2, <1>10 DEF IInv, Records
<1>4. Records'
  BY <1>11, <1>12 DEF IInv, Records
<1>13. \A i \in Slots : slots'[i] = IF i = next THEN new ELSE slots[i]
  BY <1>1, <1>10 DEF IInv, Records
<1>5. \A i \in Slots : /\ slots'[i].active => slots[i].active /\ slots'[i].id = slots[i].id
                       /\ slots'[i].step = slots[i].step
  BY <1>3, <1>13
<1>6. Held'
  BY <1>5, <1>11 DEF IInv, Held, LoadedOnce, StartsAtFirstCommand
<1>7. Queues' /\ Books'
  BY DEF IInv, Wait, bus, counters, Queues, Books, EveryCommandCounted
<1>8. Places' /\ Inside'
  BY <1>1, AfterSlotPlaces DEF Wait, Places, Inside
<1>9. QED
  BY <1>4, <1>6, <1>7, <1>8 DEF IInv

LEMMA SleepHolds ==
  ASSUME IInv, NEW s \in {0, 1}, Sleep(s)
  PROVE  IInv'
<1>1. uptime' \in Nat /\ tick' \in 0..(Period - 1)
  BY Constants DEF IInv, Queues, Sleep
<1>2. Queues'
  BY <1>1 DEF IInv, Queues, Sleep, bus
<1>3. age' \in [Slots -> Nat]
  BY DEF IInv, Records, Sleep
<1>4. Records'
  BY <1>3 DEF IInv, Records, Sleep
<1>5. Held' /\ Books' /\ Places' /\ Inside'
  BY DEF IInv, Held, LoadedOnce, StartsAtFirstCommand, Books, EveryCommandCounted, Places,
         Inside, Sleep, counters
<1>6. QED
  BY <1>2, <1>4, <1>5 DEF IInv

(* The steps that leave the slots and the counters of commands alone.      *)
LEMMA OtherHolds ==
  ASSUME IInv, Queues', Places', pc' # "advance" \/ UNCHANGED <<pc, next>>,
         UNCHANGED <<counters, sequences>>
  PROVE  IInv'
BY DEF IInv, Records, Books, Held, Inside, EveryCommandCounted, LoadedOnce,
       StartsAtFirstCommand, counters, sequences, history

LEMMA QueuesHold ==
  ASSUME IInv,
         \/ \E m \in Message : Deliver(m)
         \/ ServiceRequest \/ BusIdle \/ Tasks
         \/ \E valid \in BOOLEAN : ReadStdin(valid)
  PROVE  Queues'
<1> USE DEF IInv, Queues, bus
<1>1. ASSUME NEW m \in Message, Deliver(m) PROVE Queues'
  BY <1>1 DEF Deliver
<1>2. Tail(rx) \in Seq(Message) \/ rx = <<>>
  OBVIOUS
<1>3. tx \in 0..(Ring - 1) /\ (tx # Ring - 1 => tx + 1 \in 0..(Ring - 1))
  BY Constants
<1>4. /\ errors + 1 # Byte => errors + 1 \in 0..(Byte - 1)
      /\ 0 \in 0..(Byte - 1) /\ Ring - 1 \in 0..(Ring - 1)
  BY Constants
<1>5. CASE ServiceRequest
  BY <1>2, <1>3, <1>4, <1>5 DEF ServiceRequest
<1>6. CASE BusIdle
  BY <1>6 DEF BusIdle
<1>7. CASE Tasks
  BY <1>4, <1>7 DEF Tasks, CycleTenSeconds
<1>8. ASSUME NEW valid \in BOOLEAN, ReadStdin(valid) PROVE Queues'
  BY <1>2, <1>8 DEF ReadStdin
<1>9. QED
  BY <1>1, <1>5, <1>6, <1>7, <1>8

LEMMA NextHolds == IInv /\ Next => IInv'
<1> SUFFICES ASSUME IInv, Next PROVE IInv'
  OBVIOUS
<1>1. ASSUME NEW m \in Message, Deliver(m) PROVE IInv'
  <2>1. Places'
    BY <1>1 DEF IInv, Places, Deliver
  <2>2. QED
    BY <1>1, <2>1, QueuesHold, OtherHolds DEF Deliver
<1>2. ASSUME NEW valid \in BOOLEAN, ServiceCommand(valid) PROVE IInv'
  BY <1>2, ServiceHolds
<1>3. CASE ServiceRequest
  <2>1. Places'
    BY <1>3 DEF IInv, Places, ServiceRequest
  <2>2. QED
    BY <1>3, <2>1, QueuesHold, OtherHolds DEF ServiceRequest
<1>4. CASE BusIdle
  <2>1. Places'
    BY <1>4 DEF IInv, Places, BusIdle
  <2>2. QED
    BY <1>4, <2>1, QueuesHold, OtherHolds DEF BusIdle
<1>5. ASSUME NEW valid \in BOOLEAN, ReadStdin(valid) PROVE IInv'
  <2>1. Places'
    BY <1>5 DEF IInv, Places, ReadStdin
  <2>2. QED
    BY <1>5, <2>1, QueuesHold, OtherHolds DEF ReadStdin
<1>6. CASE Tasks
  <2>1. Places'
    BY <1>6, Constants DEF IInv, Places, Tasks, Slots
  <2>2. QED
    BY <1>6, <2>1, QueuesHold, OtherHolds DEF Tasks
<1>7. ASSUME NEW s \in {0, 1}, Sleep(s) PROVE IInv'
  BY <1>7, SleepHolds
<1>8. QED
  BY <1>1, <1>2, <1>3, <1>4, <1>5, <1>6, <1>7, RunStoredHolds, AdvanceHolds, WaitHolds, LoopSteps

LEMMA StutterHolds == IInv /\ UNCHANGED vars => IInv'
BY DEF vars, IInv, Queues, Records, Books, Held, Places, Inside, EveryCommandCounted,
       LoadedOnce, StartsAtFirstCommand

LEMMA Invariance == Spec => []IInv
<1>1. IInv /\ [Next]_vars => IInv'
  BY NextHolds, StutterHolds
<1>2. QED
  BY InitHolds, <1>1, PTL DEF Spec

(* The types of Mdm: no slot is read beyond its array, no queue or counter *)
(* leaves its range, for any commands, sizes and widths.                   *)
THEOREM TypeCorrect == Spec => []TypeOK
<1>1. IInv => TypeOK
  BY DEF IInv, Queues, Records, Books, Places, TypeOK
<1>2. QED
  BY Invariance, <1>1, PTL

(* Every command received was processed or rejected.                       *)
THEOREM BooksBalance == Spec => []EveryCommandCounted
<1>1. IInv => EveryCommandCounted
  BY DEF IInv, Books
<1>2. QED
  BY Invariance, <1>1, PTL

(* A sequence is in one slot at most, unless its id does not fit its field.*)
THEOREM NoSequenceTwice == Spec => []LoadedOnce
<1>1. IInv => LoadedOnce
  BY DEF IInv, Held
<1>2. QED
  BY Invariance, <1>1, PTL

(* A sequence takes its commands from the first on.                        *)
THEOREM FromTheFirst == Spec => []StartsAtFirstCommand
<1>1. IInv => StartsAtFirstCommand
  BY DEF IInv, Held
<1>2. QED
  BY Invariance, <1>1, PTL

------------------------------------------------------------------------------
(* Delays.  The time a sequence counts is not more than has passed since   *)
(* it was loaded: the clock goes back in a cold reset only, which clears   *)
(* the slots as well.                                                      *)
Aged ==
  \A i \in Slots :
    slots[i].active => slots[i].started <= uptime /\ age[i] >= uptime - slots[i].started

LEMMA CommandClock ==
  ASSUME NEW c, NEW valid, NEW queue, CmdProcess(c, valid, queue)
  PROVE  uptime' = uptime \/ ColdReset(c, queue)
BY DEF CmdProcess, Invalid, Nop, Refused, Unknown, WarmReset, AbortSequences, AlreadyLoaded,
   LoadSequence, AllSlotsFull

LEMMA CommandAged ==
  ASSUME Records, Aged, uptime \in Nat, NEW c \in Commands, NEW valid, NEW queue,
         CmdProcess(c, valid, queue)
  PROVE  Aged'
<1>1. CASE ColdReset(c, queue)
  <2>1. \A i \in Slots : slots'[i].active = FALSE
    BY <1>1, ClearedType DEF ColdReset
  <2>2. QED
    BY <2>1 DEF Aged
<1>2. CASE uptime' = uptime
  <2>1. UNCHANGED sequences => Aged'
    BY <1>2 DEF sequences, history, Aged
  <2>2. ASSUME AbortSequences(c, queue) PROVE Aged'
    <3>1. \A i \in Slots : slots'[i].active = FALSE
      BY <2>2 DEF AbortSequences, Records, Slot
    <3>2. QED
      BY <3>1 DEF Aged
  <2>3. ASSUME LoadSequence(c, queue) PROVE Aged'
    <3> DEFINE new(i) == LoadSlot(slots[i], c, uptime)
    <3>1. PICK i \in FirstFree : /\ slots' = [slots EXCEPT ![i] = new(i)]
                                 /\ age' = [age EXCEPT ![i] = 0]
      BY <2>3 DEF LoadSequence
    <3>2. i \in Slots
      BY DEF FirstFree
    <3>3. new(i).started = uptime
      BY <3>2, LoadSlotType DEF Records
    <3> HIDE DEF new
    <3>4. slots'[i].started = uptime /\ age'[i] = 0
      BY <3>1, <3>2, <3>3 DEF Records
    <3>5. \A j \in Slots : j # i => slots'[j] = slots[j] /\ age'[j] = age[j]
      BY <3>1, <3>2 DEF Records
    <3>6. QED
      BY <1>2, <3>4, <3>5 DEF Aged
  <2>4. QED
    BY <1>1, <2>1, <2>2, <2>3, CommandCases
<1>3. QED
  BY <1>1, <1>2, CommandClock

(* A slot that is looked at keeps the time at which it was loaded.         *)
LEMMA SlotAged ==
  ASSUME Records, Aged, next \in Slots, NEW sl \in Slot, sl.started = slots[next].started,
         sl.active => slots[next].active,
         slots' = [slots EXCEPT ![next] = Completed(sl)], UNCHANGED <<age, uptime>>
  PROVE  Aged'
<1>1. slots'[next] = Completed(sl) /\ \A i \in Slots : i # next => slots'[i] = slots[i]
  BY DEF Records
<1>2. /\ Completed(sl).started = slots[next].started
      /\ Completed(sl).active => slots[next].active
  BY CompletedType
<1>3. QED
  BY <1>1, <1>2 DEF Aged

LEMMA AgedHolds ==
  ASSUME IInv, Aged, [Next]_vars
  PROVE  Aged'
<1> USE DEF IInv
<1>1. uptime \in Nat /\ Records /\ next \in Slots
  BY DEF Queues, Places
<1>2. CASE UNCHANGED <<slots, age, uptime>>
  BY <1>2 DEF Aged
<1>3. ASSUME NEW valid \in BOOLEAN, ServiceCommand(valid) PROVE Aged'
  <2>1. Head(rx) \in Message
    BY <1>3 DEF Queues, ServiceCommand
  <2>2. Head(rx).command \in Commands
    BY <2>1 DEF Message
  <2>3. QED
    BY <1>1, <1>3, <2>2, CommandAged DEF ServiceCommand
<1>4. CASE RunStored
  <2>1. slots[next] \in Slot
    BY <1>1 DEF Records
  <2>2. slots[next].step \in 0..(StepMax - 1)
    BY <1>4, <2>1, Constants DEF RunStored, Due, Pending, Slot
  <2>3. Current(slots[next]) \in Commands
    BY <2>1, <2>2 DEF Current, Slot, Steps
  <2>4. QED
    BY <1>1, <1>4, <2>3, CommandAged DEF RunStored
<1>5. CASE Advance
  <2> DEFINE sl == Stepped(slots[next])
  <2>1. slots[next] \in Slot /\ slots[next].step + 1 \in 0..StepMax
    BY <1>1, <1>5, Constants DEF Records, Inside, Advance, Slot
  <2>2. sl \in Slot /\ sl.started = slots[next].started /\ sl.active = slots[next].active
    BY <2>1 DEF Stepped, Slot
  <2>3. slots' = [slots EXCEPT ![next] = Completed(sl)] /\ UNCHANGED <<age, uptime>>
    BY <1>5 DEF Advance
  <2> HIDE DEF sl
  <2>4. QED
    BY <1>1, <2>2, <2>3, SlotAged
<1>6. CASE Wait
  <2>1. slots[next] \in Slot
    BY <1>1 DEF Records
  <2>2. slots' = [slots EXCEPT ![next] = Completed(slots[next])] /\ UNCHANGED <<age, uptime>>
    BY <1>6 DEF Wait, history
  <2>3. QED
    BY <1>1, <2>1, <2>2, SlotAged
<1>7. ASSUME NEW s \in {0, 1}, Sleep(s) PROVE Aged'
  <2>1. slots' = slots /\ age' = [i \in Slots |-> IF slots[i].active THEN age[i] + s ELSE 0]
    BY <1>7 DEF Sleep
  <2>2. uptime' \in Nat /\ uptime <= uptime' /\ uptime' <= uptime + s
    <3>1. uptime' = uptime + s
      BY <1>7 DEF Sleep
    <3>2. QED
      BY <1>1, <3>1
  <2>3. \A i \in Slots : slots[i] \in Slot
    BY <1>1 DEF Records
  <2>4. \A i \in Slots : slots[i].started \in Nat /\ age[i] \in Nat
    BY <1>1, <2>3, Constants DEF Slot, Records
  <2>5. ASSUME NEW i \in Slots, slots[i].active
        PROVE  slots[i].started <= uptime' /\ age'[i] >= uptime' - slots[i].started
    <3>1. slots[i].started <= uptime /\ age[i] >= uptime - slots[i].started
      BY <2>5 DEF Aged
    <3>2. age'[i] = age[i] + s
      BY <2>1, <2>5
    <3>3. QED
      BY <1>1, <2>2, <2>4, <3>1, <3>2
  <2>6. QED
    BY <2>1, <2>5 DEF Aged
<1>8. \A m \in Message : Deliver(m) => UNCHANGED <<slots, age, uptime>>
  BY DEF Deliver, sequences, history
<1>9. ServiceRequest \/ BusIdle \/ Tasks => UNCHANGED <<slots, age, uptime>>
  BY DEF ServiceRequest, BusIdle, Tasks, sequences, history
<1>10. \A valid \in BOOLEAN : ReadStdin(valid) => UNCHANGED <<slots, age, uptime>>
  BY DEF ReadStdin, sequences, history
<1>11. Next => Aged'
  BY <1>2, <1>3, <1>4, <1>5, <1>6, <1>7, <1>8, <1>9, <1>10, LoopSteps
<1>12. QED
  BY <1>2, <1>11 DEF vars

(* A stored command does not run before its delay has passed, counted from *)
(* the load of its sequence, whatever loads, aborts and resets come in     *)
(* between (cmd_stored_sequence_step, mdm_init).                           *)
THEOREM NotBeforeItsDelay == Spec => []DelaysKept
<1>1. Init => Aged
  BY ClearedType DEF Init, Aged
<1>2. IInv /\ Aged /\ [Next]_vars => Aged'
  <2>1. UNCHANGED vars /\ Aged => Aged'
    BY DEF vars, Aged
  <2>2. QED
    BY <2>1, AgedHolds
<1>3. IInv /\ Aged => DelaysKept
  <2> SUFFICES ASSUME IInv, Aged, Due(slots[next])
               PROVE  age[next] >= Delay[Current(slots[next])]
    BY DEF DelaysKept
  <2>1. next \in Slots /\ slots[next].active
    BY DEF IInv, Places, Due
  <2>2. slots[next].started <= uptime /\ age[next] >= uptime - slots[next].started
    BY <2>1 DEF Aged
  <2>3. slots[next] \in Slot /\ uptime \in Nat
    BY <2>1 DEF IInv, Records, Queues
  <2>4. slots[next].started \in Nat
    BY <2>3, Constants DEF Slot
  <2>5. Elapsed(slots[next]) = uptime - slots[next].started
    BY <2>2, <2>3, <2>4 DEF Elapsed
  <2>6. Elapsed(slots[next]) >= Delay[Current(slots[next])]
    BY DEF Due
  <2>7. Delay[Current(slots[next])] \in Nat
    <3>1. slots[next].step \in 0..(StepMax - 1)
      BY <2>3, Constants DEF Due, Pending, Slot
    <3>2. Current(slots[next]) \in Commands
      BY <2>3, <3>1 DEF Current, Slot, Steps
    <3>3. QED
      BY <3>2, MdmConstants DEF MdmConstants
  <2>8. age[next] \in Nat
    BY <2>1 DEF IInv, Records
  <2>9. QED
    BY <2>2, <2>3, <2>4, <2>5, <2>6, <2>7, <2>8
<1>4. QED
  BY Invariance, <1>1, <1>2, <1>3, PTL DEF Spec
==============================================================================
