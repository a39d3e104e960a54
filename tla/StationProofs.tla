---------------------------- MODULE StationProofs ----------------------------
(***************************************************************************)
(* Proofs about Station, for every set of deployments, subscriptions and   *)
(* calls, and all the numbers of the cabin.                                *)
(***************************************************************************)
EXTENDS Station, Induction, TLAPS

------------------------------------------------------------------------------
(* Oxygen.                                                                 *)

(* The numbers of the cabin.                                               *)
LEMMA CabinNumbers ==
  /\ O2Start \in Int /\ O2Low \in Int /\ O2Consumed \in Nat /\ O2Produced \in Nat
  /\ O2Start >= O2Low /\ O2Produced >= O2Consumed
  /\ O2PerPressure \in Nat /\ PressureStart \in Int /\ LeakRates \subseteq Nat
  BY EclssConstants

(* The larger of two integers.                                             *)
LEMMA MaxOfTwo ==
  ASSUME NEW a \in Int, NEW b \in Int
  PROVE  Max({a, b}) \in Int /\ Max({a, b}) >= a
<1>1. \E x \in {a, b} : \A y \in {a, b} : x >= y
  <2>1. CASE a >= b
    BY <2>1
  <2>2. CASE b >= a
    BY <2>2
  <2> QED BY <2>1, <2>2
<1>2. Max({a, b}) \in {a, b} /\ \A y \in {a, b} : Max({a, b}) >= y
  BY <1>1 DEF Max
<1> QED BY <1>2

(* Division is by a positive number.                                       *)
LEMMA Quotient ==
  ASSUME NEW a \in Int, NEW b \in Int, b > 0
  PROVE  a \div b \in Int
  OBVIOUS

(* What is left of a partial pressure is a number; without a leak it is    *)
(* what it was.                                                            *)
LEMMA LeakedValue ==
  ASSUME NEW x \in Int, pressure \in Int, pressure # 0, NEW p \in Int
  PROVE  Leaked(x, p) \in Int /\ (p = pressure => Leaked(x, p) = x)
<1>1. CASE p = pressure
  BY <1>1 DEF Leaked
<1>2. CASE p # pressure /\ pressure > 0
  <2>1. x * p \in Int
    OBVIOUS
  <2>2. (x * p) \div pressure \in Int
    BY <2>1, <1>2, Quotient
  <2> QED BY <1>2, <2>2 DEF Leaked
<1>3. CASE p # pressure /\ ~(pressure > 0)
  <2>1. x * (-p) \in Int /\ -pressure \in Int /\ -pressure > 0
    BY <1>3
  <2>2. (x * (-p)) \div (-pressure) \in Int
    BY <2>1, Quotient
  <2> QED BY <1>3, <2>2 DEF Leaked
<1> QED BY <1>1, <1>2, <1>3

(* When no outage is counted, the generator works and nothing leaks.       *)
CabinInv ==
  /\ o2 \in Int /\ pressure \in Int /\ leak \in Nat /\ outage \in BOOLEAN
  /\ ~outage => /\ o2 >= O2Low - O2Consumed
                /\ leak = 0 /\ "o2_gen_fault" \notin failed

(* What a tick makes of the cabin.                                         *)
LEMMA CabinUpdated ==
  ASSUME CabinInv, pressure # 0, UpdateCabin
  PROVE  /\ o2' \in Int /\ pressure' \in Int
         /\ (~outage \/ o2 >= O2Low) /\ leak = 0 /\ "o2_gen_fault" \notin failed =>
              o2' >= O2Low - O2Consumed
<1> DEFINE p == pressure - leak
           made == o2 + Produced - O2Consumed
           least == (pressure * O2PerPressure) \div 100
<1>1. p \in Int /\ pressure' = p
  BY DEF CabinInv, UpdateCabin
<1>2. Produced \in Nat /\ made \in Int
  BY CabinNumbers DEF CabinInv, Produced
<1>3. least \in Int
  <2>1. pressure * O2PerPressure \in Int
    BY CabinNumbers DEF CabinInv
  <2> QED BY <2>1, Quotient
<1>4. o2' = Leaked(Max({made, least}), p)
  BY DEF UpdateCabin
<1> HIDE DEF p, made, least
<1>5. Max({made, least}) \in Int /\ Max({made, least}) >= made
  BY <1>2, <1>3, MaxOfTwo
<1>6. /\ o2' \in Int
      /\ p = pressure => o2' = Max({made, least})
  BY <1>1, <1>4, <1>5, LeakedValue DEF CabinInv
<1>7. ASSUME ~outage \/ o2 >= O2Low, leak = 0, "o2_gen_fault" \notin failed
      PROVE  o2' >= O2Low - O2Consumed
  <2>1. p = pressure
    BY <1>7 DEF p, CabinInv
  <2>2. made >= O2Low - O2Consumed
    <3>1. CASE o2 >= O2Low
      BY <3>1, <1>2, CabinNumbers DEF made, CabinInv
    <3>2. CASE o2 < O2Low
      <4>1. o2 >= O2Low - O2Consumed /\ Produced = O2Produced
        BY <1>7, <3>2, CabinNumbers DEF CabinInv, Produced
      <4> QED BY <4>1, CabinNumbers DEF made, CabinInv
    <3> QED BY <3>1, <3>2, CabinNumbers DEF CabinInv
  <2> QED BY <1>2, <1>5, <1>6, <2>1, <2>2, CabinNumbers
<1> QED BY <1>1, <1>6, <1>7

(* A tick keeps CabinInv.                                                  *)
LEMMA CabinTick ==
  ASSUME CabinInv, EclssTick
  PROVE  CabinInv'
<1>1. /\ failed' = failed /\ leak' = leak
      /\ outage' = ((outage /\ o2' < O2Low) \/ "o2_gen_fault" \in failed \/ leak > 0)
  BY DEF EclssTick
<1>2. o2' \in Int /\ pressure' \in Int
  <2>1. CASE pressure = 0
    BY <2>1 DEF EclssTick, CabinInv, cabin
  <2>2. CASE pressure # 0
    <3>1. UpdateCabin
      BY <2>2 DEF EclssTick
    <3> QED BY <2>2, <3>1, CabinUpdated
  <2> QED BY <2>1, <2>2
<1>3. ASSUME ~outage' PROVE o2' >= O2Low - O2Consumed
  <2>1. leak = 0 /\ "o2_gen_fault" \notin failed
    BY <1>1, <1>3 DEF CabinInv
  <2>2. CASE outage
    <3>1. ~(o2' < O2Low)
      BY <1>1, <1>3, <2>2
    <3> QED BY <1>2, <3>1, CabinNumbers
  <2>3. CASE ~outage /\ pressure = 0
    BY <2>3 DEF EclssTick, CabinInv, cabin
  <2>4. CASE ~outage /\ pressure # 0
    <3>1. UpdateCabin
      BY <2>4 DEF EclssTick
    <3> QED BY <2>1, <2>4, <3>1, CabinUpdated
  <2> QED BY <2>2, <2>3, <2>4
<1>4. outage' \in BOOLEAN
  BY <1>1
<1>5. ~outage' => leak' = 0 /\ "o2_gen_fault" \notin failed'
  BY <1>1 DEF CabinInv
<1> QED BY <1>1, <1>2, <1>3, <1>4, <1>5 DEF CabinInv

(* A command keeps CabinInv.                                               *)
LEMMA CabinCommand ==
  ASSUME CabinInv, EclssCommand
  PROVE  CabinInv'
<1>1. /\ o2' = o2 /\ pressure' = pressure
      /\ outage' = (outage \/ "o2_gen_fault" \in failed' \/ leak' > 0)
  BY DEF EclssCommand, cabin
<1>2. leak' \in Nat
  BY CabinNumbers DEF EclssCommand, CabinInv, InjectFault, ClearFault
<1>3. outage' \in BOOLEAN
  BY <1>1
<1>4. ASSUME ~outage'
      PROVE  o2' >= O2Low - O2Consumed /\ leak' = 0 /\ "o2_gen_fault" \notin failed'
  <2>1. ~outage /\ "o2_gen_fault" \notin failed' /\ ~(leak' > 0)
    BY <1>1, <1>4
  <2> QED BY <1>1, <1>2, <2>1 DEF CabinInv
<1> QED BY <1>1, <1>2, <1>3, <1>4 DEF CabinInv

LEMMA CabinAtFirst == Init => CabinInv
<1> SUFFICES ASSUME Init PROVE CabinInv
  OBVIOUS
<1>1. o2 = O2Start /\ pressure = PressureStart /\ leak = 0
  BY DEF Init, EclssInit
<1>2. outage = FALSE /\ "o2_gen_fault" \notin failed
  BY DEF Init, EclssInit
<1>3. o2 \in Int /\ pressure \in Int /\ leak \in Nat /\ o2 >= O2Low - O2Consumed
  BY <1>1, CabinNumbers
<1> QED BY <1>1, <1>2, <1>3 DEF CabinInv

LEMMA CabinKept ==
  CabinInv /\ [Next]_stationVars => CabinInv'
<1> SUFFICES ASSUME CabinInv, [Next]_stationVars PROVE CabinInv'
  OBVIOUS
<1>1. CASE UNCHANGED eclssVars
  BY <1>1 DEF CabinInv, eclssVars, cabin
<1>2. CASE EclssStep
  BY <1>2, CabinTick, CabinCommand DEF EclssStep, EclssNext
<1> QED BY <1>1, <1>2 DEF Next, Outside, McpStep, CdhStep, CrewStep, BridgeStep, stationVars

LEMMA CabinAlways == Spec => []CabinInv
  BY CabinAtFirst, CabinKept, PTL DEF Spec

(* O2 is held while generator and hull are in order, for all numbers of    *)
(* the cabin, all commands and whoever else is on the bus.                 *)
THEOREM OxygenIsHeld == Spec => []OxygenHeld
<1>1. CabinInv => OxygenHeld
  BY DEF CabinInv, OxygenHeld
<1> QED BY CabinAlways, <1>1, PTL

------------------------------------------------------------------------------
(* The MCP server implements its specification.                            *)

(* A step is one of the calls', or a publication, or it leaves them alone. *)
LEMMA McpSteps ==
  ASSUME NEW P, [Next]_stationVars,
         ASSUME NEW c \in Calls, NEW a \in Asks[deployed], Ask(c, a) PROVE P,
         ASSUME NEW c \in Calls, AnswerAtOnce(c) PROVE P,
         ASSUME NEW c \in Calls, SendRequest(c) PROVE P,
         ASSUME NEW c \in Calls, Reply(c) PROVE P,
         ASSUME NEW c \in Calls, Expire(c) PROVE P,
         ASSUME NEW c \in Calls, NoResponders(c) PROVE P,
         ASSUME NEW s \in Publishers, PublishState(s) PROVE P,
         UNCHANGED <<call, cache, version>> => P
  PROVE  P
<1>1. CASE McpStep
  <2>1. CASE \E s \in Publishers : PublishState(s)
    BY <2>1
  <2>2. CASE McpNext
    <3>1. CASE \E c \in Calls : Handle(c) \/ \E a \in Asks[deployed] : Ask(c, a)
      BY <3>1 DEF Handle
    <3>2. CASE ~\E c \in Calls : Handle(c) \/ \E a \in Asks[deployed] : Ask(c, a)
      <4>1. UNCHANGED <<call, cache, version>>
        BY <2>2, <3>2
        DEF McpNext, Connect, Prepare, PrepareRaises, Write, Leave, Forget, Broadcast
      <4> QED BY <4>1
    <3> QED BY <3>1, <3>2
  <2> QED BY <1>1, <2>1, <2>2 DEF McpStep
<1>2. CASE ~McpStep
  <2>1. UNCHANGED mcpVars
    BY <1>2 DEF Next, Outside, EclssStep, CdhStep, CrewStep, BridgeStep, stationVars
  <2> QED BY <2>1 DEF mcpVars
<1> QED BY <1>1, <1>2

(* The services that run stay the same.                                    *)
LEMMA DeployedKept ==
  ASSUME [Next]_stationVars
  PROVE  deployed' = deployed
<1>1. Outside => deployed' = deployed
  BY DEF Outside, Tick, OrchestratorCommand, SendCommand
<1>2. McpStep => deployed' = deployed
  <2>1. McpNext => deployed' = deployed
    BY DEF McpNext, Handle, Ask, AnswerAtOnce, SendRequest, Reply, Expire, NoResponders,
       Connect, Prepare, PrepareRaises, Write, Leave, Forget, Broadcast, bus
  <2> QED BY <2>1 DEF McpStep, PublishState
<1>3. EclssStep \/ CdhStep \/ CrewStep => deployed' = deployed
  BY DEF EclssStep, EclssNext, EclssTick, EclssCommand, CdhStep, CdhNext, CdhTick,
     CdhCommand, CdhTelemetry, CrewStep, CrewTick
<1>4. BridgeStep => deployed' = deployed
  BY DEF BridgeStep, BridgeNext, ProcessNext, Writes, TakesCommand, Exits, Connect_nats,
     ReadFrame, Swallow, BridgeEnds, BridgeCommand, bus
<1> QED BY <1>1, <1>2, <1>3, <1>4 DEF Next, stationVars, bus

(* The types of what the calls are about.                                  *)
CallsTyped ==
  /\ deployed \in Deployments
  /\ call \in [Calls -> CallType]
  /\ cache \in [Subsystems -> Nat] /\ version \in [Subsystems -> Nat]

(* How far a call is agrees with what is known of it.                      *)
CallsAgree ==
  \A c \in Calls :
    /\ call[c].pc = "none" <=> call[c].via = "none"
    /\ call[c].pc = "answered" <=> call[c].answer # NoAnswer
    /\ call[c].op = "telemetry" =>
         call[c].on \in Subsystems \/ \A sub \in Subscriptions : sub[2] # call[c].on

(* Calls are made in order, and those of a NATS subject handled in order.  *)
CallsInTurn ==
  \A c, d \in Calls :
    d < c /\ call[c].pc # "none" =>
      /\ call[d].pc # "none"
      /\ call[c].pc \in {"sending", "waiting"} /\ call[c].via \in NatsChannels
         /\ call[d].via = call[c].via => call[d].pc = "answered"

(* No reading is newer than the cache, nor the cache than the subsystem.   *)
ReadingsCached ==
  /\ \A s \in Subsystems : cache[s] <= version[s]
  /\ \A c \in Calls : call[c].answer \notin {NoAnswer, Result, Error, Failed} =>
       call[c].on \in Subsystems /\ call[c].answer.version <= cache[call[c].on]

McpInv == CallsTyped /\ CallsAgree /\ CallsInTurn /\ ReadingsCached

(* The answers are different, and of their type.                           *)
LEMMA Answers ==
  /\ Result # NoAnswer /\ Error # NoAnswer /\ Failed # NoAnswer
  /\ \A v \in Nat, kind \in {"fresh", "cached"} :
       /\ Reading(kind, v) \notin {NoAnswer, Result, Error, Failed}
       /\ Reading(kind, v).version = v
  BY DEF Result, Error, Failed, NoAnswer, Reading

AnswerType == [kind : {"none", "result", "error", "failed", "fresh", "cached"},
               version : Nat]

(* It is the turn of a call when those before it on its NATS subject have  *)
(* been answered.                                                          *)
LEMMA TurnOfStarted ==
  ASSUME McpInv, NEW c \in Calls, call[c].pc \in {"sending", "waiting"}
  PROVE  MayStart(c)
  BY DEF McpInv, CallsInTurn, MayStart

(* An answer keeps the invariant and is one the specification allows, when *)
(* it is the call's turn and a reading lies between the cache before and   *)
(* the cache after it.                                                     *)
LEMMA Finishing ==
  ASSUME McpInv, deployed' = deployed, NEW c \in Calls, NEW a \in AnswerType,
         a # NoAnswer, Finish(c, a), MayStart(c),
         call[c].pc \in {"asked", "waiting"},
         version' = version, cache' \in [Subsystems -> Nat],
         \A s \in Subsystems : cache[s] <= cache'[s] /\ cache'[s] <= version[s],
         a \notin {NoAnswer, Result, Error, Failed} =>
           /\ call[c].on \in Subsystems
           /\ cache[call[c].on] <= a.version /\ a.version <= cache'[call[c].on]
  PROVE  McpInv' /\ [Service!Next]_(Service!vars)
<1>1. /\ call \in [Calls -> CallType] /\ cache \in [Subsystems -> Nat]
      /\ version \in [Subsystems -> Nat]
  BY DEF McpInv, CallsTyped
<1>2. /\ call' = [call EXCEPT ![c].pc = "answered", ![c].answer = a]
      /\ call'[c].via = call[c].via /\ call'[c].op = call[c].op
      /\ call'[c].on = call[c].on /\ call'[c].pc = "answered" /\ call'[c].answer = a
      /\ \A d \in Calls : d # c => call'[d] = call[d]
  BY <1>1 DEF Finish, CallType
<1>3. \A d \in Calls : /\ call'[d].via = call[d].via /\ call'[d].op = call[d].op
                       /\ call'[d].on = call[d].on
  BY <1>2
<1>4. CallsTyped'
  <2>1. [call[c] EXCEPT !.pc = "answered", !.answer = a] \in CallType
    <3>1. call[c] \in CallType
      BY <1>1
    <3> QED BY <3>1 DEF CallType, AnswerType
  <2>2. call' \in [Calls -> CallType]
    BY <1>1, <1>2, <2>1
  <2> QED BY <1>1, <2>2 DEF CallsTyped, McpInv
<1>5. CallsAgree'
  <2> SUFFICES ASSUME NEW d \in Calls
               PROVE  /\ call'[d].pc = "none" <=> call'[d].via = "none"
                      /\ call'[d].pc = "answered" <=> call'[d].answer # NoAnswer
                      /\ call'[d].op = "telemetry" =>
                           \/ call'[d].on \in Subsystems
                           \/ \A sub \in Subscriptions : sub[2] # call'[d].on
    BY DEF CallsAgree
  <2>1. /\ call[d].pc = "none" <=> call[d].via = "none"
        /\ call[d].pc = "answered" <=> call[d].answer # NoAnswer
        /\ call[d].op = "telemetry" =>
             call[d].on \in Subsystems \/ \A sub \in Subscriptions : sub[2] # call[d].on
    BY DEF McpInv, CallsAgree
  <2>2. CASE d = c
    BY <2>1, <2>2, <1>2
  <2>3. CASE d # c
    BY <2>1, <2>3, <1>2
  <2> QED BY <2>2, <2>3
<1>6. CallsInTurn'
  <2>1. \A d \in Calls : /\ call'[d].pc = "none" <=> call[d].pc = "none"
                         /\ call'[d].pc \in {"sending", "waiting"} => call'[d] = call[d]
                         /\ call[d].pc = "answered" => call'[d].pc = "answered"
    BY <1>2
  <2> QED BY <2>1, <1>3 DEF McpInv, CallsInTurn
<1>7. ReadingsCached'
  <2>1. \A s \in Subsystems : cache'[s] <= version'[s]
    OBVIOUS
  <2>2. ASSUME NEW d \in Calls, call'[d].answer \notin {NoAnswer, Result, Error, Failed}
        PROVE  call'[d].on \in Subsystems /\ call'[d].answer.version <= cache'[call'[d].on]
    <3>1. CASE d = c
      BY <2>2, <3>1, <1>2
    <3>2. CASE d # c
      <4>1. call[d].on \in Subsystems /\ call[d].answer.version <= cache[call[d].on]
        BY <2>2, <3>2, <1>2 DEF McpInv, ReadingsCached
      <4>2. call[d].answer.version \in Nat
        BY <1>1 DEF CallType
      <4> QED BY <4>1, <4>2, <3>2, <1>1, <1>2
    <3> QED BY <3>1, <3>2
  <2> QED BY <2>1, <2>2 DEF ReadingsCached
<1>8. Service!Answer(c, [d \in Calls |-> call[d].answer]'[c])
  <2>1. call[c].via # "none" /\ call[c].answer = NoAnswer
    BY DEF McpInv, CallsAgree
  <2>2. ASSUME call[c].via \in NatsChannels
        PROVE  \A d \in Calls : d < c /\ call[d].via = call[c].via =>
                 call[d].answer # NoAnswer
    BY <2>2 DEF MayStart, McpInv, CallsAgree
  <2>3. ASSUME a \notin {Result, Error, Failed}, NEW d \in Calls,
               call[d].answer # NoAnswer, call[d].answer \notin {Result, Error, Failed},
               call[d].on = call[c].on
        PROVE  a.version >= call[d].answer.version
    <3>1. call[d].on \in Subsystems /\ call[d].answer.version <= cache[call[d].on]
      BY <2>3 DEF McpInv, ReadingsCached
    <3>2. cache[call[c].on] <= a.version
      BY <2>3
    <3>3. call[d].answer.version \in Nat /\ a.version \in Nat /\ cache[call[d].on] \in Nat
      BY <1>1, <3>1 DEF CallType, AnswerType
    <3> QED BY <3>1, <3>2, <3>3, <2>3
  <2>4. [d \in Calls |-> call'[d].answer] =
          [[d \in Calls |-> call[d].answer] EXCEPT ![c] = a]
    <3>1. call'[c].answer = a /\ \A d \in Calls : d # c => call'[d].answer = call[d].answer
      BY <1>2
    <3> QED BY <3>1
  <2>5. /\ [d \in Calls |-> call[d].via]' = [d \in Calls |-> call[d].via]
        /\ [d \in Calls |-> call[d].on]' = [d \in Calls |-> call[d].on]
    BY <1>3
  <2>6. [d \in Calls |-> call[d].answer]'[c] = a
    BY <1>2
  <2> QED BY <2>1, <2>2, <2>3, <2>4, <2>5, <2>6
      DEF Service!Answer, Service!Answered, Service!IsReading
<1>9. Service!Next
  BY <1>8 DEF Service!Next, Service!Answer, Service!Answered, Service!IsReading
<1> QED BY <1>4, <1>5, <1>6, <1>7, <1>9 DEF McpInv

(* A call that goes on waiting keeps the invariant and is a stutter.       *)
LEMMA GoingOn ==
  ASSUME McpInv, deployed' = deployed, NEW c \in Calls, MayStart(c),
         NEW p \in {"sending", "waiting"}, NEW n \in Nat,
         call[c].pc \in {"asked", "sending", "waiting"},
         call' = [call EXCEPT ![c].pc = p, ![c].step = n],
         version' = version, cache' = cache
  PROVE  McpInv' /\ UNCHANGED Service!vars
<1>1. call \in [Calls -> CallType]
  BY DEF McpInv, CallsTyped
<1>2. /\ call'[c].pc = p /\ call'[c].via = call[c].via /\ call'[c].op = call[c].op
      /\ call'[c].on = call[c].on /\ call'[c].answer = call[c].answer
      /\ \A d \in Calls : d # c => call'[d] = call[d]
  BY <1>1 DEF CallType
<1>3. \A d \in Calls : /\ call'[d].via = call[d].via /\ call'[d].op = call[d].op
                       /\ call'[d].on = call[d].on /\ call'[d].answer = call[d].answer
  BY <1>2
<1>4. CallsTyped'
  <2>1. [call[c] EXCEPT !.pc = p, !.step = n] \in CallType
    <3>1. call[c] \in CallType
      BY <1>1
    <3> QED BY <3>1 DEF CallType
  <2>2. call' \in [Calls -> CallType]
    BY <1>1, <2>1
  <2> QED BY <2>2 DEF CallsTyped, McpInv
<1>5. CallsAgree'
  <2>1. \A d \in Calls : /\ call'[d].pc = "none" <=> call[d].pc = "none"
                         /\ call'[d].pc = "answered" <=> call[d].pc = "answered"
    BY <1>2
  <2>2. ASSUME NEW d \in Calls
        PROVE  /\ call'[d].pc = "none" <=> call'[d].via = "none"
               /\ call'[d].pc = "answered" <=> call'[d].answer # NoAnswer
               /\ call'[d].op = "telemetry" =>
                    \/ call'[d].on \in Subsystems
                    \/ \A sub \in Subscriptions : sub[2] # call'[d].on
    <3>1. /\ call[d].pc = "none" <=> call[d].via = "none"
          /\ call[d].pc = "answered" <=> call[d].answer # NoAnswer
          /\ call[d].op = "telemetry" =>
               call[d].on \in Subsystems \/ \A sub \in Subscriptions : sub[2] # call[d].on
      BY DEF McpInv, CallsAgree
    <3> QED BY <3>1, <2>1, <1>3
  <2> QED BY <2>2 DEF CallsAgree
<1>6. CallsInTurn'
  <2>1. \A d \in Calls : /\ call'[d].pc = "none" <=> call[d].pc = "none"
                         /\ call'[d].pc = "answered" <=> call[d].pc = "answered"
    BY <1>2
  <2>2. ASSUME NEW e \in Calls, NEW d \in Calls, d < e, call'[e].pc # "none"
        PROVE  /\ call'[d].pc # "none"
               /\ call'[e].pc \in {"sending", "waiting"} /\ call'[e].via \in NatsChannels
                  /\ call'[d].via = call'[e].via => call'[d].pc = "answered"
    <3>1. call[e].pc # "none" /\ call[d].pc # "none"
      BY <2>1, <2>2 DEF McpInv, CallsInTurn
    <3>2. CASE e = c
      <4>1. call[c].via \in NatsChannels /\ call[d].via = call[c].via =>
              call[d].pc = "answered"
        BY <2>2, <3>2 DEF MayStart
      <4> QED BY <2>1, <3>1, <3>2, <4>1, <1>3
    <3>3. CASE e # c
      <4>1. call'[e] = call[e]
        BY <3>3, <1>2
      <4>2. call[e].pc \in {"sending", "waiting"} /\ call[e].via \in NatsChannels
              /\ call[d].via = call[e].via => call[d].pc = "answered"
        BY <2>2, <3>1 DEF McpInv, CallsInTurn
      <4> QED BY <2>1, <3>1, <4>1, <4>2, <1>3
    <3> QED BY <3>2, <3>3
  <2> QED BY <2>2 DEF CallsInTurn
<1>7. ReadingsCached'
  BY <1>3 DEF McpInv, ReadingsCached
<1>8. UNCHANGED Service!vars
  BY <1>3 DEF Service!vars
<1> QED BY <1>4, <1>5, <1>6, <1>7, <1>8 DEF McpInv

(* A new call is one the specification allows.                             *)
LEMMA Asking ==
  ASSUME McpInv, deployed' = deployed, NEW c \in Calls, NEW a \in Asks[deployed],
         Ask(c, a)
  PROVE  McpInv' /\ [Service!Next]_(Service!vars)
<1>1. /\ call \in [Calls -> CallType] /\ cache' = cache /\ version' = version
      /\ call[c].pc = "none" /\ \A d \in Calls : d < c => call[d].pc # "none"
  BY DEF Ask, McpInv, CallsTyped
<1>2. /\ a.via \in {"query", "tool", "http"} /\ a.via # "none"
      /\ a.op \in HttpOps \cup {"none"} /\ a.on \in Names /\ a.opcode \in Names
      /\ a.op = "telemetry" =>
           a.on \in Subsystems \/ \A sub \in Subscriptions : sub[2] # a.on
  <2>1. deployed \in Deployments
    BY DEF McpInv, CallsTyped
  <2>2. /\ a.via \in DOMAIN OpsVia /\ a.op \in OpsVia[a.via]
        /\ a.op = "telemetry" =>
             a.on \in Subsystems \/ \A sub \in Subscriptions : sub[2] # a.on
    BY <2>1, McpConstants
  <2>3. a.via \in {"query", "tool", "http"}
    BY <2>2 DEF OpsVia
  <2>4. a.op \in HttpOps
    BY <2>2, <2>3 DEF OpsVia, QueryOps, ToolOps, HttpOps
  <2>5. a.on \in Names /\ a.opcode \in Names
    BY <2>1 DEF Names
  <2> QED BY <2>2, <2>3, <2>4, <2>5
<1> DEFINE new == [via |-> a.via, op |-> a.op, on |-> a.on, opcode |-> a.opcode,
                   pc |-> "asked", step |-> 1, answer |-> NoAnswer]
<1>3. call' = [call EXCEPT ![c] = new]
  BY DEF Ask
<1>4. call'[c] = new /\ \A d \in Calls : d # c => call'[d] = call[d]
  BY <1>1, <1>3
<1>5. /\ new.via = a.via /\ new.op = a.op /\ new.on = a.on
      /\ new.pc = "asked" /\ new.answer = NoAnswer
  OBVIOUS
<1>6. CallsTyped'
  <2>1. NoAnswer \in AnswerType
    BY DEF NoAnswer, AnswerType
  <2>2. new \in CallType
    BY <1>2, <2>1 DEF CallType, AnswerType, OpsVia
  <2>3. call' \in [Calls -> CallType]
    BY <1>1, <1>3, <2>2
  <2> QED BY <1>1, <2>3 DEF CallsTyped, McpInv
<1> HIDE DEF new
<1>7. CallsAgree'
  <2>1. ASSUME NEW d \in Calls
        PROVE  /\ call'[d].pc = "none" <=> call'[d].via = "none"
               /\ call'[d].pc = "answered" <=> call'[d].answer # NoAnswer
               /\ call'[d].op = "telemetry" =>
                    \/ call'[d].on \in Subsystems
                    \/ \A sub \in Subscriptions : sub[2] # call'[d].on
    <3>1. CASE d = c
      BY <3>1, <1>2, <1>4, <1>5
    <3>2. CASE d # c
      BY <3>2, <1>4 DEF McpInv, CallsAgree
    <3> QED BY <3>1, <3>2
  <2> QED BY <2>1 DEF CallsAgree
<1>8. CallsInTurn'
  <2>1. ASSUME NEW e \in Calls, NEW d \in Calls, d < e, call'[e].pc # "none"
        PROVE  /\ call'[d].pc # "none"
               /\ call'[e].pc \in {"sending", "waiting"} /\ call'[e].via \in NatsChannels
                  /\ call'[d].via = call'[e].via => call'[d].pc = "answered"
    <3>1. CASE e = c
      <4>1. d # c /\ call'[d] = call[d] /\ call[d].pc # "none"
        BY <2>1, <3>1, <1>1, <1>4 DEF Calls
      <4> QED BY <3>1, <4>1, <1>4, <1>5
    <3>2. CASE e # c
      <4>1. call'[e] = call[e]
        BY <3>2, <1>4
      <4>2. call[d].pc # "none"
        BY <2>1, <4>1 DEF McpInv, CallsInTurn
      <4>3. call'[d] = call[d]
        BY <4>2, <1>1, <1>4
      <4> QED BY <2>1, <4>1, <4>2, <4>3 DEF McpInv, CallsInTurn
    <3> QED BY <3>1, <3>2
  <2> QED BY <2>1 DEF CallsInTurn
<1>9. ReadingsCached'
  <2>1. ASSUME NEW d \in Calls, call'[d].answer \notin {NoAnswer, Result, Error, Failed}
        PROVE  call'[d].on \in Subsystems /\ call'[d].answer.version <= cache[call'[d].on]
    <3>1. call'[d] = call[d]
      BY <2>1, <1>4, <1>5
    <3> QED BY <2>1, <3>1 DEF McpInv, ReadingsCached
  <2>2. \A s \in Subsystems : cache[s] <= version[s]
    BY DEF McpInv, ReadingsCached
  <2> QED BY <2>1, <2>2, <1>1 DEF ReadingsCached
<1>10. Service!Ask(c, [d \in Calls |-> call[d].via]'[c], [d \in Calls |-> call[d].on]'[c])
  <2>1. call[c].via = "none" /\ \A d \in Calls : d < c => call[d].via # "none"
    BY <1>1 DEF McpInv, CallsAgree
  <2>2. [d \in Calls |-> call[d].via]'[c] = a.via /\ [d \in Calls |-> call[d].on]'[c] = a.on
    BY <1>4, <1>5
  <2>3. call[c].answer = NoAnswer
    BY <1>1 DEF McpInv, CallsAgree
  <2>4. /\ call'[c].via = a.via /\ call'[c].on = a.on /\ call'[c].answer = call[c].answer
        /\ \A d \in Calls : d # c => /\ call'[d].via = call[d].via
                                     /\ call'[d].on = call[d].on
                                     /\ call'[d].answer = call[d].answer
    BY <1>4, <1>5, <2>3
  <2>5. [d \in Calls |-> call'[d].via] = [[d \in Calls |-> call[d].via] EXCEPT ![c] = a.via]
    BY <2>4
  <2>6. [d \in Calls |-> call'[d].on] = [[d \in Calls |-> call[d].on] EXCEPT ![c] = a.on]
    BY <2>4
  <2>7. [d \in Calls |-> call'[d].answer] = [d \in Calls |-> call[d].answer]
    BY <2>4
  <2> QED BY <1>2, <2>1, <2>2, <2>5, <2>6, <2>7 DEF Service!Ask
<1>11. Service!Next
  BY <1>10 DEF Service!Next, Service!Ask
<1> QED BY <1>6, <1>7, <1>8, <1>9, <1>11 DEF McpInv

(* What a handler does when it need not wait.                              *)
LEMMA AnsweringAtOnce ==
  ASSUME McpInv, deployed' = deployed, NEW c \in Calls, AnswerAtOnce(c)
  PROVE  McpInv' /\ [Service!Next]_(Service!vars)
<1>1. /\ MayStart(c) /\ call[c].pc = "asked" /\ cache' = cache /\ version' = version
      /\ Finish(c, Result) \/ Finish(c, Error)
  BY DEF AnswerAtOnce, GetHistory
<1>2. ASSUME NEW a \in {Result, Error}, Finish(c, a)
      PROVE  McpInv' /\ [Service!Next]_(Service!vars)
  <2>1. a \in AnswerType /\ a # NoAnswer
    BY Answers DEF AnswerType, Result, Error
  <2>2. cache' \in [Subsystems -> Nat]
    BY <1>1 DEF McpInv, CallsTyped
  <2>3. \A s \in Subsystems : cache[s] <= cache'[s] /\ cache'[s] <= version[s]
    BY <1>1 DEF McpInv, CallsTyped, ReadingsCached
  <2>4. call[c].pc \in {"asked", "waiting"}
    BY <1>1
  <2>5. a \in {NoAnswer, Result, Error, Failed}
    OBVIOUS
  <2> QED BY <1>1, <1>2, <2>1, <2>2, <2>3, <2>4, <2>5, Finishing
<1> QED BY <1>1, <1>2

(* A request is sent.                                                      *)
LEMMA Sending ==
  ASSUME McpInv, deployed' = deployed, NEW c \in Calls, SendRequest(c)
  PROVE  McpInv' /\ UNCHANGED Service!vars
<1>1. /\ call[c].pc \in {"asked", "sending"}
      /\ call' = [call EXCEPT ![c].pc = "waiting"]
      /\ cache' = cache /\ version' = version
  BY DEF SendRequest
<1>2. MayStart(c)
  BY TurnOfStarted DEF SendRequest
<1>3. call[c].step \in Nat
  BY DEF McpInv, CallsTyped, CallType
<1>4. call' = [call EXCEPT ![c].pc = "waiting", ![c].step = call[c].step]
  <2>1. call[c] \in CallType /\ call \in [Calls -> CallType]
    BY DEF McpInv, CallsTyped
  <2>2. [call[c] EXCEPT !.pc = "waiting", !.step = call[c].step]
          = [call[c] EXCEPT !.pc = "waiting"]
    BY <2>1 DEF CallType
  <2> QED BY <1>1, <2>1, <2>2
<1>5. call[c].pc \in {"asked", "sending", "waiting"}
  BY <1>1
<1> QED BY <1>1, <1>2, <1>3, <1>4, <1>5, GoingOn

(* Nothing was heard, or what was heard holds no reading.                  *)
LEMMA WithoutReading ==
  ASSUME McpInv, deployed' = deployed, NEW c \in Calls, call[c].pc = "waiting",
         NEW a \in {Result, Error, Failed}, Finish(c, a),
         cache' = cache, version' = version
  PROVE  McpInv' /\ [Service!Next]_(Service!vars)
<1>1. a \in AnswerType /\ a # NoAnswer
  BY Answers DEF AnswerType, Result, Error, Failed
<1>2. cache' \in [Subsystems -> Nat]
  BY DEF McpInv, CallsTyped
<1>3. \A s \in Subsystems : cache[s] <= cache'[s] /\ cache'[s] <= version[s]
  BY DEF McpInv, CallsTyped, ReadingsCached
<1>4. call[c].pc \in {"asked", "waiting"} /\ MayStart(c)
  BY TurnOfStarted
<1>5. a \in {NoAnswer, Result, Error, Failed}
  OBVIOUS
<1> QED BY <1>1, <1>2, <1>3, <1>4, <1>5, Finishing

(* get_status goes on to the next subsystem, or has its result.            *)
LEMMA StatusGoesOn ==
  ASSUME McpInv, deployed' = deployed, NEW c \in Calls, call[c].pc = "waiting",
         NextStatus(c), cache' = cache, version' = version
  PROVE  McpInv' /\ [Service!Next]_(Service!vars)
<1>1. CASE Finish(c, Result)
  BY <1>1, WithoutReading
<1>2. CASE call' = [call EXCEPT ![c].pc = "sending", ![c].step = @ + 1]
  <2>1. call[c].step + 1 \in Nat
    BY DEF McpInv, CallsTyped, CallType
  <2>2. call' = [call EXCEPT ![c].pc = "sending", ![c].step = call[c].step + 1]
    <3>1. call[c] \in CallType /\ call \in [Calls -> CallType]
      BY DEF McpInv, CallsTyped
    <3> QED BY <1>2, <3>1 DEF CallType
  <2>3. MayStart(c) /\ call[c].pc \in {"asked", "sending", "waiting"}
    BY TurnOfStarted
  <2> QED BY <2>1, <2>2, <2>3, GoingOn
<1> QED BY <1>1, <1>2 DEF NextStatus

(* An answer comes; the reading it gives is the newest there is.           *)
LEMMA Replying ==
  ASSUME McpInv, deployed' = deployed, NEW c \in Calls, Reply(c)
  PROVE  McpInv' /\ [Service!Next]_(Service!vars)
<1>1. call[c].pc = "waiting" /\ version' = version
  BY DEF Reply
<1>2. CASE call[c].op = "telemetry"
  <2>1. /\ call[c].on \in Subsystems
        /\ cache' = [cache EXCEPT ![call[c].on] = version[call[c].on]]
        /\ Finish(c, Reading("fresh", version[call[c].on]))
    BY <1>2, McpConstants DEF Reply, Subject
  <2>2. version[call[c].on] \in Nat /\ cache \in [Subsystems -> Nat]
        /\ version \in [Subsystems -> Nat]
    BY <2>1 DEF McpInv, CallsTyped
  <2> DEFINE a == Reading("fresh", version[call[c].on])
  <2>3. /\ a \in AnswerType /\ a # NoAnswer /\ a.version = version[call[c].on]
    BY <2>2, Answers DEF AnswerType, Reading
  <2>4. cache' \in [Subsystems -> Nat]
    BY <2>1, <2>2
  <2>5. \A s \in Subsystems : cache[s] <= cache'[s] /\ cache'[s] <= version[s]
    BY <2>1, <2>2 DEF McpInv, ReadingsCached
  <2>6. cache[call[c].on] <= a.version /\ a.version <= cache'[call[c].on]
    BY <2>1, <2>2, <2>3 DEF McpInv, ReadingsCached
  <2>7. call[c].pc \in {"asked", "waiting"} /\ MayStart(c)
    BY <1>1, TurnOfStarted
  <2>8. Finish(c, a)
    BY <2>1
  <2> HIDE DEF a
  <2> QED BY <1>1, <2>1, <2>3, <2>4, <2>5, <2>6, <2>7, <2>8, Finishing
<1>3. CASE call[c].op # "telemetry"
  <2>1. NextStatus(c) /\ cache' = cache
    BY <1>3 DEF Reply
  <2> QED BY <1>1, <2>1, StatusGoesOn
<1> QED BY <1>2, <1>3

(* The time is up; the cache is as new as any reading.                     *)
LEMMA Expiring ==
  ASSUME McpInv, deployed' = deployed, NEW c \in Calls, Expire(c)
  PROVE  McpInv' /\ [Service!Next]_(Service!vars)
<1>1. /\ call[c].pc = "waiting" /\ HasSubscriber(Subject(c))
      /\ version' = version /\ cache' = cache
  BY DEF Expire
<1>2. CASE call[c].op = "telemetry" /\ cache[call[c].on] # 0
  <2>1. call[c].on \in Subsystems
    <3>1. HasSubscriber(call[c].on)
      BY <1>1, <1>2 DEF Subject
    <3> QED BY <1>2, <3>1 DEF HasSubscriber, McpInv, CallsAgree
  <2>2. cache[call[c].on] \in Nat /\ cache' \in [Subsystems -> Nat]
    BY <1>1, <2>1 DEF McpInv, CallsTyped
  <2> DEFINE a == Reading("cached", cache[call[c].on])
  <2>3. a \in AnswerType /\ a # NoAnswer /\ a.version = cache[call[c].on]
    BY <2>2, Answers DEF AnswerType, Reading
  <2>4. \A s \in Subsystems : cache[s] <= cache'[s] /\ cache'[s] <= version[s]
    BY <1>1 DEF McpInv, CallsTyped, ReadingsCached
  <2>5. cache[call[c].on] <= a.version /\ a.version <= cache'[call[c].on]
    BY <1>1, <2>2, <2>3
  <2>6. call[c].pc \in {"asked", "waiting"} /\ MayStart(c)
    BY <1>1, TurnOfStarted
  <2>7. Finish(c, a)
    BY <1>2 DEF Expire
  <2> HIDE DEF a
  <2> QED BY <1>1, <2>1, <2>2, <2>3, <2>4, <2>5, <2>6, <2>7, Finishing
<1>3. CASE call[c].op = "status"
  <2>1. NextStatus(c)
    BY <1>3 DEF Expire
  <2> QED BY <1>1, <2>1, StatusGoesOn
<1>4. CASE Finish(c, Error) \/ Finish(c, Failed)
  BY <1>1, <1>4, WithoutReading
<1> QED BY <1>2, <1>3, <1>4 DEF Expire, NoLuck

(* Nobody subscribes.                                                      *)
LEMMA Unheard ==
  ASSUME McpInv, deployed' = deployed, NEW c \in Calls, NoResponders(c)
  PROVE  McpInv' /\ [Service!Next]_(Service!vars)
<1>1. call[c].pc = "waiting" /\ version' = version /\ cache' = cache
  BY DEF NoResponders
<1>2. CASE NextStatus(c)
  BY <1>1, <1>2, StatusGoesOn
<1>3. CASE Finish(c, Error) \/ Finish(c, Failed)
  BY <1>1, <1>3, WithoutReading
<1> QED BY <1>2, <1>3 DEF NoResponders, NoLuck

(* A subsystem has a newer state.                                          *)
LEMMA Publishing ==
  ASSUME McpInv, deployed' = deployed, NEW s \in Publishers, PublishState(s)
  PROVE  McpInv' /\ UNCHANGED Service!vars
<1>1. /\ call' = call /\ cache' = cache
      /\ version' = [version EXCEPT ![s] = @ + 1]
  BY DEF PublishState
<1>2. s \in Subsystems /\ version \in [Subsystems -> Nat] /\ cache \in [Subsystems -> Nat]
  BY McpConstants DEF McpInv, CallsTyped
<1>3. version' \in [Subsystems -> Nat]
      /\ \A t \in Subsystems : cache'[t] <= version'[t]
  BY <1>1, <1>2 DEF McpInv, ReadingsCached
<1>4. CallsTyped' /\ CallsAgree' /\ CallsInTurn'
  BY <1>1, <1>3 DEF McpInv, CallsTyped, CallsAgree, CallsInTurn
<1>5. ReadingsCached'
  BY <1>1, <1>3 DEF McpInv, ReadingsCached
<1> QED BY <1>1, <1>4, <1>5 DEF McpInv, Service!vars

LEMMA McpAtFirst == Init => McpInv /\ Service!Init
<1> SUFFICES ASSUME Init PROVE McpInv /\ Service!Init
  OBVIOUS
<1>1. /\ deployed \in Deployments /\ call = [c \in Calls |-> NotMade]
      /\ cache = [s \in Subsystems |-> 0] /\ version = [s \in Subsystems |-> 1]
  BY DEF Init, BusInit, McpInit
<1>2. \A c \in Calls : /\ call[c].pc = "none" /\ call[c].via = "none"
                       /\ call[c].op = "none" /\ call[c].on = "none"
                       /\ call[c].answer = NoAnswer
  BY <1>1 DEF NotMade
<1>3. NotMade \in CallType
  <2>1. NoAnswer \in AnswerType
    BY DEF NoAnswer, AnswerType
  <2>2. "none" \in HttpOps \cup {"none"} /\ "none" \in DOMAIN OpsVia \cup {"none"}
    OBVIOUS
  <2>3. "none" \in Names
    BY DEF Names
  <2> QED BY <2>1, <2>2, <2>3 DEF NotMade, CallType, AnswerType
<1>4. CallsTyped /\ CallsAgree /\ CallsInTurn /\ ReadingsCached
  BY <1>1, <1>2, <1>3 DEF CallsTyped, CallsAgree, CallsInTurn, ReadingsCached
<1>5. Service!Init
  BY <1>2 DEF Service!Init
<1> QED BY <1>4, <1>5 DEF McpInv

LEMMA McpKept ==
  McpInv /\ [Next]_stationVars => McpInv' /\ [Service!Next]_(Service!vars)
<1> SUFFICES ASSUME McpInv, [Next]_stationVars
             PROVE  McpInv' /\ [Service!Next]_(Service!vars)
  OBVIOUS
<1>1. deployed' = deployed
  BY DeployedKept
<1>2. ASSUME UNCHANGED <<call, cache, version>>
      PROVE  McpInv' /\ UNCHANGED Service!vars
  BY <1>1, <1>2 DEF McpInv, CallsTyped, CallsAgree, CallsInTurn, ReadingsCached, Service!vars
<1> QED BY <1>1, <1>2, McpSteps, Asking, AnsweringAtOnce, Sending, Replying, Expiring,
           Unheard, Publishing

LEMMA McpAlways == Spec => []McpInv
  BY McpAtFirst, McpKept, PTL DEF Spec

(* The MCP server does what McpService promises, for every set of services *)
(* that run, every order of calls, answers and time-outs, and all states   *)
(* the subsystems publish.                                                 *)
THEOREM McpImplementsService == Spec => ImplementsService
  BY McpAtFirst, McpKept, PTL DEF Spec, ImplementsService, Service!Spec

------------------------------------------------------------------------------
(* The bridges.                                                            *)

(* The frames the bridge has taken out of the pipe.                        *)
ReadSoFar == Len(frames) - Len(stdout)

(* What is in the pipe are the last frames written; what was relayed are   *)
(* those of the others that are publishable, from the time NATS was there. *)
PipesTyped ==
  /\ frames \in Seq(Nat) /\ stdout \in Seq(Nat) /\ relayed \in Seq(Nat)
  /\ Len(stdout) <= Len(frames)

PipeHoldsLast == \A i \in DOMAIN stdout : stdout[i] = ReadSoFar + i

RelayedInOrder ==
  /\ \A i, j \in DOMAIN relayed : i < j => relayed[i] < relayed[j]
  /\ mode = "spawn" /\ connected =>
       {relayed[i] : i \in DOMAIN relayed} = {f \in 1..ReadSoFar : Publishable(f)}

NothingReadBefore ==
  at = "connecting" =>
    relayed = <<>> /\ ~connected /\ (mode = "spawn" => Len(stdout) = Len(frames))

BridgeInv == PipesTyped /\ PipeHoldsLast /\ RelayedInOrder /\ NothingReadBefore

PipesAlone ==
  /\ UNCHANGED <<mode, connected, stdout, frames, relayed>>
  /\ at' = "connecting" => at = "connecting"

(* A step is one of the bridge or its process, or leaves the pipes alone.  *)
LEMMA BridgeSteps ==
  ASSUME [Next]_stationVars
  PROVE  \/ \E words \in {0, 1, 32} : Writes(words)
         \/ \E success \in BOOLEAN : Connect_nats(success)
         \/ ReadFrame \/ Swallow \/ PipesAlone
<1>1. CASE BridgeStep
  <2>1. CASE ProcessNext
    BY <2>1 DEF ProcessNext, TakesCommand, Exits, PipesAlone
  <2>2. CASE BridgeNext
    BY <2>2 DEF BridgeNext, BridgeEnds, BridgeCommand, PipesAlone
  <2> QED BY <1>1, <2>1, <2>2 DEF BridgeStep
<1>2. CASE ~BridgeStep
  <2>1. UNCHANGED bridgeVars
    BY <1>2 DEF Next, Outside, McpStep, EclssStep, CdhStep, CrewStep, stationVars
  <2> QED BY <2>1 DEF bridgeVars, PipesAlone
<1> QED BY <1>1, <1>2

(* A process that writes adds a frame at the end of the pipe.              *)
LEMMA WritingKeeps ==
  ASSUME BridgeInv, deployed' = deployed, NEW words \in {0, 1, 32}, Writes(words)
  PROVE  BridgeInv'
<1> DEFINE n == Len(frames)
           k == Len(stdout)
<1>1. /\ frames' = Append(frames, words) /\ stdout' = Append(stdout, n + 1)
      /\ UNCHANGED <<mode, at, connected, relayed>>
  BY DEF Writes
<1>2. /\ n \in Nat /\ k \in Nat /\ k <= n /\ words \in Nat /\ n + 1 \in Nat
      /\ frames \in Seq(Nat) /\ stdout \in Seq(Nat) /\ relayed \in Seq(Nat)
  BY DEF BridgeInv, PipesTyped
<1>3. /\ frames' \in Seq(Nat) /\ stdout' \in Seq(Nat)
      /\ Len(frames') = n + 1 /\ Len(stdout') = k + 1
  BY <1>1, <1>2
<1>4. \A i \in 1..k : stdout'[i] = stdout[i]
  BY <1>1, <1>2
<1>5. stdout'[k + 1] = n + 1
  BY <1>1, <1>2
<1>6. \A f \in 1..n : frames'[f] = frames[f]
  BY <1>1, <1>2
<1>7. ReadSoFar = n - k /\ ReadSoFar' = n - k
  <2>1. ReadSoFar' = (n + 1) - (k + 1)
    BY <1>3 DEF ReadSoFar
  <2> HIDE DEF n, k
  <2>2. (n + 1) - (k + 1) = n - k
    BY <1>2
  <2>3. ReadSoFar = n - k
    BY DEF ReadSoFar, n, k
  <2> QED BY <2>1, <2>2, <2>3
<1>8. DOMAIN stdout = 1..k /\ DOMAIN stdout' = 1..(k+1) /\ DOMAIN relayed' = DOMAIN relayed
  BY <1>1, <1>2, <1>3
<1>9. PipesTyped'
  BY <1>1, <1>2, <1>3 DEF PipesTyped
<1>10. NothingReadBefore'
  BY <1>1, <1>3 DEF BridgeInv, NothingReadBefore
<1> HIDE DEF n, k
<1>11. PipeHoldsLast'
  <2>1. ASSUME NEW i \in 1..(k+1) PROVE stdout'[i] = (n - k) + i
    <3>1. CASE i = k + 1
      BY <3>1, <1>2, <1>5
    <3>2. CASE i # k + 1
      <4>1. i \in 1..k
        BY <3>2, <1>2
      <4> QED BY <4>1, <1>4, <1>7, <1>8 DEF BridgeInv, PipeHoldsLast
    <3> QED BY <3>1, <3>2
  <2> QED BY <2>1, <1>7, <1>8 DEF PipeHoldsLast
<1>12. \A f \in 1..(n-k) : Publishable(f)' <=> Publishable(f)
  <2>1. \A f \in 1..(n-k) : f \in 1..n
    BY <1>2
  <2> QED BY <2>1, <1>6 DEF Publishable, IsJson, HoldsPacket, Arm
<1>13. RelayedInOrder'
  <2>1. \A i, j \in DOMAIN relayed : i < j => relayed[i] < relayed[j]
    BY DEF BridgeInv, RelayedInOrder
  <2>2. ASSUME mode = "spawn", connected
        PROVE  {relayed[i] : i \in DOMAIN relayed} = {f \in 1..(n-k) : Publishable(f)'}
    <3>1. {relayed[i] : i \in DOMAIN relayed} = {f \in 1..(n-k) : Publishable(f)}
      BY <2>2, <1>7 DEF BridgeInv, RelayedInOrder
    <3> QED BY <3>1, <1>12
  <2> QED BY <2>1, <2>2, <1>1, <1>7, <1>8 DEF RelayedInOrder
<1> QED BY <1>9, <1>10, <1>11, <1>13 DEF BridgeInv

(* A frame that is read is the next one, and is relayed if it is to be.    *)
LEMMA ReadingKeeps ==
  ASSUME BridgeInv, deployed' = deployed, ReadFrame
  PROVE  BridgeInv'
<1> DEFINE n == Len(frames)
           k == Len(stdout)
           r == Len(relayed)
<1>1. /\ stdout # <<>> /\ stdout' = Tail(stdout) /\ mode = "spawn" /\ at = "running"
      /\ relayed' = IF connected /\ Publishable(Head(stdout))
                    THEN Append(relayed, Head(stdout)) ELSE relayed
      /\ UNCHANGED <<mode, at, connected, frames>>
  BY DEF ReadFrame
<1>2. /\ n \in Nat /\ k \in Nat /\ k <= n /\ r \in Nat
      /\ frames \in Seq(Nat) /\ stdout \in Seq(Nat) /\ relayed \in Seq(Nat)
  BY DEF BridgeInv, PipesTyped
<1>3. /\ k >= 1 /\ stdout' \in Seq(Nat) /\ Len(stdout') = k - 1
      /\ Head(stdout) = stdout[1]
  BY <1>1, <1>2
<1>4. \A i \in 1..(k-1) : stdout'[i] = stdout[i+1]
  BY <1>1, <1>2, <1>3
<1>5. /\ DOMAIN stdout = 1..k /\ DOMAIN stdout' = 1..(k-1) /\ DOMAIN relayed = 1..r
  BY <1>2, <1>3
<1>6. ReadSoFar = n - k /\ ReadSoFar' = (n - k) + 1
  <2>1. ReadSoFar' = n - (k - 1)
    BY <1>1, <1>3 DEF ReadSoFar
  <2> HIDE DEF n, k
  <2>2. n - (k - 1) = (n - k) + 1
    BY <1>2
  <2>3. ReadSoFar = n - k
    BY DEF ReadSoFar, n, k
  <2> QED BY <2>1, <2>2, <2>3
<1>7. Head(stdout) = (n - k) + 1
  <2>1. 1 \in DOMAIN stdout
    BY <1>2, <1>3, <1>5
  <2> QED BY <2>1, <1>3, <1>6 DEF BridgeInv, PipeHoldsLast
<1>8. relayed' \in Seq(Nat)
  <2>1. Head(stdout) \in Nat
    BY <1>2, <1>7
  <2> QED BY <2>1, <1>1, <1>2
<1>9. PipesTyped'
  BY <1>1, <1>2, <1>3, <1>8 DEF PipesTyped
<1>10. NothingReadBefore'
  BY <1>1 DEF NothingReadBefore
<1>11. CASE ~(connected /\ Publishable(Head(stdout)))
  <2>1. relayed' = relayed
    BY <1>1, <1>11
  <2> HIDE DEF n, k, r
  <2>2. RelayedInOrder'
    <3>1. ASSUME connected
          PROVE  {relayed[i] : i \in DOMAIN relayed}
                   = {f \in 1..((n - k) + 1) : Publishable(f)}
      <4>1. {relayed[i] : i \in DOMAIN relayed} = {f \in 1..(n-k) : Publishable(f)}
        BY <3>1, <1>1, <1>6 DEF BridgeInv, RelayedInOrder
      <4>2. ~Publishable((n - k) + 1)
        BY <3>1, <1>7, <1>11
      <4>3. 1..((n - k) + 1) = 1..(n - k) \cup {(n - k) + 1}
        BY <1>2
      <4> QED BY <4>1, <4>2, <4>3
    <3>2. \A f : Publishable(f)' <=> Publishable(f)
      BY <1>1 DEF Publishable, IsJson, HoldsPacket, Arm
    <3>3. \A i, j \in DOMAIN relayed : i < j => relayed[i] < relayed[j]
      BY DEF BridgeInv, RelayedInOrder
    <3> QED BY <3>1, <3>2, <3>3, <2>1, <1>1, <1>6 DEF RelayedInOrder
  <2>3. PipeHoldsLast'
    <3>1. ASSUME NEW i \in 1..(k-1) PROVE stdout'[i] = ((n - k) + 1) + i
      <4>1. i + 1 \in DOMAIN stdout
        BY <1>2, <1>5
      <4>2. stdout[i+1] = (n - k) + (i + 1)
        BY <4>1, <1>6 DEF BridgeInv, PipeHoldsLast
      <4> QED BY <4>2, <1>2, <1>4
    <3> QED BY <3>1, <1>5, <1>6 DEF PipeHoldsLast
  <2> QED BY <2>2, <2>3, <1>9, <1>10 DEF BridgeInv
<1>12. CASE connected /\ Publishable(Head(stdout))
  <2>1. relayed' = Append(relayed, (n - k) + 1)
    BY <1>1, <1>7, <1>12
  <2>2. /\ DOMAIN relayed' = 1..(r+1) /\ relayed'[r+1] = (n - k) + 1
        /\ \A i \in 1..r : relayed'[i] = relayed[i]
    BY <2>1, <1>2
  <2> HIDE DEF n, k, r
  <2>3. {relayed[i] : i \in DOMAIN relayed} = {f \in 1..(n-k) : Publishable(f)}
    BY <1>1, <1>6, <1>12 DEF BridgeInv, RelayedInOrder
  <2>4. \A f : Publishable(f)' <=> Publishable(f)
    BY <1>1 DEF Publishable, IsJson, HoldsPacket, Arm
  <2>5. {relayed'[i] : i \in 1..(r+1)} = {f \in 1..((n - k) + 1) : Publishable(f)}
    <3>1. 1..((n - k) + 1) = 1..(n - k) \cup {(n - k) + 1}
      BY <1>2
    <3>2. Publishable((n - k) + 1)
      BY <1>7, <1>12
    <3>3. 1..(r+1) = 1..r \cup {r+1}
      BY <1>2
    <3>4. {relayed'[i] : i \in 1..(r+1)} = {relayed[i] : i \in 1..r} \cup {(n - k) + 1}
      BY <3>3, <2>2
    <3> QED BY <3>1, <3>2, <3>4, <2>3, <1>5
  <2>6. ASSUME NEW i \in 1..(r+1), NEW j \in 1..(r+1), i < j
        PROVE  relayed'[i] < relayed'[j]
    <3>1. i \in 1..r /\ i \in DOMAIN relayed
      BY <2>6, <1>2, <1>5
    <3>2. CASE j = r + 1
      <4>1. relayed[i] \in 1..(n-k)
        BY <3>1, <2>3
      <4> QED BY <4>1, <3>1, <3>2, <2>2, <1>2
    <3>3. CASE j # r + 1
      <4>1. j \in 1..r /\ j \in DOMAIN relayed
        BY <3>3, <1>2, <1>5
      <4>2. relayed[i] < relayed[j]
        BY <2>6, <3>1, <4>1 DEF BridgeInv, RelayedInOrder
      <4> QED BY <4>1, <4>2, <3>1, <2>2
    <3> QED BY <3>2, <3>3
  <2>7. RelayedInOrder'
    BY <2>2, <2>4, <2>5, <2>6, <1>6 DEF RelayedInOrder
  <2>8. PipeHoldsLast'
    <3>1. ASSUME NEW i \in 1..(k-1) PROVE stdout'[i] = ((n - k) + 1) + i
      <4>1. i + 1 \in DOMAIN stdout
        BY <1>2, <1>5
      <4>2. stdout[i+1] = (n - k) + (i + 1)
        BY <4>1, <1>6 DEF BridgeInv, PipeHoldsLast
      <4> QED BY <4>2, <1>2, <1>4
    <3> QED BY <3>1, <1>5, <1>6 DEF PipeHoldsLast
  <2> QED BY <2>7, <2>8, <1>9, <1>10 DEF BridgeInv
<1> QED BY <1>11, <1>12

(* Connecting comes before any reading, and in pipe mode nothing is.       *)
LEMMA ConnectingKeeps ==
  ASSUME BridgeInv, deployed' = deployed, NEW success \in BOOLEAN, Connect_nats(success)
  PROVE  BridgeInv'
<1>1. /\ at = "connecting" /\ at' = "running"
      /\ UNCHANGED <<mode, stdout, frames, relayed>>
  BY DEF Connect_nats
<1>2. /\ relayed = <<>> /\ DOMAIN relayed = {}
      /\ mode = "spawn" => Len(stdout) = Len(frames)
  BY <1>1 DEF BridgeInv, NothingReadBefore
<1>3. PipesTyped' /\ NothingReadBefore'
  BY <1>1 DEF BridgeInv, PipesTyped, NothingReadBefore
<1>4. ReadSoFar' = ReadSoFar /\ PipeHoldsLast'
  BY <1>1 DEF BridgeInv, PipeHoldsLast, ReadSoFar
<1>5. mode = "spawn" => ReadSoFar = 0
  BY <1>2 DEF BridgeInv, PipesTyped, ReadSoFar
<1>6. RelayedInOrder'
  <2>1. 1..0 = {}
    OBVIOUS
  <2>2. mode = "spawn" => 1..ReadSoFar' = {}
    BY <2>1, <1>4, <1>5
  <2>3. DOMAIN relayed' = {} /\ mode' = mode
    BY <1>1, <1>2
  <2> QED BY <2>2, <2>3 DEF RelayedInOrder
<1> QED BY <1>3, <1>4, <1>6 DEF BridgeInv

LEMMA SwallowingKeeps ==
  ASSUME BridgeInv, deployed' = deployed, Swallow
  PROVE  BridgeInv'
<1>1. /\ mode = "pipe" /\ mode' = "pipe" /\ at' # "connecting" /\ stdout' = <<>>
      /\ UNCHANGED <<frames, relayed>>
  BY DEF Swallow
<1>2. PipesTyped'
  BY <1>1 DEF BridgeInv, PipesTyped
<1>3. PipeHoldsLast' /\ NothingReadBefore' /\ RelayedInOrder'
  BY <1>1 DEF BridgeInv, PipeHoldsLast, NothingReadBefore, RelayedInOrder
<1> QED BY <1>2, <1>3 DEF BridgeInv

LEMMA PipesAtFirst == Init => BridgeInv
<1> SUFFICES ASSUME Init PROVE BridgeInv
  OBVIOUS
<1>1. stdout = <<>> /\ frames = <<>> /\ relayed = <<>> /\ connected = FALSE
  BY DEF Init, BridgeInit
<1>2. 1..0 = {} /\ DOMAIN stdout = {} /\ DOMAIN relayed = {}
  BY <1>1
<1>3. PipesTyped /\ NothingReadBefore
  BY <1>1 DEF PipesTyped, NothingReadBefore
<1>4. PipeHoldsLast
  BY <1>2 DEF PipeHoldsLast
<1>5. RelayedInOrder
  <2>1. ~connected
    BY <1>1
  <2>2. \A i, j \in DOMAIN relayed : i < j => relayed[i] < relayed[j]
    BY <1>2
  <2> QED BY <2>1, <2>2 DEF RelayedInOrder
<1> QED BY <1>3, <1>4, <1>5 DEF BridgeInv

LEMMA PipesKept ==
  BridgeInv /\ [Next]_stationVars => BridgeInv'
<1> SUFFICES ASSUME BridgeInv, [Next]_stationVars PROVE BridgeInv'
  OBVIOUS
<1>1. deployed' = deployed
  BY DeployedKept
<1>2. PipesAlone => BridgeInv'
  BY <1>1 DEF PipesAlone, BridgeInv, PipesTyped, PipeHoldsLast, RelayedInOrder,
                    NothingReadBefore, ReadSoFar, Publishable, IsJson, HoldsPacket, Arm
<1>3. ASSUME NEW words \in {0, 1, 32}, Writes(words) PROVE BridgeInv'
  BY <1>1, <1>3, WritingKeeps
<1>4. ASSUME NEW success \in BOOLEAN, Connect_nats(success) PROVE BridgeInv'
  BY <1>1, <1>4, ConnectingKeeps
<1>5. CASE ReadFrame
  BY <1>1, <1>5, ReadingKeeps
<1>6. CASE Swallow
  BY <1>1, <1>6, SwallowingKeeps
<1> QED BY <1>2, <1>3, <1>4, <1>5, <1>6, BridgeSteps

LEMMA PipesAlways == Spec => []BridgeInv
  BY PipesAtFirst, PipesKept, PTL DEF Spec

(* Whoever is there, and however the two pipes fill and empty: the frames  *)
(* that are to be published are, each once and in the order written.       *)
THEOREM FramesRelayed == Spec => []FramesInOrder
<1>1. BridgeInv => FramesInOrder
  BY DEF BridgeInv, RelayedInOrder, FramesInOrder, ReadSoFar
<1> QED BY PipesAlways, <1>1, PTL

------------------------------------------------------------------------------
(* Queues of telemetry.                                                    *)

(* What may arrive on the subject of a subsystem's telemetry.              *)
Bodies(s) ==
  {EmptyRequest} \cup {State(v, off) : v \in Nat, off \in {{}, Parameters[s]}}

QueuesTyped ==
  /\ DOMAIN queue = Subscriptions
  /\ \A sub \in Subscriptions : sub[2] \in Subsystems => queue[sub] \in Seq(Bodies(sub[2]))
  /\ version \in [Subsystems -> Nat]

(* What a step may do to the queue of a subscription to telemetry.         *)
Kept(sub) == queue'[sub] = queue[sub] /\ version'[sub[2]] = version[sub[2]]
Requested(sub) ==
  queue'[sub] = Append(queue[sub], EmptyRequest) /\ version'[sub[2]] = version[sub[2]]
Unnumbered(sub) ==
  /\ sub[2] \in {"cdh", "crew"}
  /\ queue'[sub] = Append(queue[sub], State(0, {})) /\ version'[sub[2]] = version[sub[2]]
Numbered(sub) ==
  /\ sub[2] \in Publishers /\ version'[sub[2]] = version[sub[2]] + 1
  /\ \E off \in {{}, Parameters[sub[2]]} :
       queue'[sub] = IF sub[1] \in deployed
                     THEN Append(queue[sub], State(version[sub[2]] + 1, off)) ELSE queue[sub]
Handled(sub) ==
  /\ queue[sub] # <<>> /\ queue'[sub] = Tail(queue[sub])
  /\ version'[sub[2]] = version[sub[2]]
  /\ \/ sub = <<"mcp", sub[2]>> /\ Broadcast(sub[2])
     \/ sub = <<"cdh", sub[2]>> /\ CdhTelemetry(sub[2])

LEMMA SentTo ==
  ASSUME NEW q, NEW subject, NEW m, NEW sub \in Subscriptions
  PROVE  Sent(q, subject, m)[sub] =
           IF sub[1] \in deployed /\ sub[2] = subject THEN Append(q[sub], m) ELSE q[sub]
  BY DEF Sent

LEMMA TakenFrom ==
  ASSUME QueuesTyped, NEW first, first \in Subscriptions, NEW sub \in Subscriptions
  PROVE  Taken(queue, first)[sub] = IF sub = first THEN Tail(queue[sub]) ELSE queue[sub]
  BY DEF Taken, QueuesTyped

(* A message that is taken from another subject changes nothing here.      *)
LEMMA TakenElsewhere ==
  ASSUME QueuesTyped, NEW sub \in Subscriptions, sub[2] \in Subsystems,
         NEW first, first \in Subscriptions,
         first[2] \in {"tick", "uplink", "orchestrator"}
  PROVE  Taken(queue, first)[sub] = queue[sub]
<1>1. sub # first
  BY StationConstants
<1> QED BY <1>1, TakenFrom

(* What the steps of the MCP server do to it.                              *)
LEMMA QueueMcp ==
  ASSUME QueuesTyped, McpStep, NEW sub \in Subscriptions, sub[2] \in Subsystems
  PROVE  Kept(sub) \/ Requested(sub) \/ Numbered(sub) \/ Handled(sub)
<1>1. ASSUME NEW c \in Calls, SendRequest(c)
      PROVE  Kept(sub) \/ Requested(sub)
  <2>1. queue'[sub] = IF sub[1] \in deployed /\ sub[2] = Subject(c)
                      THEN Append(queue[sub], Body(c)) ELSE queue[sub]
    BY <1>1, SentTo DEF SendRequest
  <2>2. version' = version
    BY <1>1 DEF SendRequest
  <2>3. sub[2] = Subject(c) => Body(c) = EmptyRequest
    BY StationConstants DEF Subject, Body
  <2> QED BY <2>1, <2>2, <2>3 DEF Kept, Requested
<1>2. ASSUME NEW s \in Subsystems, Broadcast(s)
      PROVE  Kept(sub) \/ Handled(sub)
  <2>1. /\ <<"mcp", s>> \in Subscriptions /\ queue[<<"mcp", s>>] # <<>>
        /\ queue' = Taken(queue, <<"mcp", s>>) /\ version' = version
    BY <1>2 DEF Broadcast, Waiting
  <2>2. CASE sub = <<"mcp", s>>
    <3>1. queue'[sub] = Tail(queue[sub]) /\ sub[2] = s
      BY <2>1, <2>2, TakenFrom
    <3> QED BY <3>1, <2>1, <2>2, <1>2 DEF Handled
  <2>3. CASE sub # <<"mcp", s>>
    BY <2>1, <2>3, TakenFrom DEF Kept
  <2> QED BY <2>2, <2>3
<1>3. ASSUME NEW s \in Publishers, PublishState(s)
      PROVE  Kept(sub) \/ Numbered(sub)
  <2>1. version' = [version EXCEPT ![s] = @ + 1] /\ version \in [Subsystems -> Nat]
    BY <1>3 DEF PublishState, QueuesTyped
  <2>2. PICK off \in {{}, Parameters[s]} : queue' = Sent(queue, s, State(version[s] + 1, off))
    BY <1>3 DEF PublishState
  <2>3. queue'[sub] = IF sub[1] \in deployed /\ sub[2] = s
                      THEN Append(queue[sub], State(version[s] + 1, off)) ELSE queue[sub]
    BY <2>2, SentTo
  <2>4. CASE sub[2] = s
    <3>1. version'[s] = version[s] + 1
      BY <2>1, <2>4
    <3> QED BY <3>1, <2>3, <2>4 DEF Numbered
  <2>5. CASE sub[2] # s
    <3>1. version'[sub[2]] = version[sub[2]]
      BY <2>1, <2>5
    <3> QED BY <3>1, <2>3, <2>5 DEF Kept
  <2> QED BY <2>4, <2>5
<1>4. CASE UNCHANGED <<queue, version>>
  BY <1>4 DEF Kept
<1>5. ASSUME McpNext
      PROVE  \/ \E c \in Calls : SendRequest(c)
             \/ \E s \in Subsystems : Broadcast(s)
             \/ UNCHANGED <<queue, version>>
  BY <1>5 DEF McpNext, Handle, Ask, AnswerAtOnce, Reply, Expire, NoResponders, Connect,
              Prepare, PrepareRaises, Write, Leave, Forget, bus
<1> QED BY <1>1, <1>2, <1>3, <1>4, <1>5 DEF McpStep

(* What the steps of the other services do to it.                          *)
LEMMA QueueOthers ==
  ASSUME QueuesTyped, NEW sub \in Subscriptions, sub[2] \in Subsystems, version' = version,
         Outside \/ EclssStep \/ CdhStep \/ CrewStep \/ BridgeStep
  PROVE  Kept(sub) \/ Unnumbered(sub) \/ Handled(sub)
<1>1. ASSUME NEW q, NEW s, s \in {"cdh", "crew"},
             q[sub] = queue[sub], queue' = Sent(q, s, State(0, {}))
      PROVE  Kept(sub) \/ Unnumbered(sub)
  <2>1. queue'[sub] = IF sub[1] \in deployed /\ sub[2] = s
                      THEN Append(q[sub], State(0, {})) ELSE q[sub]
    BY <1>1, SentTo
  <2>2. CASE sub[1] \in deployed /\ sub[2] = s
    BY <1>1, <2>1, <2>2 DEF Unnumbered
  <2>3. CASE ~(sub[1] \in deployed /\ sub[2] = s)
    BY <1>1, <2>1, <2>3 DEF Kept
  <2> QED BY <2>2, <2>3
<1>2. Outside => Kept(sub)
  <2>1. CASE Tick \/ \E m \in GroundCommands[deployed] : SendCommand(m)
    BY <2>1, SentTo, StationConstants DEF Tick, SendCommand, Kept
  <2>2. CASE OrchestratorCommand
    BY <2>2, TakenElsewhere DEF OrchestratorCommand, Waiting, Kept
  <2> QED BY <2>1, <2>2 DEF Outside
<1>3. EclssStep => Kept(sub)
  <2>1. CASE EclssTick
    BY <2>1, TakenElsewhere DEF EclssTick, Waiting, Kept
  <2>2. CASE EclssCommand
    BY <2>2, TakenElsewhere DEF EclssCommand, Waiting, Kept
  <2> QED BY <2>1, <2>2 DEF EclssStep, EclssNext
<1>4. CrewStep => Kept(sub) \/ Unnumbered(sub)
  <2> SUFFICES ASSUME CrewTick PROVE Kept(sub) \/ Unnumbered(sub)
    BY DEF CrewStep
  <2>1. /\ <<"crew", "tick">> \in Subscriptions
        /\ queue' = Sent(Taken(queue, <<"crew", "tick">>), "crew", State(0, {}))
    BY DEF CrewTick, Waiting
  <2>2. Taken(queue, <<"crew", "tick">>)[sub] = queue[sub]
    BY <2>1, TakenElsewhere
  <2> QED BY <2>1, <2>2, <1>1
<1>5. CdhStep => Kept(sub) \/ Unnumbered(sub) \/ Handled(sub)
  <2>1. CASE CdhTick
    <3>1. /\ <<"cdh", "tick">> \in Subscriptions
          /\ queue' = Sent(Taken(queue, <<"cdh", "tick">>), "cdh", State(0, {}))
      BY <2>1 DEF CdhTick, Waiting
    <3>2. Taken(queue, <<"cdh", "tick">>)[sub] = queue[sub]
      BY <3>1, TakenElsewhere
    <3> QED BY <3>1, <3>2, <1>1
  <2>2. CASE CdhCommand
    BY <2>2, TakenElsewhere DEF CdhCommand, Waiting, Kept
  <2>3. ASSUME NEW s \in Verifies, CdhTelemetry(s)
        PROVE  Kept(sub) \/ Handled(sub)
    <3>1. /\ <<"cdh", s>> \in Subscriptions /\ queue[<<"cdh", s>>] # <<>>
          /\ queue' = Taken(queue, <<"cdh", s>>)
      BY <2>3 DEF CdhTelemetry, Waiting
    <3>2. CASE sub = <<"cdh", s>>
      <4>1. queue'[sub] = Tail(queue[sub]) /\ sub[2] = s
        BY <3>1, <3>2, TakenFrom
      <4> QED BY <4>1, <3>1, <3>2, <2>3 DEF Handled
    <3>3. CASE sub # <<"cdh", s>>
      BY <3>1, <3>3, TakenFrom DEF Kept
    <3> QED BY <3>2, <3>3
  <2> QED BY <2>1, <2>2, <2>3 DEF CdhStep, CdhNext
<1>6. BridgeStep => Kept(sub)
  <2>1. CASE BridgeCommand
    BY <2>1, TakenElsewhere DEF BridgeCommand, Waiting, Kept
  <2>2. CASE BridgeStep /\ ~BridgeCommand
    BY <2>2 DEF BridgeStep, BridgeNext, ProcessNext, Writes, TakesCommand, Exits, Connect_nats,
                ReadFrame, Swallow, BridgeEnds, bus, Kept
  <2> QED BY <2>1, <2>2
<1> QED BY <1>2, <1>3, <1>4, <1>5, <1>6

(* So these are all the ways in which the queue of a subscription to       *)
(* telemetry changes.                                                      *)
LEMMA QueueSteps ==
  ASSUME QueuesTyped, [Next]_stationVars, NEW sub \in Subscriptions, sub[2] \in Subsystems
  PROVE  Kept(sub) \/ Requested(sub) \/ Unnumbered(sub) \/ Numbered(sub) \/ Handled(sub)
<1>1. CASE McpStep
  BY <1>1, QueueMcp
<1>2. CASE Outside \/ EclssStep \/ CdhStep \/ CrewStep \/ BridgeStep
  <2>1. version' = version
    BY <1>2 DEF Outside, EclssStep, CdhStep, CrewStep, BridgeStep, mcpVars
  <2> QED BY <1>2, <2>1, QueueOthers
<1>3. CASE UNCHANGED stationVars
  <2>1. queue' = queue /\ version' = version
    BY <1>3 DEF stationVars, bus, mcpVars
  <2> QED BY <2>1 DEF Kept
<1> QED BY <1>1, <1>2, <1>3 DEF Next

LEMMA TailOfSeq ==
  ASSUME NEW S, NEW q \in Seq(S), q # <<>>
  PROVE  Tail(q) \in Seq(S)
  OBVIOUS

LEMMA BodyKinds ==
  ASSUME NEW s, NEW m \in Bodies(s)
  PROVE  /\ m.kind # "telemetry" => m = EmptyRequest
         /\ m.kind = "telemetry" =>
              /\ m.version \in Nat /\ m.off \in {{}, Parameters[s]}
              /\ m = State(m.version, m.off)
<1>1. EmptyRequest.kind = "request"
  BY DEF EmptyRequest
<1>2. CASE m = EmptyRequest
  BY <1>1, <1>2
<1>3. CASE m \in {State(v, off) : v \in Nat, off \in {{}, Parameters[s]}}
  <2>1. PICK v \in Nat, off \in {{}, Parameters[s]} : m = State(v, off)
    BY <1>3
  <2>2. m.kind = "telemetry" /\ m.version = v /\ m.off = off
    BY <2>1 DEF State
  <2> QED BY <2>1, <2>2
<1> QED BY <1>2, <1>3 DEF Bodies

LEMMA BodyMembers ==
  ASSUME NEW s
  PROVE  /\ EmptyRequest \in Bodies(s)
         /\ \A v \in Nat : /\ State(v, {}) \in Bodies(s)
                           /\ State(v, Parameters[s]) \in Bodies(s)
  BY DEF Bodies

LEMMA QueuesTypedKept ==
  ASSUME QueuesTyped, [Next]_stationVars
  PROVE  QueuesTyped'
<1>1. DOMAIN queue' = Subscriptions
  <2>1. CASE queue' = queue
    BY <2>1 DEF QueuesTyped
  <2>2. ASSUME NEW subject, NEW m, NEW q, queue' = Sent(q, subject, m)
        PROVE  DOMAIN queue' = Subscriptions
    BY <2>2 DEF Sent
  <2>3. ASSUME NEW first, queue' = Taken(queue, first)
        PROVE  DOMAIN queue' = Subscriptions
    BY <2>3 DEF Taken, QueuesTyped
  <2>4. Outside => DOMAIN queue' = Subscriptions
    BY <2>2, <2>3 DEF Outside, Tick, OrchestratorCommand, SendCommand
  <2>5. McpStep => DOMAIN queue' = Subscriptions
    <3>1. ASSUME NEW c \in Calls, SendRequest(c) PROVE DOMAIN queue' = Subscriptions
      BY <3>1, <2>2 DEF SendRequest
    <3>2. ASSUME NEW s \in Subsystems, Broadcast(s) PROVE DOMAIN queue' = Subscriptions
      BY <3>2, <2>3 DEF Broadcast
    <3>3. ASSUME NEW s \in Publishers, PublishState(s) PROVE DOMAIN queue' = Subscriptions
      BY <3>3, <2>2 DEF PublishState
    <3>4. ASSUME McpNext
          PROVE  \/ \E c \in Calls : SendRequest(c)
                 \/ \E s \in Subsystems : Broadcast(s)
                 \/ queue' = queue
      BY <3>4 DEF McpNext, Handle, Ask, AnswerAtOnce, Reply, Expire, NoResponders, Connect,
                  Prepare, PrepareRaises, Write, Leave, Forget, bus
    <3> QED BY <3>1, <3>2, <3>3, <3>4, <2>1 DEF McpStep
  <2>6. EclssStep => DOMAIN queue' = Subscriptions
    BY <2>3 DEF EclssStep, EclssNext, EclssTick, EclssCommand
  <2>7. CdhStep \/ CrewStep => DOMAIN queue' = Subscriptions
    BY <2>2, <2>3 DEF CdhStep, CdhNext, CdhTick, CdhCommand, CdhTelemetry, CrewStep, CrewTick
  <2>8. BridgeStep => DOMAIN queue' = Subscriptions
    <3>1. BridgeStep => BridgeCommand \/ queue' = queue
      BY DEF BridgeStep, BridgeNext, ProcessNext, Writes, TakesCommand, Exits, Connect_nats,
             ReadFrame, Swallow, BridgeEnds, bus
    <3> QED BY <3>1, <2>1, <2>3 DEF BridgeCommand
  <2>9. CASE UNCHANGED stationVars
    <3>1. queue' = queue
      BY <2>9 DEF stationVars, bus
    <3> QED BY <3>1, <2>1
  <2> QED BY <2>4, <2>5, <2>6, <2>7, <2>8, <2>9 DEF Next
<1>2. version' \in [Subsystems -> Nat]
  <2>1. version' = version \/ \E s \in Publishers : PublishState(s)
    BY DEF Next, Outside, McpStep, EclssStep, CdhStep, CrewStep, BridgeStep, McpNext, Handle,
           Ask, AnswerAtOnce, SendRequest, Reply, Expire, NoResponders, Connect, Prepare,
           PrepareRaises, Write, Leave, Forget, Broadcast, stationVars, mcpVars
  <2> QED BY <2>1, McpConstants DEF PublishState, QueuesTyped
<1>3. ASSUME NEW sub \in Subscriptions, sub[2] \in Subsystems
      PROVE  queue'[sub] \in Seq(Bodies(sub[2]))
  <2>1. queue[sub] \in Seq(Bodies(sub[2])) /\ version[sub[2]] \in Nat
    BY <1>3 DEF QueuesTyped
  <2>2. ASSUME NEW m \in Bodies(sub[2]), queue'[sub] = Append(queue[sub], m)
        PROVE  queue'[sub] \in Seq(Bodies(sub[2]))
    BY <2>1, <2>2
  <2>3. CASE Kept(sub)
    BY <2>1, <2>3 DEF Kept
  <2>4. CASE Requested(sub)
    BY <2>2, <2>4, BodyMembers DEF Requested
  <2>5. CASE Unnumbered(sub)
    <3>1. 0 \in Nat
      OBVIOUS
    <3> QED BY <3>1, <2>2, <2>5, BodyMembers DEF Unnumbered
  <2>6. CASE Numbered(sub)
    <3>1. version[sub[2]] + 1 \in Nat
      BY <2>1
    <3>2. \A off \in {{}, Parameters[sub[2]]} :
            State(version[sub[2]] + 1, off) \in Bodies(sub[2])
      BY <3>1, BodyMembers
    <3> QED BY <3>2, <2>1, <2>2, <2>6 DEF Numbered
  <2>7. CASE Handled(sub)
    <3>1. queue[sub] # <<>> /\ queue'[sub] = Tail(queue[sub])
      BY <2>7 DEF Handled
    <3> QED BY <3>1, <2>1, TailOfSeq
  <2> QED BY <1>3, <2>3, <2>4, <2>5, <2>6, <2>7, QueueSteps
<1> QED BY <1>1, <1>2, <1>3 DEF QueuesTyped

LEMMA QueuesTypedAtFirst ==
  ASSUME Init
  PROVE  QueuesTyped
<1>1. queue = [sub \in Subscriptions |-> <<>>] /\ version = [s \in Subsystems |-> 1]
  BY DEF Init, BusInit, McpInit
<1>2. \A s : <<>> \in Seq(Bodies(s))
  OBVIOUS
<1> QED BY <1>1, <1>2 DEF QueuesTyped

(* A request does not count among the states a queue carries.              *)
LEMMA CarriesRequest ==
  ASSUME NEW s, NEW q \in Seq(Bodies(s)), NEW a \in Nat, NEW b \in Nat, Carries(q, a, b)
  PROVE  Carries(Append(q, EmptyRequest), a, b)
<1> DEFINE n == Len(q)
           r == Append(q, EmptyRequest)
<1>1. /\ n \in Nat /\ DOMAIN q = 1..n /\ DOMAIN r = 1..(n+1)
      /\ r[n+1] = EmptyRequest /\ \A i \in 1..n : r[i] = q[i]
  OBVIOUS
<1>2. r[n+1].kind # "telemetry"
  <2>1. EmptyRequest.kind = "request"
    BY DEF EmptyRequest
  <2> HIDE DEF n, r
  <2> QED BY <2>1, <1>1
<1> HIDE DEF n, r
<1>3. {i \in DOMAIN r : r[i].kind = "telemetry"} = {i \in DOMAIN q : q[i].kind = "telemetry"}
  <2>1. 1..(n+1) = 1..n \cup {n+1}
    BY <1>1
  <2> QED BY <2>1, <1>1, <1>2
<1>4. \A i \in DOMAIN q : r[i] = q[i]
  BY <1>1
<1>5. Carries(r, a, b)
  BY <1>3, <1>4 DEF Carries
<1> QED BY <1>5 DEF r

(* The next state does.                                                    *)
LEMMA CarriesNext ==
  ASSUME NEW s, NEW q \in Seq(Bodies(s)), NEW a \in Nat, NEW b \in Nat, Carries(q, a, b),
         NEW off
  PROVE  Carries(Append(q, State(b+1, off)), a, b+1)
<1> DEFINE n == Len(q)
           r == Append(q, State(b+1, off))
           old == {i \in 1..n : q[i].kind = "telemetry"}
           new == {i \in 1..(n+1) : r[i].kind = "telemetry"}
<1>1. /\ n \in Nat /\ DOMAIN q = 1..n /\ DOMAIN r = 1..(n+1)
      /\ r[n+1] = State(b+1, off) /\ \A i \in 1..n : r[i] = q[i]
  OBVIOUS
<1>2. r[n+1].kind = "telemetry" /\ r[n+1].version = b + 1
  BY <1>1 DEF State
<1> HIDE DEF n, r
<1>3. new = old \cup {n+1}
  <2>1. 1..(n+1) = 1..n \cup {n+1}
    BY <1>1
  <2> QED BY <2>1, <1>1, <1>2
<1>4. /\ a <= b /\ {q[i].version : i \in old} = a+1..b
      /\ \A i, j \in old : i < j => q[i].version < q[j].version
  BY <1>1 DEF Carries
<1>5. {r[i].version : i \in new} = a+1..b+1
  <2>1. {r[i].version : i \in new} = {q[i].version : i \in old} \cup {b+1}
    BY <1>1, <1>2, <1>3
  <2>2. a+1..b+1 = a+1..b \cup {b+1}
    BY <1>4
  <2> QED BY <2>1, <2>2, <1>4
<1>6. ASSUME NEW i \in new, NEW j \in new, i < j
      PROVE  r[i].version < r[j].version
  <2>1. i \in old
    BY <1>1, <1>3, <1>6
  <2>2. r[i] = q[i] /\ q[i].version \in a+1..b
    BY <2>1, <1>1, <1>4
  <2>3. CASE j = n+1
    BY <2>2, <2>3, <1>2
  <2>4. CASE j # n+1
    <3>1. j \in old /\ r[j] = q[j]
      BY <2>4, <1>1, <1>3
    <3> QED BY <3>1, <2>1, <2>2, <1>4, <1>6
  <2> QED BY <2>3, <2>4
<1>7. Carries(r, a, b+1)
  <2>1. a <= b+1
    BY <1>4
  <2>2. new = {i \in DOMAIN r : r[i].kind = "telemetry"}
    BY <1>1
  <2> HIDE DEF new, old
  <2> QED BY <2>1, <2>2, <1>5, <1>6 DEF Carries
<1> QED BY <1>7 DEF r

(* The first message is a request, or it is the state after a.             *)
LEMMA CarriesFirst ==
  ASSUME NEW s, NEW q \in Seq(Bodies(s)), NEW a \in Nat, NEW b \in Nat, Carries(q, a, b),
         q # <<>>
  PROVE  /\ Head(q) \in Bodies(s)
         /\ Head(q).kind # "telemetry" => Carries(Tail(q), a, b)
         /\ Head(q).kind = "telemetry" =>
              Head(q).version = a + 1 /\ Carries(Tail(q), a + 1, b)
<1> DEFINE n == Len(q)
           r == Tail(q)
           old == {i \in 1..n : q[i].kind = "telemetry"}
           new == {i \in 1..(n-1) : r[i].kind = "telemetry"}
<1>1. /\ n \in Nat /\ n >= 1 /\ DOMAIN q = 1..n /\ DOMAIN r = 1..(n-1)
      /\ Head(q) = q[1] /\ \A i \in 1..(n-1) : r[i] = q[i+1]
  OBVIOUS
<1>2. Head(q) \in Bodies(s)
  BY <1>1
<1> HIDE DEF n, r
<1>3. /\ a <= b /\ {q[i].version : i \in old} = a+1..b
      /\ \A i, j \in old : i < j => q[i].version < q[j].version
  BY <1>1 DEF Carries
<1>4. \A i \in 1..(n-1) : i \in new <=> i+1 \in old
  BY <1>1
<1>5. \A i \in old : i = 1 \/ (i-1 \in new /\ r[i-1] = q[i])
  <2> SUFFICES ASSUME NEW i \in old, i # 1 PROVE i-1 \in new /\ r[i-1] = q[i]
    OBVIOUS
  <2>1. i-1 \in 1..(n-1) /\ (i-1)+1 = i
    BY <1>1
  <2> QED BY <2>1, <1>1, <1>4
<1>6. ASSUME NEW i \in new, NEW j \in new, i < j
      PROVE  r[i].version < r[j].version
  <2>1. i+1 \in old /\ j+1 \in old /\ i+1 < j+1 /\ r[i] = q[i+1] /\ r[j] = q[j+1]
    BY <1>1, <1>4, <1>6
  <2> QED BY <2>1, <1>3
<1>7. ASSUME q[1].kind # "telemetry"
      PROVE  Carries(r, a, b)
  <2>1. {r[i].version : i \in new} = {q[i].version : i \in old}
    <3>1. 1 \notin old
      BY <1>7
    <3>2. \A i \in new : i+1 \in old /\ r[i] = q[i+1]
      BY <1>1, <1>4
    <3> HIDE DEF old, new
    <3> QED BY <3>1, <3>2, <1>5
  <2> QED BY <2>1, <1>1, <1>3, <1>6 DEF Carries
<1>8. ASSUME q[1].kind = "telemetry"
      PROVE  q[1].version = a + 1 /\ Carries(r, a + 1, b)
  <2>1. 1 \in old
    BY <1>1, <1>8
  <2>2. q[1].version \in a+1..b
    BY <2>1, <1>3
  <2>3. q[1].version = a + 1
    <3>1. a + 1 \in a+1..b
      BY <2>2
    <3>2. PICK i \in old : q[i].version = a + 1
      BY <3>1, <1>3
    <3>3. i = 1 \/ 1 < i
      BY <1>1
    <3>4. i # 1 => q[1].version < a + 1
      BY <3>2, <3>3, <2>1, <1>3
    <3> QED BY <3>2, <3>4, <2>2
  <2>4. {r[i].version : i \in new} = a+2..b
    <3>1. ASSUME NEW i \in new PROVE r[i].version \in a+2..b
      <4>1. i+1 \in old /\ 1 < i+1 /\ r[i] = q[i+1]
        BY <1>1, <1>4
      <4>2. q[1].version < q[i+1].version /\ q[i+1].version \in a+1..b
        BY <4>1, <2>1, <1>3
      <4> QED BY <4>1, <4>2, <2>3
    <3>2. ASSUME NEW v \in a+2..b PROVE \E i \in new : r[i].version = v
      <4>1. v \in a+1..b /\ v # a+1
        BY <3>2
      <4>2. PICK i \in old : q[i].version = v
        BY <4>1, <1>3
      <4>3. i # 1
        BY <4>1, <4>2, <2>3
      <4> QED BY <4>2, <4>3, <1>5
    <3> QED BY <3>1, <3>2
  <2>5. (a + 1) + 1 = a + 2 /\ a + 1 <= b
    BY <2>2
  <2> QED BY <2>3, <2>4, <2>5, <1>1, <1>6 DEF Carries
<1>9. Head(q) = q[1] /\ r = Tail(q)
  BY <1>1 DEF r
<1> QED BY <1>2, <1>7, <1>8, <1>9

(* Nothing is carried when nothing waits.                                  *)
LEMMA CarriesNothing ==
  ASSUME NEW a \in Nat
  PROVE  Carries(<<>>, a, a)
<1>1. a + 1..a = {} /\ DOMAIN <<>> = {}
  OBVIOUS
<1> QED BY <1>1 DEF Carries

------------------------------------------------------------------------------
(* What C&DH verifies.                                                     *)

(* What it means for one subsystem.                                        *)
InOrder(s) ==
  /\ verified[s] \in Seq(Nat)
  /\ \A i \in DOMAIN verified[s] : verified[s][i] = i + 1
  /\ Carries(queue[<<"cdh", s>>], Len(verified[s]) + 1, version[s])

VerifiedInv ==
  /\ QueuesTyped /\ DOMAIN verified = Verifies
  /\ "cdh" \in deployed => \A s \in Publishers \cap Verifies : InOrder(s)

LEMMA VerifiedByTelemetry ==
  ASSUME [Next]_stationVars
  PROVE  \/ verified' = verified
         \/ \E s \in Verifies : CdhTelemetry(s) /\ version' = version
<1>1. Outside \/ McpStep \/ EclssStep \/ CrewStep \/ BridgeStep => verified' = verified
  BY DEF Outside, McpStep, EclssStep, CrewStep, BridgeStep, cdhVars
<1>2. CdhStep => \/ verified' = verified
                 \/ \E s \in Verifies : CdhTelemetry(s) /\ version' = version
  BY DEF CdhStep, CdhNext, CdhTick, CdhCommand, cdhVars, mcpVars
<1>3. UNCHANGED stationVars => verified' = verified
  BY DEF stationVars, cdhVars
<1> QED BY <1>1, <1>2, <1>3 DEF Next

(* The names under which EPS and thermal publish are not those that have   *)
(* limits, so that none of their states is lost to an alarm.               *)
LEMMA NoAlarms ==
  ASSUME NEW s \in Publishers \cap Verifies, NEW m, m.off \in {{}, Parameters[s]}
  PROVE  Alarms(s, m) = {}
<1>1. s \in {"thermal", "eps"}
  BY StationConstants DEF Verifies
<1>2. m.off \subseteq Reported[s]
  BY StationConstants
<1>3. Limited[s] \cap Reported[s] = {}
  BY <1>1 DEF Limited, Reported
<1> QED BY <1>2, <1>3 DEF Alarms

(* A message is handled: it is a request, or the state after the last.     *)
LEMMA VerifiedHandled ==
  ASSUME VerifiedInv, NEW s \in Publishers \cap Verifies, InOrder(s),
         CdhTelemetry(s), version'[s] = version[s]
  PROVE  InOrder(s)'
<1> DEFINE sub == <<"cdh", s>>
<1>1. PICK q : q = queue[sub]
  OBVIOUS
<1>2. PICK w : w = verified[s]
  OBVIOUS
<1>3. /\ sub \in Subscriptions /\ q # <<>> /\ queue' = Taken(queue, sub)
      /\ verified' = IF /\ Head(q).kind = "telemetry" /\ Head(q).version > 0
                        /\ Alarms(s, Head(q)) = {}
                     THEN [verified EXCEPT ![s] = Append(@, Head(q).version)]
                     ELSE verified
  BY <1>1 DEF CdhTelemetry, Waiting
<1>4. s \in Subsystems /\ s \in Verifies
  BY McpConstants
<1>5. q \in Seq(Bodies(s)) /\ version[s] \in Nat /\ DOMAIN verified = Verifies
  BY <1>1, <1>3, <1>4 DEF VerifiedInv, QueuesTyped
<1>6. /\ w \in Seq(Nat) /\ \A i \in DOMAIN w : w[i] = i + 1
      /\ Carries(q, Len(w) + 1, version[s])
  BY <1>1, <1>2 DEF InOrder
<1>7. Len(w) + 1 \in Nat
  BY <1>6
<1>8. queue'[sub] = Tail(q)
  BY <1>1, <1>3, TakenFrom DEF VerifiedInv
<1>9. /\ Head(q) \in Bodies(s)
      /\ Head(q).kind # "telemetry" => Carries(Tail(q), Len(w) + 1, version[s])
      /\ Head(q).kind = "telemetry" =>
           /\ Head(q).version = (Len(w) + 1) + 1
           /\ Carries(Tail(q), (Len(w) + 1) + 1, version[s])
  BY <1>3, <1>5, <1>6, <1>7, CarriesFirst
<1>10. CASE Head(q).kind # "telemetry"
  <2>1. verified' = verified
    BY <1>3, <1>10
  <2> QED BY <2>1, <1>2, <1>6, <1>8, <1>9, <1>10 DEF InOrder
<1>11. CASE Head(q).kind = "telemetry"
  <2>1. Alarms(s, Head(q)) = {}
    BY <1>9, <1>11, BodyKinds, NoAlarms
  <2>2. PICK x : x = Append(w, (Len(w) + 1) + 1)
    OBVIOUS
  <2>3. Head(q).version > 0
    BY <1>7, <1>9, <1>11
  <2>4. verified'[s] = x
    BY <1>2, <1>3, <1>4, <1>5, <1>9, <1>11, <2>1, <2>2, <2>3
  <2>5. /\ x \in Seq(Nat) /\ Len(x) = Len(w) + 1
        /\ \A i \in DOMAIN x : x[i] = i + 1
    BY <1>6, <2>2
  <2>6. Carries(Tail(q), Len(x) + 1, version[s])
    BY <1>9, <1>11, <2>5
  <2> QED BY <2>4, <2>5, <2>6, <1>8 DEF InOrder
<1> QED BY <1>10, <1>11

(* A message arrives.                                                      *)
LEMMA VerifiedArrives ==
  ASSUME VerifiedInv, NEW s \in Publishers \cap Verifies, InOrder(s), "cdh" \in deployed,
         verified' = verified,
         Kept(<<"cdh", s>>) \/ Requested(<<"cdh", s>>) \/ Numbered(<<"cdh", s>>)
  PROVE  InOrder(s)'
<1> DEFINE sub == <<"cdh", s>>
<1>1. PICK q : q = queue[sub]
  OBVIOUS
<1>2. PICK a : a = Len(verified[s]) + 1
  OBVIOUS
<1>3. /\ s \in Subsystems /\ s \in Verifies /\ sub \in Subscriptions
      /\ sub[1] = "cdh" /\ sub[2] = s
  BY McpConstants, StationConstants
<1>4. q \in Seq(Bodies(s)) /\ version[s] \in Nat
  BY <1>1, <1>3 DEF VerifiedInv, QueuesTyped
<1>5. a \in Nat /\ Carries(q, a, version[s])
  BY <1>1, <1>2 DEF InOrder
<1>6. Carries(queue'[sub], a, version'[s])
  <2>1. CASE Kept(sub)
    BY <2>1, <1>1, <1>3, <1>5 DEF Kept
  <2>2. CASE Requested(sub)
    BY <2>2, <1>1, <1>3, <1>4, <1>5, CarriesRequest DEF Requested
  <2>3. CASE Numbered(sub)
    <3>1. PICK off : queue'[sub] = Append(q, State(version[s] + 1, off))
      BY <2>3, <1>1, <1>3 DEF Numbered
    <3>2. version'[s] = version[s] + 1
      BY <2>3, <1>3 DEF Numbered
    <3> QED BY <3>1, <3>2, <1>4, <1>5, CarriesNext
  <2> QED BY <2>1, <2>2, <2>3
<1> QED BY <1>2, <1>6 DEF InOrder

LEMMA VerifiedStep ==
  ASSUME VerifiedInv, [Next]_stationVars
  PROVE  VerifiedInv'
<1>1. QueuesTyped'
  BY QueuesTypedKept DEF VerifiedInv
<1>2. DOMAIN verified' = Verifies
  BY VerifiedByTelemetry DEF VerifiedInv, CdhTelemetry
<1>3. ASSUME "cdh" \in deployed', NEW s \in Publishers \cap Verifies
      PROVE  InOrder(s)'
  <2>1. "cdh" \in deployed
    BY <1>3, DeployedKept
  <2>2. InOrder(s)
    BY <2>1 DEF VerifiedInv
  <2>3. s \in Subsystems /\ <<"cdh", s>> \in Subscriptions
    BY McpConstants, StationConstants
  <2>4. CASE CdhTelemetry(s) /\ version'[s] = version[s]
    BY <2>2, <2>4, VerifiedHandled
  <2>5. ASSUME NEW t \in Verifies, t # s, CdhTelemetry(t), version' = version
        PROVE  InOrder(s)'
    <3>1. verified'[s] = verified[s]
      BY <2>5 DEF CdhTelemetry, VerifiedInv
    <3>2. queue' = Taken(queue, <<"cdh", t>>) /\ <<"cdh", t>> \in Subscriptions
      BY <2>5 DEF CdhTelemetry, Waiting
    <3>3. queue'[<<"cdh", s>>] = queue[<<"cdh", s>>]
      BY <2>3, <2>5, <3>2, TakenFrom DEF VerifiedInv
    <3> QED BY <2>2, <2>5, <3>1, <3>3 DEF InOrder
  <2>6. CASE verified' = verified /\ ~(CdhTelemetry(s) /\ version'[s] = version[s])
    <3>1. PICK sub : sub = <<"cdh", s>>
      OBVIOUS
    <3>2. sub \in Subscriptions /\ sub[2] \in Subsystems /\ sub[2] = s /\ sub[1] = "cdh"
      BY <2>3, <3>1
    <3>3. Kept(sub) \/ Requested(sub) \/ Unnumbered(sub) \/ Numbered(sub) \/ Handled(sub)
      BY <3>2, QueueSteps DEF VerifiedInv
    <3>4. ~Unnumbered(sub)
      BY <3>2, StationConstants DEF Unnumbered
    <3>5. CASE Handled(sub)
      <4>1. CdhTelemetry(s) /\ version'[s] = version[s]
        BY <3>2, <3>5 DEF Handled
      <4> QED BY <4>1, <2>6
    <3> QED BY <3>1, <3>3, <3>4, <3>5, <2>1, <2>2, <2>6, VerifiedArrives
  <2> QED BY <2>4, <2>5, <2>6, VerifiedByTelemetry
<1> QED BY <1>1, <1>2, <1>3 DEF VerifiedInv

LEMMA VerifiedAtFirst ==
  ASSUME Init
  PROVE  VerifiedInv
<1>1. QueuesTyped
  BY QueuesTypedAtFirst
<1>2. verified = [s \in Verifies |-> <<>>]
  BY DEF Init, CdhInit
<1>3. ASSUME NEW s \in Publishers \cap Verifies
      PROVE  InOrder(s)
  <2>1. queue[<<"cdh", s>>] = <<>> /\ version[s] = 1
    BY McpConstants, StationConstants DEF Init, BusInit, McpInit
  <2>2. Carries(<<>>, 1, 1)
    BY CarriesNothing
  <2>3. verified[s] = <<>> /\ Len(<<>>) + 1 = 1
    BY <1>2
  <2> QED BY <2>1, <2>2, <2>3 DEF InOrder
<1> QED BY <1>1, <1>2, <1>3 DEF VerifiedInv

(* Every state of the services that publish is published as verified, once *)
(* and in the order of publication, whatever requests, commands and ticks  *)
(* come in between (CDHSubsystem._on_tlm).                                 *)
THEOREM StatesVerified == Spec => []VerifiedInOrder
<1>1. VerifiedInv => VerifiedInOrder
  BY DEF VerifiedInv, InOrder, VerifiedInOrder
<1> QED BY <1>1, VerifiedAtFirst, VerifiedStep, PTL DEF Spec

------------------------------------------------------------------------------
(* The clients of the stream.                                              *)

Items == Seq(Subsystems \X Nat)
ClientType ==
  [at : {"away", "added", "streaming", "gone", "leaked", "closed"},
   waiting : Items, written : Items, from : [Subsystems -> Nat]]

(* All a client has got or will get of what the server has handled.        *)
Received(r) == r.written \o r.waiting

Listening(r) == r.at \in {"added", "streaming", "gone", "leaked"}

(* Only a registered client has anything, and only the server registers.   *)
ClientFits(r) ==
  /\ r \in ClientType
  /\ Listening(r) => "mcp" \in deployed
  /\ r.at \in {"away", "closed"} => r.written = <<>> /\ r.waiting = <<>>

ClientsFit == DOMAIN client = Clients /\ \A k \in Clients : ClientFits(client[k])

(* The server has handled the states of s up to a number, the rest waits.  *)
Heard(s, n) ==
  /\ Carries(queue[<<"mcp", s>>], n, version[s])
  /\ \A k \in Clients :
       /\ Streams(Received(client[k]), s, n)
       /\ Listening(client[k]) => Reaches(Received(client[k]), s, client[k].from[s], n)

StreamsInv ==
  /\ QueuesTyped /\ ClientsFit
  /\ "mcp" \in deployed => \A s \in Publishers : \E n \in Nat : Heard(s, n)

LEMMA ConcatAppend ==
  ASSUME NEW S, NEW w \in Seq(S), NEW x \in Seq(S), NEW e \in S
  PROVE  w \o Append(x, e) = Append(w \o x, e)
  OBVIOUS

LEMMA ConcatMove ==
  ASSUME NEW S, NEW w \in Seq(S), NEW x \in Seq(S), x # <<>>
  PROVE  Append(w, Head(x)) \o Tail(x) = w \o x
  OBVIOUS

LEMMA StreamsNothing ==
  ASSUME NEW s, NEW n
  PROVE  Streams(<<>>, s, n)
<1>1. DOMAIN <<>> = {}
  OBVIOUS
<1> QED BY <1>1 DEF Streams

LEMMA StreamsOther ==
  ASSUME NEW items \in Items, NEW s, NEW n \in Nat, Streams(items, s, n),
         NEW t \in Subsystems, t # s, NEW v \in Nat
  PROVE  Streams(Append(items, <<t, v>>), s, n)
<1> DEFINE l == Len(items)
           r == Append(items, <<t, v>>)
           own == {i \in DOMAIN items : items[i][1] = s}
<1>1. /\ l \in Nat /\ DOMAIN items = 1..l /\ DOMAIN r = 1..(l+1)
      /\ r[l+1] = <<t, v>> /\ \A i \in 1..l : r[i] = items[i]
  BY DEF Items
<1>2. r[l+1][1] # s
  BY <1>1
<1> HIDE DEF l, r
<1>3. {i \in DOMAIN r : r[i][1] = s} = own
  <2>1. 1..(l+1) = 1..l \cup {l+1}
    BY <1>1
  <2> QED BY <2>1, <1>1, <1>2
<1>4. \A i \in own : r[i] = items[i]
  BY <1>1
<1>5. Streams(r, s, n)
  BY <1>3, <1>4 DEF Streams
<1> QED BY <1>5 DEF r

LEMMA StreamsNext ==
  ASSUME NEW items \in Items, NEW s \in Subsystems, NEW n \in Nat, Streams(items, s, n)
  PROVE  Streams(Append(items, <<s, n + 1>>), s, n + 1)
<1> DEFINE l == Len(items)
           r == Append(items, <<s, n + 1>>)
           own == {i \in DOMAIN items : items[i][1] = s}
<1>1. /\ l \in Nat /\ DOMAIN items = 1..l /\ DOMAIN r = 1..(l+1)
      /\ r[l+1] = <<s, n + 1>> /\ \A i \in 1..l : r[i] = items[i] /\ items[i][2] \in Nat
  BY DEF Items
<1>2. r[l+1][1] = s /\ r[l+1][2] = n + 1
  BY <1>1
<1> HIDE DEF l, r
<1>3. {i \in DOMAIN r : r[i][1] = s} = own \cup {l+1}
  <2>1. 1..(l+1) = 1..l \cup {l+1}
    BY <1>1
  <2> QED BY <2>1, <1>1, <1>2
<1>4. \A i \in own : i \in 1..l /\ r[i] = items[i] /\ items[i][2] \in Nat
  BY <1>1
<1>5. /\ \A i \in own : \A v \in items[i][2]..n : \E j \in own : items[j][2] = v
      /\ \A i \in own : items[i][2] <= n
      /\ \A i, j \in own : i < j => items[i][2] < items[j][2]
  BY DEF Streams
<1> DEFINE new == own \cup {l+1}
<1>6. ASSUME NEW i \in new, NEW v \in r[i][2]..(n+1)
      PROVE  \E j \in new : r[j][2] = v
  <2>1. CASE v = n + 1
    BY <2>1, <1>2
  <2>2. CASE v # n + 1
    <3>1. i \in own
      BY <2>2, <1>2, <1>6
    <3>2. v \in items[i][2]..n
      BY <2>2, <3>1, <1>4, <1>6
    <3> QED BY <3>1, <3>2, <1>4, <1>5
  <2> QED BY <2>1, <2>2
<1>7. \A i \in new : r[i][2] <= n + 1
  BY <1>2, <1>4, <1>5
<1>8. ASSUME NEW i \in new, NEW j \in new, i < j
      PROVE  r[i][2] < r[j][2]
  <2>1. i \in own
    BY <1>1, <1>4, <1>8
  <2>2. CASE j = l + 1
    BY <2>1, <2>2, <1>2, <1>4, <1>5
  <2>3. CASE j # l + 1
    BY <2>1, <2>3, <1>4, <1>5, <1>8
  <2> QED BY <2>2, <2>3
<1>9. Streams(r, s, n + 1)
  <2>1. new = {i \in DOMAIN r : r[i][1] = s}
    BY <1>3
  <2> HIDE DEF new, own
  <2> QED BY <2>1, <1>6, <1>7, <1>8 DEF Streams
<1> QED BY <1>9 DEF r

LEMMA ReachesNext ==
  ASSUME NEW items \in Items, NEW s \in Subsystems, NEW a \in Nat, NEW n \in Nat,
         Reaches(items, s, a, n), NEW e \in Subsystems \X Nat
  PROVE  /\ Reaches(Append(items, e), s, a, n)
         /\ e = <<s, n + 1>> => Reaches(Append(items, e), s, a, n + 1)
<1> DEFINE l == Len(items)
           r == Append(items, e)
<1>1. /\ l \in Nat /\ DOMAIN items = 1..l /\ DOMAIN r = 1..(l+1)
      /\ r[l+1] = e /\ \A i \in 1..l : r[i] = items[i]
  BY DEF Items
<1> HIDE DEF l, r
<1>2. ASSUME NEW v \in a + 1 .. n
      PROVE  \E i \in DOMAIN r : r[i] = <<s, v>>
  <2>1. PICK i \in DOMAIN items : items[i] = <<s, v>>
    BY DEF Reaches
  <2>2. i \in DOMAIN r /\ r[i] = items[i]
    BY <1>1
  <2> QED BY <2>1, <2>2
<1>3. Reaches(r, s, a, n)
  BY <1>2 DEF Reaches
<1>4. ASSUME e = <<s, n + 1>>
      PROVE  Reaches(r, s, a, n + 1)
  <2> SUFFICES ASSUME NEW v \in a + 1 .. n + 1
               PROVE  \E i \in DOMAIN r : r[i] = <<s, v>>
    BY DEF Reaches
  <2>1. CASE v = n + 1
    <3>1. l + 1 \in DOMAIN r
      BY <1>1
    <3> QED BY <1>1, <1>4, <2>1, <3>1
  <2>2. CASE v # n + 1
    <3>1. v \in a + 1 .. n
      BY <2>2
    <3> QED BY <1>2, <3>1
  <2> QED BY <2>1, <2>2
<1> QED BY <1>3, <1>4 DEF r

(* What a step other than a broadcast may do to a client: all it has got   *)
(* stays, or is dropped; it registers now, or has and goes on.             *)
Moved(c, r, v) ==
  /\ Received(r) = Received(c) \/ Received(r) = <<>>
  /\ Listening(r) =>
       r.from = v \/ (Listening(c) /\ r.from = c.from /\ Received(r) = Received(c))

Spared(k) == Moved(client[k], client'[k], version)

LEMMA ReceivedNothing ==
  ASSUME NEW r, r.written = <<>>, r.waiting = <<>>
  PROVE  Received(r) = <<>>
<1>1. <<>> \o <<>> = <<>>
  OBVIOUS
<1> QED BY <1>1 DEF Received

(* One client moves on: its record becomes another that fits.              *)
LEMMA OneClientMoves ==
  ASSUME ClientsFit, deployed' = deployed, NEW k \in Clients, NEW r, ClientFits(r),
         client' = [client EXCEPT ![k] = r], Moved(client[k], r, version)
  PROVE  ClientsFit' /\ \A j \in Clients : Spared(j)
<1>1. DOMAIN client' = Clients
  BY DEF ClientsFit
<1>2. ASSUME NEW j \in Clients
      PROVE  (j = k /\ client'[j] = r) \/ client'[j] = client[j]
  BY DEF ClientsFit
<1>3. ASSUME NEW j \in Clients
      PROVE  ClientFits(client[j])'
  <2>1. ClientFits(client'[j])
    BY <1>2, <1>3 DEF ClientsFit
  <2> QED BY <2>1 DEF ClientFits
<1>4. \A j \in Clients : Spared(j)
  BY <1>2 DEF Spared, Moved
<1> QED BY <1>1, <1>3, <1>4 DEF ClientsFit

LEMMA ClientMoves ==
  ASSUME ClientsFit, deployed' = deployed, version \in [Subsystems -> Nat], NEW k \in Clients,
         Connect(k) \/ Prepare(k) \/ PrepareRaises(k) \/ Write(k) \/ Leave(k) \/ Forget(k)
  PROVE  ClientsFit' /\ \A j \in Clients : Spared(j)
<1>1. PICK c : c = client[k]
  OBVIOUS
<1>2. /\ c \in ClientType
      /\ Listening(c) => "mcp" \in deployed
      /\ c.at \in {"away", "closed"} => c.written = <<>> /\ c.waiting = <<>>
  BY <1>1 DEF ClientsFit, ClientFits
<1>3. /\ c.at \in {"away", "added", "streaming", "gone", "leaked", "closed"}
      /\ c.waiting \in Items /\ c.written \in Items
  BY <1>2 DEF ClientType
<1>4. ASSUME NEW a \in {"streaming", "gone", "leaked"}, Listening(c),
             client' = [client EXCEPT ![k].at = a]
      PROVE  ClientsFit' /\ \A j \in Clients : Spared(j)
  <2>1. PICK r : r = [c EXCEPT !.at = a]
    OBVIOUS
  <2>2. /\ r \in ClientType /\ r.at = a /\ r.waiting = c.waiting /\ r.written = c.written
        /\ r.from = c.from
    BY <1>2, <1>4, <2>1 DEF ClientType
  <2>3. ClientFits(r)
    BY <1>2, <1>4, <2>2 DEF ClientFits
  <2>4. client' = [client EXCEPT ![k] = r]
    BY <1>1, <1>4, <2>1
  <2>5. Received(r) = Received(c)
    BY <2>2 DEF Received
  <2>6. Moved(client[k], r, version)
    BY <1>1, <1>4, <2>2, <2>5 DEF Moved
  <2> QED BY <2>3, <2>4, <2>6, OneClientMoves
<1>5. CASE Connect(k)
  <2>1. PICK r : r = [c EXCEPT !.at = "added", !.from = version]
    OBVIOUS
  <2>2. /\ r \in ClientType /\ r.at = "added" /\ r.waiting = c.waiting
        /\ r.written = c.written /\ r.from = version
    BY <1>2, <2>1 DEF ClientType
  <2>3. ClientFits(r)
    BY <1>5, <2>2 DEF ClientFits, Connect
  <2>4. client' = [client EXCEPT ![k] = r]
    BY <1>1, <1>5, <2>1 DEF Connect
  <2>5. Received(r) = Received(c)
    BY <2>2 DEF Received
  <2>6. Moved(client[k], r, version)
    BY <1>1, <2>2, <2>5 DEF Moved
  <2> QED BY <2>3, <2>4, <2>6, OneClientMoves
<1>6. CASE Prepare(k)
  BY <1>1, <1>4, <1>6 DEF Prepare, Listening
<1>7. CASE PrepareRaises(k)
  BY <1>1, <1>4, <1>7 DEF PrepareRaises, Listening
<1>8. CASE Leave(k)
  BY <1>1, <1>4, <1>8 DEF Leave, Listening
<1>9. CASE Forget(k)
  <2>1. PICK r : r = [Away EXCEPT !.at = "closed"]
    OBVIOUS
  <2>2. r = [at |-> "closed", waiting |-> <<>>, written |-> <<>>,
             from |-> [s \in Subsystems |-> 0]]
    BY <2>1 DEF Away
  <2>3. <<>> \in Items /\ ~Listening(r)
    BY <2>2 DEF Items, Listening
  <2>4. ClientFits(r)
    BY <2>2, <2>3 DEF ClientFits, ClientType
  <2>5. Received(r) = <<>>
    BY <2>2, ReceivedNothing
  <2>6. client' = [client EXCEPT ![k] = r]
    BY <1>9, <2>1 DEF Forget
  <2>7. Moved(client[k], r, version)
    BY <2>3, <2>5 DEF Moved
  <2> QED BY <2>4, <2>6, <2>7, OneClientMoves
<1>10. CASE Write(k)
  <2>1. PICK r : r = [c EXCEPT !.waiting = Tail(@), !.written = Append(@, Head(c.waiting))]
    OBVIOUS
  <2>2. c.at = "streaming" /\ c.waiting # <<>>
    BY <1>1, <1>10 DEF Write
  <2>3. Tail(c.waiting) \in Items /\ Append(c.written, Head(c.waiting)) \in Items
    BY <1>3, <2>2 DEF Items
  <2>4. /\ r \in ClientType /\ r.at = c.at /\ r.from = c.from
        /\ r.waiting = Tail(c.waiting) /\ r.written = Append(c.written, Head(c.waiting))
    BY <1>2, <2>1, <2>3 DEF ClientType
  <2>5. ClientFits(r)
    BY <1>2, <2>2, <2>4 DEF ClientFits, Listening
  <2>6. Received(r) = Received(client[k])
    <3>1. PICK w \in Items, x \in Items : w = c.written /\ x = c.waiting
      BY <1>3
    <3>2. Append(w, Head(x)) \o Tail(x) = w \o x
      BY <2>2, <3>1, ConcatMove DEF Items
    <3> QED BY <1>1, <2>4, <3>1, <3>2 DEF Received
  <2>7. client' = [client EXCEPT ![k] = r]
    BY <1>1, <1>10, <2>1 DEF Write
  <2>8. Moved(client[k], r, version)
    BY <1>1, <2>4, <2>6 DEF Moved, Listening
  <2> QED BY <2>5, <2>7, <2>8, OneClientMoves
<1> QED BY <1>5, <1>6, <1>7, <1>8, <1>9, <1>10

(* So these are all the ways in which the clients change.                  *)
LEMMA ClientSteps ==
  ASSUME ClientsFit, version \in [Subsystems -> Nat], [Next]_stationVars
  PROVE  \/ ClientsFit' /\ \A j \in Clients : Spared(j)
         \/ \E t \in Subsystems : Broadcast(t)
<1>1. deployed' = deployed
  BY DeployedKept
<1>2. ASSUME client' = client
      PROVE  ClientsFit' /\ \A j \in Clients : Spared(j)
  BY <1>1, <1>2 DEF ClientsFit, ClientFits, Spared, Moved
<1>3. CASE McpStep
  <2>1. ASSUME McpNext
        PROVE  \/ client' = client
               \/ \E t \in Subsystems : Broadcast(t)
               \/ \E k \in Clients : \/ Connect(k) \/ Prepare(k) \/ PrepareRaises(k)
                                     \/ Write(k) \/ Leave(k) \/ Forget(k)
    BY <2>1 DEF McpNext, Handle, Ask, AnswerAtOnce, SendRequest, Reply, Expire, NoResponders
  <2>2. ASSUME NEW s \in Publishers, PublishState(s) PROVE client' = client
    BY <2>2 DEF PublishState
  <2> QED BY <1>1, <1>2, <1>3, <2>1, <2>2, ClientMoves DEF McpStep
<1>4. CASE Outside \/ EclssStep \/ CdhStep \/ CrewStep \/ BridgeStep
  <2>1. client' = client
    BY <1>4 DEF Outside, EclssStep, CdhStep, CrewStep, BridgeStep, mcpVars
  <2> QED BY <2>1, <1>2
<1>5. CASE UNCHANGED stationVars
  <2>1. client' = client
    BY <1>5 DEF stationVars, mcpVars
  <2> QED BY <2>1, <1>2
<1> QED BY <1>3, <1>4, <1>5 DEF Next

(* A broadcast: a registered client gets the state after those heard.      *)
LEMMA BroadcastDelivers ==
  ASSUME StreamsInv, [Next]_stationVars, NEW t \in Subsystems, Broadcast(t)
  PROVE  /\ ClientsFit'
         /\ Head(queue[<<"mcp", t>>]) \in Bodies(t)
         /\ Head(queue[<<"mcp", t>>]).kind # "telemetry" => client' = client
         /\ Head(queue[<<"mcp", t>>]).kind = "telemetry" =>
              \A k \in Clients :
                \/ Received(client'[k]) = <<>> /\ ~Listening(client'[k])
                \/ /\ Received(client'[k]) =
                        Append(Received(client[k]), <<t, Head(queue[<<"mcp", t>>]).version>>)
                   /\ Listening(client[k]) /\ client'[k].from = client[k].from
<1>1. PICK m : m = Head(queue[<<"mcp", t>>])
  OBVIOUS
<1>2. deployed' = deployed
  BY DeployedKept
<1>3. m \in Bodies(t)
  <2>1. queue[<<"mcp", t>>] \in Seq(Bodies(t)) /\ queue[<<"mcp", t>>] # <<>>
    BY DEF Broadcast, Waiting, StreamsInv, QueuesTyped
  <2> QED BY <2>1, <1>1
<1>4. client' = IF m.kind # "telemetry" THEN client
                ELSE [k \in Clients |->
                        IF Registered(k)
                        THEN [client[k] EXCEPT !.waiting = Append(@, <<t, m.version>>)]
                        ELSE client[k]]
  BY <1>1 DEF Broadcast
<1>5. ClientsFit
  BY DEF StreamsInv
<1>6. CASE m.kind # "telemetry"
  <2>1. client' = client
    BY <1>4, <1>6
  <2>2. ClientsFit'
    BY <1>2, <1>5, <2>1 DEF ClientsFit, ClientFits
  <2> QED BY <1>1, <1>3, <1>6, <2>1, <2>2
<1>7. CASE m.kind = "telemetry"
  <2>1. m.version \in Nat
    BY <1>3, <1>7, BodyKinds
  <2>2. PICK e : e = <<t, m.version>>
    OBVIOUS
  <2>3. e \in Subsystems \X Nat
    BY <2>1, <2>2
  <2>4. DOMAIN client' = Clients
    BY <1>4, <1>7
  <2>5. ASSUME NEW k \in Clients
        PROVE  /\ ClientFits(client[k])'
               /\ \/ Received(client'[k]) = <<>> /\ ~Listening(client'[k])
                  \/ /\ Received(client'[k]) = Append(Received(client[k]), e)
                     /\ Listening(client[k]) /\ client'[k].from = client[k].from
    <3>1. PICK c : c = client[k]
      OBVIOUS
    <3>2. ClientFits(c) /\ c \in ClientType
      BY <1>5, <3>1 DEF ClientsFit, ClientFits
    <3>3. /\ c.at \in {"away", "added", "streaming", "gone", "leaked", "closed"}
          /\ c.waiting \in Items /\ c.written \in Items
      BY <3>2 DEF ClientType
    <3>4. CASE Registered(k)
      <4>1. PICK r : r = [c EXCEPT !.waiting = Append(@, e)]
        OBVIOUS
      <4>2. Append(c.waiting, e) \in Items
        BY <2>3, <3>3 DEF Items
      <4>3. /\ r \in ClientType /\ r.at = c.at /\ r.from = c.from
            /\ r.waiting = Append(c.waiting, e) /\ r.written = c.written
        BY <3>2, <4>1, <4>2 DEF ClientType
      <4>4. ClientFits(r)
        BY <3>1, <3>2, <3>4, <4>3 DEF ClientFits, Registered, Listening
      <4>5. Received(r) = Append(Received(c), e)
        <5>1. PICK S : S = Subsystems \X Nat
          OBVIOUS
        <5>2. c.waiting \in Seq(S) /\ c.written \in Seq(S) /\ e \in S
          BY <2>3, <3>3, <5>1 DEF Items
        <5>3. PICK w \in Seq(S), x \in Seq(S) : w = c.written /\ x = c.waiting
          BY <5>2
        <5>4. w \o Append(x, e) = Append(w \o x, e)
          BY <5>2, ConcatAppend
        <5> QED BY <4>3, <5>3, <5>4 DEF Received
      <4>6. client'[k] = r
        BY <1>4, <1>7, <2>2, <3>1, <3>4, <4>1
      <4>7. Listening(client[k]) /\ client'[k].from = client[k].from
        BY <3>1, <3>4, <4>3, <4>6 DEF Registered, Listening
      <4> QED BY <1>2, <3>1, <4>4, <4>5, <4>6, <4>7 DEF ClientFits
    <3>5. CASE ~Registered(k)
      <4>1. client'[k] = c
        BY <1>4, <1>7, <3>1, <3>5
      <4>2. c.at \in {"away", "closed"}
        BY <3>1, <3>3, <3>5 DEF Registered
      <4>3. c.written = <<>> /\ c.waiting = <<>>
        BY <3>2, <4>2 DEF ClientFits
      <4>4. Received(c) = <<>>
        BY <4>3, ReceivedNothing
      <4>5. ClientFits(client[k])'
        BY <1>2, <3>2, <4>1 DEF ClientFits
      <4>6. ~Listening(client'[k])
        BY <4>1, <4>2 DEF Listening
      <4> QED BY <4>1, <4>4, <4>5, <4>6
    <3> QED BY <3>4, <3>5
  <2> QED BY <1>1, <1>3, <1>7, <2>2, <2>4, <2>5 DEF ClientsFit
<1> QED BY <1>6, <1>7

(* What a client has received of one subsystem.                            *)
LEMMA ReceivedItems ==
  ASSUME ClientsFit, NEW k \in Clients
  PROVE  /\ Received(client[k]) \in Items
         /\ \A s \in Subsystems : client[k].from[s] \in Nat
<1>1. /\ client[k].written \in Items /\ client[k].waiting \in Items
      /\ client[k].from \in [Subsystems -> Nat]
  BY DEF ClientsFit, ClientFits, ClientType
<1> QED BY <1>1 DEF Received, Items

(* The server handles a message of s: what it has heard grows with what    *)
(* the clients have received.                                              *)
LEMMA HeardBroadcast ==
  ASSUME StreamsInv, [Next]_stationVars, NEW s \in Publishers, NEW n \in Nat, Heard(s, n),
         Broadcast(s)
  PROVE  \E h \in Nat : Heard(s, h)'
<1> DEFINE sub == <<"mcp", s>>
<1>1. PICK q : q = queue[sub]
  OBVIOUS
<1>2. s \in Subsystems /\ sub \in Subscriptions
  BY McpConstants, StationConstants
<1>3. /\ q # <<>> /\ queue' = Taken(queue, sub) /\ version' = version
  BY <1>1 DEF Broadcast, Waiting
<1>4. q \in Seq(Bodies(s)) /\ version[s] \in Nat /\ QueuesTyped /\ ClientsFit
  BY <1>1, <1>2 DEF StreamsInv, QueuesTyped
<1>5. queue'[sub] = Tail(q)
  BY <1>1, <1>2, <1>3, <1>4, TakenFrom
<1>6. /\ Carries(q, n, version[s])
      /\ \A k \in Clients :
           /\ Streams(Received(client[k]), s, n)
           /\ Listening(client[k]) => Reaches(Received(client[k]), s, client[k].from[s], n)
  BY <1>1 DEF Heard
<1>7. /\ Head(q).kind # "telemetry" => Carries(Tail(q), n, version[s])
      /\ Head(q).kind = "telemetry" =>
           Head(q).version = n + 1 /\ Carries(Tail(q), n + 1, version[s])
  BY <1>3, <1>4, <1>6, CarriesFirst
<1>8. CASE Head(q).kind # "telemetry"
  <2>1. client' = client
    BY <1>1, <1>2, <1>8, BroadcastDelivers
  <2>2. Heard(s, n)'
    BY <1>3, <1>5, <1>6, <1>7, <1>8, <2>1 DEF Heard
  <2> QED BY <2>2
<1>9. CASE Head(q).kind = "telemetry"
  <2>1. \A k \in Clients :
          \/ Received(client'[k]) = <<>> /\ ~Listening(client'[k])
          \/ /\ Received(client'[k]) = Append(Received(client[k]), <<s, n + 1>>)
             /\ Listening(client[k]) /\ client'[k].from = client[k].from
    BY <1>1, <1>2, <1>7, <1>9, BroadcastDelivers
  <2>2. ASSUME NEW k \in Clients
        PROVE  /\ Streams(Received(client'[k]), s, n + 1)
               /\ Listening(client'[k]) =>
                    Reaches(Received(client'[k]), s, client'[k].from[s], n + 1)
    <3>1. CASE Received(client'[k]) = <<>> /\ ~Listening(client'[k])
      BY <3>1, StreamsNothing
    <3>2. CASE /\ Received(client'[k]) = Append(Received(client[k]), <<s, n + 1>>)
               /\ Listening(client[k]) /\ client'[k].from = client[k].from
      <4>1. PICK items \in Items : items = Received(client[k])
        BY <1>4, ReceivedItems
      <4>2. PICK a \in Nat : a = client[k].from[s]
        BY <1>2, <1>4, ReceivedItems
      <4>3. PICK v \in Nat : v = n + 1
        OBVIOUS
      <4>4. Streams(items, s, n) /\ Reaches(items, s, a, n)
        BY <1>6, <3>2, <4>1, <4>2
      <4>5. Streams(Append(items, <<s, n + 1>>), s, n + 1)
        BY <1>2, <4>4, StreamsNext
      <4>6. Reaches(Append(items, <<s, n + 1>>), s, a, n + 1)
        <5>1. PICK e \in Subsystems \X Nat : e = <<s, v>>
          BY <1>2
        <5> QED BY <1>2, <4>3, <4>4, <5>1, ReachesNext
      <4> QED BY <3>2, <4>1, <4>2, <4>5, <4>6
    <3> QED BY <2>1, <3>1, <3>2
  <2>3. Heard(s, n + 1)'
    BY <1>3, <1>5, <1>7, <1>9, <2>2 DEF Heard
  <2> QED BY <2>3
<1> QED BY <1>8, <1>9

(* Any other step leaves what the server has heard of s as it is.          *)
LEMMA HeardOtherwise ==
  ASSUME StreamsInv, [Next]_stationVars, NEW s \in Publishers, NEW n \in Nat, Heard(s, n),
         "mcp" \in deployed, ~Broadcast(s)
  PROVE  Heard(s, n)'
<1>1. s \in Subsystems /\ <<"mcp", s>> \in Subscriptions
  BY McpConstants, StationConstants
<1>2. PICK sub : sub = <<"mcp", s>>
  OBVIOUS
<1>3. sub \in Subscriptions /\ sub[1] = "mcp" /\ sub[2] = s
  BY <1>1, <1>2
<1>4. QueuesTyped /\ ClientsFit
  BY DEF StreamsInv
<1>5. PICK q : q = queue[sub]
  OBVIOUS
<1>6. q \in Seq(Bodies(s)) /\ version[s] \in Nat /\ Carries(q, n, version[s])
  BY <1>1, <1>2, <1>3, <1>4, <1>5 DEF QueuesTyped, Heard
<1>7. Carries(queue'[sub], n, version'[s])
  <2>1. Kept(sub) \/ Requested(sub) \/ Unnumbered(sub) \/ Numbered(sub) \/ Handled(sub)
    BY <1>1, <1>3, <1>4, QueueSteps
  <2>2. CASE Kept(sub)
    BY <2>2, <1>3, <1>5, <1>6 DEF Kept
  <2>3. CASE Requested(sub)
    BY <2>3, <1>3, <1>5, <1>6, CarriesRequest DEF Requested
  <2>4. CASE Unnumbered(sub)
    BY <2>4, <1>3, StationConstants DEF Unnumbered
  <2>5. CASE Numbered(sub)
    <3>1. PICK off : queue'[sub] = Append(q, State(version[s] + 1, off))
      BY <2>5, <1>3, <1>5 DEF Numbered
    <3>2. version'[s] = version[s] + 1
      BY <2>5, <1>3 DEF Numbered
    <3> QED BY <3>1, <3>2, <1>6, CarriesNext
  <2>6. CASE Handled(sub)
    <3>1. sub # <<"cdh", s>>
      BY <1>3
    <3> QED BY <2>6, <3>1, <1>3 DEF Handled
  <2> QED BY <2>1, <2>2, <2>3, <2>4, <2>5, <2>6
<1>8. ASSUME NEW k \in Clients
      PROVE  /\ Streams(Received(client'[k]), s, n)
             /\ Listening(client'[k]) =>
                  Reaches(Received(client'[k]), s, client'[k].from[s], n)
  <2>1. /\ Streams(Received(client[k]), s, n)
        /\ Listening(client[k]) => Reaches(Received(client[k]), s, client[k].from[s], n)
    BY DEF Heard
  <2>2. CASE Spared(k)
    <3>1. Streams(Received(client'[k]), s, n)
      BY <2>1, <2>2, StreamsNothing DEF Spared, Moved
    <3>2. ASSUME Listening(client'[k]), client'[k].from = version
          PROVE  Reaches(Received(client'[k]), s, client'[k].from[s], n)
      <4>1. n <= version[s]
        BY <1>6 DEF Carries
      <4>2. version[s] + 1 .. n = {}
        BY <1>6, <4>1
      <4> QED BY <3>2, <4>2 DEF Reaches
    <3> QED BY <2>1, <2>2, <3>1, <3>2 DEF Spared, Moved
  <2>3. ASSUME NEW t \in Subsystems, Broadcast(t)
        PROVE  /\ Streams(Received(client'[k]), s, n)
               /\ Listening(client'[k]) =>
                    Reaches(Received(client'[k]), s, client'[k].from[s], n)
    <3>1. PICK m : m = Head(queue[<<"mcp", t>>])
      OBVIOUS
    <3>2. t # s
      BY <2>3
    <3>3. m \in Bodies(t) /\ (m.kind = "telemetry" => m.version \in Nat)
      BY <2>3, <3>1, BroadcastDelivers, BodyKinds
    <3>4. CASE m.kind # "telemetry"
      BY <2>1, <2>3, <3>1, <3>4, BroadcastDelivers
    <3>5. CASE m.kind = "telemetry"
      <4>1. \/ Received(client'[k]) = <<>> /\ ~Listening(client'[k])
            \/ /\ Received(client'[k]) = Append(Received(client[k]), <<t, m.version>>)
               /\ Listening(client[k]) /\ client'[k].from = client[k].from
        BY <2>3, <3>1, <3>5, BroadcastDelivers
      <4>2. CASE Received(client'[k]) = <<>> /\ ~Listening(client'[k])
        BY <4>2, StreamsNothing
      <4>3. CASE /\ Received(client'[k]) = Append(Received(client[k]), <<t, m.version>>)
                 /\ Listening(client[k]) /\ client'[k].from = client[k].from
        <5>1. PICK items \in Items : items = Received(client[k])
          BY <1>4, ReceivedItems
        <5>2. PICK a \in Nat : a = client[k].from[s]
          BY <1>1, <1>4, ReceivedItems
        <5>3. PICK v \in Nat : v = m.version
          BY <3>3, <3>5
        <5>4. PICK e \in Subsystems \X Nat : e = <<t, v>>
          BY <2>3
        <5>5. Streams(items, s, n) /\ Reaches(items, s, a, n)
          BY <2>1, <4>3, <5>1, <5>2
        <5>6. Streams(Append(items, <<t, v>>), s, n)
          BY <2>3, <3>2, <5>5, StreamsOther
        <5>7. Reaches(Append(items, e), s, a, n)
          BY <1>1, <5>5, ReachesNext
        <5> QED BY <4>3, <5>1, <5>2, <5>3, <5>4, <5>6, <5>7
      <4> QED BY <4>1, <4>2, <4>3
    <3> QED BY <3>4, <3>5
  <2>4. version \in [Subsystems -> Nat]
    BY <1>4 DEF QueuesTyped
  <2> QED BY <1>4, <2>2, <2>3, <2>4, ClientSteps
<1> QED BY <1>2, <1>7, <1>8 DEF Heard

LEMMA StreamsStep ==
  ASSUME StreamsInv, [Next]_stationVars
  PROVE  StreamsInv'
<1>1. QueuesTyped'
  BY QueuesTypedKept DEF StreamsInv
<1>2. ClientsFit'
  BY ClientSteps, BroadcastDelivers DEF StreamsInv, QueuesTyped
<1>3. ASSUME "mcp" \in deployed', NEW s \in Publishers
      PROVE  \E n \in Nat : Heard(s, n)'
  <2>1. "mcp" \in deployed
    BY <1>3, DeployedKept
  <2>2. PICK n \in Nat : Heard(s, n)
    BY <2>1 DEF StreamsInv
  <2> QED BY <2>1, <2>2, HeardBroadcast, HeardOtherwise
<1> QED BY <1>1, <1>2, <1>3 DEF StreamsInv

LEMMA StreamsAtFirst ==
  ASSUME Init
  PROVE  StreamsInv
<1>1. QueuesTyped
  BY QueuesTypedAtFirst
<1>2. client = [k \in Clients |-> Away] /\ version = [s \in Subsystems |-> 1]
  BY DEF Init, McpInit
<1>3. ClientsFit
  <2>1. <<>> \in Items
    BY DEF Items
  <2>2. ClientFits(Away)
    BY <2>1 DEF ClientFits, ClientType, Away, Listening
  <2> QED BY <1>2, <2>2 DEF ClientsFit
<1>4. ASSUME NEW s \in Publishers
      PROVE  Heard(s, 1)
  <2>1. queue[<<"mcp", s>>] = <<>> /\ version[s] = 1
    BY <1>2, McpConstants, StationConstants DEF Init, BusInit
  <2>2. Carries(<<>>, 1, 1)
    BY CarriesNothing
  <2>3. Received(Away) = <<>>
    BY ReceivedNothing DEF Away
  <2>4. \A k \in Clients : Streams(Received(client[k]), s, 1) /\ ~Listening(client[k])
    BY <1>2, <2>3, StreamsNothing DEF Listening, Away
  <2> QED BY <2>1, <2>2, <2>4 DEF Heard
<1> QED BY <1>1, <1>3, <1>4 DEF StreamsInv

LEMMA StreamsAlways == Spec => []StreamsInv
<1>1. StreamsInv /\ [Next]_stationVars => StreamsInv'
  BY StreamsStep
<1> QED BY <1>1, StreamsAtFirst, PTL DEF Spec

(* A client of the stream misses nothing that is published from its        *)
(* registration on: what it has received and what the server has still to  *)
(* handle is a run of states up to the newest, which begins no later than  *)
(* with the first that was published after the client registered           *)
(* (_broadcast_telemetry, http_sse_stream).                                *)
THEOREM NothingMissed == Spec => []StreamsComplete
<1>1. StreamsInv => StreamsComplete
  <2> SUFFICES ASSUME StreamsInv, NEW k \in Clients, NEW s \in Publishers, Registered(k)
               PROVE  \E heard \in 0..version[s] :
                        /\ Streams(Received(client[k]), s, heard)
                        /\ Reaches(Received(client[k]), s, client[k].from[s], heard)
                        /\ Carries(queue[<<"mcp", s>>], heard, version[s])
    BY DEF StreamsComplete, Received
  <2>1. "mcp" \in deployed /\ Listening(client[k])
    BY DEF StreamsInv, ClientsFit, ClientFits, Registered, Listening
  <2>2. PICK n \in Nat : Heard(s, n)
    BY <2>1 DEF StreamsInv
  <2>3. version[s] \in Nat
    BY McpConstants DEF StreamsInv, QueuesTyped
  <2>4. n <= version[s]
    BY <2>2 DEF Heard, Carries
  <2>5. n \in 0..version[s]
    BY <2>3, <2>4
  <2> QED BY <2>1, <2>2, <2>5 DEF Heard
<1> QED BY <1>1, StreamsAlways, PTL

------------------------------------------------------------------------------
(* The crew.                                                               *)

(* The ends of the activities are the partial sums of their durations.     *)
LEMMA EndsAdd == Adds(Ends, Len(Durations), Durations)
<1> DEFINE n == Len(Durations)
<1>1. /\ n \in Nat /\ Durations \in [1..n -> Nat]
      /\ \A k \in 1..n : Durations[k] \in Nat
  BY CrewConstants
<1>2. PICK f : Adds(f, n, Durations)
  BY <1>1, PartialSums
<1>3. f = [i \in 0..n |-> IF i = 0 THEN 0 ELSE f[i-1] + Durations[i]]
  <2>1. \A k \in 0..n : k = 0 \/ k \in 1..n
    BY <1>1
  <2> QED BY <1>2, <2>1 DEF Adds
<1> DEFINE g == CHOOSE h : h = [i \in 0..n |-> IF i = 0 THEN 0 ELSE h[i-1] + Durations[i]]
<1>4. Ends = g
  BY DEF Ends
<1>5. g = [i \in 0..n |-> IF i = 0 THEN 0 ELSE g[i-1] + Durations[i]]
  BY <1>3
<1> HIDE DEF g
<1> DEFINE S == {m \in Nat : m <= n => g[m] = f[m]}
<1>6. 0 \in S
  BY <1>1, <1>2, <1>5 DEF Adds
<1>7. ASSUME NEW m \in Nat, m \in S PROVE m + 1 \in S
  <2> SUFFICES ASSUME m + 1 <= n PROVE g[m+1] = f[m+1]
    OBVIOUS
  <2>1. /\ m + 1 \in 0..n /\ m + 1 \in 1..n /\ m + 1 # 0 /\ (m + 1) - 1 = m /\ m <= n
    BY <1>1
  <2>2. g[m+1] = g[m] + Durations[m+1]
    BY <2>1, <1>5
  <2> QED BY <2>1, <2>2, <1>2, <1>7 DEF Adds
<1>8. \A m \in 0..n : g[m] = f[m]
  <2>1. Nat \subseteq S
    <3> HIDE DEF S
    <3> QED BY <1>6, <1>7, NatSetInduction
  <2> QED BY <1>1, <2>1
<1>9. f \in [0..n -> Nat]
  BY <1>2 DEF Adds
<1>10. g = f
  BY <1>5, <1>8, <1>9
<1> QED BY <1>2, <1>4, <1>10

LEMMA EndsGrow ==
  /\ Len(Durations) \in Nat /\ Len(Durations) >= 1
  /\ Ends[0] = 0 /\ \A k \in 0..Len(Durations) : Ends[k] \in Nat
  /\ \A k \in 1..Len(Durations) : Ends[k-1] < Ends[k]
<1>1. /\ Len(Durations) \in Nat /\ Len(Durations) >= 1
      /\ \A k \in 1..Len(Durations) : Durations[k] \in Nat \ {0}
  BY CrewConstants
<1>2. /\ Ends[0] = 0 /\ Ends \in [0..Len(Durations) -> Nat]
      /\ \A k \in 1..Len(Durations) : Ends[k] = Ends[k-1] + Durations[k]
  BY EndsAdd DEF Adds
<1>3. ASSUME NEW k \in 1..Len(Durations) PROVE Ends[k-1] < Ends[k]
  <2>1. k - 1 \in 0..Len(Durations)
    BY <1>1
  <2>2. Ends[k-1] \in Nat /\ Durations[k] \in Nat \ {0}
    BY <2>1, <1>1, <1>2
  <2>3. Ends[k] = Ends[k-1] + Durations[k]
    BY <1>2
  <2> QED BY <2>2, <2>3
<1> QED BY <1>1, <1>2, <1>3

LEMMA EndsInOrder ==
  ASSUME NEW i \in 0..Len(Durations), NEW j \in 0..Len(Durations), i <= j
  PROVE  Ends[i] <= Ends[j]
<1> DEFINE n == Len(Durations)
           S == {m \in Nat : i + m <= n => Ends[i] <= Ends[i+m]}
<1>1. n \in Nat /\ \A k \in 0..n : Ends[k] \in Nat
  BY EndsGrow
<1>2. \A k \in 1..n : Ends[k-1] < Ends[k]
  BY EndsGrow
<1> HIDE DEF n
<1>3. i \in 0..n /\ j \in 0..n
  BY DEF n
<1>4. 0 \in S
  BY <1>1, <1>3
<1>5. ASSUME NEW m \in Nat, m \in S PROVE m + 1 \in S
  <2> SUFFICES ASSUME i + (m + 1) <= n PROVE Ends[i] <= Ends[i + (m + 1)]
    OBVIOUS
  <2>1. /\ i + (m + 1) \in 1..n /\ (i + (m + 1)) - 1 = i + m
        /\ i + m \in 0..n /\ i + (m + 1) \in 0..n
    BY <1>1, <1>3
  <2>2. Ends[i] <= Ends[i+m]
    BY <1>5, <2>1
  <2>3. Ends[i+m] < Ends[i + (m + 1)]
    BY <1>2, <2>1
  <2> QED BY <1>1, <1>3, <2>1, <2>2, <2>3
<1>6. j - i \in S
  <2>1. j - i \in Nat
    BY <1>1, <1>3
  <2> HIDE DEF S
  <2> QED BY <2>1, <1>4, <1>5, NatSetInduction
<1>7. i + (j - i) = j /\ j <= n
  BY <1>1, <1>3
<1> QED BY <1>6, <1>7

(* The current activity is the one the time falls into.                    *)
LEMMA CurrentIs ==
  ASSUME NEW t \in Nat, NEW c \in 1..Len(Durations), Ends[c-1] <= t, t < Ends[c]
  PROVE  Current(t) = c
<1> DEFINE D == {i \in Activities : t < Ends[i]}
<1>1. Len(Durations) \in Nat
  BY EndsGrow
<1>2. c \in D
  BY DEF Activities
<1>3. ASSUME NEW i \in D PROVE c <= i
  <2> SUFFICES ASSUME i < c PROVE FALSE
    BY <1>1 DEF Activities
  <2>1. i \in 0..Len(Durations) /\ c - 1 \in 0..Len(Durations) /\ i <= c - 1
    BY <1>1 DEF Activities
  <2>2. Ends[i] <= Ends[c-1] /\ Ends[i] \in Nat /\ Ends[c-1] \in Nat
    BY <2>1, EndsInOrder, EndsGrow
  <2> QED BY <2>2
<1>4. \A x \in D : (\A y \in D : x <= y) => x = c
  BY <1>1, <1>2, <1>3 DEF Activities
<1> HIDE DEF D
<1>5. Min(D) = c
  BY <1>2, <1>3, <1>4 DEF Min
<1> QED BY <1>5 DEF Current, D

LEMMA CurrentExists ==
  ASSUME NEW t \in Nat, t < TotalDuration
  PROVE  \E c \in 1..Len(Durations) : Ends[c-1] <= t /\ t < Ends[c]
<1> DEFINE n == Len(Durations)
           D == {i \in 1..n : t < Ends[i]}
<1>1. n \in Nat /\ n >= 1
  BY EndsGrow
<1>2. n \in D /\ D \in SUBSET (1..n)
  BY <1>1 DEF TotalDuration
<1>3. PICK c \in D : \A j \in D : c <= j
  <2> HIDE DEF n, D
  <2> QED BY <1>1, <1>2, LeastAndGreatest
<1>4. c \in 1..n /\ c - 1 \in 0..n /\ c - 1 \notin D
  BY <1>1, <1>3
<1>5. Ends[c-1] <= t
  <2>1. CASE c - 1 = 0
    BY <2>1, EndsGrow
  <2>2. CASE c - 1 # 0
    <3>1. c - 1 \in 1..n /\ Ends[c-1] \in Nat
      BY <1>1, <1>4, <2>2, EndsGrow
    <3> QED BY <3>1, <1>4
  <2> QED BY <2>1, <2>2
<1> QED BY <1>3, <1>4, <1>5

(* After a tick the activity is the same, or the one after it.             *)
LEMMA NextTime ==
  ASSUME NEW time \in Nat, time < TotalDuration
  PROVE  /\ Current(time) \in 1..Len(Durations) /\ After(time) \in 1..Len(Durations)
         /\ (time + 1) % TotalDuration \in Nat
         /\ (time + 1) % TotalDuration < TotalDuration
         /\ \/ Current((time + 1) % TotalDuration) = Current(time)
            \/ Current((time + 1) % TotalDuration) = After(time)
<1> DEFINE n == Len(Durations)
           t == (time + 1) % TotalDuration
<1>1. n \in Nat /\ n >= 1 /\ TotalDuration \in Nat
  BY EndsGrow DEF TotalDuration
<1>2. PICK c \in 1..n : Ends[c-1] <= time /\ time < Ends[c]
  BY CurrentExists
<1>3. Current(time) = c
  BY <1>2, CurrentIs
<1>4. {Ends[c], Ends[c-1]} \subseteq Nat /\ c - 1 \in 0..n
  BY <1>1, <1>2, EndsGrow
<1>5. After(time) = IF c = n THEN 1 ELSE c + 1
  <2>1. c % n = IF c = n THEN 0 ELSE c
    BY <1>1, <1>2
  <2> QED BY <1>1, <1>2, <1>3, <2>1 DEF After
<1>6. t = IF time + 1 = TotalDuration THEN 0 ELSE time + 1
  BY <1>1
<1> HIDE DEF t, n
<1>7. t \in Nat /\ t < TotalDuration
  BY <1>1, <1>6
<1>8. Current(t) = c \/ Current(t) = After(time)
  <2>1. CASE time + 1 = TotalDuration
    <3>1. t = 0 /\ Ends[0] = 0 /\ 1 \in 1..n /\ 1 - 1 = 0 /\ Ends[1] \in Nat
      BY <1>1, <1>6, <2>1, EndsGrow DEF n
    <3>2. Ends[0] < Ends[1]
      BY <3>1, EndsGrow DEF n
    <3>3. Current(t) = 1
      BY <3>1, <3>2, CurrentIs DEF n
    <3>4. c = n
      <4> SUFFICES ASSUME c # n PROVE FALSE
        OBVIOUS
      <4>1. c + 1 \in 1..n /\ (c + 1) - 1 = c /\ n \in 0..n /\ c + 1 \in 0..n /\ c + 1 <= n
        BY <1>1, <1>2
      <4>2. Ends[c] < Ends[c+1] /\ Ends[c+1] <= Ends[n] /\ Ends[c+1] \in Nat
        BY <4>1, EndsGrow, EndsInOrder DEF n
      <4>3. Ends[n] = time + 1
        BY <2>1 DEF TotalDuration, n
      <4> QED BY <4>2, <4>3, <1>2, <1>4
    <3> QED BY <3>3, <3>4, <1>5
  <2>2. CASE time + 1 # TotalDuration /\ time + 1 < Ends[c]
    <3>1. t = time + 1 /\ Ends[c-1] <= t
      BY <2>2, <1>2, <1>4, <1>6
    <3> QED BY <3>1, <2>2, <1>2, CurrentIs DEF n
  <2>3. CASE time + 1 # TotalDuration /\ ~(time + 1 < Ends[c])
    <3>1. t = time + 1 /\ t = Ends[c]
      BY <2>3, <1>2, <1>4, <1>6
    <3>2. c # n
      BY <2>3, <3>1 DEF TotalDuration, n
    <3>3. c + 1 \in 1..n /\ (c + 1) - 1 = c
      BY <3>2, <1>1, <1>2
    <3>4. Ends[c] < Ends[c+1]
      BY <3>3, EndsGrow DEF n
    <3>5. Current(t) = c + 1
      BY <3>1, <3>3, <3>4, <1>4, CurrentIs DEF n
    <3> QED BY <3>2, <3>5, <1>5
  <2> QED BY <2>1, <2>2, <2>3
<1>9. After(time) \in 1..n
  BY <1>1, <1>2, <1>5
<1> QED BY <1>2, <1>3, <1>7, <1>8, <1>9 DEF t, n

(* What is published is the activity of the time and the one after it.     *)
CrewInv ==
  /\ crewTime \in Nat /\ crewTime < TotalDuration
  /\ activity \in 0..Len(Durations) /\ announced \in 0..Len(Durations)
  /\ activity # 0 => activity = Current(crewTime) /\ announced = After(crewTime)

LEMMA CrewSteps ==
  ASSUME [Next]_stationVars
  PROVE  CrewTick \/ UNCHANGED crewVars
<1>1. Outside \/ McpStep \/ EclssStep \/ CdhStep \/ BridgeStep => UNCHANGED crewVars
  BY DEF Outside, McpStep, EclssStep, CdhStep, BridgeStep
<1>2. UNCHANGED stationVars => UNCHANGED crewVars
  BY DEF stationVars
<1> QED BY <1>1, <1>2 DEF Next, CrewStep

LEMMA CrewAtFirst == Init => CrewInv
<1> SUFFICES ASSUME Init PROVE CrewInv
  OBVIOUS
<1>1. crewTime = 0 /\ activity = 0 /\ announced = 0
  BY DEF Init, CrewInit
<1>2. 0 < TotalDuration
  <2>1. /\ 1 \in 1..Len(Durations) /\ 1 \in 0..Len(Durations) /\ 1 - 1 = 0
        /\ Len(Durations) \in 0..Len(Durations) /\ 1 <= Len(Durations)
    BY EndsGrow
  <2>2. Ends[0] = 0 /\ Ends[0] < Ends[1] /\ Ends[1] <= Ends[Len(Durations)]
    BY <2>1, EndsGrow, EndsInOrder
  <2>3. Ends[1] \in Nat /\ Ends[Len(Durations)] \in Nat
    BY <2>1, EndsGrow
  <2> QED BY <2>2, <2>3 DEF TotalDuration
<1> QED BY <1>1, <1>2, EndsGrow DEF CrewInv

LEMMA CrewKept ==
  CrewInv /\ [Next]_stationVars =>
      /\ CrewInv'
      /\ activity # 0 =>
           IF activity' = activity THEN announced' = announced ELSE activity' = announced
<1> SUFFICES ASSUME CrewInv, [Next]_stationVars
             PROVE  /\ CrewInv'
                    /\ activity # 0 =>
                         IF activity' = activity THEN announced' = announced
                         ELSE activity' = announced
  OBVIOUS
<1>1. CASE UNCHANGED crewVars
  BY <1>1 DEF CrewInv, crewVars
<1>2. CASE CrewTick
  <2>1. PICK t : t = (crewTime + 1) % TotalDuration
    OBVIOUS
  <2>2. crewTime' = t /\ activity' = Current(t) /\ announced' = After(t)
    BY <1>2, <2>1 DEF CrewTick
  <2>3. /\ t \in Nat /\ t < TotalDuration
        /\ Current(t) = Current(crewTime) \/ Current(t) = After(crewTime)
    BY <2>1, NextTime DEF CrewInv
  <2>4. CrewInv'
    <3>1. Current(t) \in 1..Len(Durations) /\ After(t) \in 1..Len(Durations)
      BY <2>3, NextTime
    <3> QED BY <2>2, <2>3, <3>1, EndsGrow DEF CrewInv
  <2>5. ASSUME activity # 0
        PROVE  IF activity' = activity THEN announced' = announced
               ELSE activity' = announced
    <3>1. activity = Current(crewTime) /\ announced = After(crewTime)
      BY <2>5 DEF CrewInv
    <3>2. Current(t) = Current(crewTime) => After(t) = After(crewTime)
      BY DEF After
    <3> QED BY <2>2, <2>3, <3>1, <3>2
  <2> QED BY <2>4, <2>5
<1> QED BY <1>1, <1>2, CrewSteps

LEMMA CrewAlways == Spec => []CrewInv
  BY CrewAtFirst, CrewKept, PTL DEF Spec

(* The activity the crew publishes changes only to the one it announced    *)
(* as next, and as long as it does not, the announcement stands            *)
(* (get_current_activity, get_next_activity).                              *)
THEOREM AnnouncedComes == Spec => NextActivityComes
  BY CrewAtFirst, CrewKept, PTL DEF Spec, NextActivityComes

------------------------------------------------------------------------------
(* Types.                                                                  *)

EventsTyped == deployed \in Deployments /\ events \in 0..MaxEvents[deployed]

LEMMA EventsKept ==
  EventsTyped /\ [Next]_stationVars => EventsTyped'
<1> SUFFICES ASSUME EventsTyped, [Next]_stationVars PROVE EventsTyped'
  OBVIOUS
<1>1. deployed' = deployed /\ MaxEvents[deployed] \in Nat
  BY DeployedKept, StationConstants DEF EventsTyped
<1>2. Spend \/ events' = events
  <2>1. Outside \/ EclssStep \/ CdhStep \/ CrewStep => Spend \/ events' = events
    BY DEF Outside, Tick, OrchestratorCommand, SendCommand, EclssStep, EclssNext, EclssTick,
           EclssCommand, CdhStep, CdhNext, CdhTick, CdhCommand, CdhTelemetry, CrewStep, CrewTick
  <2>2. McpStep => Spend \/ events' = events
    BY DEF McpStep, McpNext, Handle, Ask, AnswerAtOnce, SendRequest, Reply, Expire,
           NoResponders, Connect, Prepare, PrepareRaises, Write, Leave, Forget, Broadcast,
           PublishState, bus
  <2>3. BridgeStep => events' = events
    BY DEF BridgeStep, BridgeNext, ProcessNext, Writes, TakesCommand, Exits, Connect_nats,
           ReadFrame, Swallow, BridgeEnds, BridgeCommand, bus
  <2>4. UNCHANGED stationVars => events' = events
    BY DEF stationVars, bus
  <2> QED BY <2>1, <2>2, <2>3, <2>4 DEF Next
<1>3. Spend => events' \in 0..MaxEvents[deployed]
  BY <1>1 DEF Spend, EventsTyped
<1> QED BY <1>1, <1>2, <1>3 DEF EventsTyped

(* A subsystem always has a newest state.                                  *)
VersionsTyped == version \in [Subsystems -> Nat \ {0}]

LEMMA VersionsKept ==
  VersionsTyped /\ [Next]_stationVars => VersionsTyped'
<1> SUFFICES ASSUME VersionsTyped, [Next]_stationVars PROVE VersionsTyped'
  OBVIOUS
<1>1. version' = version \/ \E s \in Publishers : PublishState(s)
  BY DEF Next, Outside, McpStep, EclssStep, CdhStep, CrewStep, BridgeStep, McpNext, Handle,
         Ask, AnswerAtOnce, SendRequest, Reply, Expire, NoResponders, Connect, Prepare,
         PrepareRaises, Write, Leave, Forget, Broadcast, stationVars, mcpVars
<1>2. ASSUME NEW s \in Publishers, PublishState(s) PROVE VersionsTyped'
  <2>1. s \in Subsystems /\ version' = [version EXCEPT ![s] = @ + 1]
    BY <1>2, McpConstants DEF PublishState
  <2>2. version[s] + 1 \in Nat \ {0}
    BY <2>1 DEF VersionsTyped
  <2> QED BY <2>1, <2>2 DEF VersionsTyped
<1> QED BY <1>1, <1>2 DEF VersionsTyped

(* The rest of ECLSS.                                                      *)
ScrubberTyped ==
  /\ co2 \in Int /\ bed \in {0, 1} /\ sinceSwitch \in 0..RegenerationTicks
  /\ failed \subseteq Devices

LEMMA MinOfTwo ==
  ASSUME NEW a \in Int, NEW b \in Int
  PROVE  Min({a, b}) \in Int
<1>1. \E x \in {a, b} : \A y \in {a, b} : x <= y
  <2>1. CASE a <= b
    BY <2>1
  <2>2. CASE b <= a
    BY <2>2
  <2> QED BY <2>1, <2>2
<1>2. Min({a, b}) \in {a, b}
  BY <1>1 DEF Min
<1> QED BY <1>2

LEMMA ScrubberUpdated ==
  ASSUME CabinInv, ScrubberTyped, pressure # 0, UpdateCabin
  PROVE  co2' \in Int
<1> DEFINE p == pressure - leak
           kept == Max({co2 + Co2Exhaled - Removed, 0})
<1>1. p \in Int /\ pressure \in Int
  BY DEF CabinInv
<1>2. Removed \in Int
  <2>1. CASE Scrubbing /\ pressure > 0
    <3>1. ScrubGain * co2 \in Int
      BY EclssConstants DEF ScrubberTyped
    <3>2. (ScrubGain * co2) \div pressure \in Int
      BY <1>1, <2>1, <3>1, Quotient
    <3> QED BY <2>1, <3>2 DEF Removed
  <2>2. CASE ~(Scrubbing /\ pressure > 0)
    BY <2>2 DEF Removed
  <2> QED BY <2>1, <2>2
<1>3. kept \in Int
  <2>1. PICK x \in Int : x = co2 + Co2Exhaled - Removed
    BY <1>2, EclssConstants DEF ScrubberTyped
  <2>2. kept = Max({x, 0}) /\ 0 \in Int
    BY <2>1
  <2>3. Max({x, 0}) \in Int
    BY <2>2, MaxOfTwo
  <2> QED BY <2>2, <2>3
<1>4. co2' = Min({Leaked(kept, p), Co2Max})
  BY DEF UpdateCabin
<1> HIDE DEF kept, p
<1>5. Leaked(kept, p) \in Int
  BY <1>1, <1>3, LeakedValue
<1> QED BY <1>4, <1>5, MinOfTwo, EclssConstants

LEMMA ScrubberKept ==
  CabinInv /\ ScrubberTyped /\ [Next]_stationVars => ScrubberTyped'
<1> SUFFICES ASSUME CabinInv, ScrubberTyped, [Next]_stationVars PROVE ScrubberTyped'
  OBVIOUS
<1>1. CASE UNCHANGED eclssVars
  BY <1>1 DEF ScrubberTyped, eclssVars, cabin
<1>2. CASE EclssTick /\ pressure = 0
  BY <1>2 DEF EclssTick, ScrubberTyped, cabin
<1>3. CASE EclssTick /\ pressure # 0
  <2>1. UpdateCabin /\ SwitchBed /\ failed' = failed
    BY <1>3 DEF EclssTick
  <2>2. co2' \in Int
    BY <1>3, <2>1, ScrubberUpdated
  <2>3. bed' \in {0, 1} /\ sinceSwitch' \in 0..RegenerationTicks
    BY <2>1, EclssConstants DEF SwitchBed, ScrubberTyped
  <2> QED BY <2>1, <2>2, <2>3 DEF ScrubberTyped
<1>4. CASE EclssCommand
  <2>1. UNCHANGED <<co2, bed, sinceSwitch>> /\ failed' \subseteq Devices
    BY <1>4 DEF EclssCommand, InjectFault, ClearFault, ScrubberTyped, cabin
  <2> QED BY <2>1 DEF ScrubberTyped
<1>5. EclssTick \/ EclssCommand \/ UNCHANGED eclssVars
  BY DEF Next, Outside, McpStep, EclssStep, EclssNext, CdhStep, CrewStep, BridgeStep,
         stationVars
<1> QED BY <1>1, <1>2, <1>3, <1>4, <1>5

LEMMA ResponsesKept ==
  responses \subseteq ValidCommands /\ [Next]_stationVars => (responses \subseteq ValidCommands)'
<1> SUFFICES ASSUME responses \subseteq ValidCommands, [Next]_stationVars
             PROVE  responses' \subseteq ValidCommands
  OBVIOUS
<1>1. CdhCommand \/ responses' = responses
  BY DEF Next, Outside, McpStep, EclssStep, CdhStep, CdhNext, CdhTick, CdhTelemetry,
         CrewStep, BridgeStep, stationVars, cdhVars
<1> QED BY <1>1 DEF CdhCommand

(* The rest of the bridges.                                                *)
PlacesTyped ==
  /\ mode \in Modes /\ at \in {"connecting", "running", "ended"}
  /\ connected \in BOOLEAN /\ alive \in BOOLEAN
  /\ stdin \in 0..StdinSize /\ Len(stdout) <= PipeSize

LEMMA PlacesKept ==
  BridgeInv /\ PlacesTyped /\ [Next]_stationVars => PlacesTyped'
<1> SUFFICES ASSUME BridgeInv, PlacesTyped, [Next]_stationVars PROVE PlacesTyped'
  OBVIOUS
<1>1. mode' = mode
  BY DEF Next, Outside, McpStep, EclssStep, CdhStep, CrewStep, BridgeStep, BridgeNext,
         ProcessNext, Writes, TakesCommand, Exits, Connect_nats, ReadFrame, Swallow,
         BridgeEnds, BridgeCommand, stationVars, bridgeVars
<1>2. at' \in {"connecting", "running", "ended"}
  BY DEF Next, Outside, McpStep, EclssStep, CdhStep, CrewStep, BridgeStep, BridgeNext,
         ProcessNext, Writes, TakesCommand, Exits, Connect_nats, ReadFrame, Swallow,
         BridgeEnds, BridgeCommand, stationVars, bridgeVars, PlacesTyped
<1>3. connected' = connected \/ connected' \in BOOLEAN
  BY DEF Next, Outside, McpStep, EclssStep, CdhStep, CrewStep, BridgeStep, BridgeNext,
         ProcessNext, Writes, TakesCommand, Exits, Connect_nats, ReadFrame, Swallow,
         BridgeEnds, BridgeCommand, stationVars, bridgeVars
<1>4. alive' = alive \/ alive' = FALSE
  BY DEF Next, Outside, McpStep, EclssStep, CdhStep, CrewStep, BridgeStep, BridgeNext,
         ProcessNext, Writes, TakesCommand, Exits, Connect_nats, ReadFrame, Swallow,
         BridgeEnds, BridgeCommand, stationVars, bridgeVars
<1>5. stdin' \in 0..StdinSize
  <2>1. \/ stdin' = stdin
        \/ stdin > 0 /\ stdin' = stdin - 1
        \/ stdin < StdinSize /\ stdin' = stdin + 1
    BY DEF Next, Outside, McpStep, EclssStep, CdhStep, CrewStep, BridgeStep, BridgeNext,
           ProcessNext, Writes, TakesCommand, Exits, Connect_nats, ReadFrame, Swallow,
           BridgeEnds, BridgeCommand, stationVars, bridgeVars
  <2> QED BY <2>1, BridgeConstants DEF PlacesTyped
<1>6. Len(stdout') <= PipeSize
  <2>1. stdout \in Seq(Nat) /\ Len(stdout) <= PipeSize /\ PipeSize \in Nat
    BY BridgeConstants DEF BridgeInv, PipesTyped, PlacesTyped
  <2>2. ASSUME NEW words \in {0, 1, 32}, Writes(words)
        PROVE  Len(stdout') <= PipeSize
    <3>1. PICK x : stdout' = Append(stdout, x) /\ Len(stdout) < PipeSize
      BY <2>2 DEF Writes
    <3> QED BY <2>1, <3>1
  <2>3. ReadFrame => Len(stdout') <= PipeSize
    BY <2>1 DEF ReadFrame
  <2>4. Swallow => Len(stdout') <= PipeSize
    BY <2>1 DEF Swallow
  <2>5. stdout' = stdout => Len(stdout') <= PipeSize
    BY <2>1
  <2> QED BY <2>2, <2>3, <2>4, <2>5, BridgeSteps DEF Connect_nats, PipesAlone
<1>7. connected' \in BOOLEAN
  BY <1>3 DEF PlacesTyped
<1>8. alive' \in BOOLEAN
  BY <1>4 DEF PlacesTyped
<1> QED BY <1>1, <1>2, <1>5, <1>6, <1>7, <1>8 DEF PlacesTyped

(* What the variables of the services are, taken together.                 *)
OthersTyped ==
  /\ EventsTyped /\ VersionsTyped /\ ScrubberTyped /\ PlacesTyped
  /\ responses \subseteq ValidCommands

LEMMA OthersAtFirst == Init => OthersTyped
<1> SUFFICES ASSUME Init PROVE OthersTyped
  OBVIOUS
<1>1. EventsTyped
  <2>1. deployed \in Deployments /\ events = 0
    BY DEF Init, BusInit
  <2>2. MaxEvents[deployed] \in Nat
    BY <2>1, StationConstants
  <2> QED BY <2>1, <2>2 DEF EventsTyped
<1>2. VersionsTyped
  BY DEF Init, McpInit, VersionsTyped
<1>3. ScrubberTyped
  BY EclssConstants DEF Init, EclssInit, ScrubberTyped
<1>4. PlacesTyped
  <2>1. /\ mode \in Modes /\ at = "connecting" /\ connected = FALSE /\ alive = TRUE
        /\ stdin = 0 /\ stdout = <<>>
    BY DEF Init, BridgeInit
  <2>2. 0 \in 0..StdinSize /\ Len(<<>>) <= PipeSize
    BY BridgeConstants
  <2> QED BY <2>1, <2>2 DEF PlacesTyped
<1>5. responses \subseteq ValidCommands
  BY DEF Init, CdhInit
<1> QED BY <1>1, <1>2, <1>3, <1>4, <1>5 DEF OthersTyped

LEMMA OthersKept ==
  CabinInv /\ BridgeInv /\ OthersTyped /\ [Next]_stationVars => OthersTyped'
<1> SUFFICES ASSUME CabinInv, BridgeInv, OthersTyped, [Next]_stationVars
             PROVE  OthersTyped'
  OBVIOUS
<1>1. /\ EventsTyped /\ VersionsTyped /\ ScrubberTyped /\ PlacesTyped
      /\ responses \subseteq ValidCommands
  BY DEF OthersTyped
<1>2. EventsTyped' /\ VersionsTyped'
  BY <1>1, EventsKept, VersionsKept
<1>3. ScrubberTyped' /\ PlacesTyped'
  BY <1>1, ScrubberKept, PlacesKept
<1>4. (responses \subseteq ValidCommands)'
  BY <1>1, ResponsesKept
<1> QED BY <1>2, <1>3, <1>4 DEF OthersTyped

LEMMA OthersAlways == Spec => []OthersTyped
<1>1. CabinInv /\ BridgeInv /\ OthersTyped /\ [Next]_stationVars => OthersTyped'
  BY OthersKept
<1> QED BY <1>1, OthersAtFirst, CabinAlways, PipesAlways, PTL DEF Spec

(* The variables of all the services have their types.                     *)
THEOREM TypesRight == Spec => []TypeOK
<1>1. McpInv /\ StreamsInv /\ CabinInv /\ CrewInv /\ OthersTyped => TypeOK
  <2> SUFFICES ASSUME McpInv, StreamsInv, CabinInv, CrewInv, OthersTyped
               PROVE  TypeOK
    OBVIOUS
  <2>1. /\ deployed \in Deployments /\ DOMAIN queue = Subscriptions
        /\ events \in 0..MaxEvents[deployed]
    BY DEF StreamsInv, QueuesTyped, OthersTyped, EventsTyped
  <2>2. call \in [Calls -> CallType] /\ cache \in [Subsystems -> Nat]
    BY DEF McpInv, CallsTyped
  <2>3. version \in [Subsystems -> Nat \ {0}]
    BY DEF OthersTyped, VersionsTyped
  <2>4. \A k \in Clients :
          client[k].at \in {"away", "added", "streaming", "gone", "leaked", "closed"}
    BY DEF StreamsInv, ClientsFit, ClientFits, ClientType
  <2>5. o2 \in Int /\ pressure \in Int /\ leak \in Nat /\ outage \in BOOLEAN
    BY DEF CabinInv
  <2>6. co2 \in Int /\ bed \in {0, 1} /\ sinceSwitch \in 0..RegenerationTicks
        /\ failed \subseteq Devices
    BY DEF OthersTyped, ScrubberTyped
  <2>7. responses \subseteq ValidCommands
    BY DEF OthersTyped
  <2>8. /\ crewTime \in 0..TotalDuration
        /\ activity \in 0..Len(Durations) /\ announced \in 0..Len(Durations)
    <3>1. TotalDuration \in Nat
      BY EndsGrow DEF TotalDuration
    <3> QED BY <3>1 DEF CrewInv
  <2>9. /\ mode \in Modes /\ at \in {"connecting", "running", "ended"}
        /\ connected \in BOOLEAN /\ alive \in BOOLEAN
        /\ stdin \in 0..StdinSize /\ Len(stdout) <= PipeSize
    BY DEF OthersTyped, PlacesTyped
  <2> QED
    BY <2>1, <2>2, <2>3, <2>4, <2>5, <2>6, <2>7, <2>8, <2>9 DEF TypeOK
<1> QED
  BY <1>1, McpAlways, StreamsAlways, CabinAlways, CrewAlways, OthersAlways, PTL
==============================================================================
