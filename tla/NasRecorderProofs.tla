------------------------- MODULE NasRecorderProofs --------------------------
(* Proofs about NasRecorder: recordings in progress write to files of      *)
(* their own, and no recorded frame is lost.                               *)
EXTENDS NasRecorder, TLAPS

LEMMA Bounds == /\ PerSecond \in Nat \ {0} /\ RestartDelay \in Nat
                /\ Durations \subseteq Nat
                /\ \A r \in Requests : r \in Seq(Subjects)
BY NasConstants DEF NasConstants

(* The second of a time grows with the time, and a second later it is      *)
(* another one.                                                            *)
LEMMA Seconds ==
  ASSUME NEW t \in Nat, NEW u \in Nat
  PROVE  /\ SecondOf(t) \in Nat
         /\ t <= u => SecondOf(t) <= SecondOf(u)
         /\ t + PerSecond <= u => SecondOf(t) < SecondOf(u)
BY Bounds DEF SecondOf

LEMMA SecondsPassed ==
  ASSUME NEW t \in Nat
  PROVE  SecondOf(t) \in Nat /\ SecondOf(t) <= t
BY Bounds DEF SecondOf

(* A sequence is a prefix of itself and of what appending makes of it.     *)
LEMMA PrefixSelf ==
  ASSUME NEW S, NEW s \in Seq(S)
  PROVE  IsPrefix(s, s)
BY DEF IsPrefix

LEMMA PrefixAppend ==
  ASSUME NEW S, NEW s \in Seq(S), NEW e \in S
  PROVE  IsPrefix(s, Append(s, e)) /\ Append(s, e) \in Seq(S)
BY DEF IsPrefix

------------------------------------------------------------------------------
(* The types the arguments below need.  Of log and the replays they need   *)
(* only that log is a sequence.                                            *)
Types ==
  /\ time \in Nat /\ stamps \in Nat /\ \E S : log \in Seq(S)
  /\ streams \in [Names -> Nat]
  /\ writers \in Seq(Writer) /\ subs \in Seq(Subscription)
  /\ files \in [Names \X (0..MaxTime) -> Seq(Frame)]
  /\ timers \subseteq [stream : Names, at : Nat]
  /\ Busy => request \in Request
  /\ \A i \in DOMAIN subs :
        /\ subs[i].pc # "idle" => subs[i].frame \in Frame
        /\ subs[i].pc = "encode" => subs[i].writer \in DOMAIN writers

(* r.streams knows every writer whose file is open, under its name; a      *)
(* request in progress has found its name free.                            *)
MapInv ==
  /\ \A n \in Names : streams[n] # 0 =>
        streams[n] \in DOMAIN writers /\ writers[streams[n]].stream = n
  /\ \A w \in DOMAIN writers :
        /\ writers[w].open => streams[writers[w].stream] = w
        /\ writers[w].file[1] = writers[w].stream
  /\ Busy => streams[request.stream] = 0 /\ request.file[1] = request.stream

LEMMA Steps ==
  ASSUME NEW P, Next,
         \A name \in Names, subjects \in Requests, d \in Durations :
            CreateFile(name, subjects, d) => P,
         Subscribe => P, SubscribeFails => P, Register => P,
         \A i \in DOMAIN subs : Receive(i) => P,
         \A i \in DOMAIN subs : Lookup(i) => P,
         \A i \in DOMAIN subs : Encode(i) => P,
         \A i \in DOMAIN subs : EncodeFails(i) => P,
         \A t \in timers : CloseStream(t) => P,
         \A t \in timers : CloseFails(t) => P,
         \A name \in Names : StartReplay(name) => P,
         \A r \in DOMAIN replays : PublishFrame(r) => P,
         \A r \in DOMAIN replays : PublishFrameFails(r) => P,
         \A s \in Subjects : Publish(s) => P,
         Elapse => P, Restart => P
  PROVE  P
BY DEF Next, RequestStep, Callback, Timer, Replaying

LEMMA AppendAny ==
  ASSUME NEW s, \E S : s \in Seq(S), NEW e
  PROVE  /\ \E S : Append(s, e) \in Seq(S)
         /\ Len(s) \in Nat
<1>1. PICK S : s \in Seq(S)
  OBVIOUS
<1>2. s \in Seq(S \cup {e})
  BY <1>1
<1>3. Append(s, e) \in Seq(S \cup {e})
  BY <1>2
<1> QED
  BY <1>1, <1>3

(* Replacing one value of a function or a sequence.                        *)
LEMMA UpdateFunction ==
  ASSUME NEW D, NEW R, NEW g \in [D -> R], NEW x, NEW e \in R
  PROVE  [g EXCEPT ![x] = e] \in [D -> R]
OBVIOUS

LEMMA UpdateSequence ==
  ASSUME NEW S, NEW s \in Seq(S), NEW i \in DOMAIN s, NEW e \in S
  PROVE  /\ [s EXCEPT ![i] = e] \in Seq(S)
         /\ DOMAIN [s EXCEPT ![i] = e] = DOMAIN s
         /\ \A k \in DOMAIN s : [s EXCEPT ![i] = e][k] = IF k = i THEN e ELSE s[k]
OBVIOUS

LEMMA EmptyFile ==
  ASSUME NEW D, NEW g \in [D -> Seq(Frame)], NEW x
  PROVE  [g EXCEPT ![x] = <<>>] \in [D -> Seq(Frame)]
<1>1. <<>> \in Seq(Frame)
  OBVIOUS
<1> QED BY <1>1, UpdateFunction

(* What a callback does to its subscription.                               *)
Callbacks ==
  /\ subs \in Seq(Subscription)
  /\ \A i \in DOMAIN subs :
        /\ subs[i].pc # "idle" => subs[i].frame \in Frame
        /\ subs[i].pc = "encode" => subs[i].writer \in DOMAIN writers

LEMMA NoFrameType == NoFrame \in Frame \cup {NoFrame}
OBVIOUS

LEMMA CallbackUpdate ==
  ASSUME Callbacks, NEW i \in DOMAIN subs, NEW r \in Subscription,
         r.pc # "idle" => r.frame \in Frame,
         r.pc = "encode" => r.writer \in DOMAIN writers',
         subs' = [subs EXCEPT ![i] = r],
         DOMAIN writers \subseteq DOMAIN writers'
  PROVE  Callbacks'
<1>1. /\ subs' \in Seq(Subscription) /\ DOMAIN subs' = DOMAIN subs
      /\ \A k \in DOMAIN subs : subs'[k] = IF k = i THEN r ELSE subs[k]
  BY UpdateSequence DEF Callbacks
<1> QED BY <1>1 DEF Callbacks

LEMMA CallbackDoneUpdate ==
  ASSUME Callbacks, NEW i \in DOMAIN subs, CallbackDone(i),
         DOMAIN writers \subseteq DOMAIN writers'
  PROVE  Callbacks'
<1> DEFINE r == [subs[i] EXCEPT !.pc = "idle", !.frame = NoFrame, !.writer = 0]
<1>0. subs[i] \in Subscription
  BY DEF Callbacks
<1>1. r \in Subscription /\ r.pc = "idle"
  BY <1>0, NoFrameType DEF Subscription
<1>2. subs' = [subs EXCEPT ![i] = r]
  BY DEF CallbackDone
<1> QED BY <1>1, <1>2, CallbackUpdate

(* What closing or failing does to a writer.                               *)
LEMMA WriterUpdate ==
  ASSUME writers \in Seq(Writer), NEW w \in DOMAIN writers, NEW r \in Writer,
         writers' = [writers EXCEPT ![w] = r]
  PROVE  /\ writers' \in Seq(Writer) /\ DOMAIN writers' = DOMAIN writers
         /\ \A k \in DOMAIN writers : writers'[k] = IF k = w THEN r ELSE writers[k]
BY UpdateSequence

(* The types hold initially and every step keeps them.                     *)
LEMMA TypesInit == Init => Types
<1> SUFFICES ASSUME Init PROVE Types
  OBVIOUS
<1>1. <<>> \in Seq(Writer) /\ <<>> \in Seq(Subscription) /\ <<>> \in Seq({})
  OBVIOUS
<1>2. files \in [Names \X (0..MaxTime) -> Seq(Frame)]
  <2>1. <<>> \in Seq(Frame)
    OBVIOUS
  <2> QED BY <2>1 DEF Init
<1>3. streams \in [Names -> Nat] /\ ~Busy
  BY DEF Init, Busy
<1> QED BY <1>1, <1>2, <1>3 DEF Init, Types

(* The steps that change no typed variable but the log, the clocks or the  *)
(* set of timers.                                                          *)
LEMMA TypesQuiet ==
  ASSUME Types, UNCHANGED <<streams, writers, subs, files, request>>,
         time' \in Nat, stamps' \in Nat, \E S : log' \in Seq(S),
         timers' \subseteq [stream : Names, at : Nat]
  PROVE  Types'
BY DEF Types, Busy

LEMMA TypesCallback ==
  ASSUME Types, NEW i \in DOMAIN subs, NEW r \in Subscription,
         r.pc # "idle" => r.frame \in Frame,
         r.pc = "encode" => r.writer \in DOMAIN writers',
         subs' = [subs EXCEPT ![i] = r],
         UNCHANGED <<time, log, streams, request, timers>>,
         stamps' \in Nat, writers' \in Seq(Writer), DOMAIN writers' = DOMAIN writers,
         files' \in [Names \X (0..MaxTime) -> Seq(Frame)]
  PROVE  Types'
<1>1. Callbacks
  BY DEF Types, Callbacks
<1>2. Callbacks'
  BY <1>1, CallbackUpdate
<1> QED BY <1>2 DEF Types, Callbacks, Busy

LEMMA TypesCreateFile ==
  ASSUME Types, NEW name \in Names, NEW subjects \in Requests, NEW d \in Durations,
         CreateFile(name, subjects, d)
  PROVE  Types'
<1> DEFINE f == <<name, SecondOf(time)>>
<1> USE DEF CreateFile, OpenFile
<1>1. f \in Names \X Nat
  BY Seconds DEF Types
<1>2. request' \in Request
  BY <1>1, Bounds DEF Types, Request
<1>3. files' \in [Names \X (0..MaxTime) -> Seq(Frame)]
  BY EmptyFile DEF Types
<1> QED BY <1>2, <1>3 DEF Types, Busy

LEMMA TypesSubscribe ==
  ASSUME Types, Subscribe
  PROVE  Types'
<1> DEFINE r == [stream |-> request.stream, subject |-> Head(request.todo),
                 from |-> Len(log), seen |-> Len(log), valid |-> TRUE,
                 beside |-> {i \in DOMAIN subs : subs[i].valid}, pc |-> "idle",
                 frame |-> NoFrame, writer |-> 0]
<1>0. request \in Request /\ Len(log) \in Nat
  BY AppendAny DEF Subscribe, Types
<1>1. r \in Subscription
  BY <1>0 DEF Subscribe, Subscription, Request
<1>2. subs' = Append(subs, r)
  BY DEF Subscribe
<1>3. subs' \in Seq(Subscription)
  BY <1>1, <1>2 DEF Types
<1>4. \A i \in DOMAIN subs' : (i \in DOMAIN subs /\ subs'[i] = subs[i]) \/ subs'[i].pc = "idle"
  BY <1>1, <1>2 DEF Types
<1>5. request' \in Request
  <2>1. Tail(request.todo) \in Seq(Subjects)
    BY <1>0 DEF Subscribe, Request
  <2> QED BY <1>0, <2>1 DEF Subscribe, Request
<1>6. UNCHANGED <<time, stamps, log, streams, writers, files, timers>>
  BY DEF Subscribe
<1> QED BY <1>3, <1>4, <1>5, <1>6 DEF Types

LEMMA TypesSubscribeFails ==
  ASSUME Types, SubscribeFails
  PROVE  Types'
<1>0. \A i \in DOMAIN subs : [subs[i] EXCEPT !.valid = FALSE] \in Subscription
  <2> SUFFICES ASSUME NEW i \in DOMAIN subs
               PROVE  [subs[i] EXCEPT !.valid = FALSE] \in Subscription
    OBVIOUS
  <2>1. subs[i] \in Subscription
    BY DEF Types
  <2> QED BY <2>1 DEF Subscription
<1>1. subs' \in Seq(Subscription) /\ DOMAIN subs' = DOMAIN subs
  <2>1. \A i \in DOMAIN subs : subs[i] \in Subscription
    BY DEF Types
  <2>2. DOMAIN subs = 1..Len(subs) /\ Len(subs) \in Nat
    BY DEF Types
  <2> QED BY <1>0, <2>1, <2>2 DEF SubscribeFails
<1>2. \A i \in DOMAIN subs : /\ subs'[i].pc = subs[i].pc /\ subs'[i].frame = subs[i].frame
                             /\ subs'[i].writer = subs[i].writer
  BY DEF SubscribeFails, Types, Subscription
<1>3. files' \in [Names \X (0..MaxTime) -> Seq(Frame)]
  BY EmptyFile DEF SubscribeFails, Types
<1>4. ~Busy' /\ UNCHANGED <<time, stamps, log, streams, writers, timers>>
  BY DEF SubscribeFails, Busy
<1> QED BY <1>1, <1>2, <1>3, <1>4 DEF Types

LEMMA TypesRegister ==
  ASSUME Types, Register
  PROVE  Types'
<1> DEFINE w == [stream |-> request.stream, subjects |-> request.asked,
                 file |-> request.file, first |-> request.first,
                 timed |-> request.duration > 0, open |-> TRUE, broken |-> FALSE, stuck |-> FALSE]
<1>0. request \in Request /\ Len(writers) \in Nat
  BY DEF Register, Types
<1>1. w \in Writer
  BY <1>0, Bounds DEF Writer, Request
<1>2. writers' = Append(writers, w)
  BY DEF Register
<1>3. writers' \in Seq(Writer) /\ DOMAIN writers \subseteq DOMAIN writers'
  BY <1>1, <1>2 DEF Types
<1>4. streams' \in [Names -> Nat]
  <2>1. Len(writers) + 1 \in Nat /\ streams \in [Names -> Nat]
    BY <1>0 DEF Types
  <2> QED BY <2>1, UpdateFunction DEF Register
<1>5. timers' \subseteq [stream : Names, at : Nat]
  <2>1. request.duration \in Nat /\ request.stream \in Names /\ time \in Nat
    BY <1>0, Bounds DEF Types, Request
  <2>2. [stream |-> request.stream, at |-> time + request.duration] \in [stream : Names, at : Nat]
    BY <2>1
  <2>3. timers \subseteq [stream : Names, at : Nat]
    BY DEF Types
  <2> QED BY <2>2, <2>3 DEF Register
<1>6. ~Busy' /\ UNCHANGED <<time, stamps, log, subs, files>>
  BY DEF Register, Busy
<1> QED BY <1>3, <1>4, <1>5, <1>6 DEF Types

LEMMA TypesReceive ==
  ASSUME Types, NEW i \in DOMAIN subs, Receive(i)
  PROVE  Types'
<1>1. PICK m \in subs[i].seen + 1 .. Len(log) :
        subs' = [subs EXCEPT ![i] = [@ EXCEPT !.pc = "lookup", !.seen = m,
                                       !.frame = [msg |-> m, stamp |-> stamps + 1]]]
  BY DEF Receive
<1> DEFINE r == [subs[i] EXCEPT !.pc = "lookup", !.seen = m,
                                !.frame = [msg |-> m, stamp |-> stamps + 1]]
<1>2. subs[i] \in Subscription /\ stamps \in Nat
  BY DEF Types
<1>3. m \in Nat \ {0}
  BY <1>2, AppendAny DEF Types, Subscription
<1>4. r \in Subscription /\ r.pc = "lookup" /\ r.frame \in Frame
  <2>1. [msg |-> m, stamp |-> stamps + 1] \in Frame
    BY <1>2, <1>3 DEF Frame
  <2> QED BY <1>2, <1>3, <2>1 DEF Subscription
<1>5. subs' = [subs EXCEPT ![i] = r]
  BY <1>1
<1>6. /\ UNCHANGED <<time, log, streams, request, timers, writers, files>>
      /\ stamps' = stamps + 1
  BY DEF Receive
<1>7. writers' \in Seq(Writer) /\ files' \in [Names \X (0..MaxTime) -> Seq(Frame)] /\ stamps' \in Nat
  BY <1>2, <1>6 DEF Types
<1>8. DOMAIN writers' = DOMAIN writers
  BY <1>6
<1> HIDE DEF r
<1> QED BY <1>4, <1>5, <1>6, <1>7, <1>8, TypesCallback

LEMMA TypesLookup ==
  ASSUME Types, MapInv, NEW i \in DOMAIN subs, Lookup(i)
  PROVE  Types'
<1>2. /\ subs[i] \in Subscription /\ streams \in [Names -> Nat] /\ subs[i].pc = "lookup"
      /\ subs[i].frame \in Frame
  BY DEF Types, Lookup
<1>6. UNCHANGED <<time, stamps, log, streams, request, timers, writers, files>>
  BY DEF Lookup
<1>7. writers \in Seq(Writer) /\ files \in [Names \X (0..MaxTime) -> Seq(Frame)] /\ stamps \in Nat
  BY DEF Types
<1>8. CASE streams[subs[i].stream] = 0
  <2> DEFINE r == [subs[i] EXCEPT !.pc = "idle", !.frame = NoFrame]
  <2>1. r \in Subscription /\ r.pc = "idle"
    BY <1>2, NoFrameType DEF Subscription
  <2>2. subs' = [subs EXCEPT ![i] = r]
    BY <1>8 DEF Lookup, LookedUp
  <2> QED BY <1>6, <1>7, <2>1, <2>2, TypesCallback
<1>9. CASE streams[subs[i].stream] # 0
  <2> DEFINE r == [subs[i] EXCEPT !.pc = "encode", !.writer = streams[subs[i].stream]]
  <2>1. r \in Subscription /\ r.writer = streams[subs[i].stream] /\ r.frame \in Frame
    BY <1>2 DEF Subscription
  <2>2. subs' = [subs EXCEPT ![i] = r]
    BY <1>9 DEF Lookup, LookedUp
  <2>3. r.writer \in DOMAIN writers
    BY <1>2, <1>9, <2>1 DEF MapInv, Subscription
  <2> QED BY <1>6, <1>7, <2>1, <2>2, <2>3, TypesCallback
<1> QED BY <1>8, <1>9

LEMMA TypesEncode ==
  ASSUME Types, NEW i \in DOMAIN subs, Encode(i)
  PROVE  Types'
<1> DEFINE r == [subs[i] EXCEPT !.pc = "idle", !.frame = NoFrame, !.writer = 0]
           w == writers[subs[i].writer]
<1>1. subs[i] \in Subscription /\ subs[i].frame \in Frame
  BY DEF Types, Encode
<1>2. r \in Subscription /\ r.pc = "idle"
  BY <1>1, NoFrameType DEF Subscription
<1>3. subs' = [subs EXCEPT ![i] = r]
  BY DEF Encode, CallbackDone
<1>4. files' \in [Names \X (0..MaxTime) -> Seq(Frame)]
  <2>1. files \in [Names \X (0..MaxTime) -> Seq(Frame)]
    BY DEF Types
  <2>2. CASE w.file \in Names \X (0..MaxTime)
    <3>1. Append(files[w.file], subs[i].frame) \in Seq(Frame)
      BY <1>1, <2>1, <2>2
    <3> HIDE DEF w
    <3>2. [files EXCEPT ![w.file] = Append(files[w.file], subs[i].frame)]
            \in [Names \X (0..MaxTime) -> Seq(Frame)]
      BY <2>1, <3>1, UpdateFunction
    <3> QED BY <2>1, <3>2 DEF Encode, w
  <2>3. CASE w.file \notin Names \X (0..MaxTime)
    BY <2>1, <2>3 DEF Encode
  <2> QED BY <2>2, <2>3
<1>5. UNCHANGED <<time, stamps, log, streams, request, timers, writers>>
  BY DEF Encode
<1>6. stamps' \in Nat /\ writers' \in Seq(Writer) /\ DOMAIN writers' = DOMAIN writers
  BY <1>5 DEF Types
<1> HIDE DEF r
<1> QED BY <1>2, <1>3, <1>4, <1>5, <1>6, TypesCallback

LEMMA TypesEncodeFails ==
  ASSUME Types, NEW i \in DOMAIN subs, EncodeFails(i)
  PROVE  Types'
<1> DEFINE r == [subs[i] EXCEPT !.pc = "idle", !.frame = NoFrame, !.writer = 0]
           w == [writers[subs[i].writer] EXCEPT !.broken = TRUE]
<1>1. /\ subs[i] \in Subscription /\ subs[i].writer \in DOMAIN writers
      /\ writers[subs[i].writer] \in Writer
  BY DEF Types, EncodeFails
<1>2. r \in Subscription /\ r.pc = "idle"
  BY <1>1, NoFrameType DEF Subscription
<1>3. subs' = [subs EXCEPT ![i] = r]
  BY DEF EncodeFails, CallbackDone
<1>4. w \in Writer
  BY <1>1 DEF Writer
<1>5. writers' = [writers EXCEPT ![subs[i].writer] = w]
  BY DEF EncodeFails
<1>6. writers' \in Seq(Writer) /\ DOMAIN writers' = DOMAIN writers
  BY <1>1, <1>4, <1>5, WriterUpdate DEF Types
<1>7. UNCHANGED <<time, stamps, log, streams, request, timers, files>>
  BY DEF EncodeFails
<1>8. stamps' \in Nat /\ files' \in [Names \X (0..MaxTime) -> Seq(Frame)]
  BY <1>7 DEF Types
<1> HIDE DEF r
<1> QED BY <1>2, <1>3, <1>6, <1>7, <1>8, TypesCallback

(* Closing the writer of a name.                                           *)
LEMMA TypesClose ==
  ASSUME Types, NEW r \in Writer, NEW w \in DOMAIN writers,
         writers' = [writers EXCEPT ![w] = r] \/ writers' = writers,
         streams' \in [Names -> Nat], timers' \subseteq timers,
         UNCHANGED <<time, stamps, log, request, subs, files>>
  PROVE  Types'
<1>1. writers' \in Seq(Writer) /\ DOMAIN writers' = DOMAIN writers
  BY WriterUpdate DEF Types
<1> QED BY <1>1 DEF Types, Busy

LEMMA TypesCloseStream ==
  ASSUME Types, MapInv, NEW t \in timers, CloseStream(t)
  PROVE  Types'
<1>1. t.stream \in Names
  BY DEF Types
<1>2. streams' \in [Names -> Nat]
  BY UpdateFunction DEF CloseStream, Types
<1>3. timers' \subseteq timers /\ UNCHANGED <<time, stamps, log, request, subs, files>>
  BY DEF CloseStream, CloseFile
<1>4. CASE streams[t.stream] = 0
  BY <1>2, <1>3, <1>4 DEF CloseStream, CloseFile, Types, Busy
<1>5. CASE streams[t.stream] # 0
  <2> DEFINE r == [writers[streams[t.stream]] EXCEPT !.open = FALSE]
  <2>1. streams[t.stream] \in DOMAIN writers
    BY <1>1, <1>5 DEF MapInv
  <2>2. writers[streams[t.stream]] \in Writer
    BY <2>1 DEF Types
  <2>3. r \in Writer
    BY <2>2 DEF Writer
  <2>4. writers' = [writers EXCEPT ![streams[t.stream]] = r]
    BY <1>5 DEF CloseStream, CloseFile
  <2> HIDE DEF r
  <2> QED BY <1>2, <1>3, <2>1, <2>3, <2>4, TypesClose
<1> QED BY <1>4, <1>5

LEMMA TypesCloseFails ==
  ASSUME Types, MapInv, NEW t \in timers, CloseFails(t)
  PROVE  Types'
<1> DEFINE r == [writers[streams[t.stream]] EXCEPT !.open = FALSE, !.stuck = TRUE]
<1>1. streams[t.stream] \in DOMAIN writers
  BY DEF CloseFails, Types, MapInv
<1>2. writers[streams[t.stream]] \in Writer
  BY <1>1 DEF Types
<1>3. r \in Writer
  BY <1>2 DEF Writer
<1>4. writers' = [writers EXCEPT ![streams[t.stream]] = r]
  BY DEF CloseFails
<1>5. /\ timers' \subseteq timers
      /\ UNCHANGED <<time, stamps, log, request, subs, files, streams>>
  BY DEF CloseFails
<1>6. streams' \in [Names -> Nat]
  BY <1>5 DEF Types
<1> HIDE DEF r
<1> QED BY <1>1, <1>3, <1>4, <1>5, <1>6, TypesClose

LEMMA TypesRestart ==
  ASSUME Types, Restart
  PROVE  Types'
<1>1. writers' \in Seq(Writer)
  <2> DEFINE r(w) == [writers[w] EXCEPT !.open = FALSE]
  <2>1. \A w \in DOMAIN writers : r(w) \in Writer
    <3> SUFFICES ASSUME NEW w \in DOMAIN writers
                 PROVE  r(w) \in Writer
      OBVIOUS
    <3>1. writers[w] \in Writer
      BY DEF Types
    <3> QED BY <3>1 DEF Writer
  <2>2. DOMAIN writers = 1..Len(writers) /\ Len(writers) \in Nat
    BY DEF Types
  <2>3. writers' = [w \in DOMAIN writers |-> r(w)]
    BY DEF Restart
  <2> HIDE DEF r
  <2> QED BY <2>1, <2>2, <2>3
<1>2. subs' \in Seq(Subscription) /\ \A i \in DOMAIN subs' : subs'[i].pc = "idle"
  <2> DEFINE r(i) == [subs[i] EXCEPT !.valid = FALSE, !.pc = "idle", !.frame = NoFrame,
                                     !.writer = 0]
  <2>1. \A i \in DOMAIN subs : r(i) \in Subscription /\ r(i).pc = "idle"
    <3> SUFFICES ASSUME NEW i \in DOMAIN subs
                 PROVE  r(i) \in Subscription /\ r(i).pc = "idle"
      OBVIOUS
    <3>1. subs[i] \in Subscription
      BY DEF Types
    <3> QED BY <3>1, NoFrameType DEF Subscription
  <2>2. DOMAIN subs = 1..Len(subs) /\ Len(subs) \in Nat
    BY DEF Types
  <2>3. subs' = [i \in DOMAIN subs |-> r(i)]
    BY DEF Restart
  <2> HIDE DEF r
  <2> QED BY <2>1, <2>2, <2>3
<1>3. streams' \in [Names -> Nat] /\ timers' = {} /\ ~Busy' /\ time' \in Nat
  <2>1. time' = time + RestartDelay /\ time \in Nat /\ RestartDelay \in Nat
    BY Bounds DEF Restart, Types
  <2>2. streams' = [n \in Names |-> 0] /\ timers' = {} /\ request' = Idle
    BY DEF Restart
  <2> QED BY <2>1, <2>2 DEF Busy
<1>4. UNCHANGED <<stamps, log, files>>
  BY DEF Restart
<1> QED BY <1>1, <1>2, <1>3, <1>4 DEF Types

LEMMA TypesNext ==
  ASSUME Types, MapInv, Next
  PROVE  Types'
<1>0. /\ time \in Nat /\ stamps \in Nat /\ timers \subseteq [stream : Names, at : Nat]
      /\ \A e : \E S : Append(log, e) \in Seq(S)
      /\ \E S : log \in Seq(S)
  BY AppendAny DEF Types
<1>1. ASSUME NEW name \in Names, StartReplay(name) PROVE Types'
  BY <1>0, <1>1, TypesQuiet DEF StartReplay
<1>2. ASSUME NEW r \in DOMAIN replays, PublishFrame(r) PROVE Types'
  BY <1>0, <1>2, TypesQuiet DEF PublishFrame
<1>3. ASSUME NEW r \in DOMAIN replays, PublishFrameFails(r) PROVE Types'
  BY <1>0, <1>3, TypesQuiet DEF PublishFrameFails
<1>4. ASSUME NEW subject \in Subjects, Publish(subject) PROVE Types'
  BY <1>0, <1>4, TypesQuiet DEF Publish
<1>5. ASSUME Elapse PROVE Types'
  BY <1>0, <1>5, TypesQuiet DEF Elapse
<1> QED
  BY <1>1, <1>2, <1>3, <1>4, <1>5, TypesCreateFile, TypesSubscribe, TypesSubscribeFails,
     TypesRegister, TypesReceive, TypesLookup, TypesEncode, TypesEncodeFails,
     TypesCloseStream, TypesCloseFails, TypesRestart, Steps

------------------------------------------------------------------------------
(* r.streams knows every open writer.                                      *)
LEMMA MapInit == Init => MapInv
<1> SUFFICES ASSUME Init PROVE MapInv
  OBVIOUS
<1>1. streams = [n \in Names |-> 0] /\ writers = <<>> /\ ~Busy
  BY DEF Init, Busy
<1> QED BY <1>1 DEF MapInv

LEMMA MapQuiet ==
  ASSUME MapInv, UNCHANGED <<streams, writers, request>>
  PROVE  MapInv'
BY DEF MapInv, Busy

(* Writers are closed, or break, and keep their names and files.           *)
LEMMA MapWriters ==
  ASSUME MapInv, UNCHANGED <<streams, request>>,
         DOMAIN writers' = DOMAIN writers,
         \A w \in DOMAIN writers :
            /\ writers'[w].stream = writers[w].stream
            /\ writers'[w].file = writers[w].file
            /\ writers'[w].open => writers[w].open
  PROVE  MapInv'
BY DEF MapInv, Busy

(* The fields of a writer that is replaced.                                *)
LEMMA WriterFields ==
  ASSUME writers \in Seq(Writer), NEW w \in DOMAIN writers, NEW r \in Writer,
         writers' = [writers EXCEPT ![w] = r],
         r.stream = writers[w].stream, r.file = writers[w].file,
         r.open => writers[w].open
  PROVE  /\ DOMAIN writers' = DOMAIN writers
         /\ \A k \in DOMAIN writers :
              /\ writers'[k].stream = writers[k].stream
              /\ writers'[k].file = writers[k].file
              /\ writers'[k].open => writers[k].open
         /\ writers'[w].open = r.open
BY WriterUpdate

LEMMA MapRegister ==
  ASSUME Types, MapInv, Register
  PROVE  MapInv'
<1> DEFINE w == [stream |-> request.stream, subjects |-> request.asked,
                 file |-> request.file, first |-> request.first,
                 timed |-> request.duration > 0, open |-> TRUE, broken |-> FALSE, stuck |-> FALSE]
           new == Len(writers) + 1
<1>1. writers \in Seq(Writer) /\ request \in Request /\ request.stream \in Names
  BY DEF Register, Types, Request
<1>2. writers' = Append(writers, w)
  BY DEF Register
<1>3. w.stream = request.stream /\ w.file = request.file
  OBVIOUS
<1> HIDE DEF w
<1>4. /\ new \in Nat \ {0} /\ new \notin DOMAIN writers
      /\ DOMAIN writers' = DOMAIN writers \cup {new}
      /\ writers'[new] = w
      /\ \A k \in DOMAIN writers : writers'[k] = writers[k]
  BY <1>1, <1>2
<1> HIDE DEF new
<1>5. streams' = [streams EXCEPT ![request.stream] = new]
  BY DEF Register, new
<1>6. streams \in [Names -> Nat] /\ streams[request.stream] = 0
      /\ request.file[1] = request.stream /\ ~Busy'
  BY DEF Register, MapInv, Types, Busy
<1>7. \A n \in Names : streams'[n] # 0 =>
        streams'[n] \in DOMAIN writers' /\ writers'[streams'[n]].stream = n
  BY <1>1, <1>3, <1>4, <1>5, <1>6 DEF MapInv
<1>8. ASSUME NEW k \in DOMAIN writers'
      PROVE  /\ writers'[k].open => streams'[writers'[k].stream] = k
             /\ writers'[k].file[1] = writers'[k].stream
  <2>1. CASE k = new
    BY <1>1, <1>3, <1>4, <1>5, <1>6, <2>1
  <2>2. CASE k \in DOMAIN writers
    <3>0. writers[k] \in Writer /\ k \in Nat \ {0}
      BY <1>1, <2>2
    <3>1. writers[k].stream \in Names /\ k # 0
      BY <3>0 DEF Writer
    <3>2. writers[k].open => writers[k].stream # request.stream
      BY <1>6, <2>2, <3>1 DEF MapInv
    <3> QED BY <1>4, <1>5, <1>6, <2>2, <3>1, <3>2 DEF MapInv
  <2> QED BY <1>4, <2>1, <2>2
<1> QED BY <1>6, <1>7, <1>8 DEF MapInv

LEMMA MapEncodeFails ==
  ASSUME Types, MapInv, NEW i \in DOMAIN subs, EncodeFails(i)
  PROVE  MapInv'
<1> DEFINE w == [writers[subs[i].writer] EXCEPT !.broken = TRUE]
<1>1. /\ subs[i].writer \in DOMAIN writers /\ writers \in Seq(Writer)
      /\ writers[subs[i].writer] \in Writer
  BY DEF Types, EncodeFails
<1>2. /\ w \in Writer /\ w.stream = writers[subs[i].writer].stream
      /\ w.file = writers[subs[i].writer].file /\ w.open = writers[subs[i].writer].open
  BY <1>1 DEF Writer
<1>3. /\ writers' = [writers EXCEPT ![subs[i].writer] = w]
      /\ UNCHANGED <<streams, request>>
  BY DEF EncodeFails
<1> HIDE DEF w
<1> QED BY <1>1, <1>2, <1>3, WriterFields, MapWriters

LEMMA MapCloseStream ==
  ASSUME Types, MapInv, NEW t \in timers, CloseStream(t)
  PROVE  MapInv'
<1>1. t.stream \in Names /\ writers \in Seq(Writer) /\ streams \in [Names -> Nat]
  BY DEF Types
<1>2. streams' = [streams EXCEPT ![t.stream] = 0] /\ request' = request /\ ~Busy
  BY DEF CloseStream, CloseFile, Expired
<1>3. CASE streams[t.stream] = 0
  <2>1. UNCHANGED <<streams, writers, request>>
    BY <1>1, <1>2, <1>3 DEF CloseStream, CloseFile
  <2> QED BY <2>1, MapQuiet
<1>4. CASE streams[t.stream] # 0
  <2> DEFINE w == streams[t.stream]
             r == [writers[w] EXCEPT !.open = FALSE]
  <2>1. w \in DOMAIN writers /\ writers[w] \in Writer /\ writers[w].stream = t.stream
    BY <1>1, <1>4 DEF MapInv
  <2>2. /\ r \in Writer /\ r.stream = writers[w].stream /\ r.file = writers[w].file
        /\ r.open = FALSE
    BY <2>1 DEF Writer
  <2>3. writers' = [writers EXCEPT ![w] = r]
    BY <1>4 DEF CloseStream, CloseFile
  <2> HIDE DEF r, w
  <2>4. /\ DOMAIN writers' = DOMAIN writers
        /\ \A k \in DOMAIN writers : /\ writers'[k].stream = writers[k].stream
                                     /\ writers'[k].file = writers[k].file
                                     /\ writers'[k].open => writers[k].open
        /\ ~writers'[w].open
    BY <1>1, <2>1, <2>2, <2>3, WriterFields
  <2>5. ASSUME NEW n \in Names, streams'[n] # 0
        PROVE  streams'[n] \in DOMAIN writers' /\ writers'[streams'[n]].stream = n
    BY <1>1, <1>2, <2>4, <2>5 DEF MapInv
  <2>6. ASSUME NEW k \in DOMAIN writers'
        PROVE  /\ writers'[k].open => streams'[writers'[k].stream] = k
               /\ writers'[k].file[1] = writers'[k].stream
    <3>1. writers'[k].open => writers[k].stream # t.stream
      BY <2>1, <2>4 DEF MapInv, w
    <3>0. writers[k] \in Writer
      BY <1>1, <2>4
    <3>2. writers[k].stream \in Names
      BY <3>0 DEF Writer
    <3> QED BY <1>1, <1>2, <2>4, <3>1, <3>2 DEF MapInv
  <2>7. ~Busy'
    BY <1>2 DEF Busy
  <2> QED BY <2>5, <2>6, <2>7 DEF MapInv
<1> QED BY <1>3, <1>4

LEMMA MapCloseFails ==
  ASSUME Types, MapInv, NEW t \in timers, CloseFails(t)
  PROVE  MapInv'
<1> DEFINE w == streams[t.stream]
           r == [writers[w] EXCEPT !.open = FALSE, !.stuck = TRUE]
<1>1. w \in DOMAIN writers /\ writers[w] \in Writer /\ writers \in Seq(Writer)
  BY DEF CloseFails, Types, MapInv
<1>2. /\ r \in Writer /\ r.stream = writers[w].stream /\ r.file = writers[w].file
      /\ r.open = FALSE
  BY <1>1 DEF Writer
<1>3. /\ writers' = [writers EXCEPT ![w] = r]
      /\ UNCHANGED <<streams, request>>
  BY DEF CloseFails
<1> HIDE DEF w, r
<1> QED BY <1>1, <1>2, <1>3, WriterFields, MapWriters

LEMMA MapRestart ==
  ASSUME Types, MapInv, Restart
  PROVE  MapInv'
<1>1. /\ ~Busy' /\ streams' = [n \in Names |-> 0]
      /\ writers' = [w \in DOMAIN writers |-> [writers[w] EXCEPT !.open = FALSE]]
  BY DEF Restart, Busy
<1>2. ASSUME NEW w \in DOMAIN writers
      PROVE  /\ writers'[w].open = FALSE /\ writers'[w].stream = writers[w].stream
             /\ writers'[w].file = writers[w].file
  <2>1. writers[w] \in Writer
    BY DEF Types
  <2> QED BY <1>1, <2>1 DEF Writer
<1>3. DOMAIN writers' = DOMAIN writers
  BY <1>1
<1>4. \A n \in Names : streams'[n] = 0
  BY <1>1
<1>5. \A w \in DOMAIN writers : writers[w].file[1] = writers[w].stream
  BY DEF MapInv
<1>6. ASSUME NEW w \in DOMAIN writers'
      PROVE  ~writers'[w].open /\ writers'[w].file[1] = writers'[w].stream
  BY <1>2, <1>3, <1>5
<1> QED BY <1>1, <1>4, <1>6 DEF MapInv

LEMMA MapNext ==
  ASSUME Types, MapInv, Next
  PROVE  MapInv'
<1>1. ASSUME NEW name \in Names, NEW subjects \in Requests, NEW d \in Durations,
             CreateFile(name, subjects, d)
      PROVE  MapInv'
  BY <1>1 DEF CreateFile, OpenFile, MapInv
<1>2. ASSUME Subscribe PROVE MapInv'
  <2>1. request \in Request
    BY <1>2 DEF Subscribe, Types
  <2>2. request'.stream = request.stream /\ request'.file = request.file
    BY <1>2, <2>1 DEF Subscribe, Request
  <2>3. Busy /\ UNCHANGED <<streams, writers>>
    BY <1>2 DEF Subscribe
  <2> QED BY <2>2, <2>3 DEF MapInv
<1>3. ASSUME SubscribeFails PROVE MapInv'
  BY <1>3 DEF SubscribeFails, MapInv, Busy
<1>4. ASSUME NEW i \in DOMAIN subs, Receive(i) PROVE MapInv'
  BY <1>4, MapQuiet DEF Receive
<1>5. ASSUME NEW i \in DOMAIN subs, Lookup(i) PROVE MapInv'
  BY <1>5, MapQuiet DEF Lookup
<1>6. ASSUME NEW i \in DOMAIN subs, Encode(i) PROVE MapInv'
  BY <1>6, MapQuiet DEF Encode
<1>7. ASSUME NEW name \in Names, StartReplay(name) PROVE MapInv'
  BY <1>7, MapQuiet DEF StartReplay
<1>8. ASSUME NEW r \in DOMAIN replays, PublishFrame(r) PROVE MapInv'
  BY <1>8, MapQuiet DEF PublishFrame
<1>9. ASSUME NEW r \in DOMAIN replays, PublishFrameFails(r) PROVE MapInv'
  BY <1>9, MapQuiet DEF PublishFrameFails
<1>10. ASSUME NEW subject \in Subjects, Publish(subject) PROVE MapInv'
  BY <1>10, MapQuiet DEF Publish
<1>11. ASSUME Elapse PROVE MapInv'
  BY <1>11, MapQuiet DEF Elapse
<1> QED
  BY <1>1, <1>2, <1>3, <1>4, <1>5, <1>6, <1>7, <1>8, <1>9, <1>10, <1>11, MapRegister,
     MapEncodeFails, MapCloseStream, MapCloseFails, MapRestart, Steps

LEMMA Stutter ==
  ASSUME Types, MapInv, UNCHANGED vars
  PROVE  Types' /\ MapInv'
<1>1. UNCHANGED <<time, stamps, log, request, streams, writers, subs, files, timers>>
  BY DEF vars
<1>2. Types'
  BY <1>1 DEF Types, Busy
<1> QED BY <1>1, <1>2, MapQuiet

LEMMA Inductive == Spec => [](Types /\ MapInv)
<1>1. Init => Types /\ MapInv
  BY TypesInit, MapInit
<1>2. Types /\ MapInv /\ [Next]_vars => (Types /\ MapInv)'
  BY TypesNext, MapNext, Stutter
<1> QED BY <1>1, <1>2, PTL DEF Spec

(* For every number of recordings, names, durations and restarts: two      *)
(* recordings in progress never write to one file.  Were they to, both     *)
(* would be open for one name, and the map holds one writer for it.        *)
THEOREM FilesNotShared == Spec => []OneWriterPerFile
<1>1. Types /\ MapInv => OneWriterPerFile
  BY DEF MapInv, OneWriterPerFile
<1> QED BY <1>1, Inductive, PTL

------------------------------------------------------------------------------
(* No frame is lost when durations and restarts last at least a second.    *)
(* The file of the request in progress is empty.                           *)
RequestFresh ==
  Busy => /\ request.file[2] <= SecondOf(time)
          /\ request.file \in DOMAIN files => files[request.file] = <<>>

(* No frame is in a file of a later second; and when a name is free its    *)
(* files are of earlier seconds.                                           *)
FilesPast ==
  \A f \in DOMAIN files : files[f] # <<>> =>
    /\ f[2] <= SecondOf(time)
    /\ streams[f[1]] = 0 => f[2] < SecondOf(time)

WritersPast ==
  \A w \in DOMAIN writers : writers[w].open => writers[w].file[2] <= SecondOf(time)

(* A timer is the only one of its name, and at its time the files of the   *)
(* name will be of earlier seconds.                                        *)
TimersLater ==
  \A t \in timers :
    /\ streams[t.stream] # 0
    /\ \A u \in timers : u.stream = t.stream => u = t
    /\ \A f \in DOMAIN files :
         f[1] = t.stream /\ files[f] # <<>> => f[2] < SecondOf(t.at)
    /\ \A w \in DOMAIN writers :
         writers[w].open /\ writers[w].stream = t.stream
           => writers[w].file[2] < SecondOf(t.at)

KeptInv == RequestFresh /\ FilesPast /\ WritersPast /\ TimersLater

LEMMA TimeGrows ==
  ASSUME Types, Next
  PROVE  time' \in Nat /\ time <= time'
<1>1. time \in Nat /\ RestartDelay \in Nat
  BY Bounds DEF Types
<1> DEFINE P == time' \in Nat /\ time <= time'
<1> HIDE DEF P
<1>2. (time' = time \/ time' = time + 1 \/ time' = time + RestartDelay) => P
  BY <1>1 DEF P
<1>3. P
  BY <1>2, Steps
     DEF CreateFile, OpenFile, Subscribe, SubscribeFails, Register, Receive, Lookup, Encode,
         EncodeFails, CloseStream, CloseFile, CloseFails, StartReplay, PublishFrame,
         PublishFrameFails, Publish, Elapse, Restart
<1> QED BY <1>3 DEF P

LEMMA EmptyStays ==
  ASSUME NEW D, NEW g \in [D -> Seq(Frame)], NEW x, x \in D => g[x] = <<>>
  PROVE  [g EXCEPT ![x] = <<>>] = g
OBVIOUS

LEMMA KeptInit == Init => KeptInv
<1> SUFFICES ASSUME Init PROVE KeptInv
  OBVIOUS
<1>1. ~Busy /\ timers = {} /\ writers = <<>> /\ files = [f \in Names \X (0..MaxTime) |-> <<>>]
  BY DEF Init, Busy
<1> QED BY <1>1 DEF KeptInv, RequestFresh, FilesPast, WritersPast, TimersLater

(* Steps that leave the files, the names in r.streams and the names and    *)
(* files of the writers alone, and start neither timer nor request.        *)
LEMMA KeptQuiet ==
  ASSUME Types, KeptInv, time' \in Nat, time <= time',
         UNCHANGED <<streams, files>>, timers' \subseteq timers,
         Busy' => Busy /\ request'.file = request.file,
         DOMAIN writers' = DOMAIN writers,
         \A w \in DOMAIN writers :
            /\ writers'[w].stream = writers[w].stream
            /\ writers'[w].file = writers[w].file
            /\ writers'[w].open => writers[w].open
  PROVE  KeptInv'
<1>0. /\ time \in Nat /\ writers \in Seq(Writer)
      /\ files \in [Names \X (0..MaxTime) -> Seq(Frame)]
  BY DEF Types
<1>1. SecondOf(time) <= SecondOf(time') /\ SecondOf(time) \in Nat /\ SecondOf(time') \in Nat
  BY <1>0, Seconds
<1>2. RequestFresh'
  <2> SUFFICES ASSUME Busy'
               PROVE  /\ request'.file[2] <= SecondOf(time')
                      /\ request'.file \in DOMAIN files' => files'[request'.file] = <<>>
    BY DEF RequestFresh
  <2>1. Busy /\ request'.file = request.file /\ request \in Request
    BY DEF Types
  <2>2. request.file[2] \in Nat
    BY <2>1 DEF Request
  <2> QED BY <1>1, <2>1, <2>2 DEF KeptInv, RequestFresh
<1>3. FilesPast'
  BY <1>0, <1>1 DEF KeptInv, FilesPast
<1>4. WritersPast'
  <2> SUFFICES ASSUME NEW w \in DOMAIN writers, writers'[w].open
               PROVE  writers'[w].file[2] <= SecondOf(time')
    BY DEF WritersPast
  <2>1. writers[w] \in Writer
    BY <1>0
  <2>2. writers[w].file[2] \in Nat
    BY <2>1 DEF Writer
  <2> QED BY <1>1, <2>2 DEF KeptInv, WritersPast
<1>5. TimersLater'
  BY DEF KeptInv, TimersLater
<1> QED BY <1>2, <1>3, <1>4, <1>5 DEF KeptInv

LEMMA KeptCreateFile ==
  ASSUME Types, KeptInv, NEW name \in Names, NEW subjects \in Requests, NEW d \in Durations,
         CreateFile(name, subjects, d)
  PROVE  KeptInv' /\ files' = files
<1> DEFINE f == <<name, SecondOf(time)>>
<1>0. time \in Nat /\ files \in [Names \X (0..MaxTime) -> Seq(Frame)]
  BY DEF Types
<1>1. /\ streams[name] = 0 /\ files' = [files EXCEPT ![f] = <<>>] /\ request'.file = f
      /\ UNCHANGED <<time, streams, writers, timers>>
  BY DEF CreateFile, OpenFile
<1>2. SecondOf(time) \in Nat
  BY <1>0, Seconds
<1>3. f \in DOMAIN files => files[f] = <<>>
  BY <1>1, <1>2 DEF KeptInv, FilesPast
<1>4. files' = files
  BY <1>0, <1>1, <1>3, EmptyStays
<1>5. RequestFresh'
  BY <1>1, <1>2, <1>3, <1>4 DEF RequestFresh
<1>6. FilesPast' /\ WritersPast' /\ TimersLater'
  BY <1>1, <1>4 DEF KeptInv, FilesPast, WritersPast, TimersLater
<1> QED BY <1>4, <1>5, <1>6 DEF KeptInv

LEMMA KeptSubscribeFails ==
  ASSUME Types, KeptInv, SubscribeFails
  PROVE  files' = files
<1>1. /\ files \in [Names \X (0..MaxTime) -> Seq(Frame)]
      /\ files' = [files EXCEPT ![request.file] = <<>>]
  BY DEF Types, SubscribeFails
<1>2. request.file \in DOMAIN files => files[request.file] = <<>>
  BY DEF SubscribeFails, KeptInv, RequestFresh
<1> QED BY <1>1, <1>2, EmptyStays

(* The new writer's file is not of a later second than now, and its timer  *)
(* expires in a later one.                                                 *)
LEMMA KeptRegister ==
  ASSUME Coarse, Types, MapInv, KeptInv, Register
  PROVE  KeptInv'
<1> DEFINE w == [stream |-> request.stream, subjects |-> request.asked,
                 file |-> request.file, first |-> request.first,
                 timed |-> request.duration > 0, open |-> TRUE, broken |-> FALSE, stuck |-> FALSE]
           new == Len(writers) + 1
           n == request.stream
           t == [stream |-> n, at |-> time + request.duration]
<1>1. /\ writers \in Seq(Writer) /\ n \in Names /\ request.file[2] \in Nat
      /\ request.duration \in Durations /\ request.duration \in Nat
      /\ time \in Nat /\ streams \in [Names -> Nat]
      /\ files \in [Names \X (0..MaxTime) -> Seq(Frame)]
      /\ timers \subseteq [stream : Names, at : Nat]
  BY Bounds DEF Register, Types, Request
<1>2. writers' = Append(writers, w) /\ w.stream = n /\ w.file = request.file
  BY DEF Register
<1> HIDE DEF w
<1>3. /\ new \in Nat \ {0} /\ DOMAIN writers' = DOMAIN writers \cup {new}
      /\ writers'[new] = w /\ \A k \in DOMAIN writers : writers'[k] = writers[k]
  BY <1>1, <1>2
<1> HIDE DEF new
<1>4. /\ streams' = [streams EXCEPT ![n] = new] /\ streams[n] = 0
      /\ UNCHANGED <<time, files>> /\ Busy /\ ~Busy'
  BY DEF Register, MapInv, new, Busy
<1>5. timers' = IF request.duration > 0 THEN timers \cup {t} ELSE timers
  BY DEF Register
<1>6. request.file[2] <= SecondOf(time) /\ SecondOf(time) \in Nat
  BY <1>1, <1>4, Seconds DEF KeptInv, RequestFresh
<1>7. request.duration > 0 =>
        SecondOf(t.at) \in Nat /\ SecondOf(time) < SecondOf(t.at)
  <2> SUFFICES ASSUME request.duration > 0
               PROVE  SecondOf(t.at) \in Nat /\ SecondOf(time) < SecondOf(t.at)
    OBVIOUS
  <2>1. request.duration >= PerSecond
    BY <1>1 DEF Coarse
  <2>2. PICK u : u = t.at
    OBVIOUS
  <2>3. u = time + request.duration
    BY <2>2
  <2>4. u \in Nat /\ time + PerSecond <= u
    BY <1>1, <2>1, <2>3, Bounds
  <2>5. SecondOf(u) \in Nat /\ SecondOf(time) < SecondOf(u)
    BY <1>1, <2>4, Seconds
  <2> QED BY <2>2, <2>5
<1>8. t.stream = n
  OBVIOUS
<1> HIDE DEF n, t
<1>9. FilesPast'
  BY <1>1, <1>3, <1>4 DEF KeptInv, FilesPast
<1>10. WritersPast'
  BY <1>2, <1>3, <1>4, <1>6 DEF KeptInv, WritersPast
<1>11. \A u \in timers : u.stream # n /\ u.stream \in Names
  BY <1>1, <1>4 DEF KeptInv, TimersLater
<1>12. \A k \in DOMAIN writers : writers[k].open => writers[k].stream # n
  <2> SUFFICES ASSUME NEW k \in DOMAIN writers, writers[k].open PROVE writers[k].stream # n
    OBVIOUS
  <2>1. streams[writers[k].stream] = k /\ k # 0
    BY <1>1 DEF MapInv
  <2> QED BY <1>4, <2>1
<1>13. TimersLater'
  <2> SUFFICES ASSUME NEW u \in timers'
               PROVE  /\ streams'[u.stream] # 0
                      /\ \A v \in timers' : v.stream = u.stream => v = u
                      /\ \A f \in DOMAIN files :
                           f[1] = u.stream /\ files[f] # <<>> => f[2] < SecondOf(u.at)
                      /\ \A k \in DOMAIN writers' :
                           writers'[k].open /\ writers'[k].stream = u.stream
                             => writers'[k].file[2] < SecondOf(u.at)
    BY <1>4 DEF TimersLater
  <2>1. CASE u \in timers
    <3>1. u.stream # n /\ u.stream \in Names
      BY <1>11, <2>1
    <3> QED BY <1>1, <1>2, <1>3, <1>4, <1>5, <1>8, <2>1, <3>1 DEF KeptInv, TimersLater
  <2>2. CASE u = t /\ request.duration > 0
    <3>1. streams'[u.stream] # 0
      BY <1>1, <1>3, <1>4, <1>8, <2>2
    <3>2. \A v \in timers' : v.stream = u.stream => v = u
      BY <1>5, <1>8, <1>11, <2>2
    <3>3. ASSUME NEW f \in DOMAIN files, f[1] = u.stream, files[f] # <<>>
          PROVE  f[2] < SecondOf(u.at)
      <4>1. f[2] \in Nat /\ f[2] <= SecondOf(time)
        BY <1>1, <3>3 DEF KeptInv, FilesPast
      <4> QED BY <1>6, <1>7, <2>2, <4>1
    <3>4. ASSUME NEW k \in DOMAIN writers', writers'[k].open, writers'[k].stream = u.stream
          PROVE  writers'[k].file[2] < SecondOf(u.at)
      <4>1. writers'[k].file[2] = request.file[2]
        BY <1>2, <1>3, <1>8, <1>12, <2>2, <3>4
      <4> QED BY <1>1, <1>6, <1>7, <2>2, <4>1
    <3> QED BY <3>1, <3>2, <3>3, <3>4
  <2> QED BY <1>5, <2>1, <2>2
<1>14. RequestFresh'
  BY <1>4 DEF RequestFresh
<1> QED BY <1>9, <1>10, <1>13, <1>14 DEF KeptInv

(* A frame is added to the file of an open writer, if to any.              *)
LEMMA EncodeFile ==
  ASSUME Types, NEW i \in DOMAIN subs, Encode(i)
  PROVE  \/ files' = files
         \/ /\ writers[subs[i].writer].open
            /\ files' = [files EXCEPT ![writers[subs[i].writer].file] =
                            Append(@, subs[i].frame)]
BY DEF Encode

LEMMA KeptEncode ==
  ASSUME Types, MapInv, KeptInv, NEW i \in DOMAIN subs, Encode(i)
  PROVE  KeptInv' /\ \A f \in DOMAIN files : IsPrefix(files[f], files'[f])
<1> DEFINE w == subs[i].writer
           g == writers[w].file
           fr == subs[i].frame
<1>1. /\ fr \in Frame /\ w \in DOMAIN writers /\ writers \in Seq(Writer)
      /\ files \in [Names \X (0..MaxTime) -> Seq(Frame)]
  BY DEF Encode, Types
<1>2. UNCHANGED <<time, streams, request, timers, writers>>
  BY DEF Encode
<1>3. \A f \in DOMAIN files : IsPrefix(files[f], files[f])
  BY <1>1, PrefixSelf
<1>4. CASE files' = files
  <2>1. UNCHANGED <<time, streams, request, timers, writers, files>>
    BY <1>2, <1>4
  <2> QED BY <2>1, <1>3 DEF KeptInv, RequestFresh, FilesPast, WritersPast, TimersLater, Busy
<1>5. CASE writers[w].open /\ files' = [files EXCEPT ![g] = Append(@, fr)]
  <2>1. /\ streams[writers[w].stream] = w /\ g[1] = writers[w].stream /\ w # 0
        /\ g[2] <= SecondOf(time)
    BY <1>1, <1>5 DEF MapInv, KeptInv, WritersPast
  <2>2. \A f \in DOMAIN files : f # g => files'[f] = files[f]
    BY <1>1, <1>5
  <2>3. DOMAIN files' = DOMAIN files
    BY <1>5
  <2>4. ASSUME NEW f \in DOMAIN files
        PROVE  IsPrefix(files[f], files'[f])
    <3>1. CASE f = g
      <4>1. files'[f] = Append(files[f], fr) /\ files[f] \in Seq(Frame)
        BY <1>1, <1>5, <3>1
      <4> QED BY <1>1, <4>1, PrefixAppend
    <3>2. CASE f # g
      BY <1>3, <2>2, <3>2
    <3> QED BY <3>1, <3>2
  <2>5. RequestFresh'
    <3>1. Busy => request.file # g
      BY <2>1 DEF MapInv
    <3> HIDE DEF g
    <3> QED BY <1>2, <2>2, <2>3, <3>1 DEF KeptInv, RequestFresh, Busy
  <2> HIDE DEF g, w
  <2>6. FilesPast'
    BY <1>2, <2>1, <2>2, <2>3 DEF KeptInv, FilesPast
  <2>7. WritersPast'
    BY <1>2 DEF KeptInv, WritersPast
  <2>8. \A t \in timers : g[1] = t.stream => g[2] < SecondOf(t.at)
    BY <1>1, <1>5, <2>1 DEF KeptInv, TimersLater, g
  <2>9. TimersLater'
    BY <1>2, <2>2, <2>3, <2>8 DEF KeptInv, TimersLater
  <2> QED BY <2>4, <2>5, <2>6, <2>7, <2>9 DEF KeptInv
<1> QED BY <1>4, <1>5, EncodeFile

(* The name that becomes free has files of earlier seconds only.           *)
LEMMA KeptCloseStream ==
  ASSUME Types, MapInv, KeptInv, NEW t \in timers, CloseStream(t)
  PROVE  KeptInv'
<1> DEFINE w == streams[t.stream]
           r == [writers[w] EXCEPT !.open = FALSE]
<1>1. /\ t.stream \in Names /\ t.at \in Nat /\ time \in Nat /\ writers \in Seq(Writer)
      /\ streams \in [Names -> Nat] /\ files \in [Names \X (0..MaxTime) -> Seq(Frame)]
  BY DEF Types
<1>2. /\ streams' = [streams EXCEPT ![t.stream] = 0] /\ timers' = timers \ {t}
      /\ UNCHANGED <<time, request, files>> /\ t.at <= time /\ ~Busy /\ ~Busy'
  BY DEF CloseStream, CloseFile, Expired, Busy
<1>3. w # 0 /\ w \in DOMAIN writers /\ writers[w] \in Writer
  BY <1>1 DEF KeptInv, TimersLater, MapInv
<1>4. r \in Writer /\ r.stream = writers[w].stream /\ r.file = writers[w].file
      /\ r.open = FALSE
  BY <1>3 DEF Writer
<1>5. writers' = [writers EXCEPT ![w] = r]
  BY <1>3 DEF CloseStream, CloseFile
<1> HIDE DEF w, r
<1>6. /\ DOMAIN writers' = DOMAIN writers
      /\ \A k \in DOMAIN writers : /\ writers'[k].stream = writers[k].stream
                                   /\ writers'[k].file = writers[k].file
                                   /\ writers'[k].open => writers[k].open
  BY <1>1, <1>3, <1>4, <1>5, WriterFields
<1>7. SecondOf(t.at) <= SecondOf(time) /\ SecondOf(t.at) \in Nat /\ SecondOf(time) \in Nat
  BY <1>1, <1>2, Seconds
<1>8. FilesPast'
  <2> SUFFICES ASSUME NEW f \in DOMAIN files, files[f] # <<>>
               PROVE  f[2] <= SecondOf(time) /\ (streams'[f[1]] = 0 => f[2] < SecondOf(time))
    BY <1>2 DEF FilesPast
  <2>1. f[2] <= SecondOf(time) /\ f[1] \in Names /\ f[2] \in Nat
    BY <1>1 DEF KeptInv, FilesPast
  <2>2. CASE f[1] = t.stream
    BY <1>7, <2>1, <2>2 DEF KeptInv, TimersLater
  <2>3. CASE f[1] # t.stream
    BY <1>1, <1>2, <2>1, <2>3 DEF KeptInv, FilesPast
  <2> QED BY <2>2, <2>3
<1>9. WritersPast'
  BY <1>2, <1>6 DEF KeptInv, WritersPast
<1>10. TimersLater'
  <2>1. \A u \in timers' : u \in timers /\ u.stream \in Names /\ u.stream # t.stream
    BY <1>2 DEF KeptInv, TimersLater, Types
  <2> QED BY <1>1, <1>2, <1>6, <2>1 DEF KeptInv, TimersLater
<1>11. RequestFresh'
  BY <1>2 DEF RequestFresh
<1> QED BY <1>8, <1>9, <1>10, <1>11 DEF KeptInv

(* A new process starts in a later second than any file.                   *)
LEMMA KeptRestart ==
  ASSUME Coarse, Types, KeptInv, Restart
  PROVE  KeptInv'
<1>1. /\ time \in Nat /\ time' = time + RestartDelay /\ RestartDelay \in Nat
      /\ RestartDelay >= PerSecond
      /\ files \in [Names \X (0..MaxTime) -> Seq(Frame)] /\ writers \in Seq(Writer)
  BY Bounds DEF Types, Restart, Coarse
<1>2. /\ SecondOf(time) < SecondOf(time') /\ SecondOf(time) \in Nat
      /\ SecondOf(time') \in Nat
  BY <1>1, Bounds, Seconds
<1>3. /\ files' = files /\ timers' = {} /\ ~Busy'
      /\ writers' = [w \in DOMAIN writers |-> [writers[w] EXCEPT !.open = FALSE]]
  BY DEF Restart, Busy
<1>4. FilesPast'
  <2> SUFFICES ASSUME NEW f \in DOMAIN files, files[f] # <<>>
               PROVE  f[2] < SecondOf(time')
    BY <1>1, <1>2, <1>3 DEF FilesPast
  <2>1. f[2] <= SecondOf(time) /\ f[2] \in Nat
    BY <1>1 DEF KeptInv, FilesPast
  <2> QED BY <1>2, <2>1
<1>5. \A w \in DOMAIN writers : writers'[w].open = FALSE
  <2> SUFFICES ASSUME NEW w \in DOMAIN writers PROVE writers'[w].open = FALSE
    OBVIOUS
  <2>1. writers[w] \in Writer
    BY <1>1
  <2> QED BY <1>3, <2>1 DEF Writer
<1>6. WritersPast' /\ TimersLater' /\ RequestFresh'
  BY <1>3, <1>5 DEF WritersPast, TimersLater, RequestFresh
<1> QED BY <1>4, <1>6 DEF KeptInv

(* One step: KeptInv is kept, and every file keeps its frames.             *)
KeptStep == KeptInv' /\ \A f \in DOMAIN files : IsPrefix(files[f], files'[f])

LEMMA KeptNext ==
  ASSUME Coarse, Types, MapInv, KeptInv, Next
  PROVE  KeptStep
<1>1. time' \in Nat /\ time <= time'
  BY TimeGrows
<1>2. files' = files => \A f \in DOMAIN files : IsPrefix(files[f], files'[f])
  <2>1. \A f \in DOMAIN files : files[f] \in Seq(Frame)
    BY DEF Types
  <2> QED BY <2>1, PrefixSelf
<1>3. ASSUME UNCHANGED <<streams, files, writers>>, timers' = timers,
             Busy' => Busy /\ request'.file = request.file
      PROVE  KeptStep
  BY <1>1, <1>2, <1>3, KeptQuiet DEF KeptStep
<1>4. ASSUME NEW name \in Names, NEW subjects \in Requests, NEW d \in Durations,
             CreateFile(name, subjects, d)
      PROVE  KeptStep
  BY <1>2, <1>4, KeptCreateFile DEF KeptStep
<1>5. ASSUME Subscribe PROVE KeptStep
  <2>1. request \in Request
    BY <1>5 DEF Subscribe, Types
  <2>2. request'.file = request.file /\ Busy
    BY <1>5, <2>1 DEF Subscribe, Request
  <2> QED BY <1>3, <1>5, <2>2 DEF Subscribe
<1>6. ASSUME SubscribeFails PROVE KeptStep
  BY <1>3, <1>6, KeptSubscribeFails DEF SubscribeFails, Busy
<1>7. ASSUME Register PROVE KeptStep
  BY <1>2, <1>7, KeptRegister DEF KeptStep, Register
<1>8. ASSUME NEW i \in DOMAIN subs, Receive(i) PROVE KeptStep
  BY <1>3, <1>8 DEF Receive, Busy
<1>9. ASSUME NEW i \in DOMAIN subs, Lookup(i) PROVE KeptStep
  BY <1>3, <1>9 DEF Lookup, Busy
<1>10. ASSUME NEW i \in DOMAIN subs, Encode(i) PROVE KeptStep
  BY <1>10, KeptEncode DEF KeptStep
<1>11. ASSUME NEW i \in DOMAIN subs, EncodeFails(i) PROVE KeptStep
  <2> DEFINE w == [writers[subs[i].writer] EXCEPT !.broken = TRUE]
  <2>1. /\ subs[i].writer \in DOMAIN writers /\ writers \in Seq(Writer)
        /\ writers[subs[i].writer] \in Writer
    BY <1>11 DEF Types, EncodeFails
  <2>2. /\ w \in Writer /\ w.stream = writers[subs[i].writer].stream
        /\ w.file = writers[subs[i].writer].file /\ w.open = writers[subs[i].writer].open
    BY <2>1 DEF Writer
  <2>3. /\ writers' = [writers EXCEPT ![subs[i].writer] = w]
        /\ UNCHANGED <<streams, request, files, timers>>
    BY <1>11 DEF EncodeFails
  <2> HIDE DEF w
  <2> QED BY <1>1, <1>2, <2>1, <2>2, <2>3, WriterFields, KeptQuiet DEF KeptStep, Busy
<1>12. ASSUME NEW t \in timers, CloseStream(t) PROVE KeptStep
  BY <1>2, <1>12, KeptCloseStream DEF KeptStep, CloseStream, CloseFile
<1>13. ASSUME NEW t \in timers, CloseFails(t) PROVE KeptStep
  <2> DEFINE w == streams[t.stream]
             r == [writers[w] EXCEPT !.open = FALSE, !.stuck = TRUE]
  <2>1. w \in DOMAIN writers /\ writers[w] \in Writer /\ writers \in Seq(Writer)
    BY <1>13 DEF CloseFails, Types, MapInv
  <2>2. /\ r \in Writer /\ r.stream = writers[w].stream /\ r.file = writers[w].file
        /\ r.open = FALSE
    BY <2>1 DEF Writer
  <2>3. /\ writers' = [writers EXCEPT ![w] = r] /\ timers' = timers \ {t}
        /\ UNCHANGED <<streams, request, files>>
    BY <1>13 DEF CloseFails
  <2> HIDE DEF w, r
  <2> QED BY <1>1, <1>2, <2>1, <2>2, <2>3, WriterFields, KeptQuiet DEF KeptStep, Busy
<1>14. ASSUME NEW name \in Names, StartReplay(name) PROVE KeptStep
  BY <1>3, <1>14 DEF StartReplay, Busy
<1>15. ASSUME NEW r \in DOMAIN replays, PublishFrame(r) PROVE KeptStep
  BY <1>3, <1>15 DEF PublishFrame, Busy
<1>16. ASSUME NEW r \in DOMAIN replays, PublishFrameFails(r) PROVE KeptStep
  BY <1>3, <1>16 DEF PublishFrameFails, Busy
<1>17. ASSUME NEW subject \in Subjects, Publish(subject) PROVE KeptStep
  BY <1>3, <1>17 DEF Publish, Busy
<1>18. ASSUME Elapse PROVE KeptStep
  BY <1>3, <1>18 DEF Elapse, Busy
<1>19. ASSUME Restart PROVE KeptStep
  BY <1>2, <1>19, KeptRestart DEF KeptStep, Restart
<1> QED
  BY <1>4, <1>5, <1>6, <1>7, <1>8, <1>9, <1>10, <1>11, <1>12, <1>13, <1>14, <1>15, <1>16,
     <1>17, <1>18, <1>19, Steps

LEMMA KeptStutter ==
  ASSUME Types, KeptInv, UNCHANGED vars
  PROVE  KeptStep
<1>1. UNCHANGED <<time, request, streams, writers, files, timers>>
  BY DEF vars
<1>2. KeptInv'
  BY <1>1 DEF KeptInv, RequestFresh, FilesPast, WritersPast, TimersLater, Busy
<1>3. \A f \in DOMAIN files : files[f] \in Seq(Frame)
  BY DEF Types
<1> QED BY <1>1, <1>2, <1>3, PrefixSelf DEF KeptStep

(* When neither a duration nor a restart is shorter than a second, the     *)
(* resolution of the names of the files, no step takes a recorded frame    *)
(* from a file: os.Create and os.Remove only meet files without frames.    *)
THEOREM FramesKept ==
  ASSUME Coarse
  PROVE  Spec => RecordedFramesKept
<1> DEFINE Kept == \A f \in DOMAIN files : IsPrefix(files[f], files'[f])
<1>1. Init => KeptInv
  BY KeptInit
<1>2. Types /\ MapInv /\ KeptInv /\ [Next]_vars => KeptInv' /\ Kept
  BY KeptNext, KeptStutter DEF KeptStep
<1>3. RecordedFramesKept <=> [][Kept]_vars
  BY DEF RecordedFramesKept
<1> HIDE DEF Kept
<1> QED BY <1>1, <1>2, <1>3, Inductive, PTL DEF Spec
==============================================================================
