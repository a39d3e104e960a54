-------------------------- MODULE NasReplayProofs ---------------------------
(* Proofs about the frames of NasRecorder: the types of its variables, and *)
(* the order in which a replay sends what was recorded.                    *)
EXTENDS NasRecorderProofs, Induction

(* Where a frame recorded under a name can be: in a file of the name, with *)
(* a callback that has not written it yet, or in what a replay has to send.*)
InFile(n, a) ==
  \E f \in DOMAIN files : f[1] = n /\ \E k \in DOMAIN files[f] : files[f][k] = a
InCallback(n, a) ==
  \E i \in DOMAIN subs : subs[i].stream = n /\ subs[i].pc # "idle" /\ subs[i].frame = a
InReplay(n, a) ==
  \E r \in DOMAIN replays : /\ replays[r].stream = n
                            /\ \E k \in DOMAIN replays[r].todo : replays[r].todo[k] = a
Known(n, a) == InFile(n, a) \/ InCallback(n, a) \/ InReplay(n, a)

(* A subscription has seen messages of the log only; a callback in progress*)
(* holds the last one, which is of its subject and came after it was made. *)
SubsSound ==
  \A i \in DOMAIN subs :
    /\ subs[i].from <= subs[i].seen /\ subs[i].seen <= Len(log)
    /\ subs[i].pc # "idle" =>
          /\ subs[i].frame.msg = subs[i].seen /\ subs[i].from < subs[i].seen
          /\ log[subs[i].seen] = subs[i].subject

(* A callback that is about to write has a writer of its own stream.       *)
EncodeOwn ==
  \A i \in DOMAIN subs :
    subs[i].pc = "encode" => writers[subs[i].writer].stream = subs[i].stream

(* The replays in progress send their frames by time stamp.                *)
Replay == [stream : Names, todo : Seq(Frame)]
ReplaysSorted ==
  /\ replays \in Seq(Replay)
  /\ \A r \in DOMAIN replays : \A j, k \in DOMAIN replays[r].todo :
        j < k => replays[r].todo[j].stamp < replays[r].todo[k].stamp

(* Every frame was seen by a subscription of its stream and subject.       *)
SeenBy(i, n, a) ==
  /\ subs[i].stream = n /\ subs[i].subject = log[a.msg]
  /\ subs[i].from < a.msg /\ a.msg <= subs[i].seen
KnownSound ==
  \A n \in Names, a \in Frame : Known(n, a) =>
    a.stamp <= stamps /\ \E i \in DOMAIN subs : SeenBy(i, n, a)

(* Two subscriptions of a stream to a subject were alive together.         *)
Overlap(n, s) ==
  \E i, k \in DOMAIN subs :
    /\ i < k /\ ~Successive(i, k)
    /\ subs[i].stream = n /\ subs[i].subject = s
    /\ subs[k].stream = n /\ subs[k].subject = s

(* A subscription that had ended when another was made saw nothing that one*)
(* gets.                                                                   *)
Handover ==
  \A i, k \in DOMAIN subs :
    i < k /\ Successive(i, k) => ~subs[i].valid /\ subs[i].seen <= subs[k].from

(* Time stamps tell frames apart, and order those of a subject like their  *)
(* messages unless two subscriptions overlapped.                           *)
InOrder(n, a, b) == a.msg < b.msg \/ Overlap(n, log[a.msg])
KnownOrdered ==
  \A n \in Names, a, b \in Frame : Known(n, a) /\ Known(n, b) =>
    /\ a.stamp = b.stamp => a = b
    /\ a.stamp < b.stamp /\ log[a.msg] = log[b.msg] => InOrder(n, a, b)

OrderInv ==
  /\ log \in Seq(Subjects) /\ SubsSound /\ EncodeOwn /\ ReplaysSorted
  /\ KnownSound /\ Handover /\ KnownOrdered

------------------------------------------------------------------------------
(* The order of a replay.                                                  *)
(* What a step that takes no message from NATS does to the subscriptions,  *)
(* the log and the frames.                                                 *)
LogGrows ==
  /\ log' \in Seq(Subjects) /\ Len(log) <= Len(log')
  /\ \A m \in DOMAIN log : m \in DOMAIN log' /\ log'[m] = log[m]
Evolve ==
  /\ DOMAIN subs \subseteq DOMAIN subs'
  /\ \A i \in DOMAIN subs :
        /\ subs'[i].stream = subs[i].stream /\ subs'[i].subject = subs[i].subject
        /\ subs'[i].from = subs[i].from /\ subs'[i].seen = subs[i].seen
        /\ subs'[i].valid => subs[i].valid
        /\ subs'[i].beside = subs[i].beside
  /\ \A i \in DOMAIN subs' \ DOMAIN subs :
        /\ subs'[i].from = Len(log) /\ subs'[i].seen = Len(log) /\ subs'[i].valid
        /\ subs'[i].pc = "idle"
        /\ \A j \in DOMAIN subs' :
              j < i /\ j \notin subs'[i].beside => j \in DOMAIN subs /\ ~subs[j].valid
NoneNew == \A n \in Names, a \in Frame : Known(n, a)' => Known(n, a)
NoNewFrames == LogGrows /\ Evolve /\ NoneNew /\ stamps' = stamps

LEMMA LogSame == ASSUME log \in Seq(Subjects), log' = log PROVE LogGrows
BY DEF LogGrows

LEMMA LogAppend ==
  ASSUME log \in Seq(Subjects), NEW s \in Subjects, log' = Append(log, s)
  PROVE  LogGrows
BY DEF LogGrows

LEMMA SubsSame == ASSUME subs' = subs PROVE Evolve
BY DEF Evolve

(* A step that changes the files only by emptying them.                    *)
FilesEmptied == /\ DOMAIN files' = DOMAIN files
                /\ \A f \in DOMAIN files : files'[f] = files[f] \/ files'[f] = <<>>

LEMMA EmptiedFiles ==
  ASSUME NEW f, files' = [files EXCEPT ![f] = <<>>], Types
  PROVE  FilesEmptied
BY DEF FilesEmptied, Types

LEMMA EmptiedHolds ==
  ASSUME FilesEmptied, NEW n, NEW a, InFile(n, a)'
  PROVE  InFile(n, a)
<1>1. PICK f \in DOMAIN files' : f[1] = n /\ \E k \in DOMAIN files'[f] : files'[f][k] = a
  BY DEF InFile
<1>2. files'[f] # <<>>
  BY <1>1
<1>3. f \in DOMAIN files /\ files'[f] = files[f]
  BY <1>1, <1>2 DEF FilesEmptied
<1> QED BY <1>1, <1>3 DEF InFile

(* A step that leaves the subscriptions and the time stamps as they are.   *)
LEMMA QuietFrames ==
  ASSUME LogGrows, subs' = subs, stamps' = stamps, FilesEmptied,
         \A n \in Names, a \in Frame : InReplay(n, a)' => Known(n, a)
  PROVE  NoNewFrames
<1>1. NoneNew
  <2> SUFFICES ASSUME NEW n \in Names, NEW a \in Frame, Known(n, a)'
               PROVE  Known(n, a)
    BY DEF NoneNew
  <2>1. CASE InFile(n, a)'
    BY <2>1, EmptiedHolds DEF Known
  <2>2. CASE InCallback(n, a)'
    <3>1. InCallback(n, a)
      BY <2>2 DEF InCallback
    <3> QED BY <3>1 DEF Known
  <2>3. CASE InReplay(n, a)'
    BY <2>3
  <2> QED BY <2>1, <2>2, <2>3 DEF Known
<1> QED BY <1>1, SubsSame DEF NoNewFrames

LEMMA FilesSame == ASSUME files' = files PROVE FilesEmptied
BY DEF FilesEmptied

LEMMA ReplaysSame ==
  ASSUME replays' = replays
  PROVE  \A n \in Names, a \in Frame : InReplay(n, a)' => Known(n, a)
BY DEF InReplay, Known

(* The invariant after such a step.                                        *)
LEMMA OverlapStays ==
  ASSUME Evolve, NEW n, NEW s, Overlap(n, s)
  PROVE  Overlap(n, s)'
<1>1. PICK i \in DOMAIN subs, k \in DOMAIN subs :
        /\ i < k /\ ~Successive(i, k)
        /\ subs[i].stream = n /\ subs[i].subject = s
        /\ subs[k].stream = n /\ subs[k].subject = s
  BY DEF Overlap
<1>2. i \in DOMAIN subs' /\ k \in DOMAIN subs'
  BY DEF Evolve
<1>3. ~Successive(i, k)'
  BY <1>1 DEF Successive, Evolve
<1>4. /\ subs'[i].stream = n /\ subs'[i].subject = s
      /\ subs'[k].stream = n /\ subs'[k].subject = s
  BY <1>1 DEF Evolve
<1> QED BY <1>1, <1>2, <1>3, <1>4 DEF Overlap

LEMMA FrameSeen ==
  ASSUME log \in Seq(Subjects), Types, SubsSound, NEW n, NEW a \in Frame,
         NEW i \in DOMAIN subs, SeenBy(i, n, a)
  PROVE  a.msg \in DOMAIN log
<1>1. subs[i] \in Subscription
  BY DEF Types
<1>2. a.msg \in Nat \ {0} /\ subs[i].seen \in Nat /\ Len(log) \in Nat /\ DOMAIN log = 1..Len(log)
  BY <1>1 DEF Frame, Subscription
<1>3. a.msg <= subs[i].seen /\ subs[i].seen <= Len(log)
  BY DEF SeenBy, SubsSound
<1> QED BY <1>2, <1>3

LEMMA OrderKept ==
  ASSUME OrderInv, Types, Types', NoNewFrames
  PROVE  (KnownSound /\ Handover /\ KnownOrdered)'
<1> USE DEF OrderInv, NoNewFrames
<1>1. KnownSound'
  <2> SUFFICES ASSUME NEW n \in Names, NEW a \in Frame, Known(n, a)'
               PROVE  a.stamp <= stamps' /\ \E i \in DOMAIN subs' : SeenBy(i, n, a)'
    BY DEF KnownSound
  <2>1. Known(n, a)
    BY DEF NoneNew
  <2>2. PICK i \in DOMAIN subs : SeenBy(i, n, a)
    BY <2>1 DEF KnownSound
  <2>3. log'[a.msg] = log[a.msg]
    BY <2>2, FrameSeen DEF LogGrows
  <2>4. i \in DOMAIN subs' /\ SeenBy(i, n, a)'
    BY <2>2, <2>3 DEF SeenBy, Evolve
  <2> QED BY <2>1, <2>4 DEF KnownSound
<1>2. Handover'
  <2> SUFFICES ASSUME NEW i \in DOMAIN subs', NEW k \in DOMAIN subs', i < k,
                      i \notin subs'[k].beside
               PROVE  ~subs'[i].valid /\ subs'[i].seen <= subs'[k].from
    BY DEF Handover, Successive
  <2>1. CASE k \in DOMAIN subs
    <3>1. i \in DOMAIN subs
      BY <2>1 DEF Types
    <3>2. ~subs[i].valid /\ subs[i].seen <= subs[k].from
      BY <2>1, <3>1 DEF Handover, Successive, Evolve
    <3> QED BY <2>1, <3>1, <3>2 DEF Evolve
  <2>2. CASE k \notin DOMAIN subs
    <3>1. i \in DOMAIN subs /\ ~subs[i].valid
      BY <2>2 DEF Evolve
    <3>2. subs'[k].from = Len(log) /\ subs'[i].seen = subs[i].seen /\ ~subs'[i].valid
      BY <2>2, <3>1 DEF Evolve
    <3> QED BY <3>1, <3>2 DEF SubsSound
  <2> QED BY <2>1, <2>2
<1>3. KnownOrdered'
  <2> SUFFICES ASSUME NEW n \in Names, NEW a \in Frame, NEW b \in Frame,
                      Known(n, a)', Known(n, b)'
               PROVE  /\ a.stamp = b.stamp => a = b
                      /\ a.stamp < b.stamp /\ log'[a.msg] = log'[b.msg] => InOrder(n, a, b)'
    BY DEF KnownOrdered
  <2>1. Known(n, a) /\ Known(n, b)
    BY DEF NoneNew
  <2>2. PICK i \in DOMAIN subs : SeenBy(i, n, a)
    BY <2>1 DEF KnownSound
  <2>3. PICK k \in DOMAIN subs : SeenBy(k, n, b)
    BY <2>1 DEF KnownSound
  <2>4. log'[a.msg] = log[a.msg] /\ log'[b.msg] = log[b.msg]
    BY <2>2, <2>3, FrameSeen DEF LogGrows
  <2>5. InOrder(n, a, b) => InOrder(n, a, b)'
    BY <2>4, OverlapStays DEF InOrder
  <2> QED BY <2>1, <2>4, <2>5 DEF KnownOrdered
<1> QED BY <1>1, <1>2, <1>3

(* Writers stay; they are closed or break, and are never replaced.         *)
SameWriter(v, w) ==
  /\ v.stream = w.stream /\ v.subjects = w.subjects /\ v.file = w.file /\ v.first = w.first
  /\ (v.open => w.open) /\ (w.broken => v.broken)
WritersStay ==
  /\ DOMAIN writers \subseteq DOMAIN writers'
  /\ \A w \in DOMAIN writers : SameWriter(writers'[w], writers[w])

LEMMA WriterChanged ==
  ASSUME writers \in Seq(Writer), NEW w \in DOMAIN writers, NEW r \in Writer,
         SameWriter(r, writers[w]), writers' = [writers EXCEPT ![w] = r]
  PROVE  WritersStay /\ DOMAIN writers' = DOMAIN writers
BY WriterUpdate DEF WritersStay, SameWriter

LEMMA WritersSame == ASSUME writers' = writers PROVE WritersStay
BY DEF WritersStay, SameWriter

LEMMA ClosedWriter ==
  ASSUME Types, NEW w \in DOMAIN writers,
         \/ writers' = [writers EXCEPT ![w] = [@ EXCEPT !.open = FALSE]]
         \/ writers' = [writers EXCEPT ![w] = [@ EXCEPT !.open = FALSE, !.stuck = TRUE]]
         \/ writers' = [writers EXCEPT ![w] = [@ EXCEPT !.broken = TRUE]]
  PROVE  WritersStay /\ DOMAIN writers' = DOMAIN writers
<1>1. writers \in Seq(Writer) /\ writers[w] \in Writer
  BY DEF Types
<1>2. CASE writers' = [writers EXCEPT ![w] = [@ EXCEPT !.open = FALSE]]
  <2> DEFINE r == [writers[w] EXCEPT !.open = FALSE]
  <2>1. r \in Writer /\ SameWriter(r, writers[w])
    BY <1>1 DEF Writer, SameWriter
  <2>2. writers' = [writers EXCEPT ![w] = r]
    BY <1>2
  <2> HIDE DEF r
  <2> QED BY <1>1, <2>1, <2>2, WriterChanged
<1>3. CASE writers' = [writers EXCEPT ![w] = [@ EXCEPT !.open = FALSE, !.stuck = TRUE]]
  <2> DEFINE r == [writers[w] EXCEPT !.open = FALSE, !.stuck = TRUE]
  <2>1. r \in Writer /\ SameWriter(r, writers[w])
    BY <1>1 DEF Writer, SameWriter
  <2>2. writers' = [writers EXCEPT ![w] = r]
    BY <1>3
  <2> HIDE DEF r
  <2> QED BY <1>1, <2>1, <2>2, WriterChanged
<1>4. CASE writers' = [writers EXCEPT ![w] = [@ EXCEPT !.broken = TRUE]]
  <2> DEFINE r == [writers[w] EXCEPT !.broken = TRUE]
  <2>1. r \in Writer /\ SameWriter(r, writers[w])
    BY <1>1 DEF Writer, SameWriter
  <2>2. writers' = [writers EXCEPT ![w] = r]
    BY <1>4
  <2> HIDE DEF r
  <2> QED BY <1>1, <2>1, <2>2, WriterChanged
<1> QED BY <1>2, <1>3, <1>4

(* Register adds one writer.                                               *)
NewWriter ==
  [stream |-> request.stream, subjects |-> request.asked, file |-> request.file,
   first |-> request.first, timed |-> request.duration > 0,
   open |-> TRUE, broken |-> FALSE, stuck |-> FALSE]

LEMMA WritersRegister ==
  ASSUME Types, Register
  PROVE  /\ WritersStay /\ Len(writers) + 1 \notin DOMAIN writers
         /\ DOMAIN writers' = DOMAIN writers \cup {Len(writers) + 1}
         /\ writers'[Len(writers) + 1] = NewWriter
         /\ \A w \in DOMAIN writers : writers'[w] = writers[w]
<1>1. writers \in Seq(Writer)
  BY DEF Types
<1>2. writers' = Append(writers, NewWriter)
  BY DEF Register, NewWriter
<1>3. /\ Len(writers) + 1 \notin DOMAIN writers
      /\ DOMAIN writers' = DOMAIN writers \cup {Len(writers) + 1}
      /\ writers'[Len(writers) + 1] = NewWriter
      /\ \A w \in DOMAIN writers : writers'[w] = writers[w]
  BY <1>1, <1>2
<1> QED BY <1>3 DEF WritersStay, SameWriter

LEMMA WritersRestart ==
  ASSUME Types, Restart
  PROVE  WritersStay /\ DOMAIN writers' = DOMAIN writers
         /\ \A w \in DOMAIN writers : writers'[w].open = FALSE
<1>1. writers' = [w \in DOMAIN writers |-> [writers[w] EXCEPT !.open = FALSE]]
  BY DEF Restart
<1>2. ASSUME NEW w \in DOMAIN writers
      PROVE  SameWriter(writers'[w], writers[w]) /\ writers'[w].open = FALSE
  <2>1. writers[w] \in Writer
    BY DEF Types
  <2> QED BY <1>1, <2>1 DEF SameWriter, Writer
<1>3. DOMAIN writers' = DOMAIN writers
  BY <1>1
<1> QED BY <1>2, <1>3 DEF WritersStay

LEMMA WritersNext ==
  ASSUME Types, MapInv, Next
  PROVE  WritersStay
<1>1. ASSUME NEW i \in DOMAIN subs, EncodeFails(i) PROVE WritersStay
  BY <1>1, ClosedWriter DEF EncodeFails, Types
<1>2. ASSUME NEW t \in timers, CloseStream(t) PROVE WritersStay
  <2>1. t.stream \in Names
    BY DEF Types
  <2>2. CASE streams[t.stream] = 0
    BY <1>2, <2>2, WritersSame DEF CloseStream, CloseFile
  <2>3. CASE streams[t.stream] # 0
    BY <1>2, <2>1, <2>3, ClosedWriter DEF CloseStream, CloseFile, MapInv
  <2> QED BY <2>2, <2>3
<1>3. ASSUME NEW t \in timers, CloseFails(t) PROVE WritersStay
  <2>1. t.stream \in Names
    BY DEF Types
  <2> QED BY <1>3, <2>1, ClosedWriter DEF CloseFails, MapInv
<1>4. writers' = writers => WritersStay
  BY WritersSame
<1> QED BY <1>1, <1>2, <1>3, <1>4, WritersRegister, WritersRestart, Steps
        DEF CreateFile, OpenFile, Subscribe, SubscribeFails, Receive, Lookup, Encode,
            StartReplay, PublishFrame, PublishFrameFails, Publish, Elapse

------------------------------------------------------------------------------
(* The types of the log, and what subscriptions hold, step by step.        *)
SubsInv == log \in Seq(Subjects) /\ SubsSound /\ EncodeOwn

LEMMA SubsQuiet ==
  ASSUME Types, SubsInv, subs' = subs, LogGrows, WritersStay
  PROVE  SubsInv'
<1>1. SubsSound'
  <2> SUFFICES ASSUME NEW i \in DOMAIN subs
               PROVE  /\ subs[i].from <= subs[i].seen /\ subs[i].seen <= Len(log')
                      /\ subs[i].pc # "idle" =>
                            /\ subs[i].frame.msg = subs[i].seen /\ subs[i].from < subs[i].seen
                            /\ log'[subs[i].seen] = subs[i].subject
    BY DEF SubsSound
  <2>1. /\ subs[i] \in Subscription /\ Len(log) \in Nat /\ Len(log') \in Nat
        /\ DOMAIN log = 1..Len(log) /\ Len(log) <= Len(log')
    BY DEF Types, SubsInv, LogGrows
  <2>2. /\ subs[i].from \in Nat /\ subs[i].seen \in Nat
        /\ subs[i].from <= subs[i].seen /\ subs[i].seen <= Len(log)
    BY <2>1 DEF SubsInv, SubsSound, Subscription
  <2>3. subs[i].pc # "idle" => log'[subs[i].seen] = log[subs[i].seen]
    <3>1. subs[i].pc # "idle" => subs[i].from < subs[i].seen
      BY DEF SubsInv, SubsSound
    <3>2. subs[i].pc # "idle" => subs[i].seen \in DOMAIN log
      BY <2>1, <2>2, <3>1
    <3> QED BY <3>2 DEF LogGrows
  <2>4. subs[i].seen <= Len(log')
    BY <2>1, <2>2
  <2> QED BY <2>2, <2>3, <2>4 DEF SubsInv, SubsSound
<1>2. EncodeOwn'
  BY DEF Types, SubsInv, EncodeOwn, WritersStay, SameWriter
<1> QED BY <1>1, <1>2 DEF SubsInv, LogGrows

(* One subscription changes, and has nothing in hand any more, or the same *)
(* frame as before.                                                        *)
LEMMA SubsOne ==
  ASSUME Types, SubsInv, NEW i \in DOMAIN subs, NEW r \in Subscription,
         subs' = [subs EXCEPT ![i] = r], log' = log, WritersStay,
         r.stream = subs[i].stream, r.subject = subs[i].subject, r.from = subs[i].from,
         r.seen = subs[i].seen, r.valid = subs[i].valid, r.beside = subs[i].beside,
         r.pc # "idle" => subs[i].pc # "idle" /\ r.frame = subs[i].frame,
         r.pc = "encode" => writers'[r.writer].stream = r.stream
  PROVE  SubsInv' /\ Evolve
<1>1. /\ DOMAIN subs' = DOMAIN subs
      /\ \A k \in DOMAIN subs : subs'[k] = IF k = i THEN r ELSE subs[k]
  BY UpdateSequence DEF Types
<1>2. SubsSound'
  BY <1>1 DEF SubsSound, SubsInv
<1>3. EncodeOwn'
  <2> SUFFICES ASSUME NEW k \in DOMAIN subs, subs'[k].pc = "encode"
               PROVE  writers'[subs'[k].writer].stream = subs'[k].stream
    BY <1>1 DEF EncodeOwn
  <2>1. CASE k = i
    BY <1>1, <2>1
  <2>2. CASE k # i
    <3>1. subs'[k] = subs[k]
      BY <1>1, <2>2
    <3>2. subs[k].writer \in DOMAIN writers /\ writers[subs[k].writer].stream = subs[k].stream
      BY <3>1 DEF Types, SubsInv, EncodeOwn
    <3>3. SameWriter(writers'[subs[k].writer], writers[subs[k].writer])
      BY <3>2 DEF WritersStay
    <3> QED BY <3>1, <3>2, <3>3 DEF SameWriter
  <2> QED BY <2>1, <2>2
<1>4. Evolve
  BY <1>1 DEF Evolve
<1> QED BY <1>2, <1>3, <1>4 DEF SubsInv

(* The step of a callback from its lookup: it holds its frame, or drops it.*)
LEMMA SubsLookup ==
  ASSUME Types, MapInv, SubsInv, NEW i \in DOMAIN subs, Lookup(i)
  PROVE  /\ SubsInv' /\ Evolve
         /\ \A n, a : InCallback(n, a)' => InCallback(n, a)
<1>1. /\ subs[i] \in Subscription /\ subs[i].pc = "lookup" /\ streams \in [Names -> Nat]
      /\ subs \in Seq(Subscription)
  BY DEF Types, Lookup
<1>2. UNCHANGED <<log, writers, streams>> /\ WritersStay
  BY WritersSame DEF Lookup
<1>3. PICK r \in Subscription :
        /\ subs' = [subs EXCEPT ![i] = r]
        /\ r.stream = subs[i].stream /\ r.subject = subs[i].subject /\ r.from = subs[i].from
        /\ r.seen = subs[i].seen /\ r.valid = subs[i].valid /\ r.beside = subs[i].beside
        /\ r.pc # "idle" => r.frame = subs[i].frame
        /\ r.pc = "encode" => writers'[r.writer].stream = r.stream
  <2>1. CASE streams[subs[i].stream] = 0
    <3> DEFINE r == [subs[i] EXCEPT !.pc = "idle", !.frame = NoFrame]
    <3>1. /\ r \in Subscription /\ r.pc = "idle"
          /\ r.stream = subs[i].stream /\ r.subject = subs[i].subject /\ r.from = subs[i].from
          /\ r.seen = subs[i].seen /\ r.valid = subs[i].valid /\ r.beside = subs[i].beside
      BY <1>1, NoFrameType DEF Subscription
    <3>2. subs' = [subs EXCEPT ![i] = r]
      BY <2>1 DEF Lookup, LookedUp
    <3> HIDE DEF r
    <3> QED BY <3>1, <3>2
  <2>2. CASE streams[subs[i].stream] # 0
    <3> DEFINE r == [subs[i] EXCEPT !.pc = "encode", !.writer = streams[subs[i].stream]]
    <3>1. /\ r \in Subscription /\ r.frame = subs[i].frame
          /\ r.stream = subs[i].stream /\ r.subject = subs[i].subject /\ r.from = subs[i].from
          /\ r.seen = subs[i].seen /\ r.valid = subs[i].valid /\ r.beside = subs[i].beside
          /\ r.writer = streams[subs[i].stream] /\ subs[i].stream \in Names
      BY <1>1 DEF Subscription
    <3>2. subs' = [subs EXCEPT ![i] = r]
      BY <2>2 DEF Lookup, LookedUp
    <3> HIDE DEF r
    <3>3. writers'[r.writer].stream = r.stream
      BY <1>2, <2>2, <3>1 DEF MapInv
    <3> QED BY <3>1, <3>2, <3>3
  <2> QED BY <2>1, <2>2
<1>4. SubsInv' /\ Evolve
  BY <1>1, <1>2, <1>3, SubsOne
<1>5. /\ DOMAIN subs' = DOMAIN subs
      /\ \A k \in DOMAIN subs : subs'[k] = IF k = i THEN r ELSE subs[k]
  BY <1>1, <1>3, UpdateSequence
<1>6. \A n, a : InCallback(n, a)' => InCallback(n, a)
  BY <1>1, <1>3, <1>5 DEF InCallback
<1> QED BY <1>4, <1>6

(* The end of a callback.                                                  *)
LEMMA SubsDone ==
  ASSUME Types, SubsInv, NEW i \in DOMAIN subs, CallbackDone(i), log' = log, WritersStay
  PROVE  /\ SubsInv' /\ Evolve
         /\ \A n, a : InCallback(n, a)' => InCallback(n, a)
         /\ DOMAIN subs' = DOMAIN subs /\ subs'[i].pc = "idle" /\ subs'[i].seen = subs[i].seen
         /\ \A k \in DOMAIN subs : k # i => subs'[k] = subs[k]
<1> DEFINE r == [subs[i] EXCEPT !.pc = "idle", !.frame = NoFrame, !.writer = 0]
<1>1. subs[i] \in Subscription /\ subs \in Seq(Subscription)
  BY DEF Types
<1>2. /\ r \in Subscription /\ r.pc = "idle"
      /\ r.stream = subs[i].stream /\ r.subject = subs[i].subject /\ r.from = subs[i].from
      /\ r.seen = subs[i].seen /\ r.valid = subs[i].valid /\ r.beside = subs[i].beside
  BY <1>1, NoFrameType DEF Subscription
<1>3. subs' = [subs EXCEPT ![i] = r]
  BY DEF CallbackDone
<1> HIDE DEF r
<1>4. SubsInv' /\ Evolve
  BY <1>2, <1>3, SubsOne
<1>5. /\ DOMAIN subs' = DOMAIN subs
      /\ \A k \in DOMAIN subs : subs'[k] = IF k = i THEN r ELSE subs[k]
  BY <1>1, <1>2, <1>3, UpdateSequence
<1>6. \A n, a : InCallback(n, a)' => InCallback(n, a)
  BY <1>2, <1>5 DEF InCallback
<1> QED BY <1>2, <1>4, <1>5, <1>6

(* A new subscription has seen nothing.                                    *)
LEMMA SubsSubscribe ==
  ASSUME Types, SubsInv, Subscribe
  PROVE  /\ SubsInv' /\ Evolve
         /\ \A n, a : InCallback(n, a)' => InCallback(n, a)
         /\ Len(subs') = Len(subs) + 1 /\ DOMAIN subs' = DOMAIN subs \cup {Len(subs) + 1}
         /\ \A k \in DOMAIN subs : subs'[k] = subs[k]
         /\ subs'[Len(subs) + 1].stream = request.stream
         /\ subs'[Len(subs) + 1].subject = Head(request.todo)
<1> DEFINE r == [stream |-> request.stream, subject |-> Head(request.todo),
                 from |-> Len(log), seen |-> Len(log), valid |-> TRUE,
                 beside |-> {i \in DOMAIN subs : subs[i].valid}, pc |-> "idle",
                 frame |-> NoFrame, writer |-> 0]
           new == Len(subs) + 1
<1>1. subs \in Seq(Subscription) /\ Len(log) \in Nat
  BY DEF Types, SubsInv
<1>2. subs' = Append(subs, r)
  BY DEF Subscribe
<1>3. /\ r.from = Len(log) /\ r.seen = Len(log) /\ r.valid /\ r.pc = "idle"
      /\ r.stream = request.stream /\ r.subject = Head(request.todo)
      /\ r.beside = {i \in DOMAIN subs : subs[i].valid}
  OBVIOUS
<1> HIDE DEF r
<1>4. /\ Len(subs') = new /\ DOMAIN subs' = DOMAIN subs \cup {new} /\ new \notin DOMAIN subs
      /\ subs'[new] = r /\ \A k \in DOMAIN subs : subs'[k] = subs[k]
  BY <1>1, <1>2
<1>5. \A k \in DOMAIN subs' : k < new => k \in DOMAIN subs
  BY <1>1, <1>4
<1> HIDE DEF new
<1>6. log' = log /\ writers' = writers
  BY DEF Subscribe
<1>7. SubsSound' /\ EncodeOwn'
  <2>1. SubsSound'
    BY <1>1, <1>3, <1>4, <1>6 DEF SubsInv, SubsSound
  <2>2. EncodeOwn'
    BY <1>3, <1>4, <1>6 DEF SubsInv, EncodeOwn
  <2> QED BY <2>1, <2>2
<1>8. Evolve
  BY <1>3, <1>4, <1>5 DEF Evolve
<1>9. \A n, a : InCallback(n, a)' => InCallback(n, a)
  BY <1>3, <1>4 DEF InCallback
<1> QED BY <1>3, <1>4, <1>6, <1>7, <1>8, <1>9 DEF SubsInv, new

(* The subscriptions of a request that fails end.                          *)
LEMMA SubsSubscribeFails ==
  ASSUME Types, SubsInv, SubscribeFails
  PROVE  /\ SubsInv' /\ Evolve
         /\ \A n, a : InCallback(n, a)' => InCallback(n, a)
         /\ DOMAIN subs' = DOMAIN subs
         /\ \A i \in DOMAIN subs : /\ subs'[i].pc = subs[i].pc /\ subs'[i].frame = subs[i].frame
                                   /\ request.first <= i => ~subs'[i].valid
<1>1. /\ DOMAIN subs' = DOMAIN subs /\ log' = log /\ writers' = writers
      /\ request.first \in Nat /\ \A i \in DOMAIN subs : i \in Nat
  BY DEF SubscribeFails, Types, Request
<1>2. ASSUME NEW i \in DOMAIN subs
      PROVE  /\ subs'[i].stream = subs[i].stream /\ subs'[i].subject = subs[i].subject
             /\ subs'[i].from = subs[i].from /\ subs'[i].seen = subs[i].seen
             /\ subs'[i].pc = subs[i].pc /\ subs'[i].frame = subs[i].frame
             /\ subs'[i].writer = subs[i].writer
             /\ request.first <= i => ~subs'[i].valid
             /\ subs'[i].valid => subs[i].valid
             /\ subs'[i].beside = subs[i].beside
  <2>1. subs[i] \in Subscription
    BY DEF Types
  <2>2. CASE i >= request.first
    <3>1. subs'[i] = [subs[i] EXCEPT !.valid = FALSE]
      BY <2>2 DEF SubscribeFails
    <3> QED BY <1>1, <2>1, <2>2, <3>1 DEF Subscription
  <2>3. CASE ~(i >= request.first)
    <3>1. subs'[i] = subs[i]
      BY <2>3 DEF SubscribeFails
    <3> QED BY <1>1, <2>3, <3>1
  <2> QED BY <2>2, <2>3
<1>3. SubsInv'
  BY <1>1, <1>2 DEF SubsInv, SubsSound, EncodeOwn
<1>4. Evolve
  BY <1>1, <1>2 DEF Evolve
<1>6. \A n, a : InCallback(n, a)' => InCallback(n, a)
  BY <1>1, <1>2 DEF InCallback
<1> QED BY <1>1, <1>2, <1>3, <1>4, <1>6

(* A restart ends them all.                                                *)
LEMMA SubsRestart ==
  ASSUME Types, SubsInv, Restart
  PROVE  /\ SubsInv' /\ Evolve
         /\ \A n, a : ~InCallback(n, a)'
         /\ DOMAIN subs' = DOMAIN subs
         /\ \A i \in DOMAIN subs : subs'[i].pc = "idle" /\ ~subs'[i].valid
<1>1. DOMAIN subs' = DOMAIN subs /\ log' = log
  BY DEF Restart
<1>2. ASSUME NEW i \in DOMAIN subs
      PROVE  /\ subs'[i].stream = subs[i].stream /\ subs'[i].subject = subs[i].subject
             /\ subs'[i].from = subs[i].from /\ subs'[i].seen = subs[i].seen
             /\ subs'[i].pc = "idle" /\ ~subs'[i].valid
             /\ subs'[i].beside = subs[i].beside
  <2>1. subs[i] \in Subscription
    BY DEF Types
  <2>2. subs'[i] = [subs[i] EXCEPT !.valid = FALSE, !.pc = "idle", !.frame = NoFrame,
                                   !.writer = 0]
    BY DEF Restart
  <2> QED BY <2>1, <2>2 DEF Subscription
<1>3. SubsInv'
  BY <1>1, <1>2 DEF SubsInv, SubsSound, EncodeOwn
<1>4. Evolve /\ \A n, a : ~InCallback(n, a)'
  BY <1>1, <1>2 DEF Evolve, InCallback
<1> QED BY <1>1, <1>2, <1>3, <1>4

(* Encode appends the frame to the file of its writer, one of the stream   *)
(* the frame was recorded under, if that is open and in order.             *)
Wrote(i) ==
  LET v == writers[subs[i].writer]
  IN  /\ v.open /\ ~v.broken /\ v.file \in DOMAIN files /\ DOMAIN files' = DOMAIN files
      /\ files[v.file] \in Seq(Frame)
      /\ files'[v.file] = Append(files[v.file], subs[i].frame)
      /\ \A f \in DOMAIN files : f # v.file => files'[f] = files[f]
WroteNothing(i) ==
  LET v == writers[subs[i].writer]
  IN  files' = files /\ ~(v.open /\ ~v.broken /\ v.file \in DOMAIN files)

LEMMA EncodeWrites ==
  ASSUME Types, MapInv, EncodeOwn, NEW i \in DOMAIN subs, Encode(i)
  PROVE  /\ subs[i].pc = "encode" /\ subs[i].frame \in Frame
         /\ subs[i].writer \in DOMAIN writers
         /\ writers[subs[i].writer].stream = subs[i].stream
         /\ writers[subs[i].writer].file[1] = subs[i].stream
         /\ Wrote(i) \/ WroteNothing(i)
<1> DEFINE v == writers[subs[i].writer]
<1>1. /\ subs[i].pc = "encode" /\ subs[i].frame \in Frame /\ subs[i].writer \in DOMAIN writers
      /\ files \in [Names \X (0..MaxTime) -> Seq(Frame)]
  BY DEF Encode, Types
<1>2. v.stream = subs[i].stream /\ v.file[1] = subs[i].stream
  BY <1>1 DEF EncodeOwn, MapInv
<1>3. files' = IF v.open /\ ~v.broken
                 THEN [files EXCEPT ![v.file] = Append(@, subs[i].frame)] ELSE files
  BY DEF Encode
<1>4. CASE v.open /\ ~v.broken /\ v.file \in DOMAIN files
  <2>1. files' = [files EXCEPT ![v.file] = Append(@, subs[i].frame)]
    BY <1>3, <1>4
  <2>2. files[v.file] \in Seq(Frame)
    BY <1>1, <1>4
  <2> HIDE DEF v
  <2>3. /\ DOMAIN files' = DOMAIN files
        /\ files'[v.file] = Append(files[v.file], subs[i].frame)
        /\ \A f \in DOMAIN files : f # v.file => files'[f] = files[f]
    BY <1>1, <1>4, <2>1
  <2>4. Wrote(i)
    BY <1>4, <2>2, <2>3 DEF Wrote, v
  <2> QED BY <1>1, <1>2, <2>4 DEF v
<1>5. CASE ~(v.open /\ ~v.broken /\ v.file \in DOMAIN files)
  <2>1. files' = files
    BY <1>1, <1>3, <1>5
  <2>2. WroteNothing(i)
    BY <1>5, <2>1 DEF WroteNothing
  <2> QED BY <1>1, <1>2, <2>2
<1> QED BY <1>4, <1>5

LEMMA FramesEncode ==
  ASSUME Types, MapInv, SubsInv, NEW i \in DOMAIN subs, Encode(i)
  PROVE  NoNewFrames /\ SubsInv'
<1>1. /\ UNCHANGED <<log, stamps, replays, writers>> /\ CallbackDone(i)
      /\ log \in Seq(Subjects)
  BY DEF Encode, SubsInv
<1>2. /\ SubsInv' /\ Evolve
      /\ \A n, a : InCallback(n, a)' => InCallback(n, a)
  BY <1>1, WritersSame, SubsDone
<1>3. NoneNew
  <2> SUFFICES ASSUME NEW n \in Names, NEW a \in Frame, Known(n, a)'
               PROVE  Known(n, a)
    BY DEF NoneNew
  <2>1. CASE InFile(n, a)'
    <3>1. /\ subs[i].pc = "encode"
          /\ Wrote(i) \/ WroteNothing(i)
          /\ writers[subs[i].writer].file[1] = subs[i].stream
      BY EncodeWrites DEF SubsInv
    <3>2. CASE WroteNothing(i)
      BY <2>1, <3>2 DEF WroteNothing, InFile, Known
    <3>3. CASE Wrote(i)
      <4> DEFINE g == writers[subs[i].writer].file
      <4>0. PICK f \in DOMAIN files' : f[1] = n /\ \E k \in DOMAIN files'[f] : files'[f][k] = a
        BY <2>1 DEF InFile
      <4>1. PICK k \in DOMAIN files'[f] : f[1] = n /\ files'[f][k] = a
        BY <4>0
      <4>2. CASE f # g
        <5>1. f \in DOMAIN files /\ files'[f] = files[f]
          BY <3>3, <4>0, <4>2 DEF Wrote
        <5> QED BY <4>1, <5>1 DEF InFile, Known
      <4>3. CASE f = g
        <5>1. /\ f \in DOMAIN files /\ files[f] \in Seq(Frame)
              /\ files'[f] = Append(files[f], subs[i].frame)
          BY <3>3, <4>3 DEF Wrote
        <5>2. CASE k \in DOMAIN files[f]
          <6>1. files[f][k] = a
            BY <4>1, <5>1, <5>2
          <6> QED BY <4>1, <5>1, <5>2, <6>1 DEF InFile, Known
        <5>3. CASE k \notin DOMAIN files[f]
          <6>1. a = subs[i].frame
            BY <4>1, <5>1, <5>3
          <6>2. n = subs[i].stream
            BY <3>1, <4>1, <4>3
          <6>3. subs[i].pc # "idle"
            BY <3>1
          <6>4. InCallback(n, a)
            BY <6>1, <6>2, <6>3 DEF InCallback
          <6> QED BY <6>4 DEF Known
        <5> QED BY <5>2, <5>3
      <4> QED BY <4>2, <4>3
    <3> QED BY <3>1, <3>2, <3>3
  <2>2. CASE InCallback(n, a)'
    BY <1>2, <2>2 DEF Known
  <2>3. CASE InReplay(n, a)'
    BY <1>1, <2>3 DEF InReplay, Known
  <2> QED BY <2>1, <2>2, <2>3 DEF Known
<1> QED BY <1>1, <1>2, <1>3, LogSame DEF NoNewFrames

(* The steps that change the subscriptions and at most empty a file.       *)
LEMMA SubsFrames ==
  ASSUME SubsInv, log' = log, Evolve, FilesEmptied, stamps' = stamps,
         \A n, a : InCallback(n, a)' => InCallback(n, a),
         \A n \in Names, a \in Frame : InReplay(n, a)' => Known(n, a)
  PROVE  NoNewFrames
<1>1. NoneNew
  BY EmptiedHolds DEF NoneNew, Known
<1> QED BY <1>1, LogSame DEF NoNewFrames, SubsInv
(* A set of frames with different time stamps, none above b, is finite and *)
(* can be arranged by time stamp.                                          *)
Stamped(S, b) ==
  /\ S \subseteq Frame /\ \A a \in S : a.stamp <= b
  /\ \A a, c \in S : a.stamp = c.stamp => a = c
Arranged(S) ==
  /\ IsFiniteSet(S)
  /\ \E s \in Arrangements(S) : \A j, k \in DOMAIN s : j < k => s[j].stamp < s[k].stamp

LEMMA ArrangedMore ==
  ASSUME NEW S, NEW b \in Nat, Arranged(S), NEW x, x \notin S, x.stamp = b + 1,
         \A a \in S : a.stamp \in Nat /\ a.stamp <= b
  PROVE  Arranged(S \cup {x})
<1>1. IsFiniteSet(S) /\ Cardinality(S) \in Nat
  BY FS_CardinalityType DEF Arranged
<1>2. IsFiniteSet(S \cup {x}) /\ Cardinality(S \cup {x}) = Cardinality(S) + 1
  BY <1>1, FS_AddElement
<1>3. PICK s \in Arrangements(S) : \A j, k \in DOMAIN s : j < k => s[j].stamp < s[k].stamp
  BY DEF Arranged
<1> DEFINE n == Cardinality(S)
           t == [j \in 1..(n+1) |-> IF j = n+1 THEN x ELSE s[j]]
<1>4. s \in [1..n -> S]
  BY <1>3 DEF Arrangements
<1>5. t \in Arrangements(S \cup {x})
  <2>1. \A j \in 1..(n+1) : j = n+1 \/ j \in 1..n
    BY <1>1
  <2>2. t \in [1..(n+1) -> S \cup {x}]
    BY <1>4, <2>1
  <2> QED BY <1>2, <2>2 DEF Arrangements
<1>6. ASSUME NEW j \in DOMAIN t, NEW k \in DOMAIN t, j < k
      PROVE  t[j].stamp < t[k].stamp
  <2>1. j \in 1..n /\ t[j] = s[j] /\ s[j] \in S
    BY <1>1, <1>4, <1>6
  <2>2. CASE k = n+1
    <3>1. t[k].stamp = b + 1 /\ s[j].stamp \in Nat /\ s[j].stamp <= b
      BY <2>1, <2>2
    <3> QED BY <2>1, <3>1
  <2>3. CASE k # n+1
    <3>1. k \in 1..n /\ t[k] = s[k]
      BY <1>1, <2>3
    <3> QED BY <1>3, <1>4, <1>6, <2>1, <3>1
  <2> QED BY <2>2, <2>3
<1> QED BY <1>2, <1>5, <1>6 DEF Arranged

LEMMA CanBeArranged ==
  ASSUME NEW b \in Nat, NEW S, Stamped(S, b)
  PROVE  Arranged(S)
<1> DEFINE T == {c \in Nat : \A R \in SUBSET Frame : Stamped(R, c) => Arranged(R)}
<1>1. 0 \in T
  <2> SUFFICES ASSUME NEW R \in SUBSET Frame, Stamped(R, 0) PROVE Arranged(R)
    OBVIOUS
  <2>1. R = {}
    BY DEF Stamped, Frame
  <2>2. IsFiniteSet(R) /\ Cardinality(R) = 0
    BY <2>1, FS_EmptySet
  <2>3. 1..0 = {}
    OBVIOUS
  <2>4. <<>> \in Arrangements(R) /\ DOMAIN <<>> = {}
    BY <2>2, <2>3 DEF Arrangements
  <2> QED BY <2>2, <2>4 DEF Arranged
<1>2. ASSUME NEW c \in Nat, c \in T PROVE c + 1 \in T
  <2> SUFFICES ASSUME NEW R \in SUBSET Frame, Stamped(R, c + 1) PROVE Arranged(R)
    OBVIOUS
  <2>0. \A a \in R : a.stamp \in Nat
    BY DEF Frame
  <2>1. CASE \A a \in R : a.stamp # c + 1
    <3>1. Stamped(R, c)
      BY <2>0, <2>1 DEF Stamped
    <3> QED BY <1>2, <3>1
  <2>2. CASE \E a \in R : a.stamp = c + 1
    <3>1. PICK x \in R : x.stamp = c + 1
      BY <2>2
    <3>2. Stamped(R \ {x}, c) /\ R \ {x} \in SUBSET Frame
      BY <2>0, <3>1 DEF Stamped
    <3>3. Arranged(R \ {x})
      BY <1>2, <3>2
    <3>4. \A a \in R \ {x} : a.stamp \in Nat /\ a.stamp <= c
      BY <2>0, <3>2 DEF Stamped
    <3>5. Arranged((R \ {x}) \cup {x})
      BY <3>1, <3>3, <3>4, ArrangedMore
    <3>6. (R \ {x}) \cup {x} = R
      OBVIOUS
    <3> QED BY <3>5, <3>6
  <2> QED BY <2>1, <2>2
<1>3. b \in T
  <2> HIDE DEF T
  <2> QED BY <1>1, <1>2, NatSetInduction
<1>4. S \in SUBSET Frame
  BY DEF Stamped
<1> QED BY <1>3, <1>4

(* So a replay sends frames of its stream by time stamp.                   *)
LEMMA FramesInFiles ==
  ASSUME Types, NEW name
  PROVE  \A a : a \in FramesOf(name) <=> InFile(name, a)
BY DEF FramesOf, InFile, ToSet

LEMMA ReadFramesSorted ==
  ASSUME Types, OrderInv, NEW name \in Names
  PROVE  /\ ReadFrames(name) \in Seq(Frame)
         /\ \A k \in DOMAIN ReadFrames(name) : InFile(name, ReadFrames(name)[k])
         /\ \A j, k \in DOMAIN ReadFrames(name) :
               j < k => ReadFrames(name)[j].stamp < ReadFrames(name)[k].stamp
<1> DEFINE S == FramesOf(name)
<1>1. \A a \in S : a \in Frame /\ Known(name, a)
  <2>1. \A a \in S : InFile(name, a)
    BY FramesInFiles
  <2>2. \A a : InFile(name, a) => a \in Frame
    BY DEF InFile, Types
  <2> QED BY <2>1, <2>2 DEF Known
<1>2. Stamped(S, stamps)
  BY <1>1 DEF OrderInv, KnownSound, KnownOrdered, Stamped
<1>3. Arranged(S)
  BY <1>2, CanBeArranged DEF Types
<1>4. /\ ReadFrames(name) \in Arrangements(S)
      /\ \A j, k \in DOMAIN ReadFrames(name) :
            j < k => ReadFrames(name)[j].stamp < ReadFrames(name)[k].stamp
  BY <1>3 DEF Arranged, ReadFrames
<1>5. Cardinality(S) \in Nat
  BY <1>3, FS_CardinalityType DEF Arranged
<1>6. ReadFrames(name) \in [1..Cardinality(S) -> S]
  BY <1>4 DEF Arrangements
<1> HIDE DEF S
<1>7. ReadFrames(name) \in Seq(S) /\ DOMAIN ReadFrames(name) = 1..Cardinality(S)
  BY <1>5, <1>6
<1>8. S \subseteq Frame
  BY <1>1
<1>9. ReadFrames(name) \in Seq(Frame)
  BY <1>7, <1>8
<1>10. \A k \in DOMAIN ReadFrames(name) : ReadFrames(name)[k] \in S
  BY <1>6
<1> QED BY <1>4, <1>9, <1>10, FramesInFiles DEF S

(* A replay starts, or sends its next frame.                               *)
LEMMA ReplaysStart ==
  ASSUME Types, OrderInv, NEW name \in Names, StartReplay(name)
  PROVE  /\ ReplaysSorted'
         /\ \A n \in Names, a \in Frame : InReplay(n, a)' => Known(n, a)
<1> DEFINE r == [stream |-> name, todo |-> ReadFrames(name)]
           new == Len(replays) + 1
<1>1. /\ ReadFrames(name) \in Seq(Frame)
      /\ \A k \in DOMAIN ReadFrames(name) : InFile(name, ReadFrames(name)[k])
      /\ \A j, k \in DOMAIN ReadFrames(name) :
            j < k => ReadFrames(name)[j].stamp < ReadFrames(name)[k].stamp
  BY ReadFramesSorted
<1>2. r \in Replay /\ r.stream = name /\ r.todo = ReadFrames(name)
  BY <1>1 DEF Replay
<1>3. replays' = Append(replays, r) /\ replays \in Seq(Replay)
  BY DEF StartReplay, OrderInv, ReplaysSorted
<1> HIDE DEF r
<1>4. /\ replays' \in Seq(Replay) /\ DOMAIN replays' = DOMAIN replays \cup {new}
      /\ replays'[new] = r /\ \A q \in DOMAIN replays : replays'[q] = replays[q]
  BY <1>2, <1>3
<1> HIDE DEF new
<1>5. ReplaysSorted'
  <2>1. ASSUME NEW q \in DOMAIN replays'
        PROVE  \A j, k \in DOMAIN replays'[q].todo :
                  j < k => replays'[q].todo[j].stamp < replays'[q].todo[k].stamp
    <3>1. CASE q = new
      BY <1>1, <1>2, <1>4, <3>1
    <3>2. CASE q \in DOMAIN replays
      BY <1>4, <3>2 DEF OrderInv, ReplaysSorted
    <3> QED BY <1>4, <3>1, <3>2
  <2> QED BY <1>4, <2>1 DEF ReplaysSorted
<1>6. ASSUME NEW n \in Names, NEW a \in Frame, InReplay(n, a)'
      PROVE  Known(n, a)
  <2>1. PICK q \in DOMAIN replays' : /\ replays'[q].stream = n
                                     /\ \E k \in DOMAIN replays'[q].todo : replays'[q].todo[k] = a
    BY <1>6 DEF InReplay
  <2>2. CASE q = new
    BY <1>1, <1>2, <1>4, <2>1, <2>2 DEF Known
  <2>3. CASE q \in DOMAIN replays
    BY <1>4, <2>1, <2>3 DEF InReplay, Known
  <2> QED BY <1>4, <2>2, <2>3
<1> QED BY <1>5, <1>6

LEMMA TailSorted ==
  ASSUME NEW s \in Seq(Frame), s # <<>>,
         \A j, k \in DOMAIN s : j < k => s[j].stamp < s[k].stamp
  PROVE  /\ Tail(s) \in Seq(Frame)
         /\ \A k \in DOMAIN Tail(s) : k + 1 \in DOMAIN s /\ Tail(s)[k] = s[k + 1]
         /\ \A j, k \in DOMAIN Tail(s) : j < k => Tail(s)[j].stamp < Tail(s)[k].stamp
<1>1. /\ Tail(s) \in Seq(Frame) /\ DOMAIN Tail(s) \subseteq Nat
      /\ \A k \in DOMAIN Tail(s) : k + 1 \in DOMAIN s /\ Tail(s)[k] = s[k + 1]
  OBVIOUS
<1>2. \A j, k \in DOMAIN Tail(s) : j < k => j + 1 < k + 1
  BY <1>1
<1> QED BY <1>1, <1>2

(* One replay has less to send.                                            *)
LEMMA ReplaysTail ==
  ASSUME OrderInv, NEW r \in DOMAIN replays, replays[r].todo # <<>>,
         replays' = [replays EXCEPT ![r].todo = Tail(@)]
  PROVE  /\ ReplaysSorted'
         /\ \A n \in Names, a \in Frame : InReplay(n, a)' => Known(n, a)
<1> DEFINE e == [replays[r] EXCEPT !.todo = Tail(replays[r].todo)]
<1>0. replays \in Seq(Replay) /\ replays[r] \in Replay
  BY DEF OrderInv, ReplaysSorted
<1>1. replays[r].todo \in Seq(Frame)
  BY <1>0 DEF Replay
<1>2. /\ Tail(replays[r].todo) \in Seq(Frame)
      /\ \A k \in DOMAIN Tail(replays[r].todo) :
            /\ k + 1 \in DOMAIN replays[r].todo
            /\ Tail(replays[r].todo)[k] = replays[r].todo[k + 1]
      /\ \A j, k \in DOMAIN Tail(replays[r].todo) :
            j < k => Tail(replays[r].todo)[j].stamp < Tail(replays[r].todo)[k].stamp
  <2>1. \A j, k \in DOMAIN replays[r].todo :
            j < k => replays[r].todo[j].stamp < replays[r].todo[k].stamp
    BY DEF OrderInv, ReplaysSorted
  <2> QED BY <1>1, <2>1, TailSorted
<1>3. e \in Replay /\ e.stream = replays[r].stream /\ e.todo = Tail(replays[r].todo)
  BY <1>0, <1>2 DEF Replay
<1>4. replays' = [replays EXCEPT ![r] = e]
  OBVIOUS
<1> HIDE DEF e
<1>5. /\ replays' \in Seq(Replay) /\ DOMAIN replays' = DOMAIN replays
      /\ \A q \in DOMAIN replays : replays'[q] = IF q = r THEN e ELSE replays[q]
  <2>1. /\ [replays EXCEPT ![r] = e] \in Seq(Replay)
        /\ DOMAIN [replays EXCEPT ![r] = e] = DOMAIN replays
        /\ \A q \in DOMAIN replays :
              [replays EXCEPT ![r] = e][q] = IF q = r THEN e ELSE replays[q]
    BY <1>0, <1>3, UpdateSequence
  <2> QED BY <1>4, <2>1
<1>6. ReplaysSorted'
  BY <1>2, <1>3, <1>5 DEF ReplaysSorted, OrderInv
<1>7. ASSUME NEW n \in Names, NEW a \in Frame, InReplay(n, a)'
      PROVE  InReplay(n, a)
  <2>1. PICK q \in DOMAIN replays' : /\ replays'[q].stream = n
                                     /\ \E k \in DOMAIN replays'[q].todo : replays'[q].todo[k] = a
    BY <1>7 DEF InReplay
  <2>2. CASE q = r
    <3>1. PICK k \in DOMAIN Tail(replays[r].todo) : Tail(replays[r].todo)[k] = a
      BY <1>3, <1>5, <2>1, <2>2
    <3>2. k + 1 \in DOMAIN replays[r].todo /\ replays[r].todo[k + 1] = a
      BY <1>2, <3>1
    <3>3. replays[r].stream = n
      BY <1>3, <1>5, <2>1, <2>2
    <3> QED BY <3>2, <3>3 DEF InReplay
  <2>3. CASE q # r
    BY <1>5, <2>1, <2>3 DEF InReplay
  <2> QED BY <2>2, <2>3
<1> QED BY <1>6, <1>7 DEF Known

(* A restart forgets the replays.                                          *)
LEMMA ReplaysRestart ==
  ASSUME OrderInv, Restart
  PROVE  /\ ReplaysSorted'
         /\ \A n \in Names, a \in Frame : InReplay(n, a)' => Known(n, a)
<1>1. replays \in Seq(Replay)
  BY DEF OrderInv, ReplaysSorted
<1>2. replays' = [r \in DOMAIN replays |-> [replays[r] EXCEPT !.todo = <<>>]]
  BY DEF Restart
<1>3. ASSUME NEW r \in DOMAIN replays
      PROVE  [replays[r] EXCEPT !.todo = <<>>] \in Replay
             /\ [replays[r] EXCEPT !.todo = <<>>].todo = <<>>
  <2>1. replays[r] \in Replay /\ <<>> \in Seq(Frame)
    BY <1>1
  <2> QED BY <2>1 DEF Replay
<1>4. DOMAIN replays = 1..Len(replays) /\ Len(replays) \in Nat
  BY <1>1
<1>5. replays' \in Seq(Replay) /\ \A r \in DOMAIN replays' : replays'[r].todo = <<>>
  <2> DEFINE e(r) == [replays[r] EXCEPT !.todo = <<>>]
  <2>1. \A r \in DOMAIN replays : e(r) \in Replay /\ e(r).todo = <<>>
    BY <1>3
  <2>2. replays' = [r \in DOMAIN replays |-> e(r)]
    BY <1>2
  <2> HIDE DEF e
  <2> QED BY <1>4, <2>1, <2>2
<1>6. DOMAIN <<>> = {}
  OBVIOUS
<1> QED BY <1>5, <1>6 DEF ReplaysSorted, InReplay

(* The frame a replay sends was published on a subject.                    *)
LEMMA NextIsKnown ==
  ASSUME Types, OrderInv, NEW r \in DOMAIN replays, replays[r].todo # <<>>
  PROVE  log[Head(replays[r].todo).msg] \in Subjects
<1> DEFINE a == Head(replays[r].todo)
<1>0. replays[r] \in Replay
  BY DEF OrderInv, ReplaysSorted
<1>1. /\ replays[r].todo \in Seq(Frame) /\ replays[r].stream \in Names
  BY <1>0 DEF Replay
<1>2. a \in Frame /\ \E k \in DOMAIN replays[r].todo : replays[r].todo[k] = a
  BY <1>1
<1>3. Known(replays[r].stream, a)
  BY <1>2 DEF Known, InReplay
<1> HIDE DEF a
<1>4. PICK i \in DOMAIN subs : SeenBy(i, replays[r].stream, a)
  BY <1>1, <1>2, <1>3 DEF OrderInv, KnownSound
<1>5. a.msg \in DOMAIN log /\ log \in Seq(Subjects)
  BY <1>2, <1>4, FrameSeen DEF OrderInv
<1>6. log[a.msg] \in Subjects
  BY <1>5
<1> QED BY <1>6 DEF a

(* A message arrives: it is newer than any other of its subject the        *)
(* subscription has seen, and its time stamp newer than any other.         *)
Received(i, m) ==
  /\ subs[i].valid /\ subs[i].pc = "idle"
  /\ m \in DOMAIN log /\ subs[i].seen < m /\ log[m] = subs[i].subject
  /\ \A k \in DOMAIN log : subs[i].seen < k /\ k < m => log[k] # subs[i].subject
  /\ stamps' = stamps + 1 /\ [msg |-> m, stamp |-> stamps + 1] \in Frame
  /\ UNCHANGED <<time, log, request, streams, writers, files, timers, replays>>
  /\ DOMAIN subs' = DOMAIN subs
  /\ \A k \in DOMAIN subs :
        /\ subs'[k].stream = subs[k].stream /\ subs'[k].subject = subs[k].subject
        /\ subs'[k].from = subs[k].from /\ subs'[k].valid = subs[k].valid
        /\ subs'[k].beside = subs[k].beside
        /\ k # i => subs'[k] = subs[k]
  /\ subs'[i].pc = "lookup" /\ subs'[i].seen = m
  /\ subs'[i].frame = [msg |-> m, stamp |-> stamps + 1]

LEMMA ReceiveIs ==
  ASSUME Types, SubsInv, NEW i \in DOMAIN subs, Receive(i)
  PROVE  \E m \in Nat : Received(i, m)
<1>1. PICK m \in subs[i].seen + 1 .. Len(log) :
        /\ log[m] = subs[i].subject
        /\ \A k \in subs[i].seen + 1 .. m - 1 : log[k] # subs[i].subject
        /\ subs' = [subs EXCEPT ![i] = [@ EXCEPT !.pc = "lookup", !.seen = m,
                                       !.frame = [msg |-> m, stamp |-> stamps + 1]]]
  BY DEF Receive
<1> DEFINE fr == [msg |-> m, stamp |-> stamps + 1]
           r == [subs[i] EXCEPT !.pc = "lookup", !.seen = m, !.frame = fr]
<1>2. /\ subs \in Seq(Subscription) /\ subs[i] \in Subscription /\ stamps \in Nat
      /\ log \in Seq(Subjects)
  BY DEF Types, SubsInv
<1>3. subs[i].seen \in Nat
  BY <1>2 DEF Subscription
<1>4. /\ m \in Nat \ {0} /\ subs[i].seen < m /\ m \in DOMAIN log
      /\ \A k \in DOMAIN log : subs[i].seen < k /\ k < m => k \in subs[i].seen + 1 .. m - 1
  BY <1>2, <1>3
<1>5. fr \in Frame /\ fr = [msg |-> m, stamp |-> stamps + 1]
  BY <1>2, <1>4 DEF Frame
<1> HIDE DEF fr
<1>6. /\ r \in Subscription /\ r.pc = "lookup" /\ r.seen = m /\ r.frame = fr
      /\ r.stream = subs[i].stream /\ r.subject = subs[i].subject
      /\ r.from = subs[i].from /\ r.valid = subs[i].valid /\ r.beside = subs[i].beside
  BY <1>2, <1>4, <1>5 DEF Subscription
<1>7. subs' = [subs EXCEPT ![i] = r]
  BY <1>1, <1>5
<1> HIDE DEF r
<1>8. /\ DOMAIN subs' = DOMAIN subs
      /\ \A k \in DOMAIN subs : subs'[k] = IF k = i THEN r ELSE subs[k]
  BY <1>2, <1>6, <1>7, UpdateSequence
<1>9. /\ UNCHANGED <<time, log, request, streams, writers, files, timers, replays>>
      /\ stamps' = stamps + 1 /\ subs[i].valid /\ subs[i].pc = "idle"
  BY DEF Receive
<1>10. Received(i, m)
  BY <1>1, <1>4, <1>5, <1>6, <1>8, <1>9 DEF Received
<1> QED BY <1>4, <1>10

LEMMA KnownReceive ==
  ASSUME Types, SubsInv, NEW i \in DOMAIN subs, NEW m \in Nat, Received(i, m),
         NEW n, NEW a, Known(n, a)'
  PROVE  Known(n, a) \/ (n = subs[i].stream /\ a = [msg |-> m, stamp |-> stamps + 1])
<1>1. CASE InFile(n, a)'
  BY <1>1 DEF Known, InFile, Received
<1>2. CASE InReplay(n, a)'
  BY <1>2 DEF Known, InReplay, Received
<1>3. CASE InCallback(n, a)'
  <2>1. PICK k \in DOMAIN subs : subs'[k].stream = n /\ subs'[k].pc # "idle" /\ subs'[k].frame = a
    BY <1>3 DEF InCallback, Received
  <2>2. CASE k = i
    BY <2>1, <2>2 DEF Received
  <2>3. CASE k # i
    <3>1. InCallback(n, a)
      BY <2>1, <2>3 DEF InCallback, Received
    <3> QED BY <3>1 DEF Known
  <2> QED BY <2>2, <2>3
<1> QED BY <1>1, <1>2, <1>3 DEF Known

LEMMA SubsReceived ==
  ASSUME Types, SubsInv, NEW i \in DOMAIN subs, NEW m \in Nat, Received(i, m)
  PROVE  SubsInv'
<1>1. SubsSound'
  <2> SUFFICES ASSUME NEW k \in DOMAIN subs
               PROVE  /\ subs'[k].from <= subs'[k].seen /\ subs'[k].seen <= Len(log)
                      /\ subs'[k].pc # "idle" =>
                            /\ subs'[k].frame.msg = subs'[k].seen
                            /\ subs'[k].from < subs'[k].seen
                            /\ log[subs'[k].seen] = subs'[k].subject
    BY DEF SubsSound, Received
  <2>1. CASE k # i
    BY <2>1 DEF SubsInv, SubsSound, Received
  <2>2. CASE k = i
    <3>1. /\ subs[i] \in Subscription /\ log \in Seq(Subjects)
          /\ subs[i].from <= subs[i].seen /\ subs[i].seen < m /\ m \in DOMAIN log
      BY DEF Types, SubsInv, SubsSound, Received
    <3>2. subs[i].from \in Nat /\ subs[i].seen \in Nat
      BY <3>1 DEF Subscription
    <3>3. subs[i].from < m /\ m <= Len(log)
      BY <3>1, <3>2
    <3>4. /\ subs'[i].from = subs[i].from /\ subs'[i].seen = m
          /\ subs'[i].frame = [msg |-> m, stamp |-> stamps + 1]
          /\ subs'[i].subject = subs[i].subject /\ log[m] = subs[i].subject
      BY DEF Received
    <3>5. subs'[i].frame.msg = m
      BY <3>4
    <3>6. subs[i].from <= m
      BY <3>2, <3>3
    <3> QED BY <2>2, <3>3, <3>4, <3>5, <3>6
  <2> QED BY <2>1, <2>2
<1>2. EncodeOwn'
  BY DEF EncodeOwn, SubsInv, Received
<1> QED BY <1>1, <1>2 DEF SubsInv, Received

(* Older frames of the subject are of older messages, or come from another *)
(* subscription that was alive together with this one.                     *)
LEMMA OlderFrame ==
  ASSUME Types, OrderInv, NEW i \in DOMAIN subs, NEW m \in Nat, Received(i, m),
         NEW a \in Frame, Known(subs[i].stream, a), log[a.msg] = subs[i].subject
  PROVE  a.msg < m \/ Overlap(subs[i].stream, subs[i].subject)
<1>1. PICK k \in DOMAIN subs : SeenBy(k, subs[i].stream, a)
  <2>1. subs[i] \in Subscription
    BY DEF Types
  <2>2. subs[i].stream \in Names
    BY <2>1 DEF Subscription
  <2> QED BY <2>2 DEF OrderInv, KnownSound
<1>2. subs[i] \in Subscription /\ subs[k] \in Subscription
  BY DEF Types
<1>3. /\ subs[i].from \in Nat /\ subs[i].seen \in Nat /\ subs[k].seen \in Nat
      /\ subs[k].from \in Nat /\ a.msg \in Nat
  BY <1>2 DEF Subscription, Frame
<1>4. subs[i].valid /\ subs[i].seen < m /\ subs[i].from <= subs[i].seen
  BY DEF Received, OrderInv, SubsSound
<1>5. a.msg <= subs[k].seen
  BY <1>1 DEF SeenBy
<1>6. i \in Nat /\ k \in Nat
  BY DEF Types
<1>7. CASE k = i
  BY <1>3, <1>4, <1>5, <1>7
<1>8. CASE k < i
  <2>1. CASE Successive(k, i)
    <3>1. subs[k].seen <= subs[i].from
      BY <1>8, <2>1 DEF OrderInv, Handover
    <3> QED BY <1>3, <1>4, <1>5, <3>1
  <2>2. CASE ~Successive(k, i)
    BY <1>1, <1>8, <2>2 DEF Overlap, SeenBy
  <2> QED BY <2>1, <2>2
<1>9. CASE i < k
  <2>1. ~Successive(i, k)
    BY <1>4, <1>9 DEF OrderInv, Handover
  <2> QED BY <1>1, <1>9, <2>1 DEF Overlap, SeenBy
<1> QED BY <1>6, <1>7, <1>8, <1>9

LEMMA OrderReceived ==
  ASSUME Types, OrderInv, NEW i \in DOMAIN subs, NEW m \in Nat, Received(i, m)
  PROVE  (KnownSound /\ Handover /\ KnownOrdered)'
<1> DEFINE fr == [msg |-> m, stamp |-> stamps + 1]
<1>0. /\ stamps \in Nat /\ stamps' = stamps + 1 /\ log' = log /\ DOMAIN subs' = DOMAIN subs
      /\ fr.msg = m /\ fr.stamp = stamps + 1 /\ SubsInv
      /\ \A k \in DOMAIN subs : subs[k].seen \in Nat /\ subs[k].from \in Nat
  <2>1. \A k \in DOMAIN subs : subs[k] \in Subscription
    BY DEF Types
  <2>2. \A k \in DOMAIN subs : subs[k].seen \in Nat /\ subs[k].from \in Nat
    BY <2>1 DEF Subscription
  <2> QED BY <2>2 DEF Types, Received, OrderInv, SubsInv
<1>1. ASSUME NEW n \in Names, NEW a \in Frame, Known(n, a)'
      PROVE  Known(n, a) \/ (n = subs[i].stream /\ a = fr)
  BY <1>0, <1>1, KnownReceive
<1>2. ASSUME NEW n, NEW a \in Frame, NEW k \in DOMAIN subs, SeenBy(k, n, a)
      PROVE  SeenBy(k, n, a)'
  <2>1. CASE k # i
    BY <1>2, <2>1 DEF SeenBy, Received
  <2>2. CASE k = i
    <3>1. /\ subs'[i].seen = m /\ subs[i].seen < m /\ a.msg <= subs[i].seen /\ a.msg \in Nat
      BY <1>2, <2>2 DEF SeenBy, Received, Frame
    <3>2. a.msg <= subs'[i].seen
      BY <1>0, <3>1
    <3> QED BY <1>2, <2>2, <3>2 DEF SeenBy, Received
  <2> QED BY <2>1, <2>2
<1>3. ASSUME NEW n, NEW a, n = subs[i].stream, a = fr
      PROVE  SeenBy(i, n, a)'
  <2>1. /\ subs'[i].seen = m /\ subs[i].seen < m /\ subs[i].from <= subs[i].seen
        /\ log[m] = subs[i].subject /\ fr \in Frame
        /\ subs'[i].stream = subs[i].stream /\ subs'[i].subject = subs[i].subject
        /\ subs'[i].from = subs[i].from
    BY DEF Received, OrderInv, SubsSound
  <2>2. subs'[i].from < m /\ m <= subs'[i].seen
    BY <1>0, <2>1
  <2> QED BY <1>0, <1>3, <2>1, <2>2 DEF SeenBy
<1> HIDE DEF fr
<1>4. KnownSound'
  <2> SUFFICES ASSUME NEW n \in Names, NEW a \in Frame, Known(n, a)'
               PROVE  a.stamp <= stamps' /\ \E k \in DOMAIN subs' : SeenBy(k, n, a)'
    BY DEF KnownSound
  <2>1. CASE Known(n, a)
    <3>1. a.stamp <= stamps /\ \E k \in DOMAIN subs : SeenBy(k, n, a)
      BY <2>1 DEF OrderInv, KnownSound
    <3>2. a.stamp \in Nat
      BY DEF Frame
    <3>3. a.stamp <= stamps'
      BY <1>0, <3>1, <3>2
    <3> QED BY <1>0, <1>2, <3>1, <3>3
  <2>2. CASE n = subs[i].stream /\ a = fr
    <3>1. a.stamp <= stamps'
      BY <1>0, <2>2
    <3>2. SeenBy(i, n, a)' /\ i \in DOMAIN subs'
      BY <1>0, <1>3, <2>2
    <3> QED BY <3>1, <3>2
  <2> QED BY <1>1, <2>1, <2>2
<1>5. Handover'
  <2> SUFFICES ASSUME NEW j \in DOMAIN subs, NEW k \in DOMAIN subs, j < k,
                      j \notin subs'[k].beside
               PROVE  ~subs'[j].valid /\ subs'[j].seen <= subs'[k].from
    BY <1>0 DEF Handover, Successive
  <2>1. ~subs[j].valid /\ subs[j].seen <= subs[k].from
    BY DEF OrderInv, Handover, Successive, Received
  <2>2. j # i
    BY <2>1 DEF Received
  <2> QED BY <2>1, <2>2 DEF Received
<1>6. ASSUME NEW n, NEW s, Overlap(n, s)
      PROVE  Overlap(n, s)'
  BY <1>0, <1>6 DEF Overlap, Successive, Received
<1>7. ASSUME NEW n \in Names, NEW a \in Frame, NEW b \in Frame, Known(n, a)', Known(n, b)'
      PROVE  /\ a.stamp = b.stamp => a = b
             /\ a.stamp < b.stamp /\ log[a.msg] = log[b.msg] => InOrder(n, a, b)'
  <2>0. a.stamp \in Nat /\ b.stamp \in Nat
    BY DEF Frame
  <2>1. Known(n, a) => a.stamp <= stamps
    BY DEF OrderInv, KnownSound
  <2>2. Known(n, b) => b.stamp <= stamps
    BY DEF OrderInv, KnownSound
  <2>3. CASE Known(n, a) /\ Known(n, b)
    <3>1. InOrder(n, a, b) => InOrder(n, a, b)'
      BY <1>0, <1>6 DEF InOrder
    <3> QED BY <2>3, <3>1 DEF OrderInv, KnownOrdered
  <2>4. CASE a = fr /\ b = fr
    BY <1>0, <2>4
  <2>5. CASE a = fr /\ Known(n, b)
    <3>1. b.stamp <= stamps /\ a.stamp = stamps + 1
      BY <1>0, <2>2, <2>5
    <3> QED BY <1>0, <2>0, <3>1
  <2>6. CASE Known(n, a) /\ b = fr /\ n = subs[i].stream
    <3>1. a.stamp <= stamps /\ b.stamp = stamps + 1 /\ b.msg = m
      BY <1>0, <2>1, <2>6
    <3>2. a.stamp # b.stamp
      BY <1>0, <2>0, <3>1
    <3>3. log[b.msg] = subs[i].subject
      BY <3>1 DEF Received
    <3>4. ASSUME log[a.msg] = log[b.msg] PROVE InOrder(n, a, b)'
      <4>1. a.msg < b.msg \/ Overlap(n, log[a.msg])
        BY <2>6, <3>1, <3>3, <3>4, OlderFrame
      <4> QED BY <1>0, <1>6, <4>1 DEF InOrder
    <3> QED BY <3>2, <3>4
  <2> QED BY <1>1, <1>7, <2>3, <2>4, <2>5, <2>6
<1>8. KnownOrdered'
  BY <1>0, <1>7 DEF KnownOrdered
<1> QED BY <1>4, <1>5, <1>8

(* Every step keeps the invariant.                                         *)
LEMMA OrderInit == Init => OrderInv
<1> SUFFICES ASSUME Init PROVE OrderInv
  OBVIOUS
<1>1. <<>> \in Seq(Subjects) /\ <<>> \in Seq(Replay) /\ DOMAIN <<>> = {}
  OBVIOUS
<1>2. \A n, a : ~Known(n, a)
  <2>1. \A f \in DOMAIN files : files[f] = <<>>
    BY DEF Init
  <2>2. \A n, a : ~InFile(n, a)
    BY <1>1, <2>1 DEF InFile
  <2>3. \A n, a : ~InCallback(n, a) /\ ~InReplay(n, a)
    BY <1>1 DEF Init, InCallback, InReplay
  <2> QED BY <2>2, <2>3 DEF Known
<1> QED BY <1>1, <1>2 DEF Init, OrderInv, SubsSound, EncodeOwn, ReplaysSorted, KnownSound,
                          Handover, KnownOrdered

LEMMA OrderStep ==
  ASSUME Types, OrderInv, Types', NoNewFrames, SubsInv', ReplaysSorted'
  PROVE  OrderInv'
BY OrderKept DEF OrderInv, SubsInv

(* The steps that leave subscriptions, time stamps and replays alone.      *)
LEMMA OrderQuiet ==
  ASSUME Types, MapInv, OrderInv, Types', WritersStay, LogGrows, FilesEmptied,
         UNCHANGED <<subs, stamps>>, ReplaysSorted',
         \A n \in Names, a \in Frame : InReplay(n, a)' => Known(n, a)
  PROVE  OrderInv'
<1>1. NoNewFrames
  BY QuietFrames
<1>2. SubsInv'
  BY SubsQuiet DEF OrderInv, SubsInv
<1> QED BY <1>1, <1>2, OrderStep

LEMMA OrderStill ==
  ASSUME Types, MapInv, OrderInv, Types', WritersStay, log' = log, FilesEmptied,
         UNCHANGED <<subs, stamps, replays>>
  PROVE  OrderInv'
<1>1. LogGrows
  BY LogSame DEF OrderInv
<1>2. ReplaysSorted'
  BY DEF OrderInv, ReplaysSorted
<1> QED BY <1>1, <1>2, ReplaysSame, OrderQuiet

LEMMA OrderSubs ==
  ASSUME Types, OrderInv, Types', log' = log, FilesEmptied, UNCHANGED <<stamps, replays>>,
         SubsInv', Evolve, \A n, a : InCallback(n, a)' => InCallback(n, a)
  PROVE  OrderInv'
<1>1. NoNewFrames
  BY ReplaysSame, SubsFrames DEF OrderInv, SubsInv
<1>2. ReplaysSorted'
  BY DEF OrderInv, ReplaysSorted
<1> QED BY <1>1, <1>2, OrderStep

LEMMA OrderNext ==
  ASSUME Types, MapInv, OrderInv, Next
  PROVE  OrderInv'
<1>0. Types' /\ WritersStay /\ SubsInv
  BY TypesNext, WritersNext DEF OrderInv, SubsInv
<1>1. ASSUME NEW name \in Names, NEW subjects \in Requests, NEW d \in Durations,
             CreateFile(name, subjects, d)
      PROVE  OrderInv'
  <2>1. FilesEmptied
    BY <1>1, EmptiedFiles DEF CreateFile, OpenFile
  <2> QED BY <1>0, <1>1, <2>1, OrderStill DEF CreateFile, OpenFile
<1>2. ASSUME Subscribe PROVE OrderInv'
  <2>1. UNCHANGED <<log, stamps, replays, files>> /\ FilesEmptied
    BY <1>2, FilesSame DEF Subscribe
  <2>2. SubsInv' /\ Evolve /\ \A n, a : InCallback(n, a)' => InCallback(n, a)
    BY <1>0, <1>2, SubsSubscribe
  <2> QED BY <1>0, <2>1, <2>2, OrderSubs
<1>3. ASSUME SubscribeFails PROVE OrderInv'
  <2>1. UNCHANGED <<log, stamps, replays>> /\ FilesEmptied
    BY <1>3, EmptiedFiles DEF SubscribeFails
  <2>2. SubsInv' /\ Evolve /\ \A n, a : InCallback(n, a)' => InCallback(n, a)
    BY <1>0, <1>3, SubsSubscribeFails
  <2> QED BY <1>0, <2>1, <2>2, OrderSubs
<1>4. ASSUME Register PROVE OrderInv'
  BY <1>0, <1>4, FilesSame, OrderStill DEF Register
<1>5. ASSUME NEW i \in DOMAIN subs, Receive(i) PROVE OrderInv'
  <2>1. PICK m \in Nat : Received(i, m)
    BY <1>0, <1>5, ReceiveIs
  <2>2. (KnownSound /\ Handover /\ KnownOrdered)' /\ SubsInv'
    BY <1>0, <2>1, OrderReceived, SubsReceived
  <2>3. ReplaysSorted'
    BY <2>1 DEF OrderInv, ReplaysSorted, Received
  <2> QED BY <2>2, <2>3 DEF OrderInv, SubsInv
<1>6. ASSUME NEW i \in DOMAIN subs, Lookup(i) PROVE OrderInv'
  <2>1. UNCHANGED <<log, stamps, replays>> /\ FilesEmptied
    BY <1>6, FilesSame DEF Lookup
  <2>2. SubsInv' /\ Evolve /\ \A n, a : InCallback(n, a)' => InCallback(n, a)
    BY <1>0, <1>6, SubsLookup
  <2> QED BY <1>0, <2>1, <2>2, OrderSubs
<1>7. ASSUME NEW i \in DOMAIN subs, Encode(i) PROVE OrderInv'
  <2>1. NoNewFrames /\ SubsInv'
    BY <1>0, <1>7, FramesEncode
  <2>2. ReplaysSorted'
    BY <1>7 DEF Encode, OrderInv, ReplaysSorted
  <2> QED BY <1>0, <2>1, <2>2, OrderStep
<1>8. ASSUME NEW i \in DOMAIN subs, EncodeFails(i) PROVE OrderInv'
  <2>1. UNCHANGED <<log, stamps, replays>> /\ FilesEmptied /\ CallbackDone(i)
    BY <1>8, FilesSame DEF EncodeFails
  <2>2. SubsInv' /\ Evolve /\ \A n, a : InCallback(n, a)' => InCallback(n, a)
    BY <1>0, <2>1, SubsDone
  <2> QED BY <1>0, <2>1, <2>2, OrderSubs
<1>9. ASSUME NEW t \in timers, CloseStream(t) PROVE OrderInv'
  BY <1>0, <1>9, FilesSame, OrderStill DEF CloseStream, CloseFile
<1>10. ASSUME NEW t \in timers, CloseFails(t) PROVE OrderInv'
  BY <1>0, <1>10, FilesSame, OrderStill DEF CloseFails
<1>11. ASSUME NEW name \in Names, StartReplay(name) PROVE OrderInv'
  <2>1. /\ ReplaysSorted'
        /\ \A n \in Names, a \in Frame : InReplay(n, a)' => Known(n, a)
    BY <1>11, ReplaysStart
  <2>2. UNCHANGED <<log, stamps, subs>> /\ FilesEmptied
    BY <1>11, FilesSame DEF StartReplay
  <2>3. LogGrows
    BY <2>2, LogSame DEF OrderInv
  <2> QED BY <1>0, <2>1, <2>2, <2>3, OrderQuiet
<1>12. ASSUME NEW r \in DOMAIN replays, PublishFrame(r) PROVE OrderInv'
  <2>1. /\ replays[r].todo # <<>> /\ replays' = [replays EXCEPT ![r].todo = Tail(@)]
        /\ log' = Append(log, log[Head(replays[r].todo).msg])
        /\ UNCHANGED <<stamps, subs>> /\ FilesEmptied
    BY <1>12, FilesSame DEF PublishFrame
  <2>2. /\ ReplaysSorted'
        /\ \A n \in Names, a \in Frame : InReplay(n, a)' => Known(n, a)
    BY <2>1, ReplaysTail
  <2>3. LogGrows
    <3>1. log[Head(replays[r].todo).msg] \in Subjects
      BY <2>1, NextIsKnown
    <3> QED BY <2>1, <3>1, LogAppend DEF OrderInv
  <2> QED BY <1>0, <2>1, <2>2, <2>3, OrderQuiet
<1>13. ASSUME NEW r \in DOMAIN replays, PublishFrameFails(r) PROVE OrderInv'
  <2>1. /\ replays[r].todo # <<>> /\ replays' = [replays EXCEPT ![r].todo = Tail(@)]
        /\ UNCHANGED <<log, stamps, subs>> /\ FilesEmptied
    BY <1>13, FilesSame DEF PublishFrameFails
  <2>2. /\ ReplaysSorted'
        /\ \A n \in Names, a \in Frame : InReplay(n, a)' => Known(n, a)
    BY <2>1, ReplaysTail
  <2>3. LogGrows
    BY <2>1, LogSame DEF OrderInv
  <2> QED BY <1>0, <2>1, <2>2, <2>3, OrderQuiet
<1>14. ASSUME NEW s \in Subjects, Publish(s) PROVE OrderInv'
  <2>1. UNCHANGED <<stamps, subs, replays>> /\ FilesEmptied
    BY <1>14, FilesSame DEF Publish
  <2>2. LogGrows
    BY <1>14, LogAppend DEF Publish, OrderInv
  <2>3. ReplaysSorted'
    BY <2>1 DEF OrderInv, ReplaysSorted
  <2> QED BY <1>0, <2>1, <2>2, <2>3, ReplaysSame, OrderQuiet
<1>15. ASSUME Elapse PROVE OrderInv'
  BY <1>0, <1>15, FilesSame, OrderStill DEF Elapse
<1>16. ASSUME Restart PROVE OrderInv'
  <2>1. UNCHANGED <<log, stamps>> /\ FilesEmptied
    BY <1>16, FilesSame DEF Restart
  <2>2. SubsInv' /\ Evolve /\ \A n, a : ~InCallback(n, a)'
    BY <1>0, <1>16, SubsRestart
  <2>3. /\ ReplaysSorted'
        /\ \A n \in Names, a \in Frame : InReplay(n, a)' => Known(n, a)
    BY <1>16, ReplaysRestart
  <2>4. NoNewFrames
    BY <1>0, <2>1, <2>2, <2>3, SubsFrames
  <2> QED BY <1>0, <2>2, <2>3, <2>4, OrderStep
<1> QED
  BY <1>1, <1>2, <1>3, <1>4, <1>5, <1>6, <1>7, <1>8, <1>9, <1>10, <1>11, <1>12, <1>13,
     <1>14, <1>15, <1>16, Steps

LEMMA OrderStutter ==
  ASSUME Types, OrderInv, UNCHANGED vars
  PROVE  OrderInv'
BY DEF vars, OrderInv, SubsSound, EncodeOwn, ReplaysSorted, KnownSound, Handover, KnownOrdered,
       Known, InFile, InCallback, InReplay, SeenBy, InOrder, Overlap, Successive

LEMMA OrderAlways == Spec => [](Types /\ MapInv /\ OrderInv)
<1>1. Init => OrderInv
  BY OrderInit
<1>2. Types /\ MapInv /\ OrderInv /\ [Next]_vars => OrderInv'
  BY OrderNext, OrderStutter
<1> QED BY <1>1, <1>2, Inductive, PTL DEF Spec

(* The types of the recorder's variables, for every name, subject, request,*)
(* duration and bound: a request in progress has found its name free, a    *)
(* callback about to write holds a frame for a writer that exists, and the *)
(* log has subjects only, those a replay publishes included.               *)
THEOREM TypeCorrect == Spec => []TypeOK
<1>1. Types /\ MapInv /\ OrderInv => TypeOK
  <2> SUFFICES ASSUME Types, MapInv, OrderInv PROVE TypeOK
    OBVIOUS
  <2>1. streams \in [Names -> 0..Len(writers)]
    <3>1. ASSUME NEW n \in Names PROVE streams[n] \in 0..Len(writers)
      <4>1. DOMAIN writers = 1..Len(writers) /\ Len(writers) \in Nat
        BY DEF Types
      <4>2. streams[n] = 0 \/ streams[n] \in DOMAIN writers
        BY DEF MapInv
      <4> QED BY <4>1, <4>2
    <3> QED BY <3>1 DEF Types
  <2>2. \A i \in DOMAIN subs : subs[i].pc = "encode" => subs[i].frame \in Frame
    BY DEF Types
  <2> QED BY <2>1, <2>2 DEF Types, MapInv, OrderInv, TypeOK
<1> QED BY <1>1, OrderAlways, PTL

(* A replay sends the messages of a subject in the order they were         *)
(* published, whatever files, requests, failures and restarts they were    *)
(* recorded through, for any number of subscriptions of the stream to the  *)
(* subject of which each had ended when the next was made: it had seen     *)
(* nothing a later one gets, so time stamps order messages as the log does.*)
THEOREM ReplaysInOrder == Spec => []ReplayInOrder
<1>1. OrderInv => ReplayInOrder
  <2> SUFFICES ASSUME OrderInv, NEW r \in DOMAIN replays,
                      NEW j \in DOMAIN replays[r].todo, NEW k \in DOMAIN replays[r].todo,
                      j < k, log[replays[r].todo[j].msg] = log[replays[r].todo[k].msg],
                      ~Overlap(replays[r].stream, log[replays[r].todo[j].msg])
               PROVE  replays[r].todo[j].msg < replays[r].todo[k].msg
    BY DEF ReplayInOrder, Overlap
  <2> DEFINE a == replays[r].todo[j]
             b == replays[r].todo[k]
             n == replays[r].stream
  <2>1. replays[r] \in Replay
    BY DEF OrderInv, ReplaysSorted
  <2>2. a \in Frame /\ b \in Frame /\ n \in Names
    BY <2>1 DEF Replay
  <2>3. Known(n, a) /\ Known(n, b)
    BY DEF Known, InReplay
  <2>4. a.stamp < b.stamp
    BY DEF OrderInv, ReplaysSorted
  <2>5. log[a.msg] = log[b.msg] /\ ~Overlap(n, log[a.msg])
    OBVIOUS
  <2> HIDE DEF a, b, n
  <2>6. a.msg < b.msg
    BY <2>2, <2>3, <2>4, <2>5 DEF OrderInv, KnownOrdered, InOrder
  <2> QED BY <2>6 DEF a, b
<1> QED BY <1>1, OrderAlways, PTL
==============================================================================
