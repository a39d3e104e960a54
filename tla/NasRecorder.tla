---------------------------- MODULE NasRecorder -----------------------------
(***************************************************************************)
(* Recording and replay of telemetry (nas/recorder.go, nas/replay.go,      *)
(* nas/service.go).                                                        *)
(*                                                                         *)
(* The actors are goroutines: the one of the nas.record subscription, one  *)
(* for each recording subscription, one for each timer of a recording and  *)
(* one for each replay.  r.mu is held for writing by RecordTelemetry while *)
(* request is not Idle, and by CloseStream within a single step; WriteFrame*)
(* holds it for reading for its lookup only.                               *)
(*                                                                         *)
(* log is what NATS has carried on the recordable subjects, whoever sent   *)
(* it; a message is its position there.  A subscription gets the messages  *)
(* of its subject from the moment it was made, in order, one at a time.    *)
(* A file that does not exist has the same contents as an empty one.       *)
(***************************************************************************)
EXTENDS Integers, Sequences, SequencesExt, FiniteSets

CONSTANTS
  Names,          \* stream names
  Requests,       \* lists of subjects a request may ask for, without repetition
  Subjects,       \* the subjects of those lists
  Durations,      \* durations a request may ask for; 0 is no limit
  PerSecond,      \* units of time in a second, the resolution of file names
  RestartDelay,   \* least time from the end of a process to its successor
  MaxTime,        \* bound: time
  MaxRecordings,  \* bound: requests to record
  MaxMessages,    \* bound: messages from the rest of the system
  MaxReplays,     \* bound: replays
  MaxRestarts     \* bound: restarts of the service

ASSUME NasConstants ==
  /\ Durations \subseteq Nat /\ PerSecond \in Nat \ {0} /\ RestartDelay \in Nat
  /\ \A r \in Requests : r \in Seq(Subjects) /\ IsInjective(r)
  /\ {MaxTime, MaxRecordings, MaxMessages, MaxReplays, MaxRestarts} \subseteq Nat

(* Long recordings only: neither a duration nor a restart is shorter than  *)
(* the resolution of the file names.                                       *)
Coarse == RestartDelay >= PerSecond /\ \A d \in Durations : d = 0 \/ d >= PerSecond

VARIABLES
  time,      \* the clock of file names and timers
  stamps,    \* the clock of frames: how many time stamps were taken
  log,       \* the subject of every message
  request,   \* the RecordTelemetry call in progress, or Idle
  streams,   \* r.streams: the writer of each name, 0 when there is none
  writers,   \* every StreamWriter made, with its file and its recording
  subs,      \* every subscription made, with its callback in progress
  files,     \* the frames in each file; a file is a name and a second
  timers,    \* the pending AfterFunc of RecordTelemetry
  replays,   \* the replays, with the frames still to publish
  recordings, restarts   \* counters for the bounds

vars == <<time, stamps, log, request, streams, writers, subs, files, timers,
          replays, recordings, restarts>>

Idle == [stream |-> "no request"]
Busy == request # Idle

(* The second in which a recording starts is in the name of its file.      *)
\* Mutant: the format of the name ends with the minute.
MinuteOf(t) == t \div (60 * PerSecond)
SecondOf(t) == t \div PerSecond

------------------------------------------------------------------------------
(* RecordTelemetry, one step for each effect another goroutine can see.    *)

(* os.Create empties a file of that name.                                  *)
OpenFile(name, subjects, duration) ==
  LET f == <<name, SecondOf(time)>> IN
  /\ request' = [stream |-> name, todo |-> subjects, asked |-> subjects,
                 file |-> f, duration |-> duration, first |-> Len(subs) + 1]
  /\ files' = [files EXCEPT ![f] = <<>>]
  /\ recordings' = recordings + 1
  /\ UNCHANGED <<time, stamps, log, streams, writers, subs, timers, replays, restarts>>

\* Mutant: a name that is being recorded is not refused.
CreateFileUnchecked(name, subjects, duration) ==
  /\ ~Busy /\ recordings < MaxRecordings /\ time <= MaxTime
  /\ OpenFile(name, subjects, duration)

(* Take the lock, refuse a name that is being recorded, create the file.   *)
CreateFile(name, subjects, duration) ==
  /\ ~Busy /\ recordings < MaxRecordings /\ time <= MaxTime
  /\ streams[name] = 0
  /\ OpenFile(name, subjects, duration)

NoFrame == [msg |-> 0, stamp |-> 0]

(* nc.Subscribe for the next subject; messages come from now on.  Which    *)
(* others are alive is remembered for ReplayInOrder.                       *)
Subscribe ==
  /\ Busy /\ request.todo # <<>>
  /\ subs' = Append(subs, [stream |-> request.stream, subject |-> Head(request.todo),
                           from |-> Len(log), seen |-> Len(log), valid |-> TRUE,
                           beside |-> {i \in DOMAIN subs : subs[i].valid},
                           pc |-> "idle", frame |-> NoFrame, writer |-> 0])
  /\ request' = [request EXCEPT !.todo = Tail(request.todo)]
  /\ UNCHANGED <<time, stamps, log, streams, writers, files, timers, replays,
                 recordings, restarts>>

\* Mutant: the earlier subscriptions of the request are kept.
SubscribeFailsKeeping ==
  /\ Busy /\ request.todo # <<>>
  /\ files' = [files EXCEPT ![request.file] = <<>>]
  /\ request' = Idle
  /\ UNCHANGED <<time, stamps, log, streams, writers, subs, timers, replays,
                 recordings, restarts>>

(* nc.Subscribe fails: undo the earlier ones and remove the file.          *)
SubscribeFails ==
  /\ Busy /\ request.todo # <<>>
  /\ subs' = [i \in DOMAIN subs |->
                IF i >= request.first THEN [subs[i] EXCEPT !.valid = FALSE] ELSE subs[i]]
  /\ files' = [files EXCEPT ![request.file] = <<>>]
  /\ request' = Idle
  /\ UNCHANGED <<time, stamps, log, streams, writers, timers, replays, recordings,
                 restarts>>

(* Enter the writer into r.streams, start the timer and release the lock.  *)
Register ==
  /\ Busy /\ request.todo = <<>>
  /\ writers' = Append(writers, [stream |-> request.stream, subjects |-> request.asked,
                                 file |-> request.file, first |-> request.first,
                                 timed |-> request.duration > 0,
                                 open |-> TRUE, broken |-> FALSE, stuck |-> FALSE])
  /\ streams' = [streams EXCEPT ![request.stream] = Len(writers) + 1]
  /\ timers' = IF request.duration > 0
                 THEN timers \cup {[stream |-> request.stream,
                                    at |-> time + request.duration]}
                 ELSE timers
  /\ request' = Idle
  /\ UNCHANGED <<time, stamps, log, subs, files, replays, recordings, restarts>>

------------------------------------------------------------------------------
(* The goroutine of subscription i.                                        *)

(* The callback begins with the next message and takes its time stamp.     *)
Receive(i) ==
  /\ subs[i].valid /\ subs[i].pc = "idle"
  /\ \E m \in subs[i].seen + 1 .. Len(log) :
       /\ log[m] = subs[i].subject
       /\ \A k \in subs[i].seen + 1 .. m - 1 : log[k] # subs[i].subject
       /\ subs' = [subs EXCEPT ![i] = [@ EXCEPT
                        !.pc = "lookup", !.seen = m,
                        !.frame = [msg |-> m, stamp |-> stamps + 1]]]
  /\ stamps' = stamps + 1
  /\ UNCHANGED <<time, log, request, streams, writers, files, timers, replays,
                 recordings, restarts>>

LookedUp(i) ==
  subs' = IF streams[subs[i].stream] = 0
            THEN [subs EXCEPT ![i] = [@ EXCEPT !.pc = "idle", !.frame = NoFrame]]
            ELSE [subs EXCEPT ![i] = [@ EXCEPT !.pc = "encode",
                                               !.writer = streams[subs[i].stream]]]

\* Mutant: the map is read without the lock.
LookupUnlocked(i) ==
  /\ subs[i].pc = "lookup"
  /\ LookedUp(i)
  /\ UNCHANGED <<time, stamps, log, request, streams, writers, files, timers,
                 replays, recordings, restarts>>

(* WriteFrame looks its stream up by name, under the read lock.            *)
Lookup(i) ==
  /\ subs[i].pc = "lookup" /\ ~Busy
  /\ LookedUp(i)
  /\ UNCHANGED <<time, stamps, log, request, streams, writers, files, timers,
                 replays, recordings, restarts>>

CallbackDone(i) ==
  subs' = [subs EXCEPT ![i] = [@ EXCEPT !.pc = "idle", !.frame = NoFrame, !.writer = 0]]

(* One line is written, unless the file was closed meanwhile or an earlier *)
(* write failed: a json.Encoder keeps its first error.                     *)
Encode(i) ==
  /\ subs[i].pc = "encode"
  /\ LET w == writers[subs[i].writer] IN
       files' = IF w.open /\ ~w.broken
                  THEN [files EXCEPT ![w.file] = Append(@, subs[i].frame)]
                  ELSE files
  /\ CallbackDone(i)
  /\ UNCHANGED <<time, stamps, log, request, streams, writers, timers, replays,
                 recordings, restarts>>

(* The write fails; nothing is written and nothing will be.                *)
EncodeFails(i) ==
  /\ subs[i].pc = "encode"
  /\ writers' = [writers EXCEPT ![subs[i].writer] = [@ EXCEPT !.broken = TRUE]]
  /\ CallbackDone(i)
  /\ UNCHANGED <<time, stamps, log, request, streams, files, timers, replays,
                 recordings, restarts>>

------------------------------------------------------------------------------
(* The timer of a recording closes its stream, by name.                    *)
Expired(t) == t \in timers /\ t.at <= time /\ ~Busy

CloseFile(t) ==
  /\ Expired(t)
  /\ timers' = timers \ {t}
  /\ writers' = IF streams[t.stream] = 0 THEN writers
                ELSE [writers EXCEPT ![streams[t.stream]] = [@ EXCEPT !.open = FALSE]]
  /\ UNCHANGED <<time, stamps, log, request, subs, files, replays, recordings,
                 restarts>>

\* Mutant: the entry is left in the map.
CloseStreamKeepsEntry(t) == CloseFile(t) /\ streams' = streams

(* The subscriptions are not cancelled: the ones r.subs keeps are valid.   *)
CloseStream(t) == CloseFile(t) /\ streams' = [streams EXCEPT ![t.stream] = 0]

(* file.Close reports an error: the name stays in the map for good.        *)
CloseFails(t) ==
  /\ Expired(t) /\ streams[t.stream] # 0
  /\ timers' = timers \ {t}
  /\ writers' = [writers EXCEPT ![streams[t.stream]] = [@ EXCEPT !.open = FALSE,
                                                              !.stuck = TRUE]]
  /\ UNCHANGED <<time, stamps, log, request, streams, subs, files, replays,
                 recordings, restarts>>

------------------------------------------------------------------------------
(* ReplayStream.  The directory is read before the first frame is sent.    *)
FramesOf(name) == UNION {ToSet(files[f]) : f \in {g \in DOMAIN files : g[1] = name}}

Arrangements(S) == [1 .. Cardinality(S) -> S]

\* Mutant: the newest frame goes first.
NewestFirst(name) ==
  CHOOSE s \in Arrangements(FramesOf(name)) :
    \A j, k \in DOMAIN s : j < k => s[j].stamp > s[k].stamp

(* The frames in the order of their time stamps; no two have the same one. *)
ReadFrames(name) ==
  CHOOSE s \in Arrangements(FramesOf(name)) :
    \A j, k \in DOMAIN s : j < k => s[j].stamp < s[k].stamp

StartReplay(name) ==
  /\ Len(replays) < MaxReplays
  /\ FramesOf(name) # {}
  /\ replays' = Append(replays, [stream |-> name, todo |-> ReadFrames(name)])
  /\ UNCHANGED <<time, stamps, log, request, streams, writers, subs, files, timers,
                 recordings, restarts>>

(* The next frame goes out on the subject it came from, when its time has  *)
(* come; the recordings of that subject get it as any other message.       *)
PublishFrame(r) ==
  /\ replays[r].todo # <<>>
  /\ log' = Append(log, log[Head(replays[r].todo).msg])
  /\ replays' = [replays EXCEPT ![r].todo = Tail(@)]
  /\ UNCHANGED <<time, stamps, request, streams, writers, subs, files, timers,
                 recordings, restarts>>

(* An error of Publish is logged and the replay goes on.                   *)
PublishFrameFails(r) ==
  /\ replays[r].todo # <<>>
  /\ replays' = [replays EXCEPT ![r].todo = Tail(@)]
  /\ UNCHANGED <<time, stamps, log, request, streams, writers, subs, files, timers,
                 recordings, restarts>>

------------------------------------------------------------------------------
(* Another service publishes.                                              *)
Publish(subject) ==
  /\ Len(log) < MaxMessages
  /\ log' = Append(log, subject)
  /\ UNCHANGED <<time, stamps, request, streams, writers, subs, files, timers,
                 replays, recordings, restarts>>

Elapse ==
  /\ time < MaxTime \/ \E t \in timers : time < t.at
  /\ time' = time + 1
  /\ UNCHANGED <<stamps, log, request, streams, writers, subs, files, timers,
                 replays, recordings, restarts>>

(* The process ends, at any point, and a new one starts: the files stay.   *)
Restart ==
  /\ restarts < MaxRestarts /\ time + RestartDelay <= MaxTime
  /\ restarts' = restarts + 1
  /\ time' = time + RestartDelay
  /\ request' = Idle
  /\ streams' = [n \in Names |-> 0]
  /\ writers' = [w \in DOMAIN writers |-> [writers[w] EXCEPT !.open = FALSE]]
  /\ subs' = [i \in DOMAIN subs |->
                [subs[i] EXCEPT !.valid = FALSE, !.pc = "idle", !.frame = NoFrame,
                                !.writer = 0]]
  /\ timers' = {}
  /\ replays' = [r \in DOMAIN replays |-> [replays[r] EXCEPT !.todo = <<>>]]
  /\ UNCHANGED <<stamps, log, files, recordings>>

Init ==
  /\ time = 0 /\ stamps = 0 /\ log = <<>> /\ request = Idle
  /\ streams = [n \in Names |-> 0] /\ writers = <<>> /\ subs = <<>>
  /\ files = [f \in Names \X (0..MaxTime) |-> <<>>]
  /\ timers = {} /\ replays = <<>> /\ recordings = 0 /\ restarts = 0

RequestStep == Subscribe \/ SubscribeFails \/ Register
Callback(i) == Receive(i) \/ Lookup(i) \/ Encode(i) \/ EncodeFails(i)
Timer(t) == CloseStream(t) \/ CloseFails(t)
Replaying(r) == PublishFrame(r) \/ PublishFrameFails(r)

Next ==
  \/ \E name \in Names, subjects \in Requests, d \in Durations :
        CreateFile(name, subjects, d)
  \/ RequestStep
  \/ \E i \in DOMAIN subs : Callback(i)
  \/ \E t \in timers : Timer(t)
  \/ \E name \in Names : StartReplay(name)
  \/ \E r \in DOMAIN replays : Replaying(r)
  \/ \E subject \in Subjects : Publish(subject)
  \/ Elapse \/ Restart

Spec == Init /\ [][Next]_vars

(* Goroutines that can run do, and time passes.                            *)
FairSpec ==
  /\ Spec
  /\ WF_vars(RequestStep) /\ WF_vars(Elapse)
  /\ WF_vars(\E t \in timers : Timer(t))
  /\ WF_vars(\E r \in DOMAIN replays : Replaying(r))

------------------------------------------------------------------------------
Frame == [msg : Nat \ {0}, stamp : Nat \ {0}]
Subscription ==
  [stream : Names, subject : Subjects, from : Nat, seen : Nat, valid : BOOLEAN,
   beside : SUBSET Nat, pc : {"idle", "lookup", "encode"},
   frame : Frame \cup {NoFrame}, writer : Nat]
Writer ==
  [stream : Names, subjects : Requests, file : Names \X Nat, first : Nat \ {0},
   timed : BOOLEAN, open : BOOLEAN, broken : BOOLEAN, stuck : BOOLEAN]
Request ==
  [stream : Names, todo : Seq(Subjects), asked : Requests, file : Names \X Nat,
   duration : Durations, first : Nat \ {0}]

(* The types of the variables; a request in progress is for a free name,   *)
(* and a frame about to be written is a frame of a known writer.           *)
TypeOK ==
  /\ time \in Nat /\ stamps \in Nat /\ log \in Seq(Subjects)
  /\ streams \in [Names -> 0..Len(writers)]
  /\ writers \in Seq(Writer) /\ subs \in Seq(Subscription)
  /\ files \in [Names \X (0..MaxTime) -> Seq(Frame)]
  /\ timers \subseteq [stream : Names, at : Nat]
  /\ Busy => request \in Request /\ streams[request.stream] = 0
  /\ \A i \in DOMAIN subs :
        subs[i].pc = "encode" => subs[i].frame \in Frame /\ subs[i].writer \in DOMAIN writers

(* Two recordings in progress never write to one file, so their lines are  *)
(* never interleaved; and a name leads to a writer of its own.             *)
OneWriterPerFile ==
  /\ \A v, w \in DOMAIN writers :
        writers[v].open /\ writers[w].open /\ writers[v].file = writers[w].file => v = w
  /\ \A n \in Names : streams[n] # 0 => writers[streams[n]].stream = n

(* What was recorded stays: no failed request, new recording or restart    *)
(* takes a frame from any file.  It needs Coarse: os.Create empties a file *)
(* of the same name, and the name has the second only.                     *)
RecordedFramesKept == [][\A f \in DOMAIN files : IsPrefix(files[f], files'[f])]_vars

(* The subscriptions the recording of writer w made.                       *)
SubsOf(w) == writers[w].first .. writers[w].first + Len(writers[w].subjects) - 1

(* Nothing else ever recorded the name: no other recording, and no request *)
(* that failed after subscribing, whose last callbacks may write to w.     *)
OnlyRecording(w) ==
  /\ \A v \in DOMAIN writers : writers[v].stream = writers[w].stream => v = w
  /\ \A i \in DOMAIN subs : subs[i].stream = writers[w].stream => i \in SubsOf(w)

(* The frames of file f whose message was published on a subject.          *)
OnSubject(f, subject) == {k \in DOMAIN files[f] : log[files[f][k].msg] = subject}

(* The first recording of a name holds, for each of its subjects, the      *)
(* messages published since its subscription was made: none is missing,    *)
(* repeated or out of place up to the last one recorded, whatever is       *)
(* published while the call is in progress and wherever the callbacks are  *)
(* when it is closed or a write fails.                                     *)
FirstRecordingFaithful ==
  \A w \in DOMAIN writers : OnlyRecording(w) =>
    \A i \in DOMAIN subs : subs[i].stream = writers[w].stream =>
      LET file == files[writers[w].file]
          kept == OnSubject(writers[w].file, subs[i].subject)
      IN  /\ \A k \in kept : file[k].msg > subs[i].from
          /\ \A j, k \in kept : j < k => file[j].msg < file[k].msg
          /\ \A k \in kept : \A m \in subs[i].from + 1 .. file[k].msg :
                log[m] = subs[i].subject => \E j \in kept : file[j].msg = m

(* Subscription i may record message m under a name: it was there when m   *)
(* was published, and it is one of a recording; or its request failed when *)
(* its callback already had m, which a later recording of the name then    *)
(* finds in its file, whatever subjects it asked for.                      *)
MayRecord(i, name, m) ==
  /\ subs[i].stream = name /\ subs[i].subject = log[m] /\ subs[i].from < m
  /\ \/ \E w \in DOMAIN writers : i \in SubsOf(w)
     \/ ~subs[i].valid /\ subs[i].seen = m

(* A recording that is made again records a message once more for each     *)
(* earlier one that asked for its subject, because CloseStream cancels no  *)
(* subscription, and never more: a failed request leaves no subscription   *)
(* behind.                                                                 *)
CopiesBounded ==
  \A f \in DOMAIN files : \A m \in DOMAIN log :
    Cardinality({k \in DOMAIN files[f] : files[f][k].msg = m})
      <= Cardinality({i \in DOMAIN subs : MayRecord(i, f[1], m)})

(* Subscription i had ended when the later subscription k was made.        *)
Successive(i, k) == i \notin subs[k].beside

(* A replay sends the messages of a subject in the order of publication,   *)
(* across any files and restarts, whether the recordings still go on or    *)
(* have ended: as long as each subscription of its stream to that subject  *)
(* had ended when the next was made, so that no two were alive together.   *)
ReplayInOrder ==
  \A r \in DOMAIN replays : \A a, b \in DOMAIN replays[r].todo :
    LET early == replays[r].todo[a].msg
        late  == replays[r].todo[b].msg
    IN  /\ a < b /\ log[early] = log[late]
        /\ \A i, k \in DOMAIN subs :
              /\ i < k
              /\ subs[i].stream = replays[r].stream /\ subs[i].subject = log[early]
              /\ subs[k].stream = replays[r].stream /\ subs[k].subject = log[early]
              => Successive(i, k)
        => early < late

(* A recording with a duration ends and frees its name, unless closing its *)
(* file fails; a write that failed does not keep it from ending.           *)
TimedRecordingEnds ==
  \A n \in Names :
    (streams[n] # 0 /\ writers[streams[n]].timed)
      ~> (streams[n] = 0 \/ writers[streams[n]].stuck)
==============================================================================
