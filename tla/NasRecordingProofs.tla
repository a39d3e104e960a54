------------------------- MODULE NasRecordingProofs -------------------------
(* Proofs about what NasRecorder records: what a first recording holds and *)
(* how often a message is in a file.                                       *)
EXTENDS NasReplayProofs

(* Subscription i has seen at most one message of its subject.             *)
FirstOnly(i) == \A m \in subs[i].from + 1 .. subs[i].seen - 1 : log[m] # subs[i].subject

(* The subscriptions the request in progress has made.                     *)
Requested(i) == Busy /\ request.first <= i

RequestOwn ==
  Busy =>
    /\ request.first <= Len(subs) + 1
    /\ Len(request.todo) + Len(subs) + 1 = Len(request.asked) + request.first
    /\ \A j \in DOMAIN request.todo :
          request.todo[j] = request.asked[Len(request.asked) - Len(request.todo) + j]
    /\ request.file \in DOMAIN files /\ files[request.file] = <<>>
    /\ \A i \in DOMAIN subs : request.first <= i =>
          /\ subs[i].stream = request.stream
          /\ subs[i].subject = request.asked[i - request.first + 1]
          /\ subs[i].pc # "encode" /\ FirstOnly(i)
          /\ subs[i].pc = "idle" => subs[i].seen = subs[i].from

Own(w, i) ==
  /\ i \in DOMAIN subs /\ ~Requested(i)
  /\ subs[i].stream = writers[w].stream
  /\ subs[i].subject = writers[w].subjects[i - writers[w].first + 1]
WritersOwn ==
  \A w \in DOMAIN writers :
    /\ writers[w].file \in DOMAIN files
    /\ \A i \in SubsOf(w) : Own(w, i)

(* Subscriptions of no recording are those of requests that failed.        *)
FailedOnlyOne ==
  \A i \in DOMAIN subs :
    \/ Requested(i)
    \/ \E w \in DOMAIN writers : i \in SubsOf(w)
    \/ ~subs[i].valid /\ FirstOnly(i)

(* Message m came to subscription i and its callback is over.              *)
Done(i, m) ==
  /\ log[m] = subs[i].subject /\ subs[i].from < m /\ m <= subs[i].seen
  /\ subs[i].pc # "idle" => subs[i].seen # m

(* What the file of the only recording of a name holds of a subject.       *)
Has(f, m) == \E j \in DOMAIN files[f] : files[f][j].msg = m
Faithful(w, i) ==
  LET f == writers[w].file
      kept == OnSubject(f, subs[i].subject)
  IN  /\ \A k \in kept : Done(i, files[f][k].msg)
      /\ \A j, k \in kept : j < k => files[f][j].msg < files[f][k].msg
      /\ \A k \in kept, m \in DOMAIN log :
            Done(i, m) /\ m <= files[f][k].msg => Has(f, m)
      /\ writers[w].open /\ ~writers[w].broken =>
            \A m \in DOMAIN log : Done(i, m) => Has(f, m)
FaithfulTo(w) ==
  OnlyRecording(w) =>
    \A i \in DOMAIN subs : subs[i].stream = writers[w].stream => Faithful(w, i)
FaithfulInv == \A w \in DOMAIN writers : FaithfulTo(w)

(* A file has a message once for each callback that is over at most.       *)
Copies(f, m) == {k \in DOMAIN files[f] : files[f][k].msg = m}
DoneBy(n, m) == {i \in DOMAIN subs : subs[i].stream = n /\ Done(i, m)}
CopiesInv ==
  \A f \in DOMAIN files, m \in DOMAIN log :
    Cardinality(Copies(f, m)) <= Cardinality(DoneBy(f[1], m))

StructInv == RequestOwn /\ WritersOwn /\ FailedOnlyOne
Base == Types /\ MapInv /\ OrderInv

------------------------------------------------------------------------------
(* Which subscriptions belong to which recording.                          *)
LEMMA SubFields ==
  ASSUME Base, NEW i \in DOMAIN subs
  PROVE  /\ subs[i].from \in Nat /\ subs[i].seen \in Nat /\ subs[i].stream \in Names
         /\ subs[i].subject \in Subjects /\ i \in Nat \ {0} /\ i <= Len(subs)
         /\ subs[i].from <= subs[i].seen /\ subs[i].seen <= Len(log)
         /\ subs[i].pc \in {"idle", "lookup", "encode"}
         /\ subs[i].valid \in BOOLEAN
         /\ Len(log) \in Nat /\ DOMAIN log = 1..Len(log) /\ Len(subs) \in Nat
         /\ DOMAIN subs = 1..Len(subs)
<1>1. subs[i] \in Subscription /\ subs \in Seq(Subscription) /\ log \in Seq(Subjects)
  BY DEF Base, Types, OrderInv
<1>2. /\ subs[i].from \in Nat /\ subs[i].seen \in Nat /\ subs[i].stream \in Names
      /\ subs[i].subject \in Subjects /\ subs[i].pc \in {"idle", "lookup", "encode"}
      /\ subs[i].valid \in BOOLEAN
  BY <1>1 DEF Subscription
<1>3. subs[i].from <= subs[i].seen /\ subs[i].seen <= Len(log)
  BY DEF Base, OrderInv, SubsSound
<1> QED BY <1>1, <1>2, <1>3

LEMMA RequestFields ==
  ASSUME Base, Busy
  PROVE  /\ request.first \in Nat \ {0} /\ request.asked \in Seq(Subjects)
         /\ request.todo \in Seq(Subjects) /\ request.stream \in Names
         /\ IsInjective(request.asked) /\ request.asked \in Requests
<1>1. request \in Request
  BY DEF Base, Types
<1>2. /\ request.first \in Nat \ {0} /\ request.asked \in Requests
      /\ request.todo \in Seq(Subjects) /\ request.stream \in Names
  BY <1>1 DEF Request
<1> QED BY <1>2, NasConstants DEF NasConstants

(* FirstOnly stays true as long as the subscription sees nothing more.     *)
LEMMA FirstOnlyStays ==
  ASSUME Base, LogGrows, NEW i \in DOMAIN subs, FirstOnly(i),
         subs'[i].from = subs[i].from, subs'[i].seen = subs[i].seen,
         subs'[i].subject = subs[i].subject
  PROVE  FirstOnly(i)'
<1>1. \A m \in subs[i].from + 1 .. subs[i].seen - 1 : m \in DOMAIN log
  BY SubFields
<1>2. \A m \in subs[i].from + 1 .. subs[i].seen - 1 : log'[m] # subs[i].subject
  BY <1>1 DEF LogGrows, FirstOnly
<1> QED BY <1>2 DEF FirstOnly

LEMMA SameLength ==
  ASSUME Types, Types', DOMAIN subs' = DOMAIN subs
  PROVE  Len(subs') = Len(subs)
BY DEF Types

(* Steps that make no subscription and no writer.                          *)
LEMMA StructSame ==
  ASSUME Base, StructInv, Evolve, LogGrows, WritersStay, request' = request,
         DOMAIN subs' = DOMAIN subs, Len(subs') = Len(subs),
         DOMAIN writers' = DOMAIN writers,
         DOMAIN files' = DOMAIN files, Busy => files'[request.file] = <<>>,
         \A i \in DOMAIN subs : Requested(i) => subs'[i].pc = subs[i].pc
  PROVE  StructInv'
<1>1. Busy' = Busy /\ \A i : Requested(i)' = Requested(i)
  BY DEF Busy, Requested
<1>2. /\ \A w \in DOMAIN writers : SubsOf(w)' = SubsOf(w) /\ writers'[w].stream = writers[w].stream
                                   /\ writers'[w].subjects = writers[w].subjects
                                   /\ writers'[w].first = writers[w].first
                                   /\ writers'[w].file = writers[w].file
  BY DEF WritersStay, SameWriter, SubsOf
<1>3. ASSUME NEW i \in DOMAIN subs
      PROVE  /\ subs'[i].stream = subs[i].stream /\ subs'[i].subject = subs[i].subject
             /\ subs'[i].from = subs[i].from /\ subs'[i].seen = subs[i].seen
             /\ subs'[i].valid => subs[i].valid
             /\ FirstOnly(i) => FirstOnly(i)'
  <2>1. /\ subs'[i].stream = subs[i].stream /\ subs'[i].subject = subs[i].subject
        /\ subs'[i].from = subs[i].from /\ subs'[i].seen = subs[i].seen
        /\ subs'[i].valid => subs[i].valid
    BY DEF Evolve
  <2> QED BY <2>1, FirstOnlyStays
<1>4. RequestOwn'
  BY <1>1, <1>3 DEF StructInv, RequestOwn, Requested
<1>5. WritersOwn'
  BY <1>1, <1>2, <1>3 DEF StructInv, WritersOwn, Own
<1>6. FailedOnlyOne'
  BY <1>1, <1>2, <1>3 DEF StructInv, FailedOnlyOne
<1> QED BY <1>4, <1>5, <1>6 DEF StructInv

LEMMA StructStill ==
  ASSUME Base, StructInv, LogGrows, WritersStay, UNCHANGED <<request, subs, files>>,
         DOMAIN writers' = DOMAIN writers
  PROVE  StructInv'
<1>1. Evolve
  BY SubsSame
<1>2. Busy => files'[request.file] = <<>>
  BY DEF StructInv, RequestOwn
<1> QED BY <1>1, <1>2, StructSame

(* A request starts: it has no subscription yet and its file is empty.     *)
LEMMA StructCreateFile ==
  ASSUME Base, StructInv, NEW name \in Names, NEW subjects \in Requests, NEW d \in Durations,
         CreateFile(name, subjects, d)
  PROVE  StructInv'
<1> DEFINE f == <<name, SecondOf(time)>>
           q == [stream |-> name, todo |-> subjects, asked |-> subjects,
                 file |-> f, duration |-> d, first |-> Len(subs) + 1]
<1>1. /\ request' = q /\ files' = [files EXCEPT ![f] = <<>>]
      /\ UNCHANGED <<subs, writers, log>> /\ ~Busy /\ time <= MaxTime
  BY DEF CreateFile, OpenFile
<1>2. /\ files \in [Names \X (0..MaxTime) -> Seq(Frame)] /\ time \in Nat /\ Len(subs) \in Nat
      /\ subs \in Seq(Subscription) /\ subjects \in Seq(Subjects)
  BY Bounds DEF Base, Types
<1>3. f \in DOMAIN files
  <2>1. SecondOf(time) \in Nat /\ SecondOf(time) <= time
    BY <1>2, SecondsPassed
  <2>2. MaxTime \in Nat
    BY NasConstants DEF NasConstants
  <2> QED BY <1>1, <1>2, <2>1, <2>2
<1>4. files'[f] = <<>> /\ DOMAIN files' = DOMAIN files
  BY <1>1, <1>2, <1>3
<1>5. /\ q.stream = name /\ q.todo = subjects /\ q.asked = subjects /\ q.file = f
      /\ q.first = Len(subs) + 1
  OBVIOUS
<1> HIDE DEF f, q
<1>6. \A i \in DOMAIN subs : ~(q.first <= i)
  BY <1>2, <1>5
<1>7. \A i \in DOMAIN subs : ~Requested(i) /\ ~Requested(i)'
  BY <1>1, <1>6 DEF Requested
<1>8. RequestOwn'
  <2>1. Len(q.todo) + Len(subs) + 1 = Len(q.asked) + q.first
    BY <1>2, <1>5
  <2>2. \A j \in DOMAIN q.todo : q.todo[j] = q.asked[Len(q.asked) - Len(q.todo) + j]
    BY <1>2, <1>5
  <2>3. q.first <= Len(subs) + 1
    BY <1>2, <1>5
  <2> QED BY <1>1, <1>3, <1>4, <1>5, <1>6, <2>1, <2>2, <2>3 DEF RequestOwn
<1>9. WritersOwn'
  BY <1>1, <1>4, <1>7 DEF StructInv, WritersOwn, Own, SubsOf
<1>10. FailedOnlyOne'
  BY <1>1, <1>7 DEF StructInv, FailedOnlyOne, SubsOf, FirstOnly
<1> QED BY <1>8, <1>9, <1>10 DEF StructInv

(* The request makes its next subscription.                                *)
LEMMA StructSubscribe ==
  ASSUME Base, StructInv, Subscribe
  PROVE  StructInv'
<1>a. PICK new \in Nat : new = Len(subs) + 1
  BY DEF Base, Types
<1>0. Types /\ SubsInv /\ Busy /\ request.todo # <<>>
  BY DEF Base, OrderInv, SubsInv, Subscribe
<1>1. /\ Evolve /\ Len(subs') = new /\ DOMAIN subs' = DOMAIN subs \cup {new}
      /\ \A k \in DOMAIN subs : subs'[k] = subs[k]
      /\ subs'[new].stream = request.stream
      /\ subs'[new].subject = Head(request.todo)
  BY <1>0, <1>a, SubsSubscribe
<1>2. /\ UNCHANGED <<log, writers, files>>
      /\ request' = [request EXCEPT !.todo = Tail(request.todo)]
  BY DEF Subscribe
<1>3. /\ request \in Request /\ subs \in Seq(Subscription) /\ Len(subs) \in Nat
  BY <1>0 DEF Types
<1>4. /\ request'.first = request.first /\ request'.stream = request.stream
      /\ request'.asked = request.asked /\ request'.file = request.file
      /\ request'.todo = Tail(request.todo) /\ Busy'
  <2>1. /\ request'.first = request.first /\ request'.stream = request.stream
        /\ request'.asked = request.asked /\ request'.file = request.file
        /\ request'.todo = Tail(request.todo)
    BY <1>2, <1>3 DEF Request
  <2>2. Busy'
    <3>1. request' \in Request
      <4>1. request.todo \in Seq(Subjects)
        BY <1>3 DEF Request
      <4>2. Tail(request.todo) \in Seq(Subjects)
        BY <1>0, <4>1
      <4> QED BY <1>2, <1>3, <4>2 DEF Request
    <3>2. DOMAIN request' # DOMAIN Idle
      <4>1. "first" \in DOMAIN request' /\ "first" \notin DOMAIN Idle
        BY <3>1 DEF Request, Idle
      <4> QED BY <4>1
    <3> QED BY <3>2 DEF Busy
  <2> QED BY <2>1, <2>2
<1>5. /\ request.first \in Nat \ {0} /\ request.asked \in Seq(Subjects)
      /\ request.todo \in Seq(Subjects)
  BY <1>0, RequestFields
<1>6. new \notin DOMAIN subs /\ request.first <= new /\ new \in Nat
      /\ subs'[new].from = Len(log) /\ subs'[new].seen = Len(log) /\ subs'[new].pc = "idle"
  <2>1. new \notin DOMAIN subs
    BY <1>3, <1>a
  <2>2. request.first <= new
    BY <1>0, <1>a DEF StructInv, RequestOwn
  <2>3. new \in DOMAIN subs' \ DOMAIN subs
    BY <1>1, <2>1
  <2> QED BY <2>1, <2>2, <2>3, <1>1 DEF Evolve
<1>7. /\ Tail(request.todo) \in Seq(Subjects) /\ Len(Tail(request.todo)) = Len(request.todo) - 1
      /\ Len(request.todo) \in Nat \ {0}
      /\ \A j \in DOMAIN Tail(request.todo) : j + 1 \in DOMAIN request.todo
                                              /\ Tail(request.todo)[j] = request.todo[j + 1]
      /\ Head(request.todo) = request.todo[1] /\ 1 \in DOMAIN request.todo
  BY <1>0, <1>5
<1>8. /\ Len(request.todo) + new = Len(request.asked) + request.first
      /\ \A j \in DOMAIN request.todo :
            request.todo[j] = request.asked[Len(request.asked) - Len(request.todo) + j]
      /\ Len(request.asked) \in Nat
  <2>1. Len(request.todo) + Len(subs) + 1 = Len(request.asked) + request.first
    BY <1>0 DEF StructInv, RequestOwn
  <2>2. Len(request.asked) \in Nat
    BY <1>5
  <2>3. Len(request.todo) + new = Len(request.asked) + request.first
    <3> DEFINE u == Len(request.todo)
               v == Len(subs)
    <3>1. u \in Nat /\ v \in Nat /\ new = v + 1 /\ u + v + 1 = Len(request.asked) + request.first
      BY <1>3, <1>7, <1>a, <2>1
    <3> HIDE DEF u, v
    <3>2. u + v + 1 = u + (v + 1)
      BY <3>1
    <3>3. u + new = Len(request.asked) + request.first
      BY <3>1, <3>2
    <3> QED BY <3>3 DEF u
  <2> QED BY <1>0, <2>2, <2>3 DEF StructInv, RequestOwn
<1>9. Head(request.todo) = request.asked[new - request.first + 1]
  <2>1. Len(request.asked) - Len(request.todo) + 1 = new - request.first + 1
    <3> DEFINE u == Len(request.asked)
               v == Len(request.todo)
               x == request.first
    <3>1. u \in Nat /\ v \in Nat /\ x \in Nat /\ new \in Nat /\ v + new = u + x
      BY <1>5, <1>6, <1>7, <1>8
    <3> HIDE DEF u, v, x
    <3>2. u - v + 1 = new - x + 1
      BY <3>1
    <3> QED BY <3>2 DEF u, v, x
  <2>2. request.todo[1] = request.asked[Len(request.asked) - Len(request.todo) + 1]
    BY <1>7, <1>8
  <2> QED BY <1>7, <2>1, <2>2
<1>10. \A i \in DOMAIN subs' : i = new \/ (i \in DOMAIN subs /\ subs'[i] = subs[i])
  BY <1>1
<1>11. \A i \in DOMAIN subs : FirstOnly(i) => FirstOnly(i)'
  BY <1>1, <1>2 DEF FirstOnly
<1>12. FirstOnly(new)'
  <2>1. Len(log) \in Nat
    BY DEF Base, OrderInv
  <2>2. subs'[new].from + 1 .. subs'[new].seen - 1 = {}
    BY <1>6, <2>1
  <2>3. \A m \in subs'[new].from + 1 .. subs'[new].seen - 1 : FALSE
    BY <2>2
  <2> QED BY <2>3 DEF FirstOnly
<1>13. RequestOwn'
  <2>1. request'.first <= Len(subs') + 1
    BY <1>1, <1>4, <1>5, <1>6
  <2>2. Len(request'.todo) + Len(subs') + 1 = Len(request'.asked) + request'.first
    BY <1>1, <1>4, <1>5, <1>6, <1>7, <1>8
  <2>3. \A j \in DOMAIN request'.todo :
          request'.todo[j] = request'.asked[Len(request'.asked) - Len(request'.todo) + j]
    <3> SUFFICES ASSUME NEW j \in DOMAIN Tail(request.todo)
                 PROVE  Tail(request.todo)[j]
                          = request.asked[Len(request.asked) - (Len(request.todo) - 1) + j]
      BY <1>4, <1>7
    <3>1. j \in Nat /\ j + 1 \in DOMAIN request.todo
          /\ Tail(request.todo)[j] = request.todo[j + 1]
      BY <1>7
    <3>2. request.todo[j + 1] = request.asked[Len(request.asked) - Len(request.todo) + (j + 1)]
      BY <1>8, <3>1
    <3>3. Len(request.asked) - Len(request.todo) + (j + 1)
            = Len(request.asked) - (Len(request.todo) - 1) + j
      <4> DEFINE u == Len(request.asked)
                 v == Len(request.todo)
      <4>1. u \in Nat /\ v \in Nat /\ j \in Nat
        BY <1>7, <1>8, <3>1
      <4> HIDE DEF u, v
      <4>2. u - v + (j + 1) = u - (v - 1) + j
        BY <4>1
      <4> QED BY <4>2 DEF u, v
    <3> QED BY <3>1, <3>2, <3>3
  <2>4. request'.file \in DOMAIN files' /\ files'[request'.file] = <<>>
    BY <1>0, <1>2, <1>4 DEF StructInv, RequestOwn
  <2>5. ASSUME NEW i \in DOMAIN subs', request.first <= i
        PROVE  /\ subs'[i].stream = request.stream
               /\ subs'[i].subject = request.asked[i - request.first + 1]
               /\ subs'[i].pc # "encode" /\ FirstOnly(i)'
               /\ subs'[i].pc = "idle" => subs'[i].seen = subs'[i].from
    <3>1. CASE i = new
      BY <1>1, <1>6, <1>9, <1>12, <3>1
    <3>2. CASE i \in DOMAIN subs /\ subs'[i] = subs[i]
      BY <1>0, <1>11, <2>5, <3>2 DEF StructInv, RequestOwn
    <3> QED BY <1>10, <3>1, <3>2
  <2> QED BY <1>4, <2>1, <2>2, <2>3, <2>4, <2>5 DEF RequestOwn
<1>14. \A i : Requested(i)' <=> Requested(i)
  BY <1>0, <1>4 DEF Requested
<1>15. WritersOwn'
  BY <1>1, <1>2, <1>14 DEF StructInv, WritersOwn, Own, SubsOf
<1>16. FailedOnlyOne'
  <2> SUFFICES ASSUME NEW i \in DOMAIN subs', ~Requested(i)'
               PROVE  (\E w \in DOMAIN writers' : i \in SubsOf(w)') \/ (~subs'[i].valid /\ FirstOnly(i)')
    BY DEF FailedOnlyOne
  <2>1. i # new
    BY <1>0, <1>6, <1>14 DEF Requested
  <2>2. i \in DOMAIN subs /\ subs'[i] = subs[i] /\ ~Requested(i)
    BY <1>10, <1>14, <2>1
  <2> QED BY <1>2, <1>11, <2>2 DEF StructInv, FailedOnlyOne, SubsOf
<1> QED BY <1>13, <1>15, <1>16 DEF StructInv

(* A request fails, or the process ends: its subscriptions end.            *)
LEMMA StructRequestEnds ==
  ASSUME Base, StructInv, Evolve, LogGrows, WritersStay, ~Busy', DOMAIN subs' = DOMAIN subs,
         DOMAIN writers' = DOMAIN writers, DOMAIN files' = DOMAIN files,
         \A i \in DOMAIN subs : Requested(i) => ~subs'[i].valid
  PROVE  StructInv'
<1>1. \A i : ~Requested(i)'
  BY DEF Requested
<1>2. \A w \in DOMAIN writers : SubsOf(w)' = SubsOf(w) /\ writers'[w].stream = writers[w].stream
                                   /\ writers'[w].subjects = writers[w].subjects
                                   /\ writers'[w].first = writers[w].first
                                   /\ writers'[w].file = writers[w].file
  BY DEF WritersStay, SameWriter, SubsOf
<1>3. ASSUME NEW i \in DOMAIN subs
      PROVE  /\ subs'[i].stream = subs[i].stream /\ subs'[i].subject = subs[i].subject
             /\ subs'[i].valid => subs[i].valid
             /\ FirstOnly(i) => FirstOnly(i)'
  <2>1. /\ subs'[i].stream = subs[i].stream /\ subs'[i].subject = subs[i].subject
        /\ subs'[i].from = subs[i].from /\ subs'[i].seen = subs[i].seen
        /\ subs'[i].valid => subs[i].valid
    BY DEF Evolve
  <2> QED BY <2>1, FirstOnlyStays
<1>4. RequestOwn'
  BY DEF RequestOwn
<1>5. WritersOwn'
  BY <1>1, <1>2, <1>3 DEF StructInv, WritersOwn, Own
<1>6. \A i \in DOMAIN subs : Requested(i) => FirstOnly(i)
  BY DEF StructInv, RequestOwn, Requested
<1>7. FailedOnlyOne'
  BY <1>1, <1>2, <1>3, <1>6 DEF StructInv, FailedOnlyOne
<1> QED BY <1>4, <1>5, <1>7 DEF StructInv

LEMMA StructSubscribeFails ==
  ASSUME Base, StructInv, SubscribeFails
  PROVE  StructInv'
<1>1. Types /\ SubsInv
  BY DEF Base, OrderInv, SubsInv
<1>2. /\ Evolve /\ DOMAIN subs' = DOMAIN subs
      /\ \A i \in DOMAIN subs : request.first <= i => ~subs'[i].valid
  BY <1>1, SubsSubscribeFails
<1>3. ~Busy' /\ log' = log /\ writers' = writers /\ DOMAIN files' = DOMAIN files
  BY DEF SubscribeFails, Busy
<1>4. LogGrows /\ WritersStay
  BY <1>3, LogSame, WritersSame DEF Base, OrderInv
<1> QED BY <1>2, <1>3, <1>4, StructRequestEnds DEF Requested

LEMMA StructRestart ==
  ASSUME Base, StructInv, Restart
  PROVE  StructInv'
<1>1. Types /\ SubsInv
  BY DEF Base, OrderInv, SubsInv
<1>2. Evolve /\ DOMAIN subs' = DOMAIN subs /\ \A i \in DOMAIN subs : ~subs'[i].valid
  BY <1>1, SubsRestart
<1>3. ~Busy' /\ log' = log /\ files' = files
  BY DEF Restart, Busy
<1>4. LogGrows
  BY <1>3, LogSame DEF Base, OrderInv
<1>5. WritersStay /\ DOMAIN writers' = DOMAIN writers
  BY <1>1, WritersRestart
<1> QED BY <1>2, <1>3, <1>4, <1>5, StructRequestEnds

(* A request becomes a recording: its subscriptions are the recording's.   *)
LEMMA StructRegister ==
  ASSUME Base, StructInv, Register
  PROVE  StructInv'
<1>a. PICK new : new = Len(writers) + 1
  OBVIOUS
<1>1. /\ WritersStay /\ new \notin DOMAIN writers
      /\ DOMAIN writers' = DOMAIN writers \cup {new}
      /\ writers'[new] = NewWriter
      /\ \A w \in DOMAIN writers : writers'[w] = writers[w]
  BY <1>a, WritersRegister DEF Base
<1>2. Busy /\ request.todo = <<>> /\ ~Busy' /\ UNCHANGED <<log, subs, files>>
  BY DEF Register, Busy
<1>3. /\ request.first \in Nat \ {0} /\ request.asked \in Seq(Subjects)
      /\ Len(subs) \in Nat /\ DOMAIN subs = 1..Len(subs)
  BY <1>2, RequestFields DEF Base, Types
<1>4. Len(subs) + 1 = Len(request.asked) + request.first
  <2>1. Len(request.todo) = 0
    BY <1>2
  <2>2. Len(request.todo) + Len(subs) + 1 = Len(request.asked) + request.first
    BY <1>2 DEF StructInv, RequestOwn
  <2> QED BY <1>3, <2>1, <2>2
<1>5. /\ NewWriter.stream = request.stream /\ NewWriter.subjects = request.asked
      /\ NewWriter.first = request.first /\ NewWriter.file = request.file
  BY DEF NewWriter
<1>6. \A i : i \in SubsOf(new)' <=> i \in DOMAIN subs /\ request.first <= i
  <2> DEFINE u == Len(request.asked)
             v == Len(subs)
             x == request.first
  <2>1. /\ u \in Nat /\ v \in Nat /\ x \in Nat \ {0} /\ v + 1 = u + x
        /\ SubsOf(new)' = x .. x + u - 1 /\ DOMAIN subs = 1..v
    BY <1>1, <1>3, <1>4, <1>5 DEF SubsOf
  <2> HIDE DEF u, v, x
  <2>2. \A i : i \in x .. x + u - 1 <=> i \in 1..v /\ x <= i
    BY <2>1
  <2> QED BY <2>1, <2>2 DEF x
<1>7. \A w \in DOMAIN writers : SubsOf(w)' = SubsOf(w)
  BY <1>1 DEF SubsOf
<1>8. RequestOwn' /\ \A i : ~Requested(i)'
  BY <1>2 DEF RequestOwn, Requested
<1>9. WritersOwn'
  <2>1. ASSUME NEW w \in DOMAIN writers
        PROVE  writers'[w].file \in DOMAIN files' /\ \A i \in SubsOf(w)' : Own(w, i)'
    BY <1>1, <1>2, <1>7, <1>8 DEF StructInv, WritersOwn, Own
  <2>2. writers'[new].file \in DOMAIN files'
    BY <1>1, <1>2, <1>5 DEF StructInv, RequestOwn
  <2>3. ASSUME NEW i \in SubsOf(new)' PROVE Own(new, i)'
    <3>1. i \in DOMAIN subs /\ request.first <= i
      BY <1>6
    <3>2. subs[i].stream = request.stream /\ subs[i].subject = request.asked[i - request.first + 1]
      BY <1>2, <3>1 DEF StructInv, RequestOwn
    <3> QED BY <1>1, <1>2, <1>5, <1>8, <3>1, <3>2 DEF Own
  <2> QED BY <1>1, <2>1, <2>2, <2>3 DEF WritersOwn
<1>10. FailedOnlyOne'
  <2> SUFFICES ASSUME NEW i \in DOMAIN subs
               PROVE  (\E w \in DOMAIN writers' : i \in SubsOf(w)')
                        \/ (~subs'[i].valid /\ FirstOnly(i)')
    BY <1>2 DEF FailedOnlyOne
  <2>1. CASE Requested(i)
    BY <1>1, <1>6, <2>1 DEF Requested
  <2>2. CASE \E w \in DOMAIN writers : i \in SubsOf(w)
    BY <1>1, <1>7, <2>2
  <2>3. CASE ~subs[i].valid /\ FirstOnly(i)
    BY <1>2, <2>3 DEF FirstOnly
  <2> QED BY <2>1, <2>2, <2>3 DEF StructInv, FailedOnlyOne
<1> QED BY <1>8, <1>9, <1>10 DEF StructInv

(* The first message of a subscription arrives, or a later one of a        *)
(* recording: a failed request gets none.                                  *)
LEMMA StructReceived ==
  ASSUME Base, StructInv, Types', NEW i \in DOMAIN subs, NEW m \in Nat, Received(i, m)
  PROVE  StructInv'
<1>1. /\ UNCHANGED <<log, request, writers, files>> /\ DOMAIN subs' = DOMAIN subs
      /\ \A k \in DOMAIN subs :
            /\ subs'[k].stream = subs[k].stream /\ subs'[k].subject = subs[k].subject
            /\ subs'[k].from = subs[k].from /\ subs'[k].valid = subs[k].valid
            /\ k # i => subs'[k] = subs[k]
      /\ subs'[i].pc = "lookup" /\ subs'[i].seen = m /\ subs[i].valid /\ subs[i].pc = "idle"
  BY DEF Received
<1>2. Busy' = Busy /\ \A k : Requested(k)' = Requested(k)
  BY <1>1 DEF Busy, Requested
<1>3. subs[i].seen = subs[i].from => FirstOnly(i)'
  <2> SUFFICES ASSUME subs[i].seen = subs[i].from,
                      NEW k \in subs[i].from + 1 .. m - 1
               PROVE  log[k] # subs[i].subject
    BY <1>1 DEF FirstOnly
  <2>1. m \in DOMAIN log /\ \A q \in DOMAIN log : subs[i].seen < q /\ q < m => log[q] # subs[i].subject
    BY DEF Received
  <2>2. k \in DOMAIN log /\ subs[i].seen < k /\ k < m
    BY <2>1, SubFields
  <2> QED BY <2>1, <2>2
<1>4. \A k \in DOMAIN subs : k # i /\ FirstOnly(k) => FirstOnly(k)'
  BY <1>1 DEF FirstOnly
<1>5. Len(subs') = Len(subs)
  BY <1>1, SameLength DEF Base
<1>6. ASSUME Busy, NEW k \in DOMAIN subs, request.first <= k
      PROVE  /\ subs'[k].stream = request.stream
             /\ subs'[k].subject = request.asked[k - request.first + 1]
             /\ subs'[k].pc # "encode" /\ FirstOnly(k)'
             /\ subs'[k].pc = "idle" => subs'[k].seen = subs'[k].from
  <2>1. /\ subs[k].stream = request.stream
        /\ subs[k].subject = request.asked[k - request.first + 1]
        /\ subs[k].pc # "encode" /\ FirstOnly(k)
        /\ subs[k].pc = "idle" => subs[k].seen = subs[k].from
    BY <1>6 DEF StructInv, RequestOwn
  <2>2. CASE k = i
    BY <1>1, <1>3, <2>1, <2>2
  <2>3. CASE k # i
    BY <1>1, <1>4, <2>1, <2>3
  <2> QED BY <2>2, <2>3
<1>7. RequestOwn'
  BY <1>1, <1>2, <1>5, <1>6 DEF StructInv, RequestOwn
<1>8. WritersOwn'
  BY <1>1, <1>2 DEF StructInv, WritersOwn, Own, SubsOf
<1>9. FailedOnlyOne'
  BY <1>1, <1>2, <1>4 DEF StructInv, FailedOnlyOne, SubsOf
<1> QED BY <1>7, <1>8, <1>9 DEF StructInv

(* A lookup waits for the request; a write is never to its file.           *)
LEMMA StructLookup ==
  ASSUME Base, StructInv, Types', NEW i \in DOMAIN subs, Lookup(i)
  PROVE  StructInv'
<1>1. ~Busy /\ UNCHANGED <<log, request, writers, files>> /\ DOMAIN subs' = DOMAIN subs
  BY DEF Lookup, LookedUp
<1>2. Evolve
  BY SubsLookup DEF Base, OrderInv, SubsInv
<1>3. LogGrows /\ WritersStay /\ Len(subs') = Len(subs)
  BY <1>1, LogSame, WritersSame, SameLength DEF Base, OrderInv
<1> QED BY <1>1, <1>2, <1>3, StructSame DEF Requested

LEMMA WritersFile ==
  ASSUME MapInv, RequestOwn, Busy, NEW w \in DOMAIN writers, writers[w].open,
         w # 0
  PROVE  writers[w].file # request.file
BY DEF MapInv, RequestOwn

LEMMA StructEncode ==
  ASSUME Base, StructInv, Types', NEW i \in DOMAIN subs, Encode(i)
  PROVE  StructInv'
<1>1. /\ UNCHANGED <<log, request, writers>> /\ CallbackDone(i) /\ Types /\ SubsInv
      /\ LogGrows /\ WritersStay
  BY LogSame, WritersSame DEF Encode, Base, OrderInv, SubsInv
<1>2. /\ Evolve /\ DOMAIN subs' = DOMAIN subs
      /\ \A k \in DOMAIN subs : k # i => subs'[k] = subs[k]
  BY <1>1, SubsDone
<1>3. /\ subs[i].pc = "encode" /\ subs[i].writer \in DOMAIN writers /\ subs[i].writer # 0
      /\ Wrote(i) \/ WroteNothing(i)
  <2>1. Types /\ MapInv /\ EncodeOwn
    BY DEF Base, OrderInv
  <2>2. /\ subs[i].pc = "encode" /\ subs[i].writer \in DOMAIN writers
        /\ Wrote(i) \/ WroteNothing(i)
    BY <2>1, EncodeWrites
  <2>3. 0 \notin DOMAIN writers
    BY <2>1 DEF Types
  <2> QED BY <2>2, <2>3
<1>4. DOMAIN files' = DOMAIN files
  BY <1>3 DEF Wrote, WroteNothing
<1>5. Busy => files'[request.file] = <<>>
  BY <1>3, WritersFile DEF Wrote, WroteNothing, StructInv, RequestOwn, Base
<1>6. ~Requested(i)
  BY <1>3 DEF StructInv, RequestOwn, Requested
<1>7. Len(subs') = Len(subs)
  BY <1>1, <1>2, SameLength
<1> QED BY <1>1, <1>2, <1>4, <1>5, <1>6, <1>7, StructSame

LEMMA StructEncodeFails ==
  ASSUME Base, StructInv, Types', NEW i \in DOMAIN subs, EncodeFails(i)
  PROVE  StructInv'
<1>1. /\ UNCHANGED <<log, request, files>> /\ CallbackDone(i) /\ Types /\ SubsInv
      /\ LogGrows /\ subs[i].pc = "encode" /\ subs[i].writer \in DOMAIN writers
  BY LogSame DEF EncodeFails, Base, OrderInv, SubsInv, Types
<1>2. WritersStay /\ DOMAIN writers' = DOMAIN writers
  BY <1>1, ClosedWriter DEF EncodeFails
<1>3. /\ Evolve /\ DOMAIN subs' = DOMAIN subs
      /\ \A k \in DOMAIN subs : k # i => subs'[k] = subs[k]
  BY <1>1, <1>2, SubsDone
<1>4. Busy => files'[request.file] = <<>>
  BY <1>1 DEF StructInv, RequestOwn
<1>5. ~Requested(i)
  BY <1>1 DEF StructInv, RequestOwn, Requested
<1>6. Len(subs') = Len(subs)
  BY <1>1, <1>3, SameLength
<1> QED BY <1>1, <1>2, <1>3, <1>4, <1>5, <1>6, StructSame

LEMMA ClosingWriter ==
  ASSUME Base, NEW t \in timers, CloseStream(t) \/ CloseFails(t)
  PROVE  WritersStay /\ DOMAIN writers' = DOMAIN writers
         /\ UNCHANGED <<log, request, subs, files, stamps>>
<1>1. t.stream \in Names /\ UNCHANGED <<log, request, subs, files, stamps>>
  BY DEF Base, Types, CloseStream, CloseFile, CloseFails
<1>2. CASE streams[t.stream] = 0
  BY <1>1, <1>2, WritersSame DEF CloseStream, CloseFile, CloseFails
<1>3. CASE streams[t.stream] # 0
  BY <1>1, <1>3, ClosedWriter DEF CloseStream, CloseFile, CloseFails, Base, MapInv
<1> QED BY <1>1, <1>2, <1>3

(* The messages of replays and of the rest of the system, and time.        *)
Outside ==
  /\ UNCHANGED <<request, writers, subs, files>>
  /\ LogGrows

LEMMA OutsideSteps ==
  ASSUME Base
  PROVE  /\ \A name \in Names : StartReplay(name) => Outside
         /\ \A r \in DOMAIN replays : PublishFrame(r) => Outside
         /\ \A r \in DOMAIN replays : PublishFrameFails(r) => Outside
         /\ \A s \in Subjects : Publish(s) => Outside
         /\ Elapse => Outside
<1>1. log' = log => LogGrows
  BY LogSame DEF Base, OrderInv
<1>2. ASSUME NEW r \in DOMAIN replays, PublishFrame(r) PROVE LogGrows
  <2>1. log[Head(replays[r].todo).msg] \in Subjects
    BY <1>2, NextIsKnown DEF PublishFrame, Base
  <2> QED BY <1>2, <2>1, LogAppend DEF PublishFrame, Base, OrderInv
<1>3. ASSUME NEW s \in Subjects, Publish(s) PROVE LogGrows
  BY <1>3, LogAppend DEF Publish, Base, OrderInv
<1> QED BY <1>1, <1>2, <1>3 DEF StartReplay, PublishFrame, PublishFrameFails, Publish, Elapse,
                               Outside

LEMMA StructNext ==
  ASSUME Base, StructInv, Next
  PROVE  StructInv'
<1>0. Types' /\ SubsInv /\ Types
  BY TypesNext DEF Base, OrderInv, SubsInv
<1>1. ASSUME NEW i \in DOMAIN subs, Receive(i) PROVE StructInv'
  <2>1. PICK m \in Nat : Received(i, m)
    BY <1>0, <1>1, ReceiveIs
  <2> QED BY <1>0, <2>1, StructReceived
<1>2. ASSUME NEW t \in timers, CloseStream(t) \/ CloseFails(t) PROVE StructInv'
  <2>1. /\ WritersStay /\ DOMAIN writers' = DOMAIN writers
        /\ UNCHANGED <<log, request, subs, files>>
    BY <1>2, ClosingWriter
  <2> QED BY <2>1, LogSame, StructStill DEF Base, OrderInv
<1>3. Outside => StructInv'
  BY WritersSame, StructStill DEF Outside
<1>4. \A name \in Names, subjects \in Requests, d \in Durations :
         CreateFile(name, subjects, d) => StructInv'
  BY StructCreateFile
<1>5. (Subscribe => StructInv') /\ (SubscribeFails => StructInv') /\ (Register => StructInv')
      /\ (Restart => StructInv')
  BY StructSubscribe, StructSubscribeFails, StructRegister, StructRestart
<1>6. /\ \A i \in DOMAIN subs : Lookup(i) => StructInv'
      /\ \A i \in DOMAIN subs : Encode(i) => StructInv'
      /\ \A i \in DOMAIN subs : EncodeFails(i) => StructInv'
  BY <1>0, StructLookup, StructEncode, StructEncodeFails
<1>7. /\ \A t \in timers : CloseStream(t) => StructInv'
      /\ \A t \in timers : CloseFails(t) => StructInv'
  BY <1>2
<1>8. /\ \A name \in Names : StartReplay(name) => StructInv'
      /\ \A r \in DOMAIN replays : PublishFrame(r) => StructInv'
      /\ \A r \in DOMAIN replays : PublishFrameFails(r) => StructInv'
      /\ \A s \in Subjects : Publish(s) => StructInv'
      /\ Elapse => StructInv'
  BY <1>3, OutsideSteps
<1> HIDE DEF StructInv
<1> QED BY <1>1, <1>4, <1>5, <1>6, <1>7, <1>8, Steps

LEMMA StructInit == Init => StructInv
<1> SUFFICES ASSUME Init PROVE StructInv
  OBVIOUS
<1>1. ~Busy /\ DOMAIN writers = {} /\ DOMAIN subs = {}
  BY DEF Init, Busy
<1> QED BY <1>1 DEF StructInv, RequestOwn, WritersOwn, FailedOnlyOne

------------------------------------------------------------------------------
(* What the callbacks that are over have done.                             *)
(* A file has messages of the log only.                                    *)
LEMMA FileFrames ==
  ASSUME Base, NEW f \in DOMAIN files, NEW k \in DOMAIN files[f]
  PROVE  /\ files[f][k] \in Frame /\ files[f][k].msg \in DOMAIN log
         /\ files[f][k].msg \in Nat /\ files[f] \in Seq(Frame) /\ f[1] \in Names
<1>1. files[f] \in Seq(Frame) /\ f[1] \in Names
  BY DEF Base, Types
<1>2. files[f][k] \in Frame /\ Known(f[1], files[f][k])
  BY <1>1 DEF Known, InFile
<1>3. PICK i \in DOMAIN subs : SeenBy(i, f[1], files[f][k])
  BY <1>1, <1>2 DEF Base, OrderInv, KnownSound
<1>4. files[f][k].msg \in DOMAIN log
  BY <1>2, <1>3, FrameSeen DEF Base, OrderInv
<1>5. files[f][k].msg \in Nat
  BY <1>2 DEF Frame
<1> QED BY <1>1, <1>2, <1>4, <1>5

(* A callback ends: its message is done, and no other.                     *)
Ended(i) == subs[i].pc # "idle" /\ subs'[i].pc = "idle"
NoneBegins == \A i \in DOMAIN subs : subs[i].pc = "idle" => subs'[i].pc = "idle"
DoneGrows ==
  /\ DOMAIN subs \subseteq DOMAIN subs'
  /\ \A i \in DOMAIN subs :
        /\ subs'[i].stream = subs[i].stream /\ subs'[i].subject = subs[i].subject
        /\ \A m \in DOMAIN log : Done(i, m) => Done(i, m)'

LEMMA DoneEvolves ==
  ASSUME Base, Evolve, LogGrows, NoneBegins, NEW i \in DOMAIN subs
  PROVE  /\ \A m \in DOMAIN log : Done(i, m) => Done(i, m)'
         /\ \A m \in DOMAIN log' : Done(i, m)' =>
               m \in DOMAIN log /\ (Done(i, m) \/ (Ended(i) /\ m = subs[i].seen))
<1>1. /\ subs'[i].stream = subs[i].stream /\ subs'[i].subject = subs[i].subject
      /\ subs'[i].from = subs[i].from /\ subs'[i].seen = subs[i].seen
      /\ subs[i].pc = "idle" => subs'[i].pc = "idle"
  BY DEF Evolve, NoneBegins
<1>2. ASSUME NEW m \in DOMAIN log, Done(i, m) PROVE Done(i, m)'
  <2>1. log'[m] = log[m]
    BY DEF LogGrows
  <2> QED BY <1>1, <1>2, <2>1 DEF Done
<1>3. ASSUME NEW m \in DOMAIN log', Done(i, m)'
      PROVE  m \in DOMAIN log /\ (Done(i, m) \/ (Ended(i) /\ m = subs[i].seen))
  <2>1. /\ log'[m] = subs[i].subject /\ subs[i].from < m /\ m <= subs[i].seen
        /\ subs'[i].pc # "idle" => subs[i].seen # m
    BY <1>1, <1>3 DEF Done
  <2>2. log' \in Seq(Subjects) /\ DOMAIN log' \subseteq Nat \ {0}
    BY DEF LogGrows
  <2>3. m \in DOMAIN log
    <3>1. subs[i].seen \in Nat /\ Len(log) \in Nat /\ subs[i].seen <= Len(log)
          /\ DOMAIN log = 1..Len(log)
      BY SubFields
    <3>2. m \in Nat \ {0} /\ m <= subs[i].seen
      BY <2>1, <2>2
    <3> QED BY <3>1, <3>2
  <2>4. log'[m] = log[m]
    BY <2>3 DEF LogGrows
  <2>5. log[m] = subs[i].subject
    BY <2>1, <2>4
  <2>6. CASE subs[i].pc # "idle" /\ subs[i].seen = m
    BY <2>1, <2>3, <2>6 DEF Ended
  <2>7. CASE ~(subs[i].pc # "idle" /\ subs[i].seen = m)
    BY <2>1, <2>3, <2>5, <2>7 DEF Done
  <2> QED BY <2>6, <2>7
<1> QED BY <1>2, <1>3

LEMMA DoneReceived ==
  ASSUME Base, NEW i0 \in DOMAIN subs, NEW m0 \in Nat, Received(i0, m0), NEW i \in DOMAIN subs
  PROVE  /\ log' = log /\ \A m \in DOMAIN log : Done(i, m) <=> Done(i, m)'
<1>1. CASE i # i0
  BY <1>1 DEF Received, Done
<1>2. CASE i = i0
  <2>1. /\ log' = log /\ subs'[i].from = subs[i].from /\ subs'[i].seen = m0
        /\ subs'[i].subject = subs[i].subject /\ subs'[i].pc = "lookup"
        /\ subs[i].pc = "idle" /\ subs[i].seen < m0
        /\ \A k \in DOMAIN log : subs[i].seen < k /\ k < m0 => log[k] # subs[i].subject
    BY <1>2 DEF Received
  <2> SUFFICES ASSUME NEW m \in DOMAIN log PROVE Done(i, m) <=> Done(i, m)'
    BY <2>1
  <2>2. m \in Nat /\ subs[i].seen \in Nat
    BY SubFields
  <2>3. m <= subs[i].seen => m < m0
    BY <2>1, <2>2
  <2>4. log[m] = subs[i].subject /\ m <= m0 /\ m # m0 => m <= subs[i].seen
    BY <2>1, <2>2
  <2>5. m < m0 => m <= m0 /\ m # m0
    BY <2>2
  <2> QED BY <2>1, <2>3, <2>4, <2>5 DEF Done
<1> QED BY <1>1, <1>2

LEMMA DoneGrowsEvolve ==
  ASSUME Base, Evolve, LogGrows, NoneBegins
  PROVE  DoneGrows
BY DoneEvolves DEF DoneGrows, Evolve

------------------------------------------------------------------------------
(* How often a message is in a file.                                       *)
LEMMA DoneByMore ==
  ASSUME Base, Types', DoneGrows, NEW n, NEW m
  PROVE  /\ IsFiniteSet(DoneBy(n, m)') /\ Cardinality(DoneBy(n, m)') \in Nat
         /\ m \in DOMAIN log => DoneBy(n, m) \subseteq DoneBy(n, m)'
<1>1. Len(subs') \in Nat /\ DOMAIN subs' = 1..Len(subs')
  BY DEF Types
<1>2. IsFiniteSet(DOMAIN subs')
  BY <1>1, FS_Interval
<1>3. DoneBy(n, m)' \subseteq DOMAIN subs'
  BY DEF DoneBy
<1>4. IsFiniteSet(DoneBy(n, m)')
  BY <1>2, <1>3, FS_Subset
<1>5. m \in DOMAIN log => DoneBy(n, m) \subseteq DoneBy(n, m)'
  BY DEF DoneBy, DoneGrows
<1> QED BY <1>4, <1>5, FS_CardinalityType

LEMMA CopiesFinite ==
  ASSUME Base, NEW f \in DOMAIN files, NEW m
  PROVE  IsFiniteSet(Copies(f, m)) /\ Cardinality(Copies(f, m)) \in Nat
<1>1. files[f] \in Seq(Frame)
  BY DEF Base, Types
<1>2. Len(files[f]) \in Nat /\ DOMAIN files[f] = 1..Len(files[f])
  BY <1>1
<1>3. IsFiniteSet(DOMAIN files[f]) /\ Copies(f, m) \subseteq DOMAIN files[f]
  BY <1>2, FS_Interval DEF Copies
<1>4. IsFiniteSet(Copies(f, m))
  BY <1>3, FS_Subset
<1> QED BY <1>4, FS_CardinalityType

(* A file that stays, or is emptied.                                       *)
LEMMA CopiesKept ==
  ASSUME Base, Types', CopiesInv, DoneGrows, NEW f \in DOMAIN files,
         files'[f] = files[f] \/ files'[f] = <<>>, NEW m \in DOMAIN log'
  PROVE  Cardinality(Copies(f, m)') <= Cardinality(DoneBy(f[1], m)')
<1>1. /\ IsFiniteSet(DoneBy(f[1], m)') /\ Cardinality(DoneBy(f[1], m)') \in Nat
      /\ m \in DOMAIN log => DoneBy(f[1], m) \subseteq DoneBy(f[1], m)'
  BY DoneByMore
<1>2. CASE Copies(f, m)' = {}
  BY <1>1, <1>2, FS_EmptySet
<1>3. CASE Copies(f, m)' # {}
  <2>1. PICK k \in DOMAIN files'[f] : files'[f][k].msg = m
    BY <1>3 DEF Copies
  <2>2. files'[f] # <<>>
    BY <2>1
  <2>3. files'[f] = files[f] /\ Copies(f, m)' = Copies(f, m)
    BY <2>2 DEF Copies
  <2>4. m \in DOMAIN log
    BY <2>1, <2>3, FileFrames
  <2>5. /\ Cardinality(DoneBy(f[1], m)) <= Cardinality(DoneBy(f[1], m)')
        /\ IsFiniteSet(DoneBy(f[1], m))
    BY <1>1, <2>4, FS_Subset
  <2>6. Cardinality(DoneBy(f[1], m)) \in Nat /\ Cardinality(Copies(f, m)) \in Nat
    BY <2>5, FS_CardinalityType, CopiesFinite
  <2>7. Cardinality(Copies(f, m)) <= Cardinality(DoneBy(f[1], m))
    BY <2>4 DEF CopiesInv
  <2> QED BY <1>1, <2>3, <2>5, <2>6, <2>7
<1> QED BY <1>2, <1>3

LEMMA CopiesQuiet ==
  ASSUME Base, Types', CopiesInv, DoneGrows, FilesEmptied
  PROVE  CopiesInv'
BY CopiesKept DEF CopiesInv, FilesEmptied

(* A callback that writes its frame is over, and was not before.           *)
LEMMA CopiesWrote ==
  ASSUME Base, Types', CopiesInv, NEW i \in DOMAIN subs, Encode(i), Wrote(i)
  PROVE  CopiesInv'
<1> DEFINE g == writers[subs[i].writer].file
           x == subs[i].frame
<1>1. /\ UNCHANGED <<log, writers>> /\ CallbackDone(i) /\ Types /\ SubsInv
      /\ LogGrows /\ WritersStay
  BY LogSame, WritersSame DEF Encode, Base, OrderInv, SubsInv
<1>2. /\ Evolve /\ DOMAIN subs' = DOMAIN subs /\ subs'[i].pc = "idle"
      /\ subs'[i].seen = subs[i].seen
      /\ \A k \in DOMAIN subs : k # i => subs'[k] = subs[k]
  BY <1>1, SubsDone
<1>3. /\ subs[i].pc = "encode" /\ x \in Frame /\ g[1] = subs[i].stream
      /\ x.msg = subs[i].seen /\ subs[i].from < subs[i].seen
      /\ log[subs[i].seen] = subs[i].subject
  BY EncodeWrites DEF Base, OrderInv, SubsSound
<1>4. NoneBegins
  BY <1>2 DEF NoneBegins
<1>5. DoneGrows
  BY <1>1, <1>2, <1>4, DoneGrowsEvolve
<1>6. /\ g \in DOMAIN files /\ DOMAIN files' = DOMAIN files /\ files[g] \in Seq(Frame)
      /\ files'[g] = Append(files[g], x)
      /\ \A f \in DOMAIN files : f # g => files'[f] = files[f]
  BY DEF Wrote
<1>b. PICK m0 : m0 = x.msg
  OBVIOUS
<1>7. ~Done(i, m0) /\ Done(i, m0)'
  <2>1. subs'[i].from = subs[i].from /\ subs'[i].subject = subs[i].subject
    BY <1>2 DEF Evolve
  <2>2. subs[i].seen <= subs[i].seen
    BY SubFields
  <2> HIDE DEF x
  <2>3. ~Done(i, m0)
    BY <1>3, <1>b DEF Done
  <2>4. Done(i, m0)'
    BY <1>1, <1>2, <1>3, <1>b, <2>1, <2>2 DEF Done
  <2> QED BY <2>3, <2>4
<1> HIDE DEF g, x
<1>8. ASSUME NEW f \in DOMAIN files, NEW m \in DOMAIN log
      PROVE  Cardinality(Copies(f, m)') <= Cardinality(DoneBy(f[1], m)')
  <2>1. CASE f # g
    BY <1>1, <1>5, <1>6, <2>1, CopiesKept
  <2>2. CASE f = g
    <3> DEFINE n == Len(files[g]) + 1
    <3>1. /\ n \notin DOMAIN files[g] /\ DOMAIN files'[g] = DOMAIN files[g] \cup {n}
          /\ files'[g][n] = x /\ \A k \in DOMAIN files[g] : files'[g][k] = files[g][k]
      BY <1>3, <1>6
    <3> HIDE DEF n
    <3>2. /\ IsFiniteSet(DoneBy(f[1], m)') /\ Cardinality(DoneBy(f[1], m)') \in Nat
          /\ DoneBy(f[1], m) \subseteq DoneBy(f[1], m)'
      BY <1>5, DoneByMore
    <3>3. /\ IsFiniteSet(DoneBy(f[1], m)) /\ Cardinality(DoneBy(f[1], m)) \in Nat
          /\ Cardinality(DoneBy(f[1], m)) <= Cardinality(DoneBy(f[1], m)')
      BY <3>2, FS_Subset, FS_CardinalityType
    <3>4. /\ IsFiniteSet(Copies(f, m)) /\ Cardinality(Copies(f, m)) \in Nat
          /\ Cardinality(Copies(f, m)) <= Cardinality(DoneBy(f[1], m))
      BY CopiesFinite DEF CopiesInv
    <3>5. CASE m # x.msg
      <4>1. Copies(f, m)' = Copies(f, m)
        BY <2>2, <3>1, <3>5 DEF Copies
      <4> QED BY <3>2, <3>3, <3>4, <4>1
    <3>6. CASE m = x.msg
      <4>1. Copies(f, m)' = Copies(f, m) \cup {n} /\ n \notin Copies(f, m)
        BY <2>2, <3>1, <3>6 DEF Copies
      <4>2. Cardinality(Copies(f, m)') = Cardinality(Copies(f, m)) + 1
        BY <3>4, <4>1, FS_AddElement
      <4>3. i \notin DoneBy(f[1], m) /\ i \in DoneBy(f[1], m)'
        <5>1. subs'[i].stream = f[1] /\ i \in DOMAIN subs'
          BY <1>2, <1>3, <2>2 DEF Evolve
        <5>2. ~Done(i, m) /\ Done(i, m)'
          BY <1>7, <1>b, <3>6
        <5> QED BY <5>1, <5>2 DEF DoneBy
      <4>4. DoneBy(f[1], m) \cup {i} \subseteq DoneBy(f[1], m)'
        BY <3>2, <4>3
      <4>5. /\ Cardinality(DoneBy(f[1], m) \cup {i}) = Cardinality(DoneBy(f[1], m)) + 1
            /\ Cardinality(DoneBy(f[1], m) \cup {i}) <= Cardinality(DoneBy(f[1], m)')
        BY <3>2, <3>3, <4>3, <4>4, FS_AddElement, FS_Subset
      <4> QED BY <3>2, <3>3, <3>4, <4>2, <4>5
    <3> QED BY <3>5, <3>6
  <2> QED BY <2>1, <2>2
<1> QED BY <1>1, <1>6, <1>8 DEF CopiesInv

------------------------------------------------------------------------------
(* What the first recording of a name holds.                               *)
(* Being the only recording of a name cannot come back.                    *)
LEMMA OnlyRecordingBefore ==
  ASSUME WritersStay, DoneGrows, NEW w \in DOMAIN writers, OnlyRecording(w)'
  PROVE  OnlyRecording(w)
<1>1. /\ DOMAIN writers \subseteq DOMAIN writers' /\ DOMAIN subs \subseteq DOMAIN subs'
      /\ \A v \in DOMAIN writers : writers'[v].stream = writers[v].stream
      /\ \A i \in DOMAIN subs : subs'[i].stream = subs[i].stream
      /\ SubsOf(w)' = SubsOf(w)
  BY DEF WritersStay, SameWriter, DoneGrows, SubsOf
<1>2. ASSUME NEW v \in DOMAIN writers, writers[v].stream = writers[w].stream PROVE v = w
  BY <1>1, <1>2 DEF OnlyRecording
<1>3. ASSUME NEW i \in DOMAIN subs, subs[i].stream = writers[w].stream PROVE i \in SubsOf(w)
  BY <1>1, <1>3 DEF OnlyRecording
<1> QED BY <1>2, <1>3 DEF OnlyRecording

(* The file and the writer stay, and a message is done only if it was, or  *)
(* if it is the one of a callback that ends without writing it.            *)
Writing(w) == writers[w].open /\ ~writers[w].broken
LEMMA FaithfulKept ==
  ASSUME Base, LogGrows, WritersStay, NEW w \in DOMAIN writers, NEW i \in DOMAIN subs,
         Faithful(w, i), writers[w].file \in DOMAIN files,
         files'[writers[w].file] = files[writers[w].file],
         subs'[i].subject = subs[i].subject,
         \A m \in DOMAIN log : Done(i, m) => Done(i, m)',
         \A m \in DOMAIN log' : Done(i, m)' =>
            m \in DOMAIN log /\ (Done(i, m) \/ (subs[i].pc # "idle" /\ m = subs[i].seen
                                               /\ ~Writing(w)'))
  PROVE  Faithful(w, i)'
<1>a. PICK f \in DOMAIN files : f = writers[w].file
  OBVIOUS
<1>b. PICK s : s = subs[i].subject
  OBVIOUS
<1>1. /\ writers'[w].file = f /\ files'[f] = files[f] /\ subs'[i].subject = s
      /\ Writing(w)' => Writing(w)
  BY <1>a, <1>b DEF WritersStay, SameWriter, Writing
<1>2. \A k \in DOMAIN files[f] : files[f][k].msg \in DOMAIN log /\ files[f][k].msg \in Nat
  BY FileFrames
<1>3. OnSubject(f, s)' = OnSubject(f, s)
  BY <1>1, <1>2 DEF OnSubject, LogGrows
<1>4. \A m : Has(f, m) <=> Has(f, m)'
  BY <1>1 DEF Has
<1>5. /\ \A k \in OnSubject(f, s) : Done(i, files[f][k].msg)
      /\ \A j, k \in OnSubject(f, s) : j < k => files[f][j].msg < files[f][k].msg
      /\ \A k \in OnSubject(f, s), m \in DOMAIN log :
            Done(i, m) /\ m <= files[f][k].msg => Has(f, m)
      /\ Writing(w) => \A m \in DOMAIN log : Done(i, m) => Has(f, m)
  BY <1>a, <1>b DEF Faithful, Writing
<1>6. ASSUME NEW k \in OnSubject(f, s) PROVE Done(i, files[f][k].msg)'
  <2>1. PICK m \in DOMAIN log : m = files[f][k].msg
    BY <1>2 DEF OnSubject
  <2>2. Done(i, m)'
    BY <1>5, <2>1
  <2>3. files'[f][k].msg = m
    BY <1>1, <2>1
  <2> QED BY <2>2, <2>3, <1>1
<1>7. ASSUME NEW k \in OnSubject(f, s), NEW m \in DOMAIN log', Done(i, m)', m <= files[f][k].msg
      PROVE  Has(f, m)
  <2>1. CASE Done(i, m) /\ m \in DOMAIN log
    BY <1>5, <1>7, <2>1
  <2>2. CASE subs[i].pc # "idle" /\ m = subs[i].seen /\ m \in DOMAIN log
    <3>1. Done(i, files[f][k].msg) /\ files[f][k].msg \in Nat
      BY <1>2, <1>5 DEF OnSubject
    <3>2. files[f][k].msg <= subs[i].seen /\ files[f][k].msg # subs[i].seen
      BY <2>2, <3>1 DEF Done
    <3>3. subs[i].seen \in Nat /\ subs[i].seen <= files[f][k].msg
      BY <1>7, <2>2, SubFields
    <3> QED BY <3>1, <3>2, <3>3
  <2> QED BY <1>7, <2>1, <2>2
<1>8. ASSUME Writing(w)', NEW m \in DOMAIN log', Done(i, m)' PROVE Has(f, m)
  BY <1>1, <1>5, <1>8
<1>9. /\ \A k \in OnSubject(f, s)' : Done(i, files[f][k].msg)'
      /\ \A j, k \in OnSubject(f, s)' : j < k => files'[f][j].msg < files'[f][k].msg
      /\ \A k \in OnSubject(f, s)', m \in DOMAIN log' :
            Done(i, m)' /\ m <= files'[f][k].msg => Has(f, m)'
      /\ Writing(w)' => \A m \in DOMAIN log' : Done(i, m)' => Has(f, m)'
  BY <1>1, <1>3, <1>4, <1>5, <1>6, <1>7, <1>8
<1> QED BY <1>1, <1>9 DEF Faithful, Writing

LEMMA FaithfulEmptied ==
  ASSUME NEW w, NEW i, files'[writers'[w].file] = <<>>, ~Writing(w)'
  PROVE  Faithful(w, i)'
<1>1. OnSubject(writers[w].file, subs[i].subject)' = {}
  BY DEF OnSubject
<1> QED BY <1>1 DEF Faithful, Writing

(* The subscriptions of the only recording of a name were made with it.    *)
LEMMA FaithfulBefore ==
  ASSUME StructInv, FaithfulInv, WritersStay, DoneGrows, NEW w \in DOMAIN writers,
         OnlyRecording(w)', NEW i \in DOMAIN subs', subs'[i].stream = writers'[w].stream
  PROVE  /\ i \in DOMAIN subs /\ Faithful(w, i) /\ Own(w, i) /\ OnlyRecording(w)
         /\ writers[w].file \in DOMAIN files /\ i \in SubsOf(w)
         /\ writers'[w].file = writers[w].file
<1>1. i \in SubsOf(w)
  <2>1. SubsOf(w)' = SubsOf(w)
    BY DEF WritersStay, SameWriter, SubsOf
  <2> QED BY <2>1 DEF OnlyRecording
<1>2. Own(w, i) /\ writers[w].file \in DOMAIN files
  BY <1>1 DEF StructInv, WritersOwn
<1>3. OnlyRecording(w)
  BY OnlyRecordingBefore
<1>4. i \in DOMAIN subs /\ subs[i].stream = writers[w].stream
  BY <1>2 DEF Own
<1>5. Faithful(w, i)
  BY <1>3, <1>4 DEF FaithfulInv, FaithfulTo
<1>6. writers'[w].file = writers[w].file
  BY DEF WritersStay, SameWriter
<1> QED BY <1>1, <1>2, <1>3, <1>4, <1>5, <1>6

(* Steps that write nothing: the files stay, but for those of requests,    *)
(* and a callback ends without writing only if its recording is over.      *)
NothingWritten ==
  /\ NoneBegins
  /\ \A w \in DOMAIN writers :
        \/ files'[writers[w].file] = files[writers[w].file]
        \/ files'[writers[w].file] = <<>> /\ ~Writing(w)'
  /\ \A w \in DOMAIN writers, i \in DOMAIN subs :
        Ended(i) /\ subs[i].stream = writers[w].stream /\ OnlyRecording(w) => ~Writing(w)'

LEMMA FaithfulStep ==
  ASSUME Base, StructInv, FaithfulInv, LogGrows, WritersStay, Evolve, NothingWritten,
         NEW w \in DOMAIN writers
  PROVE  FaithfulTo(w)'
<1>1. DoneGrows
  BY DoneGrowsEvolve DEF NothingWritten
<1> SUFFICES ASSUME OnlyRecording(w)', NEW i \in DOMAIN subs',
                    subs'[i].stream = writers'[w].stream
             PROVE  Faithful(w, i)'
  BY DEF FaithfulTo
<1>2. /\ i \in DOMAIN subs /\ Faithful(w, i) /\ Own(w, i) /\ OnlyRecording(w)
      /\ writers[w].file \in DOMAIN files /\ writers'[w].file = writers[w].file
  BY <1>1, FaithfulBefore
<1>3. CASE files'[writers[w].file] = <<>> /\ ~Writing(w)'
  BY <1>2, <1>3, FaithfulEmptied
<1>4. CASE files'[writers[w].file] = files[writers[w].file]
  <2>1. /\ \A m \in DOMAIN log : Done(i, m) => Done(i, m)'
        /\ \A m \in DOMAIN log' : Done(i, m)' =>
              m \in DOMAIN log /\ (Done(i, m) \/ (Ended(i) /\ m = subs[i].seen))
    BY <1>2, DoneEvolves DEF NothingWritten
  <2>2. Ended(i) => subs[i].pc # "idle" /\ ~Writing(w)'
    BY <1>2 DEF NothingWritten, Own, Ended
  <2>3. subs'[i].subject = subs[i].subject
    BY <1>2 DEF Evolve
  <2> QED BY <1>2, <1>4, <2>1, <2>2, <2>3, FaithfulKept
<1> QED BY <1>3, <1>4 DEF NothingWritten

(* A message begins its callback and is not done yet.                      *)
LEMMA FaithfulReceived ==
  ASSUME Base, StructInv, FaithfulInv, NEW i0 \in DOMAIN subs, NEW m0 \in Nat,
         Received(i0, m0)
  PROVE  FaithfulInv' /\ DoneGrows
<1>1. UNCHANGED <<log, writers, files>> /\ DOMAIN subs' = DOMAIN subs /\ LogGrows /\ WritersStay
  BY LogSame, WritersSame DEF Received, Base, OrderInv
<1>2. \A i \in DOMAIN subs : \A m \in DOMAIN log : Done(i, m) <=> Done(i, m)'
  BY DoneReceived
<1>3. \A i \in DOMAIN subs : /\ subs'[i].stream = subs[i].stream
                             /\ subs'[i].subject = subs[i].subject
  BY DEF Received
<1>4. DoneGrows
  BY <1>1, <1>2, <1>3 DEF DoneGrows
<1>5. ASSUME NEW w \in DOMAIN writers, OnlyRecording(w)', NEW i \in DOMAIN subs',
             subs'[i].stream = writers'[w].stream
      PROVE  Faithful(w, i)'
  <2>1. i \in DOMAIN subs /\ Faithful(w, i) /\ writers[w].file \in DOMAIN files
    BY <1>1, <1>4, <1>5, FaithfulBefore
  <2> QED BY <1>1, <1>2, <1>3, <2>1, FaithfulKept
<1>6. FaithfulInv'
  BY <1>1, <1>5 DEF FaithfulInv, FaithfulTo
<1> QED BY <1>4, <1>6

(* The one message a subscription has seen is the last one.                *)
LEMMA FirstDone ==
  ASSUME Base, NEW i \in DOMAIN subs, FirstOnly(i), NEW m \in DOMAIN log, Done(i, m)
  PROVE  m = subs[i].seen /\ subs[i].from < m /\ subs[i].pc = "idle" /\ m \in Nat
<1>1. m \in Nat /\ subs[i].seen \in Nat /\ subs[i].from \in Nat
  BY SubFields
<1>2. /\ subs[i].from < m /\ m <= subs[i].seen /\ log[m] = subs[i].subject
      /\ subs[i].pc # "idle" => subs[i].seen # m
  BY DEF Done
<1>3. m \notin subs[i].from + 1 .. subs[i].seen - 1
  BY <1>2 DEF FirstOnly
<1>4. m = subs[i].seen
  BY <1>1, <1>2, <1>3
<1> QED BY <1>1, <1>2, <1>4

(* A recording begins with an empty file and nothing done: the request     *)
(* kept the callbacks of its subscriptions waiting for the lock.           *)
LEMMA FaithfulRegister ==
  ASSUME Base, StructInv, FaithfulInv, Register
  PROVE  FaithfulInv' /\ DoneGrows
<1>a. PICK new : new = Len(writers) + 1
  OBVIOUS
<1>1. /\ WritersStay /\ DOMAIN writers' = DOMAIN writers \cup {new}
      /\ writers'[new] = NewWriter
  BY <1>a, WritersRegister DEF Base
<1>2. Busy /\ request.todo = <<>> /\ UNCHANGED <<log, subs, files>> /\ Evolve /\ LogGrows
  BY SubsSame, LogSame DEF Register, Base, OrderInv
<1>3. NothingWritten
  BY <1>2 DEF NothingWritten, NoneBegins, Ended
<1>4. \A w \in DOMAIN writers : FaithfulTo(w)'
  BY <1>1, <1>2, <1>3, FaithfulStep
<1>5. DoneGrows
  BY <1>2, <1>3, DoneGrowsEvolve DEF NothingWritten
<1>6. /\ NewWriter.stream = request.stream /\ NewWriter.first = request.first
      /\ NewWriter.file = request.file
  BY DEF NewWriter
<1>7. ASSUME OnlyRecording(new)', NEW i \in DOMAIN subs, subs[i].stream = request.stream
      PROVE  Faithful(new, i)'
  <2>1. i \in SubsOf(new)'
    BY <1>1, <1>2, <1>6, <1>7 DEF OnlyRecording
  <2>2. request.first <= i
    BY <1>1, <1>6, <2>1 DEF SubsOf
  <2>3. /\ subs[i].pc # "encode" /\ FirstOnly(i)
        /\ subs[i].pc = "idle" => subs[i].seen = subs[i].from
    BY <1>2, <2>2 DEF StructInv, RequestOwn
  <2>4. ASSUME NEW m \in DOMAIN log, Done(i, m) PROVE FALSE
    <3>1. m = subs[i].seen /\ subs[i].from < m /\ subs[i].pc = "idle" /\ m \in Nat
      BY <2>3, <2>4, FirstDone
    <3> QED BY <2>3, <3>1
  <2>5. \A m \in DOMAIN log' : ~Done(i, m)'
    BY <1>2, <2>4 DEF Done
  <2>6. files'[writers'[new].file] = <<>>
    BY <1>1, <1>2, <1>6 DEF StructInv, RequestOwn
  <2>7. OnSubject(writers[new].file, subs[i].subject)' = {}
    BY <2>6 DEF OnSubject
  <2> QED BY <2>5, <2>7 DEF Faithful
<1>8. FaithfulTo(new)'
  BY <1>1, <1>2, <1>6, <1>7 DEF FaithfulTo
<1> QED BY <1>1, <1>4, <1>5, <1>8 DEF FaithfulInv

(* A callback writes its frame: it is the newest of its subscription, and  *)
(* the other subscriptions of the recording are to other subjects.         *)
LEMMA FaithfulWrote ==
  ASSUME Base, StructInv, FaithfulInv, NEW i0 \in DOMAIN subs, Encode(i0), Wrote(i0)
  PROVE  FaithfulInv'
<1>a. PICK v \in DOMAIN writers : v = subs[i0].writer
  BY DEF Encode, Base, Types
<1>b. PICK g : g = writers[v].file
  OBVIOUS
<1>c. PICK x \in Frame : x = subs[i0].frame
  BY DEF Encode, Base, Types
<1>1. /\ UNCHANGED <<log, writers>> /\ CallbackDone(i0) /\ Types /\ SubsInv /\ MapInv
      /\ LogGrows /\ WritersStay
  BY LogSame, WritersSame DEF Encode, Base, OrderInv, SubsInv
<1>2. /\ Evolve /\ DOMAIN subs' = DOMAIN subs /\ subs'[i0].pc = "idle"
      /\ subs'[i0].seen = subs[i0].seen
      /\ \A k \in DOMAIN subs : k # i0 => subs'[k] = subs[k]
  BY <1>1, SubsDone
<1>3. /\ subs[i0].pc = "encode" /\ g[1] = subs[i0].stream /\ writers[v].stream = subs[i0].stream
      /\ x.msg = subs[i0].seen /\ subs[i0].from < subs[i0].seen
      /\ log[x.msg] = subs[i0].subject
  BY <1>a, <1>b, <1>c, EncodeWrites DEF Base, OrderInv, SubsSound
<1>4. NoneBegins
  BY <1>2 DEF NoneBegins
<1>5. DoneGrows
  BY <1>1, <1>2, <1>4, DoneGrowsEvolve
<1>6. /\ g \in DOMAIN files /\ DOMAIN files' = DOMAIN files /\ files[g] \in Seq(Frame)
      /\ files'[g] = Append(files[g], x)
      /\ \A f \in DOMAIN files : f # g => files'[f] = files[f]
  BY <1>a, <1>b, <1>c DEF Wrote
<1> SUFFICES ASSUME NEW w \in DOMAIN writers, OnlyRecording(w)', NEW i \in DOMAIN subs',
                    subs'[i].stream = writers'[w].stream
             PROVE  Faithful(w, i)'
  BY <1>1 DEF FaithfulInv, FaithfulTo
<1>7. /\ i \in DOMAIN subs /\ Faithful(w, i) /\ Own(w, i) /\ OnlyRecording(w)
      /\ writers[w].file \in DOMAIN files /\ i \in SubsOf(w)
  BY <1>1, <1>5, FaithfulBefore
<1>8. subs'[i].subject = subs[i].subject /\ subs[i].stream = writers[w].stream
  BY <1>2, <1>7 DEF Evolve, Own
<1>9. /\ \A m \in DOMAIN log : Done(i, m) => Done(i, m)'
      /\ \A m \in DOMAIN log' : Done(i, m)' =>
            m \in DOMAIN log /\ (Done(i, m) \/ (Ended(i) /\ m = subs[i].seen))
  BY <1>1, <1>2, <1>4, <1>7, DoneEvolves
<1>10. CASE w # v
  <2>1. writers[w].stream # writers[v].stream
    BY <1>7, <1>10 DEF OnlyRecording
  <2>2. i # i0
    BY <1>3, <1>8, <2>1
  <2>3. writers[w].file # g
    BY <1>1, <1>3, <2>1 DEF MapInv
  <2>4. ~Ended(i)
    BY <1>2, <1>7, <2>2 DEF Ended
  <2>5. files'[writers[w].file] = files[writers[w].file]
    BY <1>6, <1>7, <2>3
  <2> QED BY <1>1, <1>7, <1>8, <1>9, <2>4, <2>5, FaithfulKept
<1>11. CASE w = v
  <2>a. PICK s : s = subs[i].subject
    OBVIOUS
  <2>b. PICK n : n = Len(files[g]) + 1
    OBVIOUS
  <2>c. PICK m0 : m0 = x.msg
    OBVIOUS
  <2>1. /\ n \notin DOMAIN files[g] /\ DOMAIN files'[g] = DOMAIN files[g] \cup {n}
        /\ files'[g][n] = x /\ \A k \in DOMAIN files[g] : files'[g][k] = files[g][k]
        /\ \A k \in DOMAIN files[g] : k < n
        /\ \A k \in DOMAIN files'[g] : ~(n < k)
    BY <1>6, <2>b
  <2>2. writers[w].file = g /\ writers'[w].file = g /\ Writing(w)
    BY <1>1, <1>a, <1>b, <1>11 DEF Wrote, Writing
  <2>3. \A k \in DOMAIN files[g] : files[g][k].msg \in DOMAIN log /\ files[g][k].msg \in Nat
    BY <1>6, FileFrames
  <2>4. /\ \A k \in OnSubject(g, s) : Done(i, files[g][k].msg)
        /\ \A j, k \in OnSubject(g, s) : j < k => files[g][j].msg < files[g][k].msg
        /\ \A m \in DOMAIN log : Done(i, m) => Has(g, m)
    BY <1>7, <2>2, <2>a DEF Faithful, Writing
  <2>5. \A m : Has(g, m)' <=> Has(g, m) \/ m = m0
    BY <2>1, <2>c DEF Has
  <2>6. /\ n \notin OnSubject(g, s)
        /\ OnSubject(g, s)' = IF log[m0] = s THEN OnSubject(g, s) \cup {n} ELSE OnSubject(g, s)
    BY <1>1, <2>1, <2>c DEF OnSubject
  <2>7. \A k \in OnSubject(g, s) : k \in DOMAIN files[g] /\ files'[g][k] = files[g][k]
    BY <2>1 DEF OnSubject
  <2>8. CASE i # i0
    <3>1. i0 \in SubsOf(w) /\ Own(w, i0)
      <4>1. i0 \in SubsOf(w)
        BY <1>3, <1>7, <1>11 DEF OnlyRecording
      <4> QED BY <4>1 DEF StructInv, WritersOwn
    <3>2. subs[i0].subject # subs[i].subject
      <4>1. IsInjective(writers[w].subjects) /\ writers[w].subjects \in Seq(Subjects)
            /\ writers[w].first \in Nat
        <5>1. writers[w] \in Writer
          BY DEF Base, Types
        <5>2. writers[w].subjects \in Requests /\ writers[w].first \in Nat
          BY <5>1 DEF Writer
        <5> QED BY <5>2, NasConstants DEF NasConstants
      <4> DEFINE p == writers[w].subjects
                 q == writers[w].first
      <4>2. /\ i \in q .. q + Len(p) - 1 /\ i0 \in q .. q + Len(p) - 1
            /\ subs[i].subject = p[i - q + 1] /\ subs[i0].subject = p[i0 - q + 1]
        BY <1>7, <3>1 DEF SubsOf, Own
      <4>3. Len(p) \in Nat /\ DOMAIN p = 1..Len(p) /\ q \in Nat
        BY <4>1
      <4> HIDE DEF p, q
      <4>4. i - q + 1 \in DOMAIN p /\ i0 - q + 1 \in DOMAIN p /\ i - q + 1 # i0 - q + 1
        BY <2>8, <4>2, <4>3
      <4>5. p[i - q + 1] # p[i0 - q + 1]
        BY <4>1, <4>4 DEF IsInjective, p
      <4> QED BY <4>2, <4>5
    <3>3. OnSubject(g, s)' = OnSubject(g, s)
      BY <1>3, <2>6, <2>a, <2>c, <3>2
    <3>4. ~Ended(i)
      BY <1>2, <1>7, <2>8 DEF Ended
    <3>5. \A m \in DOMAIN log' : Done(i, m)' => Has(g, m)'
      BY <1>9, <2>4, <2>5, <3>4
    <3>6. /\ \A k \in OnSubject(g, s)' : Done(i, files[g][k].msg)'
          /\ \A j, k \in OnSubject(g, s)' : j < k => files'[g][j].msg < files'[g][k].msg
      <4>1. ASSUME NEW k \in OnSubject(g, s) PROVE Done(i, files[g][k].msg)'
        <5>1. PICK m \in DOMAIN log : m = files[g][k].msg
          BY <2>3, <2>7
        <5>2. Done(i, m)' /\ files'[g][k].msg = m
          BY <1>9, <2>4, <2>7, <5>1
        <5> QED BY <5>2
      <4> QED BY <2>4, <2>7, <3>3, <4>1
    <3> QED BY <1>8, <2>2, <2>a, <3>5, <3>6 DEF Faithful
  <2>9. CASE i = i0
    <3>1. /\ log[m0] = s /\ subs[i].seen = m0 /\ subs[i].pc = "encode"
          /\ OnSubject(g, s)' = OnSubject(g, s) \cup {n}
      BY <1>3, <2>6, <2>9, <2>a, <2>c
    <3>2. Done(i, m0)'
      <4>1. subs'[i].from = subs[i].from /\ subs[i].seen <= subs[i].seen
        BY <1>2, <1>7, SubFields DEF Evolve
      <4> QED BY <1>1, <1>2, <1>3, <1>8, <2>9, <2>a, <2>c, <3>1, <4>1 DEF Done
    <3>3. \A m \in DOMAIN log' : Done(i, m)' => Has(g, m)'
      BY <1>9, <2>4, <2>5, <3>1
    <3>4. \A k \in OnSubject(g, s) : files[g][k].msg < m0
      <4> SUFFICES ASSUME NEW k \in OnSubject(g, s) PROVE files[g][k].msg < m0
        OBVIOUS
      <4>1. files[g][k].msg \in Nat /\ files[g][k].msg <= subs[i].seen
            /\ files[g][k].msg # subs[i].seen
        BY <2>3, <2>4, <2>7, <3>1 DEF Done
      <4>2. subs[i].seen \in Nat
        BY <1>7, SubFields
      <4> QED BY <3>1, <4>1, <4>2
    <3>5. ASSUME NEW k \in OnSubject(g, s)' PROVE Done(i, files[g][k].msg)'
      <4>1. CASE k \in OnSubject(g, s)
        <5>1. PICK m \in DOMAIN log : m = files[g][k].msg
          BY <2>3, <2>7, <4>1
        <5>2. Done(i, m)' /\ files'[g][k].msg = m
          BY <1>9, <2>4, <2>7, <4>1, <5>1
        <5> QED BY <5>2
      <4>2. CASE k = n
        <5>1. files'[g][k].msg = m0
          BY <2>1, <2>c, <4>2
        <5> QED BY <3>2, <5>1
      <4> QED BY <3>1, <3>5, <4>1, <4>2
    <3>6. ASSUME NEW j \in OnSubject(g, s)', NEW k \in OnSubject(g, s)', j < k
          PROVE  files'[g][j].msg < files'[g][k].msg
      <4>1. j # n
        <5>1. k \in DOMAIN files'[g]
          BY DEF OnSubject
        <5> QED BY <2>1, <3>6, <5>1
      <4>2. j \in OnSubject(g, s) /\ files'[g][j] = files[g][j]
        BY <2>7, <3>1, <4>1
      <4>3. CASE k = n
        BY <2>1, <2>c, <3>4, <4>2, <4>3
      <4>4. CASE k \in OnSubject(g, s)
        BY <2>4, <2>7, <3>6, <4>2, <4>4
      <4> QED BY <3>1, <4>3, <4>4
    <3> QED BY <1>8, <2>2, <2>a, <3>3, <3>5, <3>6 DEF Faithful
  <2> QED BY <2>8, <2>9
<1> QED BY <1>10, <1>11

------------------------------------------------------------------------------
(* Every step keeps both.                                                  *)
LEMMA RecordStep ==
  ASSUME Base, Types', StructInv, FaithfulInv, CopiesInv, LogGrows, WritersStay, Evolve,
         NothingWritten, FilesEmptied, DOMAIN writers' = DOMAIN writers
  PROVE  FaithfulInv' /\ CopiesInv'
<1>1. DoneGrows
  BY DoneGrowsEvolve DEF NothingWritten
<1>2. CopiesInv'
  BY <1>1, CopiesQuiet
<1>3. FaithfulInv'
  BY FaithfulStep DEF FaithfulInv
<1> QED BY <1>2, <1>3

LEMMA NothingWrittenStill ==
  ASSUME UNCHANGED <<subs, files>>
  PROVE  NothingWritten /\ FilesEmptied
BY DEF NothingWritten, NoneBegins, Ended, FilesEmptied

(* An open writer keeps its name and its file from requests.               *)
LEMMA ClosedUnlessKnown ==
  ASSUME Base, NEW w \in DOMAIN writers, streams[writers[w].stream] = 0
  PROVE  ~writers[w].open
<1>1. w # 0
  BY DEF Base, Types
<1> QED BY <1>1 DEF Base, MapInv

LEMMA RecordCreateFile ==
  ASSUME Base, Types', StructInv, FaithfulInv, CopiesInv, NEW name \in Names,
         NEW subjects \in Requests, NEW d \in Durations, CreateFile(name, subjects, d)
  PROVE  FaithfulInv' /\ CopiesInv'
<1>a. PICK g : g = <<name, SecondOf(time)>>
  OBVIOUS
<1>1. /\ files' = [files EXCEPT ![g] = <<>>] /\ UNCHANGED <<log, subs, writers>>
      /\ streams[name] = 0 /\ g[1] = name
  BY <1>a DEF CreateFile, OpenFile
<1>2. LogGrows /\ WritersStay /\ Evolve /\ FilesEmptied
  BY <1>1, LogSame, WritersSame, SubsSame, EmptiedFiles DEF Base, OrderInv
<1>3. ASSUME NEW w \in DOMAIN writers
      PROVE  \/ files'[writers[w].file] = files[writers[w].file]
             \/ files'[writers[w].file] = <<>> /\ ~Writing(w)'
  <2>0. writers[w].file \in DOMAIN files
    BY DEF StructInv, WritersOwn
  <2>1. CASE writers[w].file = g
    <3>1. writers[w].stream = name
      BY <1>1, <2>1 DEF Base, MapInv
    <3>2. ~writers[w].open
      BY <1>1, <3>1, ClosedUnlessKnown
    <3> QED BY <1>1, <2>0, <2>1, <3>2 DEF Writing
  <2>2. CASE writers[w].file # g
    BY <1>1, <2>2
  <2> QED BY <2>1, <2>2
<1>4. NothingWritten
  BY <1>1, <1>3 DEF NothingWritten, NoneBegins, Ended
<1> QED BY <1>1, <1>2, <1>4, RecordStep

LEMMA RecordSubscribe ==
  ASSUME Base, Types', StructInv, FaithfulInv, CopiesInv, Subscribe
  PROVE  FaithfulInv' /\ CopiesInv'
<1>1. Types /\ SubsInv /\ UNCHANGED <<log, writers, files>>
  BY DEF Base, OrderInv, SubsInv, Subscribe
<1>2. Evolve /\ \A k \in DOMAIN subs : subs'[k] = subs[k]
  BY <1>1, SubsSubscribe
<1>3. LogGrows /\ WritersStay /\ FilesEmptied
  BY <1>1, LogSame, WritersSame, FilesSame DEF SubsInv
<1>4. NothingWritten
  BY <1>1, <1>2 DEF NothingWritten, NoneBegins, Ended
<1> QED BY <1>1, <1>2, <1>3, <1>4, RecordStep

LEMMA RecordSubscribeFails ==
  ASSUME Base, Types', StructInv, FaithfulInv, CopiesInv, SubscribeFails
  PROVE  FaithfulInv' /\ CopiesInv'
<1>1. /\ Types /\ SubsInv /\ UNCHANGED <<log, writers>> /\ Busy
      /\ files' = [files EXCEPT ![request.file] = <<>>]
  BY DEF Base, OrderInv, SubsInv, SubscribeFails
<1>2. Evolve /\ \A k \in DOMAIN subs : subs'[k].pc = subs[k].pc
  BY <1>1, SubsSubscribeFails
<1>3. LogGrows /\ WritersStay /\ FilesEmptied
  BY <1>1, LogSame, WritersSame, EmptiedFiles DEF SubsInv
<1>4. ASSUME NEW w \in DOMAIN writers
      PROVE  \/ files'[writers[w].file] = files[writers[w].file]
             \/ files'[writers[w].file] = <<>> /\ ~Writing(w)'
  <2>0. writers[w].file \in DOMAIN files /\ w # 0
    BY DEF StructInv, WritersOwn, Base, Types
  <2>1. writers[w].open => writers[w].file # request.file
    BY <1>1, <2>0, WritersFile DEF Base, StructInv
  <2>2. CASE writers[w].file = request.file
    BY <1>1, <2>0, <2>1, <2>2 DEF Writing
  <2>3. CASE writers[w].file # request.file
    BY <1>1, <2>3
  <2> QED BY <2>2, <2>3
<1>5. NothingWritten
  BY <1>2, <1>4 DEF NothingWritten, NoneBegins, Ended
<1> QED BY <1>1, <1>2, <1>3, <1>5, RecordStep

(* A callback that does not find its name: no recording of it is open.     *)
LEMMA RecordLookup ==
  ASSUME Base, Types', StructInv, FaithfulInv, CopiesInv, NEW i \in DOMAIN subs, Lookup(i)
  PROVE  FaithfulInv' /\ CopiesInv'
<1>1. Types /\ SubsInv /\ UNCHANGED <<log, writers, files>> /\ MapInv
  BY DEF Base, OrderInv, SubsInv, Lookup
<1>2. Evolve
  BY <1>1, SubsLookup
<1>3. LogGrows /\ WritersStay /\ FilesEmptied
  BY <1>1, LogSame, WritersSame, FilesSame DEF SubsInv
<1>4. /\ \A k \in DOMAIN subs : k # i => subs'[k] = subs[k]
      /\ streams[subs[i].stream] # 0 => subs'[i].pc # "idle"
      /\ subs[i].pc # "idle"
  <2>1. subs \in Seq(Subscription) /\ subs[i] \in Subscription /\ subs[i].pc = "lookup"
    BY DEF Base, Types, Lookup
  <2>2. CASE streams[subs[i].stream] = 0
    BY <2>1, <2>2 DEF Lookup, LookedUp
  <2>3. CASE streams[subs[i].stream] # 0
    <3> DEFINE r == [subs[i] EXCEPT !.pc = "encode", !.writer = streams[subs[i].stream]]
    <3>1. subs' = [subs EXCEPT ![i] = r]
      BY <2>3 DEF Lookup, LookedUp
    <3>2. r.pc = "encode"
      BY <2>1 DEF Subscription
    <3> HIDE DEF r
    <3> QED BY <2>1, <3>1, <3>2
  <2> QED BY <2>2, <2>3
<1>5. ASSUME NEW w \in DOMAIN writers, NEW k \in DOMAIN subs, Ended(k),
             subs[k].stream = writers[w].stream
      PROVE  ~Writing(w)'
  <2>1. k = i /\ streams[writers[w].stream] = 0
    BY <1>4, <1>5 DEF Ended
  <2> QED BY <1>1, <2>1, ClosedUnlessKnown DEF Writing
<1>6. NothingWritten
  BY <1>1, <1>4, <1>5 DEF NothingWritten, NoneBegins
<1> QED BY <1>1, <1>2, <1>3, <1>6, RecordStep

LEMMA RecordEncode ==
  ASSUME Base, Types', StructInv, FaithfulInv, CopiesInv, NEW i \in DOMAIN subs, Encode(i)
  PROVE  FaithfulInv' /\ CopiesInv'
<1>1. /\ UNCHANGED <<log, writers>> /\ CallbackDone(i) /\ Types /\ SubsInv
      /\ LogGrows /\ WritersStay
  BY LogSame, WritersSame DEF Encode, Base, OrderInv, SubsInv
<1>2. /\ Evolve /\ subs'[i].pc = "idle" /\ \A k \in DOMAIN subs : k # i => subs'[k] = subs[k]
  BY <1>1, SubsDone
<1>3. /\ subs[i].writer \in DOMAIN writers /\ subs[i].pc = "encode"
      /\ writers[subs[i].writer].stream = subs[i].stream
      /\ Wrote(i) \/ WroteNothing(i)
  BY EncodeWrites DEF Base, OrderInv
<1>4. CASE Wrote(i)
  BY <1>4, FaithfulWrote, CopiesWrote
<1>5. CASE WroteNothing(i)
  <2>1. files' = files
    BY <1>5 DEF WroteNothing
  <2>2. ASSUME NEW w \in DOMAIN writers, NEW k \in DOMAIN subs, Ended(k),
               subs[k].stream = writers[w].stream, OnlyRecording(w)
        PROVE  ~Writing(w)'
    <3>1. k = i
      BY <1>2, <2>2 DEF Ended
    <3>2. w = subs[i].writer
      BY <1>3, <2>2, <3>1 DEF OnlyRecording
    <3>3. writers[w].file \in DOMAIN files
      BY DEF StructInv, WritersOwn
    <3> QED BY <1>1, <1>5, <3>2, <3>3 DEF Writing, WroteNothing
  <2>3. NothingWritten
    BY <1>2, <2>1, <2>2 DEF NothingWritten, NoneBegins
  <2> QED BY <1>1, <1>2, <2>1, <2>3, FilesSame, RecordStep
<1> QED BY <1>3, <1>4, <1>5

LEMMA RecordEncodeFails ==
  ASSUME Base, Types', StructInv, FaithfulInv, CopiesInv, NEW i \in DOMAIN subs, EncodeFails(i)
  PROVE  FaithfulInv' /\ CopiesInv'
<1>a. PICK v \in DOMAIN writers : v = subs[i].writer
  BY DEF EncodeFails, Base, Types
<1>1. /\ UNCHANGED <<log, files>> /\ CallbackDone(i) /\ Types /\ SubsInv
      /\ LogGrows /\ subs[i].pc = "encode" /\ writers \in Seq(Writer)
      /\ writers' = [writers EXCEPT ![v] = [@ EXCEPT !.broken = TRUE]]
  BY <1>a, LogSame DEF EncodeFails, Base, OrderInv, SubsInv, Types
<1>2. WritersStay /\ DOMAIN writers' = DOMAIN writers
  BY <1>1, ClosedWriter
<1>3. /\ Evolve /\ subs'[i].pc = "idle" /\ \A k \in DOMAIN subs : k # i => subs'[k] = subs[k]
  BY <1>1, <1>2, SubsDone
<1>4. writers[v].stream = subs[i].stream
  BY <1>1, <1>a DEF Base, OrderInv, EncodeOwn
<1>5. writers'[v].broken
  <2> DEFINE r == [writers[v] EXCEPT !.broken = TRUE]
  <2>1. writers[v] \in Writer
    BY <1>1
  <2>2. r.broken
    BY <2>1 DEF Writer
  <2>3. writers' = [writers EXCEPT ![v] = r]
    BY <1>1
  <2> HIDE DEF r
  <2> QED BY <1>1, <2>2, <2>3
<1>6. ASSUME NEW w \in DOMAIN writers, NEW k \in DOMAIN subs, Ended(k),
             subs[k].stream = writers[w].stream, OnlyRecording(w)
      PROVE  ~Writing(w)'
  <2>1. k = i
    BY <1>3, <1>6 DEF Ended
  <2>2. w = v
    BY <1>4, <1>6, <2>1 DEF OnlyRecording
  <2> QED BY <1>5, <2>2 DEF Writing
<1>7. NothingWritten
  BY <1>1, <1>3, <1>6 DEF NothingWritten, NoneBegins
<1> QED BY <1>1, <1>2, <1>3, <1>7, FilesSame, RecordStep

LEMMA RecordRestart ==
  ASSUME Base, Types', StructInv, FaithfulInv, CopiesInv, Restart
  PROVE  FaithfulInv' /\ CopiesInv'
<1>1. Types /\ SubsInv /\ UNCHANGED <<log, files>>
  BY DEF Base, OrderInv, SubsInv, Restart
<1>2. Evolve /\ \A i \in DOMAIN subs : subs'[i].pc = "idle"
  BY <1>1, SubsRestart
<1>3. WritersStay /\ DOMAIN writers' = DOMAIN writers
      /\ \A w \in DOMAIN writers : writers'[w].open = FALSE
  BY <1>1, WritersRestart
<1>4. LogGrows /\ FilesEmptied
  BY <1>1, LogSame, FilesSame DEF SubsInv
<1>5. NothingWritten
  BY <1>1, <1>2, <1>3 DEF NothingWritten, NoneBegins, Writing
<1> QED BY <1>2, <1>3, <1>4, <1>5, RecordStep

LEMMA RecordNext ==
  ASSUME Base, StructInv, FaithfulInv, CopiesInv, Next
  PROVE  FaithfulInv' /\ CopiesInv'
<1> DEFINE Goal == FaithfulInv' /\ CopiesInv'
<1>0. Types' /\ SubsInv /\ Types
  BY TypesNext DEF Base, OrderInv, SubsInv
<1>1. ASSUME NEW i \in DOMAIN subs, Receive(i) PROVE Goal
  <2>1. PICK m \in Nat : Received(i, m)
    BY <1>0, <1>1, ReceiveIs
  <2>2. FaithfulInv' /\ DoneGrows
    BY <2>1, FaithfulReceived
  <2>3. FilesEmptied
    BY <2>1, FilesSame DEF Received
  <2> QED BY <1>0, <2>2, <2>3, CopiesQuiet
<1>2. ASSUME Register PROVE Goal
  <2>1. FaithfulInv' /\ DoneGrows
    BY <1>2, FaithfulRegister
  <2>2. FilesEmptied
    BY <1>2, FilesSame DEF Register
  <2> QED BY <1>0, <2>1, <2>2, CopiesQuiet
<1>3. ASSUME NEW t \in timers, CloseStream(t) \/ CloseFails(t) PROVE Goal
  <2>1. /\ WritersStay /\ DOMAIN writers' = DOMAIN writers
        /\ UNCHANGED <<log, request, subs, files>>
    BY <1>3, ClosingWriter
  <2>2. LogGrows /\ Evolve /\ NothingWritten /\ FilesEmptied
    BY <2>1, LogSame, SubsSame, NothingWrittenStill DEF Base, OrderInv
  <2> QED BY <1>0, <2>1, <2>2, RecordStep
<1>4. ASSUME Outside PROVE Goal
  <2>1. LogGrows /\ Evolve /\ NothingWritten /\ FilesEmptied /\ WritersStay
        /\ DOMAIN writers' = DOMAIN writers
    BY <1>4, SubsSame, WritersSame, NothingWrittenStill DEF Outside
  <2> QED BY <1>0, <2>1, RecordStep
<1>5. \A name \in Names, subjects \in Requests, d \in Durations :
         CreateFile(name, subjects, d) => Goal
  BY <1>0, RecordCreateFile
<1>6. (Subscribe => Goal) /\ (SubscribeFails => Goal) /\ (Restart => Goal)
  BY <1>0, RecordSubscribe, RecordSubscribeFails, RecordRestart
<1>7. /\ \A i \in DOMAIN subs : Lookup(i) => Goal
      /\ \A i \in DOMAIN subs : Encode(i) => Goal
      /\ \A i \in DOMAIN subs : EncodeFails(i) => Goal
  BY <1>0, RecordLookup, RecordEncode, RecordEncodeFails
<1>8. /\ \A t \in timers : CloseStream(t) => Goal
      /\ \A t \in timers : CloseFails(t) => Goal
  BY <1>3
<1>9. /\ \A name \in Names : StartReplay(name) => Goal
      /\ \A r \in DOMAIN replays : PublishFrame(r) => Goal
      /\ \A r \in DOMAIN replays : PublishFrameFails(r) => Goal
      /\ \A s \in Subjects : Publish(s) => Goal
      /\ Elapse => Goal
  BY <1>4, OutsideSteps
<1> HIDE DEF Goal
<1>10. Goal
  BY <1>1, <1>2, <1>5, <1>6, <1>7, <1>8, <1>9, Steps
<1> QED BY <1>10 DEF Goal

LEMMA RecordInit == Init => FaithfulInv /\ CopiesInv
<1> SUFFICES ASSUME Init PROVE FaithfulInv /\ CopiesInv
  OBVIOUS
<1>1. DOMAIN writers = {} /\ DOMAIN log = {}
  BY DEF Init
<1> QED BY <1>1 DEF FaithfulInv, CopiesInv

LEMMA RecordAlways == Spec => [](Base /\ StructInv /\ FaithfulInv /\ CopiesInv)
<1>1. Init => StructInv /\ FaithfulInv /\ CopiesInv
  BY StructInit, RecordInit
<1>2. Base /\ StructInv /\ FaithfulInv /\ CopiesInv /\ [Next]_vars
        => (StructInv /\ FaithfulInv /\ CopiesInv)'
  <2>1. CASE Next
    BY <2>1, StructNext, RecordNext
  <2>2. CASE Base /\ StructInv /\ FaithfulInv /\ CopiesInv /\ UNCHANGED vars
    <3>1. UNCHANGED <<log, request, writers, subs, files>>
      BY <2>2 DEF vars
    <3>2. /\ LogGrows /\ WritersStay /\ Evolve /\ NothingWritten /\ FilesEmptied
          /\ DOMAIN writers' = DOMAIN writers
      BY <2>2, <3>1, LogSame, WritersSame, SubsSame, NothingWrittenStill DEF Base, OrderInv
    <3>3. Types'
      BY <2>2 DEF vars, Base, Types, Busy
    <3>4. StructInv'
      BY <2>2, <3>1, <3>2, StructStill
    <3>5. FaithfulInv' /\ CopiesInv'
      BY <2>2, <3>2, <3>3, RecordStep
    <3> QED BY <3>4, <3>5
  <2> QED BY <2>1, <2>2
<1>3. Spec => []Base
  BY OrderAlways DEF Base
<1> QED BY <1>1, <1>2, <1>3, PTL DEF Spec

------------------------------------------------------------------------------
(* The first recording of a name holds, for each of its subjects, exactly  *)
(* the messages its subscription was given up to the last one recorded, in *)
(* their order, for every number of names, subjects, requests, messages,   *)
(* replays and restarts, and wherever callbacks, timers, failed writes and *)
(* the lock of RecordTelemetry fall: only a callback that ends while the   *)
(* recording no longer writes can leave a message out, and none comes      *)
(* after it.                                                               *)
THEOREM FirstRecordingsFaithful == Spec => []FirstRecordingFaithful
<1>1. Base /\ StructInv /\ FaithfulInv => FirstRecordingFaithful
  <2> SUFFICES ASSUME Base, StructInv, FaithfulInv, NEW w \in DOMAIN writers, OnlyRecording(w),
                      NEW i \in DOMAIN subs, subs[i].stream = writers[w].stream
               PROVE  LET f == writers[w].file
                          kept == OnSubject(f, subs[i].subject)
                      IN  /\ \A k \in kept : files[f][k].msg > subs[i].from
                          /\ \A j, k \in kept : j < k => files[f][j].msg < files[f][k].msg
                          /\ \A k \in kept : \A m \in subs[i].from + 1 .. files[f][k].msg :
                                log[m] = subs[i].subject => \E j \in kept : files[f][j].msg = m
    BY DEF FirstRecordingFaithful
  <2> DEFINE f == writers[w].file
             kept == OnSubject(f, subs[i].subject)
  <2>1. /\ \A k \in kept : Done(i, files[f][k].msg)
        /\ \A j, k \in kept : j < k => files[f][j].msg < files[f][k].msg
        /\ \A k \in kept, m \in DOMAIN log : Done(i, m) /\ m <= files[f][k].msg => Has(f, m)
    BY DEF FaithfulInv, FaithfulTo, Faithful
  <2>4. f \in DOMAIN files
    BY DEF StructInv, WritersOwn
  <2> HIDE DEF f
  <2>2. ASSUME NEW k \in kept PROVE files[f][k].msg > subs[i].from
    <3>1. subs[i].from < files[f][k].msg
      BY <2>1 DEF Done
    <3> QED BY <3>1
  <2>3. ASSUME NEW k \in kept, NEW m \in subs[i].from + 1 .. files[f][k].msg,
               log[m] = subs[i].subject
        PROVE  \E j \in kept : files[f][j].msg = m
    <3>a. PICK last : last = files[f][k].msg
      OBVIOUS
    <3>1. /\ Done(i, last) /\ subs[i].from \in Nat /\ subs[i].seen \in Nat /\ Len(log) \in Nat
          /\ subs[i].seen <= Len(log) /\ DOMAIN log = 1..Len(log)
      BY <2>1, <3>a, SubFields
    <3>2. /\ last <= subs[i].seen /\ subs[i].from < last
          /\ subs[i].pc # "idle" => subs[i].seen # last
      BY <3>1 DEF Done
    <3>3. last \in Nat
      <4>1. k \in DOMAIN files[f]
        BY DEF OnSubject
      <4> QED BY <2>4, <3>a, <4>1, FileFrames
    <3>4. m \in Nat /\ subs[i].from < m /\ m <= last /\ m <= subs[i].seen /\ m \in DOMAIN log
          /\ (subs[i].seen # last => subs[i].seen # m)
      BY <3>1, <3>2, <3>3, <3>a
    <3>5. Done(i, m)
      BY <2>3, <3>2, <3>4 DEF Done
    <3>6. PICK j \in DOMAIN files[f] : files[f][j].msg = m
      BY <2>1, <3>4, <3>5, <3>a DEF Has
    <3> QED BY <2>3, <3>6 DEF OnSubject
  <2> QED BY <2>1, <2>2, <2>3 DEF f
<1> QED BY <1>1, RecordAlways, PTL

(* However often a name is recorded, a message is in a file once for each  *)
(* subscription that may record it at most, for every value of the         *)
(* constants: each subscription writes a message once, one of a recording  *)
(* for its own messages, and one of a request that failed at most the      *)
(* message its callback had.                                               *)
THEOREM CopiesAreBounded == Spec => []CopiesBounded
<1>1. Base /\ StructInv /\ CopiesInv => CopiesBounded
  <2> SUFFICES ASSUME Base, StructInv, CopiesInv, NEW f \in DOMAIN files, NEW m \in DOMAIN log
               PROVE  Cardinality(Copies(f, m))
                        <= Cardinality({i \in DOMAIN subs : MayRecord(i, f[1], m)})
    BY DEF CopiesBounded, Copies
  <2> DEFINE T == {i \in DOMAIN subs : MayRecord(i, f[1], m)}
  <2>1. ASSUME NEW i \in DoneBy(f[1], m) PROVE i \in T
    <3>1. i \in DOMAIN subs /\ subs[i].stream = f[1] /\ Done(i, m)
      BY DEF DoneBy
    <3>2. subs[i].subject = log[m] /\ subs[i].from < m
      BY <3>1 DEF Done
    <3>3. (\E w \in DOMAIN writers : i \in SubsOf(w)) \/ (~subs[i].valid /\ subs[i].seen = m)
      <4>1. CASE Requested(i)
        <5>1. FirstOnly(i) /\ subs[i].pc = "idle" => subs[i].seen = subs[i].from
          BY <3>1, <4>1 DEF StructInv, RequestOwn, Requested
        <5>2. FirstOnly(i)
          BY <3>1, <4>1 DEF StructInv, RequestOwn, Requested
        <5>3. m = subs[i].seen /\ subs[i].from < m /\ subs[i].pc = "idle" /\ m \in Nat
          BY <3>1, <5>2, FirstDone
        <5> QED BY <5>1, <5>2, <5>3
      <4>2. CASE ~subs[i].valid /\ FirstOnly(i)
        BY <3>1, <4>2, FirstDone
      <4> QED BY <3>1, <4>1, <4>2 DEF StructInv, FailedOnlyOne
    <3> QED BY <3>1, <3>2, <3>3 DEF MayRecord
  <2>2. Len(subs) \in Nat /\ DOMAIN subs = 1..Len(subs)
    BY DEF Base, Types
  <2>3. IsFiniteSet(DOMAIN subs) /\ T \subseteq DOMAIN subs
    BY <2>2, FS_Interval
  <2>4. IsFiniteSet(T) /\ Cardinality(T) \in Nat
    BY <2>3, FS_Subset, FS_CardinalityType
  <2>5. DoneBy(f[1], m) \subseteq T
    BY <2>1
  <2> HIDE DEF T
  <2>6. /\ IsFiniteSet(DoneBy(f[1], m)) /\ Cardinality(DoneBy(f[1], m)) \in Nat
        /\ Cardinality(DoneBy(f[1], m)) <= Cardinality(T)
    BY <2>4, <2>5, FS_Subset, FS_CardinalityType
  <2>7. Cardinality(Copies(f, m)) \in Nat
    BY CopiesFinite
  <2>8. Cardinality(Copies(f, m)) <= Cardinality(DoneBy(f[1], m))
    BY DEF CopiesInv
  <2>9. Cardinality(Copies(f, m)) <= Cardinality(T)
    BY <2>4, <2>6, <2>7, <2>8
  <2> QED BY <2>9 DEF T
<1> QED BY <1>1, RecordAlways, PTL
==============================================================================
