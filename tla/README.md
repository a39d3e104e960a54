# Virtual ISS: specifications, model checking and proofs

Virtual ISS is a simulation of the space station built from services that talk
over a NATS message bus. This directory holds TLA+ models of the parts of it
whose correctness depends on order: the time keeper, the recorder and replayer
of telemetry, the power system, the flight computer's executive, and the Python
services together on one bus. Each model is translated from the source;
each property is checked with TLC on a small instance, and all that do not rest on
fairness are proved with TLAPS for every value of the constants.

## The system

| Part | State it keeps | Operations | Talks to |
|---|---|---|---|
| orchestrator (`orchestrator/`, Python, asyncio) | scenario, simulated time, tick number, time scale, paused, running, the wall clock of the last tick | tick, load, set rate, pause, resume, stop, fault injection | publishes `orchestrator.tick/status/scenario`, `event.anomaly`; takes `command.orchestrator` and HTTP |
| NAS (`subsystems/nas/`, Go) | map of open streams, subscriptions, files, timers | record, close by timer, replay, store, retrieve | takes `nas.*`, subscribes to what it records, publishes what it replays |
| EPS (`subsystems/eps/`, Go) | loads, shedding flag, battery, faults | tick, power on/off, shed, set/clear fault | takes ticks and `command.uplink`, asks for `telemetry.dynamics.state`, publishes `telemetry.eps.state` |
| GNC (`gnc/`, Rust) | filter, mode, gimbals, faults, last dynamics | tick, mode, slew, set/clear fault | ticks, commands, dynamics telemetry |
| dynamics (`dynamics/`, Rust) | orbit, attitude | tick, set attitude | ticks, commands |
| comms (`subsystems/comms/`, Go) | bands, active relay, link state | tick, bands on/off | as EPS |
| C&DH (`subsystems/cdh/`, Python) | limit rules, command queue | check telemetry, verify commands, tick | telemetry of four services, publishes `.verified` |
| ECLSS (`subsystems/eclss/`, Python) | cabin, scrubber beds, faults | tick, set/clear fault | ticks, commands |
| crew (`subsystems/crew/`, Python) | consumables, time in the timeline | tick | ticks; publishes telemetry |
| thermal (`subsystems/thermal/`, Python) | loop temperatures | tick | ticks; publishes telemetry |
| MCP server (`subsystems/mcp/`, Python) | telemetry cache, queues of streaming clients | request telemetry and status, send commands with a timeout, stream | everything above, over NATS and HTTP |
| MDM (`subsystems/mdm/`, C) | two message rings, mode, counters, stored sequences | executive loop, command processing | a pipe to its bridge |
| MDM bridge, robotics bridge (`bridge.py` in `mdm/` and `robotics/`) | connection, pipes | frames or lines to telemetry, commands to the pipe | the process at the other end; `command.uplink` |
| robotics (`subsystems/robotics/`, C++) | arm state | control loop | its bridge |
| dashboard, 3D view (`viz/`) | none of their own | display | HTTP and WebSocket |

The services share no memory. They interact by messages only: ticks drive them,
commands change them, and telemetry is what the others, and the recordings, see
of them. Within a service there are callbacks on an event loop (Python),
goroutines with locks (Go), or a select loop (Rust).

What is hard in it:

- **Interleaving.** The orchestrator's loop is suspended at every publish and in
  its sleep, and requests run there. The recorder has a goroutine per
  subscription, per timer and per replay, and looks writers up in one critical
  section and uses them after it.
- **Time.** Simulated time is derived from wall time that includes pauses,
  delays and changes of rate; faults happen in a window around their time; file
  names have a resolution of a second; recordings end by timer.
- **Failure.** Requests fail halfway (the second of two subscriptions), writes
  and closes fail, publishing raises, the recorder is restarted by its container.
- **Long sequences of commands** that leave the power system in states nobody
  tests: loads that are switched on while others are shed, the flag that is
  cleared too early or not at all.
- **Requests nobody answers**: services ask each other for state on subjects
  that carry telemetry but have no responder. The requests themselves arrive at
  everyone who listens to that telemetry.
- **Failing callbacks**: a callback that raises is logged and the next message is
  handled; what the callback had changed by then stays changed.
- **Two pipes between two processes**, each of which may wait for the other.

`PROJECT.json` lists the hazards one by one, each at its line, with the
properties that cover it or the reason why none does yet.

## What makes each part correct

- *orchestrator*: a pause adds no simulated time; a fault of the scenario is published
  once its time has come, near its time, unless a single tick steps over it; a run ends, and does not go
  on by itself after its end; STOP ends the process; a load loads what it named.
- *NAS*: a recording holds what was published, complete, in order, once;
  recordings do not share files; nothing recorded is lost again; a timed
  recording ends; a replay sends in the order of publication.
- *EPS*: what it publishes is within the limit of the bus; it sheds no more than
  needed, in order; shedding comes to an end and does not alternate with
  restoring; failed panels are counted right.
- *MCP*: every call is answered, once, in order on a NATS subject, whatever is
  missing; a caller is never given older telemetry than was given before; a stream
  is complete and in order, and is discarded when its client has left.
- *ECLSS*: O2 is held while generator and hull are in order, whatever else fails,
  and comes back after an outage.
- *C&DH*: every state is verified once and in order.
- *crew*: what is announced as the next activity is what comes next.
- *bridges*: every frame that holds a packet is published once and in order; reading
  does not wait for writing.
- *MDM*: every command is counted; a stored sequence is loaded once, executes its
  own commands from the first on, each after its delay, and ends; errors of the
  bus are reported.
- *GNC, comms*: telemetry belongs to one tick; faults that are set
  show and can be cleared; a step that has changed state is also published.

## The modules

| Module | Models | Extends |
|---|---|---|
| `Orchestrator` | `orchestrator.py`, `scenario.py` | |
| `MCOrchestrator`, three `.cfg` | instances | `Orchestrator` |
| `OrchestratorProofs` | proofs | `Orchestrator` |
| `NasRecorder` | `recorder.go`, `replay.go`, requests of `service.go` | |
| `MCNasRecorder`, three `.cfg` | instances | `NasRecorder` |
| `NasRecorderProofs` | proofs: files and writers | `NasRecorder` |
| `NasReplayProofs` | proofs: types, the order of a replay | `NasRecorderProofs`, `Induction` |
| `NasRecordingProofs` | proofs: what a file holds | `NasReplayProofs` |
| `Eps` | `simulator.go`, `distribution.go`, `battery.go`, `solar.go` | |
| `MCEps`, two `.cfg` | instances | `Eps` |
| `EpsProofs` | proofs | `Eps`, `Induction` |
| `Mdm` | `mdm_core.c`, `cmd_handler.c`, the queues of `bus_1553.c` | |
| `MCMdm`, two `.cfg` | instances | `Mdm` |
| `MdmProofs` | proofs | `Mdm` |
| `Bus` | NATS as the Python services use it: subscriptions, queues, who runs | |
| `Mcp` | `server.py`, `handlers.py` of the MCP server, the operations of `schema.py` | `Bus` |
| `McpService` | what the MCP server promises, without NATS, the cache or timeouts | |
| `Eclss` | `simulator.py`, `cabin_atmo.py`, `co2_scrub.py`, `o2_gen.py` | `Bus` |
| `Cdh` | `simulator.py`, `cmd_handler.py`, `limit_checker.py` | `Bus` |
| `Crew` | `simulator.py`, `timeline.py`, `consumables.py` | `Bus` |
| `Bridge` | `bridge.py` of the MDM and of the robot arm | `Bus` |
| `Station` | the five together, with ticks, the ground and the publishers | `Mcp`, `Eclss`, `Cdh`, `Crew`, `Bridge`; instance of `McpService` |
| `MCStation`, two `.cfg` | instances | `Station` |
| `StationProofs` | proofs | `Station`, `Induction` |
| `Induction` | induction, extrema and sums for the proofs | |

Operators marked *Mutant* in a comment are faulty variants of the definition
that follows them, used to make sure that the properties can fail. They belong
to no specification.

### Orchestrator

A coroutine runs without interruption from one `await` to the next, so a step is
the code between two awaits and `pc` says at which one the loop is suspended:
`tickSent`, `statusSent`, `injecting` (in the loop over the faults), `sleep`. A
publish takes effect when it is called; what it delays is the code after it.
Requests (`Load`, `SetTimeScale`, `Pause`, `Resume`, `Stop`) run at any
suspension point, from NATS or HTTP alike, except that STOP exists on NATS only,
which is subscribed to last. `Elapse` lets wall time pass; `lag` is the time
since `_last_wall`, `age` the time since the iteration began. `PublishRaises` is
the exception that ends `run()`.

History variables (`runLag`, `fired`, `leaped`, `stale`, `resumed`, `asked`) are
read by properties only.

Abstracted: the contents of messages, the HTTP status, connecting to NATS.
Rates are positive in the checked instances. The code takes any number: zero
ticks for ever without advancing, a negative one runs time backwards; the proofs
of `TypeCorrect` and `PausedTimeNotSimulated` hold for these as well.

### NasRecorder

`RecordTelemetry` is split where another goroutine can see a difference: the
file is created (`CreateFile`), each subscription is made (`Subscribe`, or
`SubscribeFails`, which undoes the earlier ones), the writer enters the map and
the lock is released (`Register`). `r.mu` is held from the first to the last of
these; `Busy` says so. A callback receives a message and takes its time stamp
(`Receive`), looks its writer up under the lock (`Lookup`) and encodes it after
the lock is released (`Encode`, `EncodeFails`). A timer closes a stream by name
(`CloseStream`, `CloseFails`). A replay reads the whole directory
(`StartReplay`) and then publishes frame by frame (`PublishFrame`). `Restart`
ends the process between any two of these steps.

`log` is what NATS has carried; a message is its position in it. `files` maps a
name and a second, which is what a file name holds, to frames.

Abstracted: the JSON of a frame; wildcards and overlapping subjects in one
request; messages NATS drops for a slow consumer; a wall clock that is set back;
the time window, rate and sleeps of a replay; reading a directory file by file.
Time stamps have nanoseconds in the code and are strictly increasing here. A
write that fails leaves nothing readable, and the encoder keeps its first error,
as `encoding/json` does.

A writer is `broken` after a failed write, and `stuck` when closing its file failed:
only then does its name stay in the map. `beside` is history: the subscriptions
alive when this one was made.

### Eps

`handleTick` and `handleCommand` hold one lock from beginning to end, so each is
one step. `ShedLoad` switches loads off in a loop; its effect is stated in closed
form: a load stays on when it and the loads that would go after it fit (`TotalFrom`,
the sum of what they draw). The
lowest number goes first: `life_support`, with priority 1, before everything
else. Restoring goes by the lowest number first and stops at the first load that
does not fit.

Abstracted: bus voltage and its degradation, battery voltage and temperature,
the angle of the sun, the current-voltage curve: no decision of the code reads
them. Power is in units coarser than the limits on the rate of the battery (a few
watts), so every surplus or deficit moves the charge by a whole step. A failed
battery is empty after one tick, which is what `ForceDischarge` computes.

No service answers the request for `telemetry.dynamics.state`, so in the
deployment `in_sun` is always false; with an answer it may be either. `Suns`
covers both.

### Mdm

One thread runs `mdm_main_loop`; `pc` is the part of the iteration that comes
next (`bus`, `stdin`, `tasks`, `sequences` with the slot `next`, `advance` between
the execution of a stored command and the step of its sequence, `sleep`). Each
part is one action, and `CmdProcess` is the whole of `cmd_process` with the handler
it dispatches to; a cold reset is `mdm_init`. `Deliver` is the hardware of the
1553 bus: it puts a message into the receive queue between any two parts. Nothing
in the repository fills that queue, so the action is external; in the Docker
deployment the bridge does not start the program at all.

A command is a value with a kind, the slot and count it names, the sum of its bytes
and, for a list of commands, what its parameters spell at each offset. All
commands that set a mode, a flag or a parameter are of kind `nop` (or `refused`,
when the handler fails): no decision of the code reads what they set. The checksum
of a received command may come out either way, because `CMD_PACKET` is longer than
the message it is read from. Entries of a list that the packet does not reach keep
what the slot held before; the offset wraps as its `UINT8` does.

Two clocks are cut down: of `tick_count` only the remainder that `cycle_10s` looks
at is kept, and `uptime_seconds` counts the seconds that begin. `UINT32` is an
`unsigned long` (`mdm.h:29`), which has 64 bits where the Docker image and the default
target of the Makefile build the program, so the milliseconds that `mdm_core.c:184`
casts to it are not cut, and only a cold reset sets the clock back. The i386 cross
target (`Makefile:81-88`), where `long` has 32 bits and the clock would fall back to 0
after 49.7 days, is not modelled. The elapsed time is an unsigned difference modulo
`Word`. `asked`, `done` and `age` are history, read by properties only; `age` counts from
the load of a sequence, as `time_started` does: a step does not renew it.

Abstracted: the telemetry packets, the content of what is queued for transmission
(only the number counts), the cyclic tasks other than the check of the bus errors.

### Bus and Station

`nats-py` handles the messages of one subscription one after the other and those
of different subscriptions in tasks of their own. `queue` holds, per subscription,
what has not been handled; a callback that has no `await` before its last line is
one step that takes the first message, changes the state of its service and
publishes. An exception ends the callback and nothing else.

`deployed` says which services run in a behaviour, as Docker Compose may start any of
them, and which people and programs are there besides. A message is published to
those that run. `Station` joins the steps of the services; `Tick` is what the others
see of the orchestrator, `PublishState` and `SendCommand` are the services without
a model here and the ground.

### Mcp

A call goes through `pc`: `asked`; `sending`, when `get_status` has another
subsystem to ask; `waiting`, at the `await` of `nc.request` or `next_msg`;
`answered`. Three things can end a wait: an answer (`Reply`), the timeout
(`Expire`), and the 503 by which NATS reports that nobody subscribes
(`NoResponders`), which is no `TimeoutError` and so takes the way of the other
exceptions. Calls of one NATS subject are handled one at a time (`MayStart`), those
of HTTP concurrently.

A request for telemetry is published on the subject of that telemetry, so it reaches
the broadcast of the server itself and C&DH as a message without a body; both fail
on it. `from`, in the record of a client, is history: the newest states when it
registered. A client of the stream is `added` before its response is prepared,
`streaming`, `gone` when its connection is lost without the server having noticed,
and `closed`; `leaked` when preparing raised.

What telemetry says is abstracted to the number of its state. `Answering` names the
subsystems that answer requests; no service of the repository does, and then the
cache stays empty and every request for telemetry ends in an error. The instance
has one who answers, without whom the cache could not matter.

Abstracted: the OpenAPI document, the text of errors, the annotations of
`nats.NATSConnection`, a name the installed library has to provide for the module to
be imported at all.

### McpService

The abstract specification: a call is made by a channel about a subsystem, and
answered once; a call of a serial channel is answered after those before it; a
reading is at least as new as every reading of that subsystem given before, to any
caller. There is no bus, cache or timeout in it. `Station!ImplementsService` maps its
variables to three fields of each call.

### Eclss, Cdh, Crew

`EclssTick` is `_on_tick` with `_step`: generator, scrubber, cabin, the leak. It
publishes nothing, because `json.dumps` refuses the `ECLSSFaults` object in the
state. Partial pressures are whole units, and what a tick adds or removes is a
constant, since the mass of air cancels out of the code's arithmetic; the leak is
linear in pressure, which may become zero (the step then divides by it and fails) and
negative. `outage` is history. Temperature, humidity and water influence nothing
else.

`CdhTelemetry` publishes a state as verified unless a parameter with a limit is out
of it: limit events cannot be serialised. The limits of EPS and thermal have names
that those services do not publish, so their states always pass. `CdhCommand` reads
only the field `command`.

`CrewTick` computes the current and the next activity from the cumulative durations.
`crewTime` is kept modulo the length of the timeline.

### Bridge

Two tasks: one reads the output of the process and publishes (`ReadFrame`), the other
handles commands and waits in `drain` while the pipe into the process is full
(`BridgeCommand`). In pipe mode the wait for the end of the input reads it itself,
without an `await`, so no task runs (`Swallow`). The word count of an MDM frame is
written low byte first and read high byte first; the model keeps what the bridge
reads. A command whose target is a name raises before anything is sent to the MDM; the
robot arm is sent every command. `ProcessNext` is the process.

## The runs

| Run | Module, cfg | Shows |
|---|---|---|
| `orchestrator` | `MCOrchestrator`, `Orchestrator.cfg` | `TypeOK`, `PausedTimeNeverSimulated`, `OnlyLeapsSkipFaults`, `FaultsPublishedOnTime`, `CompletedNeedsResume`, `EveryRunEnds`, `StopEnds` |
| `orchestrator_faults` | `OrchestratorFaults.cfg` | violation of `FaultsExecuted` |
| `orchestrator_load` | `OrchestratorLoad.cfg` | violation of `LoadsTheNamedScenario` |
| `nas_recorder` | `MCNasRecorder`, `NasRecorder.cfg` | `TypeOK`, `OneWriterPerFile`, `FirstRecordingFaithful`, `CopiesBounded`, `RecordedFramesKept`, `TimedRecordingEnds` |
| `nas_replay` | `NasReplay.cfg` | `FirstRecordingFaithful` |
| `nas_restarts` | `NasRestarts.cfg` | `ReplayInOrder` |
| `eps` | `MCEps`, `Eps.cfg` | `TypeOK`, `PublishedWithinLimit`, `SolarPowerOfWellPanels`, `ShedsInOrder`, `ClearedWhenNextDoesNotFit`, `SheddingEnds`, `NoThrashing` |
| `eps_solar` | `EpsSolar.cfg` | violation of `SolarFailureSheds` |
| `mdm` | `MCMdm`, `Mdm.cfg` | `TypeOK`, `EveryCommandCounted`, `DelaysKept`, `LoadedOnce`, `StartsAtFirstCommand`, `SequencesEnd`, `OverflowsReported` |
| `mdm_stored` | `MdmStored.cfg` | violation of `StoredCommandsRun` |
| `station` | `MCStation`, `Station.cfg` | `TypeOK`, `StreamsComplete`, `OxygenHeld`, `VerifiedInOrder`, `FramesInOrder`, `ImplementsService`, `CallsAnswered`, `GoneClientsForgotten`, `OxygenRecovers`, `NextActivityComes`, `FramesRead` |
| `station_telemetry` | `StationTelemetry.cfg` | violation of `TickedHavePublished` |

Bounds, and why they are enough:

- `orchestrator`: two scenarios, one with three faults, two of them in one
  window and out of order in the list; three requests, so that a load, a change of
  rate or a pause, and a resume can meet in one tick; an iteration up to twice as
  long as the interval; 16 ticks, more than any run here needs. Time scales of
  1, 2 and 4 with iterations of up to two units: the first two move time by less than
  the width of a window (5), the last by up to 8, so that faults are stepped over,
  entered late and hit.
- `orchestrator_faults`: the real proportions in units of 5 ms: an interval of
  100 ms, a window of 10 ms each way, a time scale of 1.0, an iteration late by at
  most one unit.
- `nas_recorder`: one name, since recordings of different names touch different
  entries and files; requests for one subject and for two, so that one can fail
  halfway; two recordings, the least for anything to be left over; two messages,
  the least with an order; one restart; a second of two units, so that two things
  can happen in it.
- `nas_replay`: one replay with two recordings, timed or not, across a restart.
- `nas_restarts`: three recordings of one name without timers, three messages, one
  replay and three restarts: three subscriptions of a stream to a subject, each of
  which ended before the next, and all of them before the replay. Two would not tell
  whether pairs that have both ended matter.
- `eps`: two loads at the start and two more to switch on, over the limit by one
  load and by two; a panel id of no panel; three commands; a battery of four
  steps, above and below a half.
- `mdm`: two slots, the least in which a sequence can be loaded twice, and both can
  be full; two messages of nine kinds at any points of the loop; sequences whose
  commands load a sequence, abort all of them or reset the computer. The widths are
  scaled so that each limit is met: a byte has 16 values, a packet 20 bytes (the
  second entry of a list lies beyond it, the third wraps), an id 4 values, a count
  8, an array 3 entries, a queue 3 places.
- `mdm_stored`: the same with one command.

- `station`: nine deployments, chosen per behaviour. Services that exchange no
  message run on side by side without effect on each other, so the deployments
  are the groups in which they do: two clients and a publisher; callers of NATS
  and HTTP with someone who answers; both of these with C&DH, which receives their
  requests; commands of callers and of the ground to ECLSS; calls nobody answers;
  ECLSS, ticks and faults; crew, C&DH and ticks; and each bridge. At most three calls
  (two that race and one after them), three events from outside, three states of a
  subsystem, one message waiting when the outside sends the next. Pipes of two
  frames and one command, so that both can be full at once; four frames, with and
  without a packet. The cabin needs fewer than ten ticks from its start to the
  threshold of the generator and to that of the scrubber; a leak takes the pressure through
  zero to -1, where it is no longer followed, and CO2 is not counted beyond 4. A timeline of
  three activities of different lengths goes round several times.

Deadlock is not checked where the system may stop: the orchestrator's process
ends, the recorder's instances run out of messages, a bridge ends with its process.

The violations are disagreements between the code and its documentation:

- `FaultsExecuted`: `docs/ARCHITECTURE.md` says that faults are executed at the
  specified times. With a window of 20 ms and steps of 100 ms most are stepped
  over. `OnlyLeapsSkipFaults` says that nothing else skips a fault.
- `LoadsTheNamedScenario`: `docs/SCENARIOS.md` has clients send `scenario_id`;
  the handlers read `path` and load the default scenario.
- `SolarFailureSheds`: `docs/SCENARIOS.md` describes a scenario in which a
  failure of the solar array leads to load shedding; shedding depends on the
  load alone.
- `StoredCommandsRun`: a comment says that stored commands are executed when their
  delays expire. The packet built for one has no checksum, so that it is refused
  unless its bytes happen to add up to zero.
- `TickedHavePublished`: `docs/ARCHITECTURE.md` says that every subsystem publishes
  its state on a tick. ECLSS handles the tick and then cannot serialise its state.

## Fairness

- `Orchestrator`: weak fairness of the main loop and of the passing of time: the
  event loop runs what is ready, and `asyncio.sleep` and publishing return.
  Requests are not fair, and finitely many: one who sends RESUME more often than
  the loop ticks keeps `_last_wall` moving and freezes simulated time.
- `NasRecorder`: weak fairness of a request in progress, of expired timers, of
  replays and of time: runnable goroutines run. Callbacks need none for what is
  checked.
- `Eps`: weak fairness of the tick. Commands are finitely many; someone who
  switches a load on before every tick keeps it shedding.
- `Mdm`: weak fairness of the loop, which never blocks, and strong fairness of a
  sleep in which a second begins: every iteration lasts 10 ms or more of a
  monotonic clock. Messages are finitely many; a bus controller that resets the
  computer in every ten seconds keeps the warning from coming.

- `Station`: weak fairness of the callbacks of ECLSS, of a call in progress, of the
  task that reads frames (event loops run what is ready; timers fire, so that a wait
  ends), of the keepalive that is written to a client every 30 seconds, and of the
  orchestrator's tick. Nothing is assumed of the ground, of callers, clients, the
  processes behind the bridges, or those who publish.

## What is proved

Every safety invariant, action property and refinement that a run checks is also
a theorem, for every value of the constants that satisfies the assumptions named
here. One theorem has a condition of its own, `Coarse`, which the code does not
guarantee; it is explained there.

`OrchestratorProofs`, from `OrchestratorConstants` only:

- `TypeCorrect`: `Spec => []TypeOK`. `TypeOK` contains `lag <= age` and
  `runLag <= age`, without which the bounds are not inductive.
- `PausedTimeNotSimulated`: `Spec => []PausedTimeNeverSimulated`. Inductive
  together with `TypeOK`: RESUME sets `lag` to 0, and while the simulation runs
  both clocks advance together.
- `FaultsSkippedByLeapsOnly`: `Spec => []OnlyLeapsSkipFaults`, at every rate, those of
  the shipped scenarios included. The invariant (`FaultInv`) says where every fault
  stands at each suspension point: published, stepped over by one tick, its window not
  yet entered, or, in the middle of a tick, about to be examined or in the list still
  to publish. A tick from before a window ends before it, in it, or has stepped over
  all of it; a load in the middle starts the new list at time zero.
- `FaultsOnTime`: `Spec => []FaultsPublishedOnTime`. Only a tick and a load move
  time or change the scenario; the first does not happen while a list of faults is
  being published, and the second makes the list stale.
- `CompletedStaysPaused`: `Spec => []CompletedNeedsResume`. What ends the pause of
  a scenario past its duration is a RESUME, or a load, which starts at time zero.

`NasRecorderProofs`, from `NasConstants`:

- `FilesNotShared`: `Spec => []OneWriterPerFile`. It follows from `MapInv`: the
  map knows every open writer, under its name, and the file of a writer carries
  that name. A request in progress has found its name free and holds the lock.
- `FramesKept`: under `Coarse`, `Spec => RecordedFramesKept`. `KeptInv` has four
  parts: the file of a request in progress is empty and no writer has it; no
  file of a later second than the present one has a frame; no writer has a file of
  a later second; and the pending timer of a timed recording comes a second or
  more after the second of its file. So when a name is free again, through its
  timer or a restart, the clock has left the second of its last file, and the file
  that is created next is a new one.

`Coarse` is needed: the code accepts a duration below a second (and closes the
file after it), and a second request within the same second truncates the file.

`NasReplayProofs`, from the same, on top of `MapInv`:

- `TypeCorrect`: `Spec => []TypeOK`.
- `ReplaysInOrder`: `Spec => []ReplayInOrder`. `OrderInv` follows a frame through
  the three places where it can be: with a callback, in a file, in what a replay has
  still to send. Wherever it is, a subscription of its stream has seen it
  (`KnownSound`); frames of one stream have different time stamps, which order the
  messages of a subject like the log does unless two subscriptions overlapped
  (`KnownOrdered`); there may be any number of them, each ended before the next. The step that needs an argument is a callback that takes its time
  stamp: another subscription could have stamped a later message before it only if it
  was alive together with this one, because one that has ended saw nothing from the
  time after a later one was made (`Handover`).

`NasRecordingProofs`, on top of `OrderInv`:

- `FirstRecordingsFaithful`: `Spec => []FirstRecordingFaithful`. While the writer of a
  name's only recording works, its file has the message of every callback that is over
  (`Faithful`); after a failed write or a close a callback may end without writing,
  but nothing is written after it, so what is missing is missing at the end. That
  the subscription is the only one of its name and subject comes from `StructInv`,
  which says whose each subscription is: of the request in progress, of a recording, or
  of a request that failed.
- `CopiesAreBounded`: `Spec => []CopiesBounded`. No file has a message more often than
  there are callbacks of its name that handled it and are over (`CopiesInv`), and a
  subscription handles a message once. A failed request's subscription has seen at
  most one message of its subject, the one whose callback waited for the lock
  (`FirstOnly`).

`EpsProofs`, from `EpsConstants`:

- `TypeCorrect`: `Spec => []TypeOK`: among other things that no name is twice in the list
  of loads, whatever is switched on and off, and no panel twice in the failed ones.
- `WithinLimit`: `Spec => []PublishedWithinLimit`. The total of the loads is the last of
  their partial sums; what stays on after shedding is the end of the list in the order
  of priorities, and its sum is the last partial sum that fits. A restored list ends
  where the next load would not fit.
- `SolarOfWellPanels`: `Spec => []SolarPowerOfWellPanels`.
- `ClearedOnlyThen`: `Spec => ClearedWhenNextDoesNotFit`, and `ShedsOnlyInOrder`:
  `Spec => ShedsInOrder`, the two action properties. Both rest on what `ShedLoad` and
  `RestoreLoad` do to any list (`ShedLoadIs`, `ShedsOnlyNeeded`, `RestoreLoadIs`, `RestoreStops`).

`MdmProofs`, from `MdmConstants`, on one invariant `IInv`, proved action by
action on the lemmas of what any command does to queues, counters and slots
(`CommandQueues`, `CommandBooks`, `CommandRecords`, `CommandHeld`):

- `TypeCorrect`: `Spec => []TypeOK`. `TypeOK` is not inductive: that a step stays
  in its array needs `Inside`, the step of a sequence whose command is being
  executed is below the length of the array, and that no command moves it forward.
- `BooksBalance`: `Spec => []EveryCommandCounted`.
- `NoSequenceTwice`: `Spec => []LoadedOnce`. The search for a sequence looks at all
  slots before a free one is taken, and an id that fits its field is stored as it is.
- `FromTheFirst`: `Spec => []StartsAtFirstCommand`.
- `NotBeforeItsDelay`: `Spec => []DelaysKept`. A sequence is at least as old as the
  difference of the readings (`Aged`), counted from its load; a cold reset puts the
  clock back, but empties every slot in the same step.

`StationProofs`, from `StationConstants` and the assumptions of the modules it
extends, for any set of deployments, subscriptions, clients and publishers:

- `TypesRight`: `Spec => []TypeOK`.
- `OxygenIsHeld`: `Spec => []OxygenHeld`. The invariant `CabinInv` adds that without an
  outage nothing leaks and the generator works. Then pressure does not change, what
  the generator makes is no less than what is used, and below the threshold O2 does not
  fall; from the threshold it falls by one tick's use at most.
- `McpImplementsService`: `Spec => ImplementsService`, the refinement: every step of the
  station is a step of `McpService` or leaves its variables alone. `McpInv` has four
  parts: the types; that the progress of a call agrees with what is known of it; that
  calls are made in order and a call of NATS is only worked on when those before
  it are answered; and that no reading given is newer than the cache, nor the
  cache than the subsystem. The last is what keeps telemetry from going back: an
  answer from the cache is as new as every reading given, and an answer from the
  subsystem is as new as the cache.
- `FramesRelayed`: `Spec => []FramesInOrder`. The pipe holds the last of the frames
  written, in order (`PipeHoldsLast`), and before the bridge is connected nothing has
  been taken from it (`NothingReadBefore`): otherwise the first frames would be lost.
- `NothingMissed`: `Spec => []StreamsComplete`. For each publisher there is one number
  that all clients have in common: the states up to it have been put into the queue of
  every registered client, the ones after it wait in the queue of the server
  (`StreamsInv`). A client that registers has nothing yet, and hears from the next one on;
  that is no later than the first state published after it registered (`Reaches`).
- `StatesVerified`: `Spec => []VerifiedInOrder`. The queue of C&DH holds the states after
  the last one verified, with requests without a body among them.
- `AnnouncedComes`: `Spec => NextActivityComes`. `Ends` are growing sums of the durations,
  so every time of the timeline falls into exactly one activity (`CurrentIs`,
  `CurrentExists`), and one unit later into the same or the next (`NextTime`).

`Induction` holds what several of these need of data: induction over the natural
numbers, the greatest and least element of a finite set, and partial sums, which exist
for every list (`PartialSums`). The library's induction rules take a formula as a
parameter, which none of the provers can instantiate; `NatSetInduction` says the same of a
set of numbers and is proved from the finite subsets being well founded.
The sums over the loads and over the timeline are therefore defined as functions on
the positions of a list and shown to be partial sums.

The proofs changed the models in a few places. `CopiesBounded` had been stated too
strongly: it did not count the message that a request which fails has already handed
to a callback, and that callback looks its stream up by name, so it may write into a later
recording of the name that never asked for the subject. No instance was large enough
to show it. `VerifiedInOrder` turned out to need the names of the limits to
be other than those that are published, which `StationConstants` now says and
`Reported` lists; and a client can connect to a stream only where the server runs.
`StreamsComplete` is about the services that number their states; those of C&DH and the
crew carry none in the model.

Only checked with TLC: the liveness properties (`EveryRunEnds`, `StopEnds`,
`TimedRecordingEnds`, `SheddingEnds`, `NoThrashing`, `SequencesEnd`,
`OverflowsReported`, `CallsAnswered`, `GoneClientsForgotten`, `OxygenRecovers`,
`FramesRead`), because they rest on fairness and so on `ENABLED`, which TLAPS
does not handle.

## Plan

Done: the orchestrator, the recorder, EPS, the flight computer, the Python services on
one bus, and the refinement of the MCP server, with all their safety proved. Left, in this
order:

1. The safety half of the liveness properties as theorems: what a tick of EPS does to
   the number of loads that are on while shedding, what an iteration of the flight
   computer does to the commands left in a sequence, that a call in progress only
   moves on.
2. An abstract recorder (a set of recordings, each a gap-free part of what was
   published) that `NasRecorder` implements, and an abstract clock that
   `Orchestrator` implements.
3. `Gnc`: select loop, modes, faults, and a clock that goes back when a scenario is
   loaded. The state it waits for has other fields than the one dynamics publishes, so
   in the deployment it never gets beyond its first wait.
4. `Comms`: one tick's telemetry from one tick's state.

## Not modelled, and why

- The mathematics (orbit, attitude, filter, control law, link budget, kinematics,
  humidity and water) is floating point, which neither tool handles; only the
  protocol around it can be modelled. With it go the dynamics engine, the
  robotics daemon (which reads no commands) and, so far, GNC and comms.
- Thermal steps a closed formula per tick and takes no commands: there is one behaviour, and
  nothing in it but arithmetic. For the others it is one more publisher.
- The object store of the NAS is a call into JetStream around one unlocked map of
  buckets, used by NATS and HTTP goroutines. What Go does at a concurrent map access is
  to end the process, which `Restart` covers for the recordings.
- The requests of the NAS that only read; `subscribe_telemetry` of the MCP server and the
  stored commands of C&DH, which nothing calls; the functions of `tlm_pack.c`, for the
  same reason.
- Of the messages on the 1553 bus only those from the bus controller to a remote
  terminal and back (`BC_TO_RT`, `RT_TO_BC`): the executive takes the other two
  types of `mdm.h` from the queue and does nothing with them.
- `send_command` of the MCP server subscribes to `command.downlink` for each command and,
  when an exception other than the timeout is raised after that (`handlers.py:97-108`),
  never unsubscribes. Nothing in the repository publishes on that subject, so the
  subscription has no effect on the others and is not in the model.
- A client of the stream whose queue has leaked is forgotten by nobody:
  `GoneClientsForgotten` is about the clients that are gone only.
- The frames of an MDM that is piped into `bridge.py` by the shell (`Makefile:75`, and what
  the comment of `bridge.py` shows) come on the bridge's own input, which the model
  only swallows; `FramesInOrder` and `FramesRead` are about the mode in which the bridge
  starts the program.
- The dashboard, the 3D view, the build and start-up scripts keep no state that
  others depend on.

## Running

    tlc -workers 2 -config Orchestrator.cfg MCOrchestrator
    tlapm OrchestratorProofs.tla

and the same for the other rows of the table. The longest run takes one or two
minutes, the longest proof several more.
