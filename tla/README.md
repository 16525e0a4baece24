# MiBee Eye: verification project

TLA+ models, TLC runs and TLAPS proofs for the camera server in `src/`
(Go, one process on a Raspberry Pi, plus the subprocesses it spawns).

## 1. The system

```
 mtxrpicam (subprocess)
     |  video pipe            ^ config pipe
     v                        |
 camera.RPiCamera  <---- camera.ParamManager <---- web / onvif handlers
     | framesCh (30)
     v
 parser goroutine of main ----> h264.AUHub ---+--> rtsp.Server --> RTSP clients, HLS and RTMP ffmpeg
                                 (16 per sub) |
                                              +--> onvif.SnapshotBuffer --> snapshot handlers
 web.Server (login, sessions, wsHub)    ptz.State    onvif.Discovery
```

| component | source | state | operations | what is hard |
|---|---|---|---|---|
| camera backend | `internal/camera/camera.go`, `pipe.go` | started/stopped, subprocess, two pipes, framesCh, params | Start, Stop, SetParam, GetParam, Frames, run/readLoop | Stop, SetParam and restart run in different goroutines; reads and sends outside the lock; the subprocess may die, stall or be killed at any point |
| parameter manager | `internal/camera/manager.go`, `params*.go` | callback | Set, Get, Validate | events leave outside the lock, carry the value asked for and may be lost; requests that stop half way |
| H.264 parser | `internal/h264/parser.go` | none | Parse, FindStartCodes, ExtractSPSandPPS | start codes of two lengths, ends of buffer |
| AU hub | `internal/h264/hub.go` | subscribers, nextID | Write, Subscribe, Unsubscribe | a write racing with a close; cancellation goroutines; identifiers |
| RTSP server | `internal/rtsp/server.go` | clientCount, stream, frame reader, SPS/PPS | OnDescribe/Setup/Play/SessionClose, readFrames, Stop | sessions come and go while a reader is inside a frame; two readers may overlap |
| RTMP push | `internal/rtmp/push.go` | status, restart window, cooldown, cmd | Start, Stop, run | Stop between two steps of run |
| HLS server | `internal/hls/server.go` | cmd, ready, hasOutput | Start, Stop, runLoop, watchReady | readiness signalled once over restarts |
| PTZ state | `internal/ptz/state.go` | position, velocity, moving, cancel, presets | ContinuousMove, AbsoluteMove, Stop, presets | each move is several critical sections and a goroutine of its own |
| web server | `internal/web/*.go` | login limiter, sessions, websocket hub, config file | login, logout, handlers, wsHub | check-then-act across requests, hub shutdown |
| ONVIF | `internal/onvif/*.go` | snapshot buffer, discovery socket | SOAP handlers, snapshot, probe replies | cached SPS/PPS and frame may differ in age; settings applied one by one |
| configuration | `internal/config/config.go` | none (file) | Load, Validate | environment overrides; what a restart finds after a cut-off update |
| main | `cmd/server/main.go` | wiring | start order, ordered shutdown | steps time out and go on |
| front end | `internal/web/static/` | browser | | not modelled |

Shared state is small: the camera's `params` and channel (under `RPiCamera.mu`), the hub's
map, the server's client counter, the PTZ state and the snapshot buffer, each under a mutex of
its own. Nearly every hazard is about what happens *between* two critical sections, in a
callback, or around a subprocess. The full list, line by line, is `hazards` in `PROJECT.json`.

### What makes each component correct

- **Camera**: no `mtxrpicam` outlives `Stop`; a parameter update is never lost in a restart;
  frames stay in order; a restart leaks nothing; `Stop` returns and releases the consumer; a
  dead subprocess is replaced.
- **AU hub**: never a send on, or a second close of, a closed channel; every subscriber sees a
  lossy but ordered channel; a cancelled subscriber leaves nothing behind.
- **RTSP server**: a playing session is served, nothing is consumed when nobody plays (true
  until a session sends PLAY twice), no reader is lost, IDR pictures are decodable once
  parameter sets have come, `Stop` returns.
- **RTMP push / HLS**: `Stop` leaves no ffmpeg, the loop always tries again, the attempts one
  `Start` leads to are bounded, HLS readiness is signalled once.
- **PTZ**: the status is honest, a move replaces the one before, a continuous move stays active
  until it is stopped, everything settles.
- **Web**: the login limiter refuses for cause only and is overshot only by requests in
  flight; broken connections leave the hub; the configuration file is whole at every instant
  and after a power cut, and has what was acknowledged unless that was replaced or its rename
  undone by a power cut.
- **Snapshots / parser**: ffmpeg gets a key frame with its parameter sets; every byte is in
  exactly one NAL unit or start code.
- **Discovery**: the reader ends however it is stopped.
- **Parameters and presets**: what a browser shows of a parameter is in force, and it is told
  of every change of the presets, whichever requests overlap or fail half way, unless the hub
  drops the event.
- **main**: the first key frame reaches the snapshot buffer whatever the pace of the starts; no
  consumer receives a frame twice or after a later one, wherever frames are lost on the way; the
  signal ends the process and the pipeline; a server that was stopped serves nobody.

## 2. Modules

| module | models | about |
|---|---|---|
| `Camera` (`MCCamera`, `CameraProofs`) | `camera.go`, `pipe.go` | backend, subprocess, pipes, consumer |
| `LossyChannel` | | abstract specification of a bounded channel to one consumer; `Camera` and `AUHub` implement it |
| `LossyPipe` | | abstract specification of a way through several lossy channels; `Delivery` implements it from the camera to each consumer |
| `AUHub` (`DeliveryProofs`) | `h264/hub.go` | fan-out to the subscribers |
| `Delivery` (`DeliveryProofs`) | `main.go` | extends `AUHub`: the camera's channel (as a `LossyChannel`), the parser goroutine, the two subscriptions, in the order main makes them |
| `RTSPServer` (`MCRTSPServer`, `RTSPServerProofs`) | `rtsp/server.go` | callbacks, readers, `Stop` |
| `PTZState` (`PTZStateProofs`) | `ptz/state.go` | calls, movers, status |
| `Presets` (`ControlProofs`) | `ptz/state.go`, `onvif/ptz.go`, `web/handlers.go` | stored positions, requests about them, a browser's list |
| `Params` (`ControlProofs`) | `camera/manager.go`, `params_reflect.go`, `onvif/imaging.go`, `web/handlers.go` | parameters, requests about them, what a browser shows |
| `Shutdown` (`ControlProofs`) | `main.go`, `web.go`, `onvif/server.go` | start order, signal, shutdown steps, `Start`/`Stop` of two HTTP servers |
| `Control` (`MCControl`, `ControlProofs`) | `main.go` | `AUHub`, `Delivery`, `Params`, `Presets`, `Shutdown` in one specification |
| `RTMPPush` (`RTMPPushProofs`) | `rtmp/push.go` | supervisor with window and cool-down |
| `HLSServer` (`HLSServerProofs`) | `hls/server.go` | supervisor with readiness |
| `WSHub`, `WebLogin` (`ServicesProofs`) | `web/ws.go`, `auth.go` | websocket hub, login limiter and sessions |
| `ConfigUpdate` (`ServicesProofs`) | `web/handlers.go`, `config/config.go` | updates of the configuration file, restarts |
| `Snapshot` (`ServicesProofs`) | `onvif/snapshot.go`, `web/snapshot.go` | key-frame buffer and its handlers |
| `Discovery` | `onvif/discovery.go` | probe responder |
| `H264Parser` (`ServicesProofs`) | `h264/parser.go` | the loops of the parser against the definition of Annex B |
| `MCServices` (`ServicesProofs`) | | `HLSServer` and the modules below it in one specification, checked in one run |

How they compose: `Delivery` extends `AUHub` and instantiates `LossyChannel` for the camera's
channel, which `Camera` is shown (checked and proved) to implement; so the pipeline is checked
against the camera's promise, not against its thousands of states. `Presets` sees a movement of
`PTZState` as one step. `Control` and `MCServices` are unions of components that share no
state.

In every module an action is one critical section or one blocking operation of the code, in
the order of the code; `pc`-like variables say where a goroutine is. Helpers and actions keep
the names of the functions they translate where there is one. Operators marked *Mutant* are
plausible bugs of the definition that follows them; no specification uses them, and each
property is known to fail with one of them in place.

**Camera.** `run` is the program counter of `run()`, `spawnSubprocess` and `readLoop`; `mu` is
held over several steps only by the spawn (`SpawnPipes`, `SpawnFork`/`SpawnFail`,
`SpawnConfig`) and by a `SetParam` whose write to the pipe blocks (`SetParamWrite`). `stop` is
the body of `Stop`: `StopSignal`, `StopCleanup`, `StopClose`, `StopJoin`/`StopTimeout`. The
subprocess (`ChildDies`, `ChildReadsConfig`, `ChildWrites`) may die at any time, never read its
configuration, or write any message; pipes are the kernel's: a read that has begun is not woken
by `Close`, end of file comes with the last writer, a write without readers fails. A foreign
subprocess (`ForeignFork`) may inherit the ends that are not close-on-exec. `params` is one
value for the whole struct: the code always sends the whole struct.

**AUHub.** `subscribers` is the map by identifier; `ID` is `string(rune(n))`, for which the
constant `NotRunes` gives the numbers that collide. `Unsubscribe` is `DeleteAndClose` under the
mutex and `UnsubscribeCancels` after it; `Watcher` is the goroutine `Subscribe` starts.
`Receive` is the consumer's range loop.

**RTSPServer.** `OnPlay`, `OnSessionClose`, `OnDescribe`, `OnSetup` are whole critical
sections; `ReaderTakes` … `ReaderWrites` are the steps of `readFrames`/`processAccessUnit`
that are separated by unlocks. gortsplib is external: it serves a session's SETUP before its
PLAY, lets it PLAY again while it plays, and may end it at any time. A stream is the number of
its creation. The channel may begin with any unit, because main subscribes after the parser has
started (`Produce`). Three variables are history: `unplayed`, a session ended that never
played, the case `rtsp_unserved` is about; `replayed`, a session sent PLAY while it was
playing, which `OnPlay` counts as another client; and `announced`, the first unit with SPS and
PPS that was put in the channel.

**PTZState.** A call (`ContinuousMove`, `AbsoluteMove`) is several sections (`SetVelocity`,
`SetCancel`) and then a mover goroutine; ticks are actions. One axis stands for three, as no
code relates them. `Presets` is a module of its own. `overlapped` and `late` are history: two
calls have been in progress at a time, an absolute move has come to its end although another
had replaced it.

**RTMPPush.** `pc[r]` is where each `run()` is; two runs exist when `Start` follows `Stop`
before the first has ended. Times are ages and remainders that `Tick` moves. `recent` and `left`
are history: the ages of the attempts since the last `Start` or `Stop`, both of which reset the
counters, and the earlier runs that were alive at the last `Start`.

**HLSServer.** `loop` is `runLoop`/`runOnce`, `watcher` the `watchReady` goroutine of each
command, `stop` the steps of `Stop`. `exec.CommandContext` kills with the context
(`ContextKill`).

**WSHub.** Time is in units of 10 seconds, so deadlines and tickers keep their ratios of
1 : 3 : 6. A connection that failed once fails for ever, as gorilla's does.

**WebLogin.** One address; each request calls limiter, store and limiter in three sections.
`failures` is a history variable.

**ConfigUpdate.** File contents are *whose* credentials they are, or torn. Every file
operation may fail, and between any two the process may end (`End`: a crash, or the restart
another request scheduled) or the power go (`PowerCut`). `file` is what a process reads, `disk`
what a power cut leaves. `Sync` makes the contents durable; the rename becomes durable when the
kernel writes the directory back (`WriteBack`), as the handler does not sync it, and contents
that were not synced may come after it. A power cut before that brings the old file back:
`undone` is the history of the updates it undid, `replaced` of those a later update replaced.
`Boot` is `Load` in the next process: the file, then the credentials of the environment, which
go before it.

**Delivery.** `main` is where main is in its starts. The camera sends from its own start on;
the parser goroutine starts after the snapshot's subscription and before the RTSP server's.
The RTSP server reads only while somebody plays, so its subscriber need not read.
`origin` is history: the frame each unit was parsed from, which the code does not keep. It lets
`FramesReachConsumersInOrder` speak of the frame a consumer has, not of the unit's number.

**Params.** A value is its Go type and twice its number (halves must be told from whole
numbers: `uint64(v)` cuts off). `Apply` is `Set` up to the unlock, `Announce` the callback
after it, which may find the hub's queue full. `SetImagingSettings` is a sequence of such
calls that ends with the first that fails. `ReadInitial`/`SendInitial` is what a browser gets
when it connects. `overtaken` is a history variable: the parameters the last call of which
raced with another call or with a connecting browser, or lost its event.

**Presets.** A request takes one or two sections: the web server checks and then sets, ONVIF
counts and then sets under a token made from the count; the callback comes after the section.
The callback is the hub's `sendEvent`, which drops the event when its queue is full (`Tell`):
`lost` is the history of that, until the browser next asks for the list.

**Shutdown.** `serve` is `Start` of the two HTTP servers, `listener` the goroutine of each that
listens. Main's step and the server's own `SeesDone` both call `Stop`, in either order, and
the step's timer may fire at any time.

**Snapshot.** A NAL unit is its kind and the age of its access unit.

**H264Parser.** The loops of `FindStartCodes` and `Parse` are state machines, an action per
iteration (`FindStep`, `SplitStep`); their result is compared with a definition of Annex B that
speaks of single bytes (`EveryByteOnce`). Written this way the loops have invariants, so the
comparison is proved for strings of any length and not only checked on short ones.

**MCServices, Control.** The parts share no state, so their product would only multiply
interleavings that no property tells apart. `part` is chosen initially and never changes:
exactly one component moves in each behaviour, and the run checks their disjoint union.
`Control` takes the parameters, callers, tokens and places as constants, and `MCControl` gives
them values; `Tuned` only keeps that instance small.

## 3. Runs

| run | what is asked | bounds, and why they do |
|---|---|---|
| `camera_safety` | no orphan, config in sync, `Frames()` is a lossy channel, clean respawn | two frames, a channel of one (so one is dropped), pipes of two messages, two faults, two parameter values, foreign forks: a restart can meet `SetParam`, `Stop` and a full channel |
| `camera_live` | `Stop` returns, restarts happen, the consumer is released | as above with pipes of one message (so a write blocks), one frame, one fault, no foreign forks (see *fairness*) |
| `camera_panic` | *violation*: send on the closed frame channel | |
| `control` | hub: refinement of `LossyChannel`, no use of a closed channel, no leak; pipeline: first key frame captured, frames reach every consumer in order and once (refinement of `LossyPipe`), everything ends; what a browser shows of parameters and presets; servers and process end | two subscribers (main has two), of whom one has a number that is no code point, channels of two, four units, three frames (a channel overflows, and a unit follows the one that is lost); one web and one ONVIF request at a time, four parameters, one of each kind, two of which a behaviour is about (so races, half-done imaging requests and conversions meet), values inside and outside of the range, of the wrong type, and NaN; two tokens made from counts, two places; all seven shutdown steps |
| `rtsp_sessions` | readers, on-demand reading until a repeated PLAY, a reader for every player, decodable IDRs, `Stop` returns | two sessions, two readers (they overlap), a channel of one, at most three units (one without parameter sets, one with them and an IDR) and four opens and units together (so one session can leave without PLAY and two play after it, or a session play while three units pass), a count of three (two sessions and a repeated PLAY) |
| `rtsp_unserved` | *violation*: somebody plays and no reader runs | |
| `ptz_moves` | honest status, one mover, a continuous move stays active unless an absolute move ends late, everything settles | two concurrent clients, three moves, one step per absolute move |
| `ptz_active` | *violation*: a continuous move loses its velocity | |
| `rtmp_restarts` | attempts since the last `Start` or `Stop` bounded; an uncancelled run gets to its next attempt, a cancelled one ends | one attempt per window of two ticks, cool-down of three, two `Start`s |
| `rtmp_stop` | *violation*: ffmpeg after `Stop` | |
| `services` | HLS, web hub, login, configuration, snapshots, probes, parser | three ffmpegs; one connection and a queue of two; two logins at a time, a limit of two, five ticks, four failures (so a window, a block and what follows it fit); two updates, any number of crashes, power cuts and restarts, credentials from the environment or not; three access units; every string of up to eight bytes over {0, 1, 7} (two long start codes) |
| `ws_alive` | *violation*: a healthy browser is disconnected | |

Deadlock is not checked where the program really may stop: after `Stop`, after a panic, when
nobody calls anything, or when a part of `services` or `control` has come to its end. It is checked in the
RTMP runs, whose clock always ticks, and in `ws_alive`.

### Fairness

Goroutines that can run do run (weak fairness on each goroutine's step), time passes, and what
the kernel was told to kill dies. Strong fairness is used where the Go runtime gives it: a
mutex hands over to a starved waiter (`RunStep`, `StopStep` of `Camera`), and a `select` does
not ignore a ready case for ever (`ReaderDone`, `SleepCancelled`, `Receive` of `AUHub`).
Nothing is assumed of browsers, RTSP clients, `mtxrpicam` or ffmpeg: they need not read, write,
leave or end. Nor need the RTSP server read its channel (it is not in `Readers`), the hub
produce, or the function of a shutdown step return: main's timer goes on without it. After
`os.Exit` no goroutine runs (`Running` in `Shutdown`). The liveness properties of `Camera` are checked without foreign subprocesses,
because one that holds the inherited write end of the video pipe keeps `readLoop` blocked.

## 4. What is proved

TLAPS checks, for every value of the constants that the named assumptions allow:

- `CameraProofs`: `TypeOK`, `NoOrphan`, `ConfigInSync`, `CleanRespawn`, and
  `FramesAreLossyChannel`, the refinement. None is inductive. The invariant adds who owns `mu`
  at which step (`MutexOwner`), that a subprocess or an open pipe exists only between the spawn
  and the cleanup of `run()` (`ChildOwner`), and that a `Stop` past its first section has set
  `stopped` and cancelled the context (`StopCancels`): that is why a `run()` that decided to
  spawn before `Stop` cannot fork after its cleanup. For the refinement it adds that a frame
  `readLoop` holds is newer than the last one sent.
- `DeliveryProofs`, about `AUHub`: `TypeOK`, `RegisteredAreOpen`, and `EachIsLossyChannel`, the
  refinement. The invariant says that every entry is filed under its own identifier, even when
  identifiers collide, and that the last unit sent to a subscriber is never newer than the last
  written.
- The same module, about `Delivery`: `FirstKeyFrameCaptured`. Every step of the pipeline is a step of the hub or
  leaves it alone, so the hub's invariant carries over. What is added: the parser runs only
  after the snapshot's subscription (`Wired`), nobody but its own watcher takes that subscriber
  out of the map (`Filed`), and the first unit stays at the head of its channel until received
  (`Kept`). It assumes that 1 is a code point and that channels have room for one unit.
- And `FramesReachConsumersInOrder`, a refinement over three stages: two lossy channels and a
  parser between them that may skip. What waits in either channel rises and is behind what has
  passed (`UnitsInOrder`, `FramesInOrder`), and the frames of the units rise with their numbers,
  so that a consumer that gets a later unit gets a later frame; a step of any stage is then a
  `Send`, a `Receive` or a stutter of the pipe. Frames are numbered by the camera; nothing is
  assumed of capacities or of who reads.
- `RTSPServerProofs`: `TypeOK`, `NoStrayReader`, `ConsumesUnlessReplayed`,
  `ServedUnlessUnplayed`, `IDRIsDecodable`.
  `clientCount` is *not* the number of playing sessions: a session that ends without PLAY makes
  it too low, a repeated PLAY too high. What is invariant is that the reader that
  `s.cancelStream` stands for runs only while the count is positive, and, up to the first
  repeated PLAY, that the count does not exceed the number of players (`CountAtMostPlaying`):
  hence `ConsumesUnlessReplayed`. Up to the first session that ends without PLAY, the count is
  at least the number of players (`CountAtLeastPlaying`), a positive count has a reader to
  cancel (`CountHasReader`), and that reader ends only with the hub's channel (`HeldRuns`):
  hence `ServedUnlessUnplayed`. So a session that never plays is the only way to what
  `rtsp_unserved` shows; neither overlapping readers, nor the order of closes and PLAYs, nor a
  repeated PLAY is. For `IDRIsDecodable` the invariant follows the first unit with SPS and PPS
  that enters the channel: units keep their order (`Order`), and this one is in the channel,
  then in the reader's hand, then in the format, before any later one is taken (`FirstParams`);
  no reader starts without a stream, so that none throws it away (`Served`).
- `PTZStateProofs`: `TypeOK`, `MovingMeansMover`, `OneMover`, `ActiveUnlessLate`. The invariant adds that a move not
  yet requested owns nothing and that sequential clients are inside at most one call.
  `ActiveUnlessLate` says that what `ptz_active` shows is the only way a continuous move is lost
  between sequential calls. Its invariant (`ActiveInv`) begins at the call, before there is a
  goroutine: from the section that sets the velocity to the cancellation, velocity and status
  are the move's own, because whatever else still runs is cancelled (`OneAtATime`) and a
  cancelled goroutine writes neither unless it is late.
- `HLSServerProofs`: `StopLeavesNothing`, `ReadyOnce`. The invariant says that a process
  exists only while `runOnce` waits for it, that `Stop` has cancelled what it goes on to kill,
  and that there is at most one command more than failures (which bounds the types).
- `ControlProofs`: `ControlTypeOK`, `ShownIsInForce`, `ListIsCurrent`, `ReturnedServesNobody`, for
  any parameters, presets, callers and values.
  - *Parameters.* Whoever has yet to announce or to send a parameter nothing raced for holds the
    value in force, and a stored value would be stored unchanged (`StoredTwice`). That what is in
    force is in range although fractions are cut off *after* the check (`StoredFits`) needs the
    bounds of integer parameters to be whole, as those of `ParamRanges` are.
  - *Presets.* `ListIsCurrent` is inductive with the types: the step that changes the list puts
    its own request at the callback, nobody else's step takes it away from there, and the
    callback tells the browser or drops the event.
  - *Shutdown.* A server whose `Start` has gone on is one that `Stop` closes, one that is closed
    serves no more, and a `Start` that returned has closed it or seen it end (`ProcessInv`).
- `ServicesProofs`, for any number of browsers, requests, tokens, updates and units:
  - `ForgottenIsClosed` of the websocket hub is inductive with the types.
  - `AcceptedIsStored` of the configuration: the invariant says where a request can be, by what
    it has done to the files (`ConfigProgress`): one that comes to the rename has synced what it
    wrote, so that neither the file nor what a power cut leaves of it is ever torn. It assumes
    that a request is none of the other things a file can hold.
  - `AttemptsBounded` and `RefusedForCause` (an action property) of the login limiter. The
    invariant relates `entry` to the *history* of failures: while the address is not blocked,
    the last `entry.count` failures are exactly those since the window began, and all failures
    are at most a window after its start; a block ends `Block` after a failure that completes a
    limit's worth within one window; and while a block lasts, the failures since the window
    began, with the requests past `allow` that may still fail, stay below the limit plus one per
    request. They assume a limit above one and a window shorter than the block (10, one minute
    and five in the code).
  - `Decodable` of the snapshots: the invariant says that the parameter set held of each kind
    is at least as new as any of that kind that was fed, and that the buffered key frame is one
    of the units fed.
  - `EveryByteOnce` of the parser, for strings of any length over any bytes. While
    `FindStartCodes` runs, the positions found are those of the cores in front of the index, in
    order and at least three apart; when it ends, of all cores. While `Parse` runs, the units so
    far are the bytes between one start code and the next, each once (`ParserInv`).
  - `ServicesTypeOK`.
- `RTMPPushProofs`: `AttemptsBounded`, for the attempts since the last `Start` or `Stop`. The
  invariant splits the attempts that are still in the window at the last reset of the counters,
  says how old the window is in terms of the first attempt after it, and which runs can still
  reset the counters: one that cools down, once. It assumes that the cool-down is longer than the
  window (five minutes and one). The proof corrected the model's bound: twice `MaxRestarts`, which
  a first instance with a limit of one had passed, is exceeded with a limit of two, because a run
  that `Stop` left in its cool-down resets the counters of its successor when the cool-down ends.
  Hence `left` in the bound, which TLC reaches exactly.

Each proof goes `Init => IInv`, one lemma per group of actions for `IInv /\ Next => IInv'`,
then the properties from `IInv`; `Control` and `MCServices` have one invariant per part, and one
lemma that a step of another part leaves its variables alone. What the proofs assume of the
constants is in the `ASSUME`s of the modules, which TLC evaluates in the runs. Invariants were
checked by TLC before they were proved. Type correctness is proved for `Camera`, `PTZState` and
the parts of `MCServices` (`TypeCorrect`, `ServicesTyped`) and left out of their runs, which ask
what a type does not say; for `Control` the types hold the range of every parameter, and the
run asks for them too.

**Only model-checked**: every liveness property (ENABLED and fairness are out of the prover's
reach), and with them all that is said of `Discovery`. Every other property of a passing run is
proved.

## 5. Where code and documentation disagree

Five runs end in a counterexample; `findings` in `PROJECT.json` quotes the lines.

1. `camera_panic`: `Stop` closes the frame channel while `readLoop` may be about to send.
2. `rtsp_unserved`: a session that ends without PLAY takes the client count below zero; the
   next player gets no frames.
3. `ptz_active`: an absolute move that arrives while a continuous move replaces it clears the
   velocity of the new one. `ActiveUnlessLate` is proved, so this is the only way.
4. `rtmp_stop`: `Stop` between the context check and `cmd.Start` leaves an ffmpeg running.
5. `ws_alive`: write deadlines are never lifted, and pings are text messages that no pong
   answers, so healthy connections are closed.

Seen while modelling, without a run of their own:

- Camera: the back-off is reset by every successful spawn, so a subprocess that dies at once is
  restarted every second; pipe ends leak into other subprocesses (`ForeignFork`).
- RTSP: `OnPlay` counts a repeated PLAY as another client. When such a session ends the count
  stays positive, and the reader goes on with nobody playing, although "the server starts
  consuming frames only when at least one client is connected" (`server.go:134`); hence
  `replayed`.
- RTSP: with two overlapping readers an IDR may go out without parameter sets, which is why
  `IDRIsDecodable` speaks of one reader.
- RTSP: `updateFormat` takes a client count of zero for "no clients", but only players are
  counted; a reader that was cancelled inside a unit of parameter sets replaces the stream a
  client has just been set up with.
- AU hub: identifiers that are no code points collide; the earlier subscriber is then never
  sent anything again.
- PTZ: two overlapping `ContinuousMove`s leave a mover nobody can cancel, which is why
  `OneMover` speaks of calls that come one after the other.
- RTMP: a run that `Stop` left in its cool-down resets the restart counters of the run after it,
  which then gets one window of attempts more than it should.
- HLS: `Stop` cancels (SIGKILL) before it sends the SIGTERM its comment announces.
- Web: the hub and the write pump write to a connection without a common lock.
- Snapshots: the timestamp sent with a picture may be that of a later frame.
- Parameters: the event carries the value that was asked for, not what was stored; two calls
  for one parameter may announce in the other order than they were applied, and so may a call
  and the initial state of a browser; such a browser shows the wrong value until the next
  change (`overtaken`). A NaN from an ONVIF request passes the range check and then has no
  event, as JSON has no NaN.
- Presets: an event that finds the hub's queue full is dropped and not sent again; the browser
  then shows an old list until it asks for another reason (`lost`).
- Presets: ONVIF makes a token from the number of presets, so that after a removal it
  overwrites one; the web server checks and sets in two sections, so that two creations can
  both succeed.
- Delivery: the RTSP server subscribes after the parser has started and may miss the only unit
  with SPS and PPS, until the subprocess restarts; until then its IDR pictures go out without
  parameter sets, which `IDRIsDecodable` does not exclude.
- Shutdown: every component has the one context the signal cancels, so that the servers stop
  by themselves before main's "reverse order" gets to them; a failed start of the RTSP server
  exits without stopping the camera; the camera's `Stop` may take ten seconds and its step has
  five.
- Configuration: the handler syncs the file but not the directory it renames it in, so a power
  cut soon after the answer may bring the old file back (`undone`).
- Configuration: an accepted update has no effect on credentials when the environment has
  others (`override`).
- Imaging: integer parameters come back as `uint64`, which the conversion for
  `GetImagingSettings` does not know: the exposure time is always reported as 0.

## 6. Not modelled, and why

- `config.go` beyond `Load` after a restart: the other fields, their defaults and `Validate`
  are a sequential copy from a file to a struct, run once before everything else.
- ONVIF SOAP routing and digests, device and media answers, most HTTP handlers (movements,
  status, system information): they keep no state of their own, or call `PTZState`.
- Two goroutines of the web server writing to one connection at the same time: what the
  websocket library does then is undefined, and the model has a write as one step.
- The web front end: browser code; a browser is what `Params` and `Presets` say of it.
- Contents: pixels, RTP packetisation, HTTP and XML formats, log lines.
- gortsplib, gorilla/websocket, `os/exec`, the kernel's pipes: external; modelled from how the
  code uses them.

## 7. Plan

Done: every component with state has a module; the refinements of `LossyChannel` by the
camera and the hub, and of `LossyPipe` by the pipeline over them, are checked and proved, and so
is every safety property of a run. What is left, in this order:

1. `RTSPServer` and `Delivery` over one channel, with readers that come and go: what a player
   misses that connects late.
2. The movements of `PTZState` inside `Presets`, so that a `GotoPreset` is more than one step.
