------------------------------- MODULE Camera -------------------------------
(***************************************************************************)
(* The capture backend RPiCamera (src/internal/camera/camera.go): the      *)
(* goroutine run() that spawns mtxrpicam, reads its video pipe and         *)
(* restarts it, the callers of Start, SetParam and Stop, the subprocess,   *)
(* and the goroutine of main that ranges over Frames().                    *)
(*                                                                         *)
(* One action is one critical section of mu or one blocking operation.     *)
(* Only two sections of mu contain something that others can see half      *)
(* done: spawnSubprocess (pipes exist, the child does not yet) and         *)
(* SetParam (the write to the config pipe may block).  They hold mu over   *)
(* several steps; every other section is one step taken while mu is free.  *)
(***************************************************************************)
EXTENDS Integers, Sequences

CONSTANTS
  ParamValues,   \* the values of the whole Params struct that tests tell apart
  NoParams,      \* what a subprocess has applied before its first config
  FrameCap,      \* capacity of framesCh (30 in the code)
  ConfCap,       \* messages the kernel buffers in the config pipe
  VideoCap,      \* messages the kernel buffers in the video pipe
  MaxBackoff,    \* cap of the restart delay in seconds (30 in the code)
  MaxFrames,     \* bound: frames the camera hardware ever produces
  MaxFaults,     \* bound: subprocess deaths and failed spawns
  ForeignExecs   \* TRUE: another subprocess may be forked between the
                 \* creation of the pipes and the close of the child's ends

ASSUME CameraAssumption ==
  /\ NoParams \notin ParamValues
  /\ {FrameCap, ConfCap, VideoCap, MaxBackoff} \subseteq Nat
  /\ 0 < FrameCap /\ 0 < ConfCap /\ 0 < VideoCap /\ 0 < MaxBackoff
  /\ MaxFrames \in Nat /\ MaxFaults \in Nat
  /\ ForeignExecs \in BOOLEAN

VARIABLES
  mu,         \* who is inside a long section of mu: "free", "run", "set"
  params,     \* c.params
  started, stopped,
  ctxDone,    \* c.ctx is cancelled: by Stop, or by the parent context
  run,        \* where run() is
  backoff,    \* run()'s local variable
  inHand,     \* the frame readLoop holds between read and send
  stop,       \* where the (single, by stopOnce) body of Stop is
  frames,     \* contents of framesCh
  closed,     \* framesCh was closed and set to nil by Stop
  child,      \* the subprocess c.cmd: "none", "alive", "dead" (not reaped)
  open,       \* c.confPipe and c.videoPipe are non-nil, their files open
  held,       \* a foreign subprocess inherited the child's pipe ends
  conf,       \* config messages in the pipe
  applied,    \* the config the subprocess applied last
  video,      \* messages in the video pipe
  produced,   \* number of frames produced so far; frames are numbered
  consumer,   \* the goroutine of main that ranges over Frames()
  received,   \* the last frame it received
  faults      \* subprocess deaths and failed spawns so far

runVars   == <<run, backoff, inHand>>
pipeVars  == <<child, open, held, conf, applied, video>>
chanVars  == <<frames, closed>>
lifeVars  == <<started, stopped, ctxDone, stop>>
consVars  == <<consumer, received>>
bounds    == <<produced, faults>>
vars == <<mu, params, runVars, pipeVars, chanVars, lifeVars, consVars, bounds>>

\* A message of mtxrpicam: 'r', 'e', or 'd' with the number of its frame (> 0).
Ready    == 0
Failure  == -1
Messages == Nat \union {Failure}

Lesser(a, b) == IF a < b THEN a ELSE b

Init ==
  /\ mu = "free" /\ params \in ParamValues
  /\ started = FALSE /\ stopped = FALSE /\ ctxDone = FALSE
  /\ run = "none" /\ backoff = 1 /\ inHand = 0 /\ stop = "idle"
  /\ frames = <<>> /\ closed = FALSE
  /\ child = "none" /\ open = FALSE /\ held = FALSE
  /\ conf = <<>> /\ applied = NoParams /\ video = <<>>
  /\ produced = 0 /\ consumer = "new" /\ received = 0 /\ faults = 0

\* A send on a closed channel panics: the whole program ends with it.
Panicked == run = "panic"
Running == ~Panicked

----------------------------------------------------------------------------
(* Start: creates the context and framesCh and starts run().               *)
Start ==
  /\ Running /\ mu = "free" /\ ~started
  /\ started' = TRUE /\ run' = "check"
  /\ UNCHANGED <<mu, params, backoff, inHand, pipeVars, chanVars,
                 stopped, ctxDone, stop, consVars, bounds>>

----------------------------------------------------------------------------
(* run()                                                                   *)

\* `stopped` is read under mu and the lock is given up before the answer
\* is used.
RunCheckStopped(here, next) ==
  /\ run = here /\ mu = "free"
  /\ run' = IF stopped THEN "exit" ELSE next
  /\ UNCHANGED <<mu, params, backoff, inHand, pipeVars, chanVars, lifeVars,
                 consVars, bounds>>

\* spawnSubprocess takes mu and creates both pipes.
SpawnPipes ==
  /\ run = "spawn" /\ mu = "free"
  /\ run' = "fork" /\ mu' = "run"
  /\ held' = FALSE /\ conf' = <<>> /\ video' = <<>>
  /\ UNCHANGED <<params, backoff, inHand, child, open, applied, chanVars,
                 lifeVars, consVars, bounds>>

\* A subprocess of another package (ffmpeg) is forked while both ends of the
\* pipes are open and not close-on-exec: it inherits the child's ends.
ForeignFork ==
  /\ Running /\ ForeignExecs /\ run = "fork"
  /\ held' = TRUE
  /\ UNCHANGED <<mu, params, runVars, child, open, conf, applied, video,
                 chanVars, lifeVars, consVars, bounds>>

\* No assumption is made on when (or whether) that subprocess exits.
ForeignExit ==
  /\ Running /\ held /\ held' = FALSE
  /\ UNCHANGED <<mu, params, runVars, child, open, conf, applied, video,
                 chanVars, lifeVars, consVars, bounds>>

\* Mutant: exec.Command, which does not look at the context.
SpawnForkAnyContext ==
  /\ run = "fork"
  /\ run' = "config" /\ child' = "alive" /\ open' = TRUE
  /\ applied' = NoParams
  /\ UNCHANGED <<mu, params, backoff, inHand, held, conf, video, chanVars,
                 lifeVars, consVars, bounds>>

\* cmd.Start succeeds (it refuses once the context is done) and the parent
\* closes its copies of the child's ends.
SpawnFork ==
  /\ run = "fork" /\ ~ctxDone
  /\ run' = "config" /\ child' = "alive" /\ open' = TRUE
  /\ applied' = NoParams
  /\ UNCHANGED <<mu, params, backoff, inHand, held, conf, video, chanVars,
                 lifeVars, consVars, bounds>>

\* cmd.Start fails, because the context is done or for a reason of its own.
SpawnFail ==
  /\ run = "fork"
  /\ IF ctxDone THEN UNCHANGED faults
                ELSE faults < MaxFaults /\ faults' = faults + 1
  /\ run' = "sleep" /\ mu' = "free"
  /\ UNCHANGED <<params, backoff, inHand, pipeVars, chanVars, lifeVars,
                 consVars, produced>>

\* cleanupSubprocessLocked: close both pipes, kill the child and reap it.
Cleanup == child' = "none" /\ open' = FALSE

\* Somebody can still read what is written to the config pipe.
ConfReader == child = "alive" \/ held
\* Somebody could still write to the video pipe.
VideoWriter == child = "alive" \/ held

\* The initial config: an empty pipe takes it at once, a pipe without reader
\* refuses it and the spawn fails.
SpawnConfig ==
  /\ run = "config" /\ mu' = "free"
  /\ IF ConfReader
       THEN /\ run' = "attach" /\ backoff' = 1
            /\ conf' = Append(conf, params)
            /\ UNCHANGED <<child, open>>
       ELSE /\ run' = "sleep" /\ Cleanup
            /\ UNCHANGED <<backoff, conf>>
  /\ UNCHANGED <<params, inHand, held, applied, video, chanVars, lifeVars,
                 consVars, bounds>>

\* readLoop captures c.videoPipe and c.framesCh under mu.
ReadAttach ==
  /\ run = "attach" /\ mu = "free"
  /\ run' = IF open /\ ~closed THEN "read" ELSE "cleanup"
  /\ UNCHANGED <<mu, params, backoff, inHand, pipeVars, chanVars, lifeVars,
                 consVars, bounds>>

\* Entering read(2).  The descriptor is a blocking one: Close makes later
\* reads fail, but does not wake one that is already inside the kernel.
ReadEnter ==
  /\ run = "read"
  /\ run' = IF open THEN "blocked" ELSE "cleanup"
  /\ UNCHANGED <<mu, params, backoff, inHand, pipeVars, chanVars, lifeVars,
                 consVars, bounds>>

\* Mutant: the case of 'r' falls through to the send of a frame.
ReadMessageFallthrough ==
  /\ run = "blocked" /\ video # <<>> /\ video' = Tail(video)
  /\ run' = IF Head(video) = Failure THEN "cleanup" ELSE "send"
  /\ inHand' = IF Head(video) > 0 THEN Head(video) ELSE inHand
  /\ UNCHANGED <<mu, params, backoff, child, open, held, conf, applied,
                 chanVars, lifeVars, consVars, bounds>>

\* A message arrives.  It is read in two calls, so a Close in between loses it.
ReadMessage ==
  /\ run = "blocked" /\ video # <<>>
  /\ video' = Tail(video)
  /\ \/ LET m == Head(video) IN
          /\ run' = IF m = Ready THEN "read"
                    ELSE IF m = Failure THEN "cleanup" ELSE "send"
          /\ inHand' = IF m > 0 THEN m ELSE inHand
     \/ ~open /\ run' = "cleanup" /\ UNCHANGED inHand
  /\ UNCHANGED <<mu, params, backoff, child, open, held, conf, applied,
                 chanVars, lifeVars, consVars, bounds>>

\* Mutant: read errors are skipped like unknown messages.
ReadEOFContinues ==
  /\ run = "blocked" /\ video = <<>> /\ ~VideoWriter
  /\ run' = "read"
  /\ UNCHANGED <<mu, params, backoff, inHand, pipeVars, chanVars, lifeVars,
                 consVars, bounds>>

\* End of file: the pipe is empty and no process has its write end.
ReadEOF ==
  /\ run = "blocked" /\ video = <<>> /\ ~VideoWriter
  /\ run' = "cleanup"
  /\ UNCHANGED <<mu, params, backoff, inHand, pipeVars, chanVars, lifeVars,
                 consVars, bounds>>

\* Mutant: the dead subprocess is not cleaned up before the restart.
RunCleanupSkipped ==
  /\ run = "cleanup" /\ run' = "recheck"
  /\ UNCHANGED <<mu, params, backoff, inHand, pipeVars, chanVars, lifeVars,
                 consVars, bounds>>

\* The non-blocking send, outside mu: deliver, drop, or panic.
SendFrame ==
  /\ run = "send"
  /\ IF closed THEN run' = "panic" /\ UNCHANGED frames
     ELSE /\ run' = "read"
          /\ frames' = IF Len(frames) < FrameCap THEN Append(frames, inHand)
                                                 ELSE frames
  /\ UNCHANGED <<mu, params, backoff, inHand, pipeVars, closed, lifeVars,
                 consVars, bounds>>

RunCleanup ==
  /\ run = "cleanup" /\ mu = "free"
  /\ run' = "recheck" /\ Cleanup
  /\ UNCHANGED <<mu, params, backoff, inHand, held, conf, applied, video,
                 chanVars, lifeVars, consVars, bounds>>

\* The select on ctx.Done and the timer: the two branches.
SleepCancelled ==
  /\ run = "sleep" /\ ctxDone
  /\ run' = "exit"
  /\ UNCHANGED <<mu, params, backoff, inHand, pipeVars, chanVars, lifeVars,
                 consVars, bounds>>

SleepOver ==
  /\ run = "sleep"
  /\ run' = "check" /\ backoff' = Lesser(2 * backoff, MaxBackoff)
  /\ UNCHANGED <<mu, params, inHand, pipeVars, chanVars, lifeVars, consVars,
                 bounds>>

RunStep ==
  /\ Running
  /\ \/ RunCheckStopped("check", "spawn")
     \/ SpawnPipes \/ SpawnFork \/ SpawnFail \/ SpawnConfig
     \/ ReadAttach \/ ReadEnter \/ ReadMessage \/ ReadEOF \/ SendFrame
     \/ RunCleanup \/ RunCheckStopped("recheck", "sleep")
     \/ SleepCancelled \/ SleepOver

----------------------------------------------------------------------------
(* SetParam: store under mu, then send the whole Params if a child runs.   *)

\* Mutant: the parameters are stored but not sent.
SetParamUnsent ==
  /\ Running /\ mu = "free" /\ started /\ ~stopped
  /\ params' \in ParamValues
  /\ UNCHANGED <<mu, runVars, pipeVars, chanVars, lifeVars, consVars, bounds>>

SetParam ==
  /\ Running /\ mu = "free" /\ started /\ ~stopped
  /\ params' \in ParamValues
  /\ mu' = IF open THEN "set" ELSE "free"
  /\ UNCHANGED <<runVars, pipeVars, chanVars, lifeVars, consVars, bounds>>

\* The write blocks while the pipe is full and has a reader; without a reader
\* it fails, which is only logged.
SetParamWrite ==
  /\ Running /\ mu = "set" /\ mu' = "free"
  /\ IF ConfReader THEN Len(conf) < ConfCap /\ conf' = Append(conf, params)
                   ELSE UNCHANGED conf
  /\ UNCHANGED <<params, runVars, child, open, held, applied, video,
                 chanVars, lifeVars, consVars, bounds>>

----------------------------------------------------------------------------
(* Stop: three sections of mu, then a bounded wait for run().              *)
StopCall ==
  /\ stop = "idle" /\ stop' = "called"
  /\ UNCHANGED <<mu, params, runVars, pipeVars, chanVars, started, stopped,
                 ctxDone, consVars, bounds>>

StopSignal ==
  /\ stop = "called" /\ mu = "free"
  /\ stop' = "cleanup" /\ stopped' = TRUE
  /\ ctxDone' = (ctxDone \/ started)
  /\ UNCHANGED <<mu, params, runVars, pipeVars, chanVars, started, consVars,
                 bounds>>

\* Mutant: framesCh is set to nil but not closed.
StopCloseForgotten ==
  /\ stop = "close" /\ mu = "free" /\ stop' = "wait"
  /\ UNCHANGED <<mu, params, runVars, pipeVars, chanVars, started, stopped,
                 ctxDone, consVars, bounds>>

StopCleanup ==
  /\ stop = "cleanup" /\ mu = "free"
  /\ stop' = "close" /\ Cleanup
  /\ UNCHANGED <<mu, params, runVars, held, conf, applied, video, chanVars,
                 started, stopped, ctxDone, consVars, bounds>>

StopClose ==
  /\ stop = "close" /\ mu = "free"
  /\ stop' = "wait" /\ closed' = started
  /\ UNCHANGED <<mu, params, runVars, pipeVars, frames, started, stopped,
                 ctxDone, consVars, bounds>>

\* wg.Wait returns when run() is not running.
StopJoin ==
  /\ stop = "wait" /\ run \in {"none", "exit"}
  /\ stop' = "returned"
  /\ UNCHANGED <<mu, params, runVars, pipeVars, chanVars, started, stopped,
                 ctxDone, consVars, bounds>>

StopTimeout ==
  /\ stop = "wait" /\ run \notin {"none", "exit"}
  /\ stop' = "returned"
  /\ UNCHANGED <<mu, params, runVars, pipeVars, chanVars, started, stopped,
                 ctxDone, consVars, bounds>>

StopStep ==
  Running /\ (StopCall \/ StopSignal \/ StopCleanup \/ StopClose
              \/ StopJoin \/ StopTimeout)

----------------------------------------------------------------------------
(* The parent context, the subprocess, and the consumer of frames.         *)

\* The signal handler of main cancels the context Start was given.
ParentCancel ==
  /\ Running /\ started /\ ~ctxDone /\ ctxDone' = TRUE
  /\ UNCHANGED <<mu, params, runVars, pipeVars, chanVars, started, stopped,
                 stop, consVars, bounds>>

\* Mutant: exec.Command, which does not watch the context.
ContextKillNever == FALSE

\* exec.CommandContext kills the child of a cancelled context.
ContextKill ==
  /\ Running /\ ctxDone /\ child = "alive" /\ child' = "dead"
  /\ UNCHANGED <<mu, params, runVars, open, held, conf, applied, video,
                 chanVars, lifeVars, consVars, bounds>>

ChildDies ==
  /\ Running /\ child = "alive" /\ faults < MaxFaults
  /\ child' = "dead" /\ faults' = faults + 1
  /\ UNCHANGED <<mu, params, runVars, open, held, conf, applied, video,
                 chanVars, lifeVars, consVars, produced>>

ChildReadsConfig ==
  /\ Running /\ child = "alive" /\ conf # <<>>
  /\ applied' = Head(conf) /\ conf' = Tail(conf)
  /\ UNCHANGED <<mu, params, runVars, child, open, held, video, chanVars,
                 lifeVars, consVars, bounds>>

ChildWrites ==
  /\ Running /\ child = "alive" /\ Len(video) < VideoCap
  /\ \/ \E m \in {Ready, Failure} :
          video' = Append(video, m) /\ UNCHANGED produced
     \/ /\ produced < MaxFrames /\ produced' = produced + 1
        /\ video' = Append(video, produced')
  /\ UNCHANGED <<mu, params, runVars, child, open, held, conf, applied,
                 chanVars, lifeVars, consVars, faults>>

\* `range cam.Frames()`: the channel is asked for once, after Start.  Asked
\* for after Stop it is nil and the loop never ends.
ConsumerAttach ==
  /\ Running /\ consumer = "new" /\ started /\ mu = "free"
  /\ consumer' = IF closed THEN "stuck" ELSE "range"
  /\ UNCHANGED <<mu, params, runVars, pipeVars, chanVars, lifeVars,
                 received, bounds>>

ConsumerReceives ==
  /\ Running /\ consumer = "range"
  /\ IF frames # <<>>
       THEN /\ received' = Head(frames) /\ frames' = Tail(frames)
            /\ UNCHANGED consumer
       ELSE closed /\ consumer' = "done" /\ UNCHANGED <<frames, received>>
  /\ UNCHANGED <<mu, params, runVars, pipeVars, closed, lifeVars, bounds>>

----------------------------------------------------------------------------
Next ==
  \/ Start \/ RunStep \/ SetParam \/ SetParamWrite \/ StopStep
  \/ ForeignFork \/ ForeignExit \/ ParentCancel \/ ContextKill
  \/ ChildDies \/ ChildReadsConfig \/ ChildWrites
  \/ ConsumerAttach \/ ConsumerReceives

Spec == Init /\ [][Next]_vars

(* Go's scheduler runs every runnable goroutine and its mutex hands over   *)
(* to a starved waiter, hence SF for the goroutines that take mu; the      *)
(* kernel delivers the kill of a cancelled context.  Nothing is assumed of *)
(* the subprocess: it need not drain its config pipe nor ever die.         *)
Fairness ==
  /\ SF_vars(RunStep) /\ SF_vars(StopStep /\ stop # "idle")
  /\ WF_vars(SetParamWrite) /\ WF_vars(ContextKill)
  /\ SF_vars(Running /\ SleepCancelled)
  /\ WF_vars(ConsumerReceives)

FairSpec == Spec /\ Fairness

----------------------------------------------------------------------------
TypeOK ==
  /\ mu \in {"free", "run", "set"} /\ params \in ParamValues
  /\ started \in BOOLEAN /\ stopped \in BOOLEAN /\ ctxDone \in BOOLEAN
  /\ run \in {"none", "check", "spawn", "fork", "config", "attach", "read",
              "blocked", "send", "cleanup", "recheck", "sleep", "exit",
              "panic"}
  /\ backoff \in 1..MaxBackoff /\ inHand \in Nat
  /\ stop \in {"idle", "called", "cleanup", "close", "wait", "returned"}
  /\ frames \in Seq(Nat) /\ closed \in BOOLEAN
  /\ child \in {"none", "alive", "dead"} /\ open \in BOOLEAN
  /\ held \in BOOLEAN
  /\ conf \in Seq(ParamValues) /\ applied \in ParamValues \union {NoParams}
  /\ video \in Seq(Messages)
  /\ produced \in Nat /\ faults \in Nat
  /\ consumer \in {"new", "range", "stuck", "done"} /\ received \in Nat

(* Once Stop has gone through its own cleanup, no subprocess is left and    *)
(* none is spawned any more, although run() may have decided to spawn      *)
(* before Stop took mu: the cancelled context makes cmd.Start fail.        *)
NoOrphan ==
  stop \in {"close", "wait", "returned"} => child # "alive" /\ ~open

(* The config a running subprocess applied last, or will when it has        *)
(* drained its pipe, is c.params whenever nobody is inside SetParam or     *)
(* spawnSubprocess: an update that meets a restart is not lost.            *)
Latest == IF conf = <<>> THEN applied ELSE conf[Len(conf)]
ConfigInSync == mu = "free" /\ open /\ child = "alive" => Latest = params

\* The last frame sent: the newest in the channel, or what was received.
LastSent == IF frames = <<>> THEN received ELSE frames[Len(frames)]

Promise == INSTANCE LossyChannel WITH Capacity <- FrameCap, buffer <- frames,
                                      last <- LastSent, closed <- closed

(* The channel "that receives captured frames" (camera.go:51): they reach  *)
(* the consumer in the order they were produced, none twice and none after *)
(* the close, across drops, restarts and the cleanup that races with the   *)
(* reader.                                                                 *)
FramesAreLossyChannel == Promise!Spec

(* A subprocess is spawned only after the one before has been reaped and   *)
(* both its pipes closed: a restart leaks neither process nor descriptor.  *)
CleanRespawn ==
  [][run' = "config" /\ run # "config" => child = "none" /\ ~open]_vars

(* Stop, called after the context was cancelled as main does, returns and  *)
(* run() ends, wherever it was, even if the subprocess stopped reading its *)
(* config pipe under a SetParam.                                           *)
StopReturns ==
  stop = "called" /\ ctxDone
    ~> (stop = "returned" /\ run \in {"none", "exit"}) \/ Panicked

(* A dead subprocess is replaced unless the camera is being shut down:     *)
(* "If the subprocess dies, it is automatically restarted".                *)
Restarts ==
  child = "dead" ~> child = "alive" \/ ctxDone \/ stopped \/ Panicked

(* Stop ends the range loop of a consumer that has the frames channel.     *)
ConsumerReleased ==
  stop = "close" /\ started /\ consumer = "range"
    ~> consumer = "done" \/ Panicked

(* What the source says and the code does not do:                          *)

(* "Close frames channel so downstream consumers exit their range loops"   *)
(* (and not so that run() panics in readLoop's send).                      *)
NoSendOnClosed == ~Panicked
=============================================================================
