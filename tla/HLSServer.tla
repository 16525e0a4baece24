----------------------------- MODULE HLSServer -----------------------------
(***************************************************************************)
(* The supervisor of the ffmpeg that segments the stream for browsers      *)
(* (src/internal/hls/server.go): Start waits for the first segment while   *)
(* runLoop starts ffmpeg over and over; each ffmpeg gets a goroutine that  *)
(* polls for segments; Stop cancels, kills and waits for runLoop.          *)
(***************************************************************************)
EXTENDS Integers

CONSTANT MaxExits   \* bound: times ffmpeg fails to start or ends by itself

ASSUME HLSAssumption == MaxExits \in Nat

Commands == 1..(MaxExits + 1)   \* calls of runOnce: command, watcher

VARIABLES
  start,      \* "idle", "failed", "waiting", "ready", "timeout", "cancelled"
  stop,       \* Stop: "idle", "cancel", "kill", "poll", "join", "returned"
  ctxDone,    \* the context of runLoop is done
  hasCancel,  \* s.cancel is set
  loop,       \* "none", "top", "start", "wait", "after", "delay", "done"
  cmd,        \* s.cmd: the number of the command, 0 is nil
  heldCancel, heldCmd,  \* what Stop read
  proc,       \* ffmpeg of cmd: "none", "alive", "killed" (will die), "dead"
  exits,
  watcher,    \* "none", "polling", "found", "ended"
  segments,   \* a .ts file is in the output directory
  hasOutput,
  readyCloses \* times the channel ready was closed

loopVars  == <<loop, cmd>>
procVars  == <<proc, exits>>
stopVars  == <<stop, heldCancel, heldCmd>>
readyVars == <<watcher, segments, hasOutput, readyCloses>>
vars == <<start, ctxDone, hasCancel, stopVars, loopVars, procVars, readyVars>>

Init ==
  /\ start = "idle" /\ stop = "idle" /\ ctxDone = FALSE /\ hasCancel = FALSE
  /\ loop = "none" /\ cmd = 0 /\ heldCancel = FALSE /\ heldCmd = 0
  /\ proc = "none" /\ exits = 0
  /\ watcher = [w \in Commands |-> "none"]
  /\ segments = FALSE /\ hasOutput = FALSE /\ readyCloses = 0

----------------------------------------------------------------------------
(* Start needs ffmpeg and a directory; it clears it, starts runLoop and    *)
(* waits.                                                                  *)
StartFails ==
  /\ start = "idle" /\ stop = "idle" /\ start' = "failed"
  /\ UNCHANGED <<ctxDone, hasCancel, stopVars, loopVars, procVars, readyVars>>

Start ==
  /\ start = "idle" /\ stop = "idle" /\ start' = "waiting"
  /\ segments' = FALSE /\ hasCancel' = TRUE /\ loop' = "top"
  /\ UNCHANGED <<ctxDone, stopVars, cmd, procVars, watcher, hasOutput,
                 readyCloses>>

StartReady ==
  /\ start = "waiting" /\ readyCloses > 0 /\ start' = "ready"
  /\ UNCHANGED <<ctxDone, hasCancel, stopVars, loopVars, procVars, readyVars>>

\* After 15 seconds without a segment Start cancels runLoop.
StartTimeout ==
  /\ start = "waiting" /\ start' = "timeout" /\ ctxDone' = TRUE
  /\ UNCHANGED <<hasCancel, stopVars, loopVars, procVars, readyVars>>

StartCancelled ==
  /\ start = "waiting" /\ ctxDone /\ start' = "cancelled"
  /\ UNCHANGED <<ctxDone, hasCancel, stopVars, loopVars, procVars, readyVars>>

\* The signal handler of main.
ParentCancel ==
  /\ ~ctxDone /\ ctxDone' = TRUE
  /\ UNCHANGED <<start, hasCancel, stopVars, loopVars, procVars, readyVars>>

----------------------------------------------------------------------------
(* runLoop and runOnce.                                                    *)
LoopTop ==
  /\ loop = "top"
  /\ \/ ctxDone /\ loop' = "done" /\ UNCHANGED cmd
     \/ ~ctxDone /\ loop' = "start" /\ cmd' = cmd + 1
  /\ UNCHANGED <<start, ctxDone, hasCancel, stopVars, procVars, readyVars>>

\* cmd.Start refuses a done context and may fail; then ffmpeg and its
\* watcher run.
LoopStart ==
  /\ loop = "start"
  /\ \/ /\ ~ctxDone /\ loop' = "wait" /\ proc' = "alive"
        /\ watcher' = [watcher EXCEPT ![cmd] = "polling"] /\ UNCHANGED exits
     \/ /\ ctxDone /\ loop' = "after" /\ UNCHANGED <<proc, exits, watcher>>
     \/ /\ exits < MaxExits /\ exits' = exits + 1 /\ loop' = "after"
        /\ UNCHANGED <<proc, watcher>>
  /\ UNCHANGED <<start, ctxDone, hasCancel, stopVars, cmd, segments, hasOutput,
                 readyCloses>>

LoopWait ==
  /\ loop = "wait" /\ proc = "dead" /\ loop' = "after" /\ proc' = "none"
  /\ UNCHANGED <<start, ctxDone, hasCancel, stopVars, cmd, exits, readyVars>>

\* Mutant: runLoop does not start ffmpeg again.
LoopAfterReturns ==
  /\ loop = "after" /\ loop' = "done"
  /\ UNCHANGED <<start, ctxDone, hasCancel, stopVars, cmd, procVars, readyVars>>

LoopAfter ==
  /\ loop = "after" /\ loop' = IF ctxDone THEN "done" ELSE "delay"
  /\ UNCHANGED <<start, ctxDone, hasCancel, stopVars, cmd, procVars, readyVars>>

LoopDelay ==
  /\ loop = "delay"
  /\ \/ loop' = "top"
     \/ ctxDone /\ loop' = "done"
  /\ UNCHANGED <<start, ctxDone, hasCancel, stopVars, cmd, procVars, readyVars>>

LoopStep == LoopTop \/ LoopStart \/ LoopWait \/ LoopAfter \/ LoopDelay

----------------------------------------------------------------------------
(* watchReady: poll the directory, then signal under mu.                   *)
WatcherFinds(w) ==
  /\ watcher[w] = "polling" /\ segments
  /\ watcher' = [watcher EXCEPT ![w] = "found"]
  /\ UNCHANGED <<start, ctxDone, hasCancel, stopVars, loopVars, procVars,
                 segments, hasOutput, readyCloses>>

\* Mutant: hasOutput is not looked at.
WatcherSignalsAlways(w) ==
  /\ watcher[w] = "found" /\ watcher' = [watcher EXCEPT ![w] = "ended"]
  /\ hasOutput' = TRUE /\ readyCloses' = readyCloses + 1
  /\ UNCHANGED <<start, ctxDone, hasCancel, stopVars, loopVars, procVars,
                 segments>>

WatcherSignals(w) ==
  /\ watcher[w] = "found" /\ watcher' = [watcher EXCEPT ![w] = "ended"]
  /\ hasOutput' = TRUE
  /\ readyCloses' = IF hasOutput THEN readyCloses ELSE readyCloses + 1
  /\ UNCHANGED <<start, ctxDone, hasCancel, stopVars, loopVars, procVars,
                 segments>>

WatcherCancelled(w) ==
  /\ watcher[w] = "polling" /\ ctxDone
  /\ watcher' = [watcher EXCEPT ![w] = "ended"]
  /\ UNCHANGED <<start, ctxDone, hasCancel, stopVars, loopVars, procVars,
                 segments, hasOutput, readyCloses>>

WatcherStep(w) == WatcherFinds(w) \/ WatcherSignals(w) \/ WatcherCancelled(w)

----------------------------------------------------------------------------
(* Stop, by the goroutine that called Start, once Start has returned.      *)
StopRead ==
  /\ stop = "idle" /\ start # "waiting" /\ stop' = "cancel"
  /\ heldCancel' = hasCancel /\ heldCmd' = cmd
  /\ UNCHANGED <<start, ctxDone, hasCancel, loopVars, procVars, readyVars>>

\* Mutant: the context of runLoop is left alone.
StopCancelNothing ==
  /\ stop = "cancel" /\ stop' = "kill"
  /\ UNCHANGED <<start, ctxDone, hasCancel, heldCancel, heldCmd, loopVars,
                 procVars, readyVars>>

StopCancel ==
  /\ stop = "cancel" /\ stop' = "kill" /\ ctxDone' = (ctxDone \/ heldCancel)
  /\ UNCHANGED <<start, hasCancel, heldCancel, heldCmd, loopVars, procVars,
                 readyVars>>

\* SIGTERM to the process group of the command it read: that may not have
\* started, or be gone.
StopKill ==
  /\ stop = "kill"
  /\ \/ /\ heldCmd = cmd /\ proc # "none" /\ stop' = "poll"
        /\ proc' = IF proc = "alive" THEN "killed" ELSE proc
     \/ /\ heldCmd # cmd \/ proc = "none"
        /\ stop' = "join" /\ UNCHANGED proc
  /\ UNCHANGED <<start, ctxDone, hasCancel, heldCancel, heldCmd, loopVars,
                 exits, readyVars>>

\* The group is gone, or five seconds later it gets SIGKILL.
StopPoll ==
  /\ stop = "poll" /\ stop' = "join"
  /\ UNCHANGED <<start, ctxDone, hasCancel, heldCancel, heldCmd, loopVars,
                 procVars, readyVars>>

\* Mutant: Stop does not wait for runLoop.
StopJoinAtOnce ==
  /\ stop = "join" /\ stop' = "returned"
  /\ UNCHANGED <<start, ctxDone, hasCancel, heldCancel, heldCmd, loopVars,
                 procVars, readyVars>>

StopJoin ==
  /\ stop = "join" /\ loop \in {"none", "done"} /\ stop' = "returned"
  /\ UNCHANGED <<start, ctxDone, hasCancel, heldCancel, heldCmd, loopVars,
                 procVars, readyVars>>

StopStep == StopCancel \/ StopKill \/ StopPoll \/ StopJoin

----------------------------------------------------------------------------
(* ffmpeg, and exec.CommandContext, which kills it with the context.       *)
Segment ==
  /\ proc = "alive" /\ ~segments /\ segments' = TRUE
  /\ UNCHANGED <<start, ctxDone, hasCancel, stopVars, loopVars, procVars,
                 watcher, hasOutput, readyCloses>>

FfmpegExits ==
  /\ proc = "alive" /\ exits < MaxExits /\ exits' = exits + 1 /\ proc' = "dead"
  /\ UNCHANGED <<start, ctxDone, hasCancel, stopVars, loopVars, readyVars>>

ContextKill ==
  /\ proc = "alive" /\ ctxDone /\ proc' = "killed"
  /\ UNCHANGED <<start, ctxDone, hasCancel, stopVars, loopVars, exits,
                 readyVars>>

KilledDies ==
  /\ proc = "killed" /\ proc' = "dead"
  /\ UNCHANGED <<start, ctxDone, hasCancel, stopVars, loopVars, exits,
                 readyVars>>

Next ==
  \/ StartFails \/ Start \/ StartReady \/ StartTimeout \/ StartCancelled
  \/ ParentCancel
  \/ LoopStep \/ \E w \in Commands : WatcherStep(w)
  \/ StopRead \/ StopStep
  \/ Segment \/ FfmpegExits \/ ContextKill \/ KilledDies

Spec == Init /\ [][Next]_vars

(* Goroutines run, time passes and what is killed dies.  ffmpeg need not   *)
(* produce anything, and nobody need call Start or Stop.                   *)
Fairness ==
  /\ WF_vars(StartReady \/ StartTimeout \/ StartCancelled)
  /\ WF_vars(LoopStep) /\ WF_vars(StopStep)
  /\ WF_vars(ContextKill) /\ WF_vars(KilledDies)
  /\ \A w \in Commands : WF_vars(WatcherStep(w))

FairSpec == Spec /\ Fairness

----------------------------------------------------------------------------
TypeOK ==
  /\ start \in {"idle", "failed", "waiting", "ready", "timeout", "cancelled"}
  /\ stop \in {"idle", "cancel", "kill", "poll", "join", "returned"}
  /\ loop \in {"none", "top", "start", "wait", "after", "delay", "done"}
  /\ {ctxDone, hasCancel, heldCancel, segments, hasOutput}
       \subseteq BOOLEAN
  /\ proc \in {"none", "alive", "killed", "dead"}
  /\ exits \in 0..MaxExits /\ {cmd, heldCmd} \subseteq 0..(MaxExits + 1)
  /\ watcher \in [Commands -> {"none", "polling", "found", "ended"}]
  /\ readyCloses \in 0..(MaxExits + 1)

(* When Stop returns no ffmpeg is left and none will be started, wherever  *)
(* runLoop was.                                                            *)
StopLeavesNothing ==
  stop = "returned" =>
    proc \notin {"alive", "killed"} /\ loop \in {"none", "done"}

(* ready is closed once, although every restarted ffmpeg has a watcher of  *)
(* its own and several of them may find the same segment.                  *)
ReadyOnce == readyCloses <= 1

(* Stop returns, even if it read no command or one that is gone, and no    *)
(* goroutine that watches for segments outlives it.                        *)
StopReturns ==
  stop # "idle"
    ~> stop = "returned" /\ \A w \in Commands : watcher[w] # "polling"

(* Until it is cancelled, runLoop always comes back to starting ffmpeg.    *)
KeepsTrying ==
  loop \in {"after", "delay", "top"} ~> loop = "start" \/ ctxDone
=============================================================================
