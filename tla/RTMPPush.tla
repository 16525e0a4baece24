------------------------------ MODULE RTMPPush ------------------------------
(***************************************************************************)
(* The supervisor of the ffmpeg that pushes to RTMP                        *)
(* (src/internal/rtmp/push.go): run() starts it, waits for it and starts   *)
(* it again, a few times per window and then after a cool-down, while Stop *)
(* cancels and kills.  Each section of mu and each step outside it is an   *)
(* action.  Times are ages and remainders in units that Tick lets pass.    *)
(***************************************************************************)
EXTENDS Integers, Sequences, FiniteSets

CONSTANTS
  MaxRestarts,    \* 5
  RestartWindow,  \* 1 minute
  Cooldown,       \* 5 minutes
  RestartDelay,   \* 5 seconds
  MaxStarts       \* bound: calls of Start

ASSUME PushAssumption ==
  /\ {MaxRestarts, RestartWindow, Cooldown, RestartDelay, MaxStarts}
       \subseteq Nat
  /\ MaxRestarts > 0 /\ Cooldown > RestartWindow

Runs == 1..MaxStarts   \* one goroutine, with a context, for each Start
None == -1             \* the zero time

VARIABLES
  status, restartCount,
  window,         \* age of restartWindowStart
  cooldown,       \* what is left until cooldownUntil, 0 when it has passed
  cancel, cmd,    \* the run whose cancel function and command they are, or 0
  pc,             \* where each run() is
  wait,           \* what is left of the timer it waits for
  proc,           \* the last ffmpeg of each run
  cancelled,      \* runs whose context is done
  parentDone,     \* the context of main is done
  caller,         \* the goroutine that calls Start and Stop
  starts,         \* calls of Start so far
  heldCancel, heldCmd,  \* what Stop read; heldCmd is 0 once reaped
  recent,         \* history: ages of the attempts in the last window, since
                  \* the last Start or Stop
  left            \* history: earlier runs that were alive at the last Start

timeVars   == <<restartCount, window, cooldown>>
runVars    == <<pc, wait, proc, cmd>>
callerVars == <<cancel, cancelled, parentDone, caller, starts, heldCancel>>
history    == <<recent, left>>
vars == <<status, timeVars, runVars, callerVars, heldCmd, history>>

Init ==
  /\ status = "disconnected" /\ restartCount = 0 /\ window = None
  /\ cooldown = None /\ cancel = 0 /\ cmd = 0
  /\ pc = [r \in Runs |-> "none"] /\ wait = [r \in Runs |-> 0]
  /\ proc = [r \in Runs |-> "none"] /\ cancelled = {} /\ parentDone = FALSE
  /\ caller = "idle" /\ starts = 0 /\ heldCancel = 0 /\ heldCmd = 0
  /\ recent = <<>> /\ left = {}

At(r, l)      == pc[r] = l
Go(r, l)      == pc' = [pc EXCEPT ![r] = l]
setStatus(s)  == status' = s
Active(r)     == pc[r] \notin {"none", "done"}
Forget == restartCount' = 0 /\ window' = None /\ cooldown' = None

----------------------------------------------------------------------------
(* Start: the counters are reset, then s.cancel is set and run() started.  *)
StartReset ==
  /\ caller = "idle" /\ starts < MaxStarts
  /\ caller' = "starting" /\ Forget /\ recent' = <<>>
  /\ left' = {r \in Runs : Active(r)}
  /\ UNCHANGED <<status, runVars, cancel, cancelled, parentDone, starts,
                 heldCancel, heldCmd>>

StartRun ==
  /\ caller = "starting" /\ caller' = "started"
  /\ starts' = starts + 1 /\ cancel' = starts' /\ Go(starts', "top")
  /\ cancelled' = IF parentDone THEN cancelled \union {starts'} ELSE cancelled
  /\ UNCHANGED <<status, timeVars, wait, proc, cmd, parentDone, heldCancel,
                 heldCmd, history>>

(* Stop: read cancel and cmd, cancel, kill, and clear the status.          *)
StopRead ==
  /\ caller = "started" /\ caller' = "cancel"
  /\ heldCancel' = cancel /\ cancel' = 0 /\ heldCmd' = cmd
  /\ UNCHANGED <<status, timeVars, runVars, cancelled, parentDone, starts,
                 history>>

StopCancel ==
  /\ caller = "cancel" /\ caller' = "kill" /\ heldCancel' = 0
  /\ cancelled' = cancelled \union ({heldCancel} \ {0})
  /\ UNCHANGED <<status, timeVars, runVars, cancel, parentDone, starts,
                 heldCmd, history>>

StopKill ==
  /\ caller = "kill" /\ caller' = "clear"
  /\ proc' = [r \in Runs |-> IF r = heldCmd /\ proc[r] = "alive"
                               THEN "killed" ELSE proc[r]]
  /\ UNCHANGED <<status, timeVars, pc, wait, cmd, cancel, cancelled,
                 parentDone, starts, heldCancel, heldCmd, history>>

StopClear ==
  /\ caller = "clear" /\ caller' = "idle" /\ setStatus("disconnected")
  /\ Forget /\ heldCmd' = 0 /\ recent' = <<>>
  /\ UNCHANGED <<runVars, cancel, cancelled, parentDone, starts, heldCancel,
                 left>>

CallerStep == StartRun \/ StopCancel \/ StopKill \/ StopClear

\* The signal handler of main.  ffmpeg is not bound to the context.
ParentCancel ==
  /\ ~parentDone /\ parentDone' = TRUE
  /\ cancelled' = cancelled \union {r \in Runs : pc[r] # "none"}
  /\ UNCHANGED <<status, timeVars, runVars, cancel, caller, starts,
                 heldCancel, heldCmd, history>>

----------------------------------------------------------------------------
(* run().                                                                  *)

RunTop(r) ==
  /\ At(r, "top") /\ Go(r, IF r \in cancelled THEN "done" ELSE "enter")
  /\ UNCHANGED <<status, timeVars, wait, proc, cmd, callerVars, heldCmd,
                 history>>

\* Mutant: every attempt starts a window.
AdmitNewWindow(r, count, age) ==
  /\ restartCount' = 1 /\ cooldown' = None /\ window' = 0
  /\ recent' = Append(recent, 0) /\ Go(r, "connecting")
  /\ UNCHANGED wait

\* The rest of the section: a window that is over starts anew, then the
\* attempt is counted, or the cool-down begins.
Admit(r, count, age) ==
  LET over == age > RestartWindow
      n    == IF over THEN 0 ELSE count IN
  /\ window' = IF over \/ age = None THEN 0 ELSE age
  /\ IF n >= MaxRestarts
       THEN /\ restartCount' = n /\ cooldown' = Cooldown
            /\ wait' = [wait EXCEPT ![r] = Cooldown]
            /\ Go(r, "tooMany") /\ UNCHANGED recent
       ELSE /\ restartCount' = n + 1 /\ cooldown' = None
            /\ recent' = Append(recent, 0)
            /\ Go(r, "connecting") /\ UNCHANGED wait

RunEnter(r) ==
  /\ At(r, "enter")
  /\ \/ cooldown = None /\ Admit(r, restartCount, window)
     \/ cooldown = 0 /\ Admit(r, 0, None)
     \/ /\ cooldown > 0 /\ Go(r, "cooling")
        /\ wait' = [wait EXCEPT ![r] = cooldown]
        /\ UNCHANGED <<timeVars, recent>>
  /\ UNCHANGED <<status, proc, cmd, callerVars, heldCmd, left>>

\* A cool-down of another run() was found: wait for its end, then go on.
RunCooling(r) ==
  /\ At(r, "cooling") /\ setStatus("error") /\ Go(r, "cooled")
  /\ UNCHANGED <<timeVars, wait, proc, cmd, callerVars, heldCmd, history>>

RunCooled(r) ==
  /\ At(r, "cooled")
  /\ \/ r \in cancelled /\ Go(r, "done") /\ UNCHANGED <<wait, timeVars,
                                                        recent>>
     \/ wait[r] = 0 /\ Admit(r, 0, None)
  /\ UNCHANGED <<status, proc, cmd, callerVars, heldCmd, left>>

\* Its own cool-down: the counters are reset at the end of it.
RunTooMany(r) ==
  /\ At(r, "tooMany") /\ setStatus("error") /\ Go(r, "cooldown")
  /\ UNCHANGED <<timeVars, wait, proc, cmd, callerVars, heldCmd, history>>

RunCooldown(r) ==
  /\ At(r, "cooldown")
  /\ \/ r \in cancelled /\ Go(r, "done") /\ UNCHANGED timeVars
     \/ wait[r] = 0 /\ Go(r, "top") /\ Forget
  /\ UNCHANGED <<status, wait, proc, cmd, callerVars, heldCmd, history>>

RunConnecting(r) ==
  /\ At(r, "connecting") /\ setStatus("connecting") /\ Go(r, "build")
  /\ UNCHANGED <<timeVars, wait, proc, cmd, callerVars, heldCmd, history>>

RunBuild(r) ==
  /\ At(r, "build") /\ cmd' = r /\ Go(r, "start")
  /\ UNCHANGED <<status, timeVars, wait, proc, callerVars, heldCmd, history>>

\* cmd.Start may fail.
RunStart(r) ==
  /\ At(r, "start")
  /\ \/ proc' = [proc EXCEPT ![r] = "alive"] /\ Go(r, "connected")
     \/ Go(r, "failed") /\ UNCHANGED proc
  /\ UNCHANGED <<status, timeVars, wait, cmd, callerVars, heldCmd, history>>

RunConnected(r) ==
  /\ At(r, "connected") /\ setStatus("connected") /\ Go(r, "wait")
  /\ UNCHANGED <<timeVars, wait, proc, cmd, callerVars, heldCmd, history>>

\* cmd.Wait returns; a kill of the command by Stop comes too late.
RunWait(r) ==
  /\ At(r, "wait") /\ proc[r] = "dead" /\ Go(r, "exited")
  /\ proc' = [proc EXCEPT ![r] = "none"]
  /\ heldCmd' = IF heldCmd = r THEN 0 ELSE heldCmd
  /\ UNCHANGED <<status, timeVars, wait, cmd, callerVars, history>>

RunExited(r) ==
  /\ At(r, "exited") /\ cmd' = 0 /\ Go(r, "check")
  /\ UNCHANGED <<status, timeVars, wait, proc, callerVars, heldCmd, history>>

RunCheck(r) ==
  /\ At(r, "check") /\ Go(r, IF r \in cancelled THEN "done" ELSE "ended")
  /\ UNCHANGED <<status, timeVars, wait, proc, cmd, callerVars, heldCmd,
                 history>>

\* Mutant: run() returns when ffmpeg cannot be started.
RunReportGivesUp(r) ==
  /\ \/ At(r, "failed") /\ setStatus("error") /\ Go(r, "done")
     \/ At(r, "ended") /\ setStatus("error") /\ Go(r, "delay")
  /\ wait' = [wait EXCEPT ![r] = RestartDelay]
  /\ UNCHANGED <<timeVars, proc, cmd, callerVars, heldCmd, history>>

\* ffmpeg or its start failed, or ffmpeg ended by itself.
RunReport(r) ==
  /\ \/ At(r, "failed") /\ setStatus("error")
     \/ At(r, "ended") /\ \E s \in {"error", "disconnected"} : setStatus(s)
  /\ Go(r, "delay") /\ wait' = [wait EXCEPT ![r] = RestartDelay]
  /\ UNCHANGED <<timeVars, proc, cmd, callerVars, heldCmd, history>>

RunDelay(r) ==
  /\ At(r, "delay")
  /\ \/ r \in cancelled /\ Go(r, "done")
     \/ wait[r] = 0 /\ Go(r, "top")
  /\ UNCHANGED <<status, timeVars, wait, proc, cmd, callerVars, heldCmd,
                 history>>

RunStep(r) ==
  \/ RunTop(r) \/ RunEnter(r) \/ RunCooling(r) \/ RunCooled(r)
  \/ RunTooMany(r) \/ RunCooldown(r) \/ RunConnecting(r) \/ RunBuild(r)
  \/ RunStart(r) \/ RunConnected(r) \/ RunWait(r) \/ RunExited(r)
  \/ RunCheck(r) \/ RunReport(r) \/ RunDelay(r)

----------------------------------------------------------------------------
(* ffmpeg and the clock.                                                   *)
FfmpegExits(r) ==
  /\ proc[r] \in {"alive", "killed"} /\ proc' = [proc EXCEPT ![r] = "dead"]
  /\ UNCHANGED <<status, timeVars, pc, wait, cmd, callerVars, heldCmd,
                 history>>

KilledDies(r) == proc[r] = "killed" /\ FfmpegExits(r)

Less(n) == IF n > 0 THEN n - 1 ELSE n
Oldest  == {i \in DOMAIN recent : recent[i] = RestartWindow}

Tick ==
  /\ window' = IF window \in 0..RestartWindow THEN window + 1 ELSE window
  /\ cooldown' = Less(cooldown)
  /\ wait' = [r \in Runs |-> Less(wait[r])]
  /\ recent' = LET n == Cardinality(Oldest) IN
               [i \in 1..(Len(recent) - n) |-> recent[i + n] + 1]
  /\ UNCHANGED <<status, restartCount, pc, proc, cmd, callerVars, heldCmd,
                 left>>

Next ==
  \/ StartReset \/ StopRead \/ CallerStep \/ ParentCancel \/ Tick
  \/ \E r \in Runs : RunStep(r) \/ FfmpegExits(r)

Spec == Init /\ [][Next]_vars

(* Goroutines run, time passes and a killed process dies.  ffmpeg need not *)
(* end by itself, nobody need call Start or Stop.                          *)
Fairness ==
  /\ WF_vars(CallerStep) /\ WF_vars(Tick)
  /\ \A r \in Runs : WF_vars(RunStep(r)) /\ WF_vars(KilledDies(r))

FairSpec == Spec /\ Fairness

----------------------------------------------------------------------------
TypeOK ==
  /\ status \in {"disconnected", "connecting", "connected", "error"}
  /\ restartCount \in 0..MaxRestarts
  /\ window \in None..(RestartWindow + 1) /\ cooldown \in None..Cooldown
  /\ cancel \in 0..MaxStarts /\ cmd \in 0..MaxStarts
  /\ pc \in [Runs -> {"none", "top", "enter", "cooling", "cooled", "tooMany",
       "cooldown", "connecting", "build", "start", "connected", "wait",
       "exited", "check", "failed", "ended", "delay", "done"}]
  /\ wait \in [Runs -> Nat]
  /\ proc \in [Runs -> {"none", "alive", "killed", "dead"}]
  /\ cancelled \subseteq Runs /\ parentDone \in BOOLEAN
  /\ caller \in {"idle", "starting", "started", "cancel", "kill", "clear"}
  /\ starts \in 0..MaxStarts
  /\ heldCancel \in 0..MaxStarts /\ heldCmd \in 0..MaxStarts
  /\ recent \in Seq(0..RestartWindow) /\ left \subseteq Runs

(* "auto-restarts up to maxRestarts times per restartWindow, then enters   *)
(* cooldown": the counter and the ages stay in their ranges (TypeOK).  As  *)
(* the windows of the code are not sliding, any stretch of that length may *)
(* see the end of one, without its first attempt, and the next; and a run  *)
(* that Stop left behind may reset the counters of its successor once.     *)
(* The bound is on what one Start makes of failures: Start and Stop reset  *)
(* the counters, and only the attempts since the last of them are counted. *)
(* Who keeps calling Stop and Start gets as many attempts as they call.    *)
AttemptsBounded ==
  /\ TypeOK
  /\ Len(recent) <= 2 * MaxRestarts - 1 + MaxRestarts * Cardinality(left)

(* A run never loses its way, through delays and cool-downs: it comes to    *)
(* the next attempt unless it is cancelled, and then it ends ("cancels     *)
(* auto-restart"), or it waits for an ffmpeg that nobody killed.           *)
RunGetsOn ==
  \A r \in Runs :
    Active(r) ~> \/ proc[r] = "alive"
                 \/ r \notin cancelled /\ At(r, "start")
                 \/ r \in cancelled /\ ~Active(r)

(* What the source says and the code does not do: "Stop stops the FFmpeg   *)
(* subprocess".  After Stop, and until the next Start, none is left.       *)
StopStopsFfmpeg ==
  caller = "idle" ~> caller # "idle" \/ \A r \in Runs : proc[r] # "alive"
=============================================================================
