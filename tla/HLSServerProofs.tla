-------------------------- MODULE HLSServerProofs --------------------------
(***************************************************************************)
(* HLSServer, for any number of times ffmpeg fails: types, that Stop       *)
(* leaves no ffmpeg behind, and that ready is closed once.                 *)
(***************************************************************************)
EXTENDS HLSServer, TLAPS

(* A process exists only while runOnce waits for it, and dies only by      *)
(* itself or with the context.                                             *)
ProcOwner ==
  /\ loop # "wait" => proc = "none"
  /\ loop = "wait" => proc # "none"
  /\ proc = "killed" => ctxDone

(* Every command but the last one failed or exited, unless the context is  *)
(* done; this is what bounds their number.                                 *)
Budget ==
  /\ cmd <= exits + 1
  /\ loop = "none" => cmd = 0
  /\ start = "idle" => loop = "none"
  /\ ~ctxDone /\ (loop \in {"top", "after", "delay"} \/ proc = "dead")
       => cmd <= exits

(* Once Stop has read s.cancel it stands for the context of runLoop, which *)
(* is done when Stop goes on to kill.                                      *)
StopCancels ==
  /\ hasCancel <=> loop # "none"
  /\ stop # "idle" => (heldCancel <=> hasCancel)
  /\ stop \notin {"idle", "cancel"} /\ heldCancel => ctxDone

(* hasOutput and the close of ready go together, under mu.                 *)
ReadyCounted == readyCloses = IF hasOutput THEN 1 ELSE 0

Returned == stop = "returned" => loop \in {"none", "done"}

Control == ProcOwner /\ Budget /\ StopCancels /\ ReadyCounted /\ Returned

IInv == TypeOK /\ Control

(* The inductive invariant holds at the start.                             *)
LEMMA InitIInv == Init => IInv
<1> SUFFICES ASSUME Init PROVE IInv
  OBVIOUS
<1>1. {ctxDone, hasCancel, heldCancel, segments, hasOutput} \subseteq BOOLEAN
  BY Zenon DEF Init
<1>2. watcher \in [Commands -> {"none", "polling", "found", "ended"}]
  BY DEF Init
<1>3. TypeOK
  BY <1>1, <1>2, HLSAssumption DEF Init, TypeOK
<1>4. Control
  BY DEF Init, Control, ProcOwner, Budget, StopCancels, ReadyCounted, Returned
<1> QED
  BY <1>3, <1>4 DEF IInv

(* Start and what its caller waits for.                                    *)
LEMMA StartPreserves ==
  ASSUME IInv, StartFails \/ Start \/ StartReady \/ StartTimeout
               \/ StartCancelled \/ ParentCancel
  PROVE  IInv'
<1> USE HLSAssumption
    DEF IInv, TypeOK, Control, ProcOwner, Budget, StopCancels, ReadyCounted,
        Returned, stopVars, loopVars, procVars, readyVars
<1>1. CASE StartFails
  BY <1>1 DEF StartFails
<1>2. CASE Start
  <2>1. TypeOK'
    <3>1. {ctxDone, hasCancel, heldCancel, segments, hasOutput}'
            \subseteq BOOLEAN
      BY <1>2, Zenon DEF Start
    <3> QED
      BY <1>2, <3>1 DEF Start
  <2>2. Control'
    BY <1>2 DEF Start
  <2> QED
    BY <2>1, <2>2
<1>3. CASE StartReady
  BY <1>3 DEF StartReady
<1>4. CASE StartTimeout
  BY <1>4 DEF StartTimeout
<1>5. CASE StartCancelled
  BY <1>5 DEF StartCancelled
<1>6. CASE ParentCancel
  BY <1>6 DEF ParentCancel
<1> QED
  BY <1>1, <1>2, <1>3, <1>4, <1>5, <1>6

(* A new command is admitted only when every one before it has failed.     *)
LEMMA LoopPreserves ==
  ASSUME IInv, LoopStep
  PROVE  IInv'
<1> USE HLSAssumption
    DEF IInv, TypeOK, Control, ProcOwner, Budget, StopCancels, ReadyCounted,
        Returned, stopVars, loopVars, procVars, readyVars
<1>1. CASE LoopTop
  BY <1>1 DEF LoopTop
<1>2. CASE LoopStart
  <2>1. watcher' \in [Commands -> {"none", "polling", "found", "ended"}]
    BY <1>2 DEF LoopStart
  <2> QED
    BY <1>2, <2>1 DEF LoopStart
<1>3. CASE LoopWait
  BY <1>3 DEF LoopWait
<1>4. CASE LoopAfter
  BY <1>4 DEF LoopAfter
<1>5. CASE LoopDelay
  BY <1>5 DEF LoopDelay
<1> QED
  BY <1>1, <1>2, <1>3, <1>4, <1>5 DEF LoopStep

(* However many watchers have found the segment, the first to take mu      *)
(* closes ready and the others see hasOutput.                              *)
LEMMA WatcherPreserves ==
  ASSUME IInv, NEW w \in Commands, WatcherStep(w)
  PROVE  IInv'
<1> USE HLSAssumption
    DEF IInv, TypeOK, Control, ProcOwner, Budget, StopCancels, ReadyCounted,
        Returned, stopVars, loopVars, procVars, readyVars
<1>1. CASE WatcherFinds(w)
  BY <1>1 DEF WatcherFinds
<1>2. CASE WatcherSignals(w)
  BY <1>2 DEF WatcherSignals
<1>3. CASE WatcherCancelled(w)
  BY <1>3 DEF WatcherCancelled
<1> QED
  BY <1>1, <1>2, <1>3 DEF WatcherStep

(* Stop has cancelled the context of whatever it finds alive, and returns  *)
(* when runLoop has.                                                       *)
LEMMA StopPreserves ==
  ASSUME IInv, StopRead \/ StopStep
  PROVE  IInv'
<1> USE HLSAssumption
    DEF IInv, TypeOK, Control, ProcOwner, Budget, StopCancels, ReadyCounted,
        Returned, stopVars, loopVars, procVars, readyVars
<1>1. CASE StopRead
  BY <1>1 DEF StopRead
<1>2. CASE StopCancel
  BY <1>2 DEF StopCancel
<1>3. CASE StopKill
  BY <1>3 DEF StopKill
<1>4. CASE StopPoll
  BY <1>4 DEF StopPoll
<1>5. CASE StopJoin
  BY <1>5 DEF StopJoin
<1> QED
  BY <1>1, <1>2, <1>3, <1>4, <1>5 DEF StopStep

(* ffmpeg may produce, exit or be killed at any time.                      *)
LEMMA FfmpegPreserves ==
  ASSUME IInv, Segment \/ FfmpegExits \/ ContextKill \/ KilledDies
  PROVE  IInv'
<1> USE HLSAssumption
    DEF IInv, TypeOK, Control, ProcOwner, Budget, StopCancels, ReadyCounted,
        Returned, stopVars, loopVars, procVars, readyVars
<1>1. CASE Segment
  BY <1>1 DEF Segment
<1>2. CASE FfmpegExits
  BY <1>2 DEF FfmpegExits
<1>3. CASE ContextKill
  BY <1>3 DEF ContextKill
<1>4. CASE KilledDies
  BY <1>4 DEF KilledDies
<1> QED
  BY <1>1, <1>2, <1>3, <1>4

(* The inductive invariant holds in every reachable state.                 *)
THEOREM Invariance == Spec => []IInv
<1>1. ASSUME IInv, [Next]_vars PROVE IInv'
  <2>1. CASE UNCHANGED vars
    BY <1>1, <2>1
       DEF vars, IInv, TypeOK, Control, ProcOwner, Budget, StopCancels,
           ReadyCounted, Returned, stopVars, loopVars, procVars, readyVars
  <2>2. CASE Next
    BY <1>1, <2>2, StartPreserves, LoopPreserves, WatcherPreserves,
       StopPreserves, FfmpegPreserves DEF Next
  <2> QED
    BY <1>1, <2>1, <2>2
<1> QED
  BY InitIInv, <1>1, PTL DEF Spec

(* When Stop returns no ffmpeg is left and none will be started, at        *)
(* whatever point of its loop runLoop was and whatever Stop read.          *)
THEOREM StopIsFinal == Spec => []StopLeavesNothing
<1>1. IInv => StopLeavesNothing
  BY DEF IInv, Control, ProcOwner, Returned, StopLeavesNothing
<1> QED
  BY <1>1, Invariance, PTL

(* ready is closed at most once, so close never panics, for any number of  *)
(* restarts and of watchers that find the same segment.                    *)
THEOREM ReadyClosedOnce == Spec => []ReadyOnce
<1>1. IInv => ReadyOnce
  BY DEF IInv, Control, ReadyCounted, ReadyOnce
<1> QED
  BY <1>1, Invariance, PTL
=============================================================================
