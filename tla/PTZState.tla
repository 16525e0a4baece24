------------------------------ MODULE PTZState ------------------------------
(***************************************************************************)
(* Movement of the virtual PTZ (src/internal/ptz/state.go).  A move is a   *)
(* call made of several sections of mu, followed by a goroutine that       *)
(* updates the position every 50 ms.  Each section and each tick is one    *)
(* action.  The position callback only queues an event that carries no     *)
(* position (web.go), so it is left out; one axis stands for the three.    *)
(***************************************************************************)
EXTENDS Integers, FiniteSets

CONSTANTS
  Clients,   \* calls in progress at a time (one goroutine per HTTP request)
  Bound,     \* positions are -Bound..Bound
  AbsSteps,  \* ticks of an absolute move (20)
  MaxCalls   \* bound: moves requested

ASSUME PTZAssumption ==
  /\ Clients \in Nat /\ Bound \in Nat /\ AbsSteps \in Nat /\ MaxCalls \in Nat

Calls == 1..MaxCalls        \* a move, its context and its goroutine
Positions == -Bound..Bound
Velocities == {-1, 0, 1}

VARIABLES
  position, velocity, moving,
  cancel,     \* the move whose cancel function s.cancel is, 0 for nil
  cancelled,  \* moves whose context is done
  pc,         \* where each call is: "new", "velocity", "cancel", "returned"
  kind,       \* "continuous" or "absolute"
  arg,        \* its velocity or its target
  mover,      \* its goroutine: "none", "running", "arrived", "ended"
  steps,      \* ticks an absolute move has done
  overlapped, \* history: two calls have been in progress at a time
  late        \* history: an absolute move that was cancelled came to its end

history == <<overlapped, late>>
vars == <<position, velocity, moving, cancel, cancelled, pc, kind, arg, mover,
          steps, history>>

Init ==
  /\ position = 0 /\ velocity = 0 /\ moving = FALSE
  /\ cancel = 0 /\ cancelled = {} /\ overlapped = FALSE /\ late = FALSE
  /\ pc = [n \in Calls |-> "new"] /\ kind = [n \in Calls |-> "continuous"]
  /\ arg = [n \in Calls |-> 0] /\ mover = [n \in Calls |-> "none"]
  /\ steps = [n \in Calls |-> 0]

InCall == {n \in Calls : pc[n] \in {"velocity", "cancel"}}

clampf(p) == IF p < -Bound THEN -Bound ELSE IF p > Bound THEN Bound ELSE p

----------------------------------------------------------------------------
\* Mutant: the velocity is cleared, the status is not.
stopInternalStillMoving ==
  /\ cancelled' = IF cancel = 0 THEN cancelled ELSE cancelled \union {cancel}
  /\ cancel' = 0 /\ velocity' = 0 /\ UNCHANGED moving

stopInternal ==
  /\ cancelled' = IF cancel = 0 THEN cancelled ELSE cancelled \union {cancel}
  /\ cancel' = 0 /\ velocity' = 0 /\ moving' = FALSE

Begin(n, k, next) ==
  /\ pc[n] = "new" /\ \A m \in 1..(n - 1) : pc[m] # "new"
  /\ Cardinality(InCall) < Clients
  /\ pc' = [pc EXCEPT ![n] = next] /\ kind' = [kind EXCEPT ![n] = k]
  /\ overlapped' = (overlapped \/ InCall # {})
  /\ UNCHANGED <<position, mover, steps, late>>

\* Mutant: a continuous move starts on top of the one before.
ContinuousMoveOnTop(n) ==
  /\ Begin(n, "continuous", "velocity")
  /\ \E v \in Velocities : arg' = [arg EXCEPT ![n] = v]
  /\ UNCHANGED <<cancelled, cancel, velocity, moving>>

\* ContinuousMove: stop, then set the velocity, then set s.cancel.
ContinuousMove(n) ==
  /\ Begin(n, "continuous", "velocity")
  /\ \E v \in Velocities : arg' = [arg EXCEPT ![n] = v]
  /\ stopInternal

SetVelocity(n) ==
  /\ pc[n] = "velocity" /\ pc' = [pc EXCEPT ![n] = "cancel"]
  /\ velocity' = arg[n] /\ moving' = TRUE
  /\ UNCHANGED <<position, cancel, cancelled, kind, arg, mover, steps, history>>

\* AbsoluteMove (GotoPreset ends in it): stop, then set s.cancel and moving.
AbsoluteMove(n) ==
  /\ Begin(n, "absolute", "cancel")
  /\ \E p \in Positions : arg' = [arg EXCEPT ![n] = p]
  /\ stopInternal

\* The last section of a move, and the goroutine it starts.
SetCancel(n) ==
  /\ pc[n] = "cancel" /\ pc' = [pc EXCEPT ![n] = "returned"]
  /\ cancel' = n /\ moving' = (moving \/ kind[n] = "absolute")
  /\ mover' = [mover EXCEPT ![n] = "running"]
  /\ UNCHANGED <<position, velocity, cancelled, kind, arg, steps, history>>

RelativeMove ==
  /\ Cardinality(InCall) < Clients
  /\ \E d \in Velocities : position' = clampf(position + d)
  /\ UNCHANGED <<velocity, moving, cancel, cancelled, pc, kind, arg, mover,
                 steps, history>>

Stop ==
  /\ Cardinality(InCall) < Clients
  /\ stopInternal /\ overlapped' = (overlapped \/ InCall # {})
  /\ UNCHANGED <<position, pc, kind, arg, mover, steps, late>>

----------------------------------------------------------------------------
\* A tick of runMovement: it moves by the velocity of the state.
MovementTick(n) ==
  /\ mover[n] = "running" /\ kind[n] = "continuous"
  /\ position' = clampf(position + velocity)
  /\ UNCHANGED <<velocity, moving, cancel, cancelled, pc, kind, arg, mover,
                 steps, history>>

\* The easing, and the snap onto a target that is near.
Towards(p) == {q \in Positions : (position <= q /\ q <= p) \/ (p <= q /\ q <= position)}

\* A tick of runAbsoluteMove.
AbsoluteTick(n) ==
  /\ mover[n] = "running" /\ kind[n] = "absolute" /\ steps[n] < AbsSteps
  /\ steps' = [steps EXCEPT ![n] = @ + 1]
  /\ position' \in Towards(arg[n])
  /\ mover' = [mover EXCEPT ![n] = IF position' = arg[n] THEN "arrived" ELSE @]
  /\ UNCHANGED <<velocity, moving, cancel, cancelled, pc, kind, arg, history>>

\* Having arrived it clears the status, in a section of its own.
AbsoluteArrived(n) ==
  /\ mover[n] = "arrived" /\ mover' = [mover EXCEPT ![n] = "ended"]
  /\ moving' = FALSE /\ velocity' = 0
  /\ late' = (late \/ n \in cancelled)
  /\ UNCHANGED <<position, cancel, cancelled, pc, kind, arg, steps, overlapped>>

\* Mutant: the last step leaves the status.
AbsoluteFinishMoving(n) ==
  /\ mover[n] = "running" /\ kind[n] = "absolute" /\ steps[n] = AbsSteps
  /\ mover' = [mover EXCEPT ![n] = "ended"] /\ position' = arg[n]
  /\ late' = (late \/ n \in cancelled)
  /\ UNCHANGED <<velocity, moving, cancel, cancelled, pc, kind, arg, steps,
                 overlapped>>

\* After the last tick it jumps to the target, without looking at the context.
AbsoluteFinish(n) ==
  /\ mover[n] = "running" /\ kind[n] = "absolute" /\ steps[n] = AbsSteps
  /\ mover' = [mover EXCEPT ![n] = "ended"]
  /\ position' = arg[n] /\ moving' = FALSE /\ velocity' = 0
  /\ late' = (late \/ n \in cancelled)
  /\ UNCHANGED <<cancel, cancelled, pc, kind, arg, steps, overlapped>>

\* Mutant: a goroutine that is cancelled clears the status like one that ends.
MoverCancelledClears(n) ==
  /\ mover[n] = "running" /\ n \in cancelled
  /\ kind[n] = "absolute" => steps[n] < AbsSteps
  /\ mover' = [mover EXCEPT ![n] = "ended"] /\ moving' = FALSE /\ velocity' = 0
  /\ UNCHANGED <<position, cancel, cancelled, pc, kind, arg, steps, history>>

\* The select of a goroutine takes the cancelled context.
MoverCancelled(n) ==
  /\ mover[n] = "running" /\ n \in cancelled
  /\ kind[n] = "absolute" => steps[n] < AbsSteps
  /\ mover' = [mover EXCEPT ![n] = "ended"]
  /\ UNCHANGED <<position, velocity, moving, cancel, cancelled, pc, kind, arg,
                 steps, history>>

MoverStep(n) ==
  MovementTick(n) \/ AbsoluteTick(n) \/ AbsoluteArrived(n) \/ AbsoluteFinish(n)

CallStep(n) == SetVelocity(n) \/ SetCancel(n)

Next ==
  \/ RelativeMove \/ Stop
  \/ \E n \in Calls :
       \/ ContinuousMove(n) \/ AbsoluteMove(n) \/ CallStep(n)
       \/ MoverStep(n) \/ MoverCancelled(n)

Spec == Init /\ [][Next]_vars

(* Calls return and goroutines run.  The ticker fires for ever; a select   *)
(* with a done context takes it in the end.  Nobody need call anything.    *)
Fairness ==
  \A n \in Calls :
    /\ WF_vars(CallStep(n)) /\ WF_vars(MoverCancelled(n))
    /\ WF_vars(AbsoluteTick(n) \/ AbsoluteArrived(n) \/ AbsoluteFinish(n))

FairSpec == Spec /\ Fairness

----------------------------------------------------------------------------
TypeOK ==
  /\ position \in Positions /\ velocity \in Velocities /\ moving \in BOOLEAN
  /\ cancel \in 0..MaxCalls /\ cancelled \subseteq Calls
  /\ pc \in [Calls -> {"new", "velocity", "cancel", "returned"}]
  /\ kind \in [Calls -> {"continuous", "absolute"}]
  /\ arg \in [Calls -> Int]
  /\ \A n \in Calls : arg[n] \in (IF kind[n] = "absolute" THEN Positions
                                                          ELSE Velocities)
  /\ mover \in [Calls -> {"none", "running", "arrived", "ended"}]
  /\ steps \in [Calls -> 0..AbsSteps]
  /\ overlapped \in BOOLEAN /\ late \in BOOLEAN

Live(n) == mover[n] \in {"running", "arrived"}

(* GetStatus says MOVING only while something moves: a goroutine that is   *)
(* not cancelled, or a call that is about to start one.  However calls     *)
(* interleave, the status is never left MOVING by a move that is over.     *)
MovingMeansMover ==
  moving => \E n \in Calls : pc[n] = "cancel" \/ (Live(n) /\ n \notin cancelled)

(* "Any previous movement is stopped before starting the new one": as long *)
(* as calls came one after the other, the only goroutine that is not       *)
(* cancelled is the one s.cancel stands for.                               *)
OneMover ==
  ~overlapped => \A n \in Calls : Live(n) /\ n \notin cancelled => cancel = n

(* "ContinuousMove stays active until Stop() is called": between calls     *)
(* that come one after the other, the velocity of the move that is not     *)
(* cancelled is in force.                                                  *)
ContinuousStaysActive ==
  ~overlapped /\ InCall = {} =>
    \A n \in Calls : Live(n) /\ kind[n] = "continuous" /\ n \notin cancelled
      => velocity = arg[n] /\ moving

(* And that is the only way to lose it: until an absolute move that was    *)
(* cancelled comes to its end all the same, neither other moves, Stop and  *)
(* RelativeMove nor what cancelled goroutines still do takes it away.      *)
ActiveUnlessLate == ~late => ContinuousStaysActive

(* When no call is in progress and no continuous move is on, every         *)
(* goroutine ends and the status goes back to IDLE, unless somebody calls  *)
(* again.                                                                  *)
Settled ==
  InCall = {} /\ \A n \in Calls : kind[n] = "continuous" /\ Live(n) => n \in cancelled

BecomesIdle ==
  Settled ~> ((~moving /\ \A n \in Calls : ~Live(n)) \/ ~Settled)
=============================================================================
