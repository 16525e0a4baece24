--------------------------- MODULE PTZStateProofs ---------------------------
(***************************************************************************)
(* Proofs about PTZState, for every number of calls, clients and steps.    *)
(***************************************************************************)
EXTENDS PTZState, TLAPS

(* A call that has not set s.cancel has no goroutine and no done context;  *)
(* only absolute moves arrive.                                             *)
Unstarted ==
  /\ \A n \in Calls : pc[n] # "returned" => n \notin cancelled /\ cancel # n
  /\ \A n \in Calls : pc[n] # "returned" => mover[n] = "none"
  /\ \A n \in Calls : pc[n] = "velocity" => kind[n] = "continuous"
  /\ \A n \in Calls : mover[n] = "arrived" => kind[n] = "absolute"

(* As long as calls did not overlap there is one at a time, and it has     *)
(* cancelled what was moving before it.                                    *)
OneCall ==
  ~overlapped =>
    /\ \A m \in InCall, n \in InCall : m = n
    /\ InCall # {} => \A n \in Calls : Live(n) => n \in cancelled

IInv == TypeOK /\ Unstarted /\ MovingMeansMover /\ OneMover /\ OneCall

(* A clamped position is in its range.                                     *)
LEMMA ClampInRange ==
  ASSUME NEW p \in Int PROVE clampf(p) \in Positions
BY PTZAssumption DEF clampf, Positions, PTZAssumption

(* The inductive invariant holds at the start.                             *)
LEMMA InitIInv == Init => IInv
<1> SUFFICES ASSUME Init PROVE IInv
  OBVIOUS
<1>1. TypeOK
  <2>1. 0 \in Positions /\ 0 \in 0..MaxCalls /\ 0 \in 0..AbsSteps
    BY PTZAssumption DEF Positions, PTZAssumption
  <2>2. 0 \in Velocities
    BY DEF Velocities
  <2>3. moving \in BOOLEAN /\ overlapped \in BOOLEAN /\ late \in BOOLEAN
    BY Zenon DEF Init
  <2> QED
    BY <2>1, <2>2, <2>3 DEF Init, TypeOK
<1>2. Unstarted
  BY DEF Init, Unstarted, Calls
<1>3. InCall = {} /\ \A n \in Calls : ~Live(n)
  BY DEF Init, InCall, Live
<1>4. moving = FALSE
  BY Zenon DEF Init
<1> QED
  BY <1>1, <1>2, <1>3, <1>4 DEF IInv, MovingMeansMover, OneMover, OneCall

(* What a move does when it begins.                                        *)
LEMMA BeginPreserves ==
  ASSUME IInv, NEW n \in Calls, NEW k \in {"continuous", "absolute"},
         NEW p \in {"velocity", "cancel"}, p = "velocity" => k = "continuous",
         Begin(n, k, p), stopInternal,
         NEW a \in Int, arg' = [arg EXCEPT ![n] = a],
         a \in (IF k = "absolute" THEN Positions ELSE Velocities)
  PROVE  IInv'
<1>1. /\ pc[n] = "new" /\ pc' = [pc EXCEPT ![n] = p]
      /\ kind' = [kind EXCEPT ![n] = k]
      /\ overlapped' = (overlapped \/ InCall # {})
      /\ UNCHANGED <<position, mover, steps, late>>
  BY DEF Begin
<1>2. cancelled' = IF cancel = 0 THEN cancelled ELSE cancelled \union {cancel}
  BY DEF stopInternal
<1>3. cancel' = 0 /\ velocity' = 0 /\ moving' = FALSE
  BY DEF stopInternal
<1>4. TypeOK'
  <2>1. cancelled' \subseteq Calls
    BY <1>2 DEF IInv, TypeOK, Calls
  <2>2. /\ arg' \in [Calls -> Int] /\ kind' \in [Calls -> {"continuous", "absolute"}]
        /\ \A m \in Calls : arg'[m] \in (IF kind'[m] = "absolute" THEN Positions
                                                                ELSE Velocities)
    BY <1>1 DEF IInv, TypeOK
  <2>3. overlapped' \in BOOLEAN
    BY <1>1 DEF IInv, TypeOK
  <2>4. pc' \in [Calls -> {"new", "velocity", "cancel", "returned"}]
    BY <1>1 DEF IInv, TypeOK
  <2>5. cancel' \in 0..MaxCalls
    BY <1>3, PTZAssumption DEF PTZAssumption
  <2>6. velocity' \in Velocities /\ moving' \in BOOLEAN
    BY <1>3, Zenon DEF Velocities
  <2> QED
    BY <1>1, <2>1, <2>2, <2>3, <2>4, <2>5, <2>6 DEF IInv, TypeOK
<1>5. Unstarted'
  BY <1>1, <1>2, <1>3 DEF IInv, TypeOK, Unstarted, Calls
<1>6. ~overlapped' => \A m \in Calls : Live(m)' => m \in cancelled'
  BY <1>1, <1>2, <1>3 DEF IInv, TypeOK, OneMover, Live, Calls
<1>7. ~overlapped' => InCall' = {n}
  BY <1>1 DEF IInv, TypeOK, InCall
<1> QED
  BY <1>3, <1>4, <1>5, <1>6, <1>7
     DEF IInv, MovingMeansMover, OneMover, OneCall

(* Both moves.                                                             *)
LEMMA MovePreserves ==
  ASSUME IInv, NEW n \in Calls, ContinuousMove(n) \/ AbsoluteMove(n)
  PROVE  IInv'
<1>1. CASE ContinuousMove(n)
  <2>1. PICK v \in Velocities : arg' = [arg EXCEPT ![n] = v]
    BY <1>1 DEF ContinuousMove
  <2>2. v \in Int
    BY DEF Velocities
  <2> QED
    BY <1>1, <2>1, <2>2, BeginPreserves DEF ContinuousMove
<1>2. CASE AbsoluteMove(n)
  <2>1. PICK p \in Positions : arg' = [arg EXCEPT ![n] = p]
    BY <1>2 DEF AbsoluteMove
  <2>2. p \in Int
    BY PTZAssumption DEF Positions, PTZAssumption
  <2> QED
    BY <1>2, <2>1, <2>2, BeginPreserves DEF AbsoluteMove
<1> QED
  BY <1>1, <1>2

(* The sections that follow in a call.                                     *)
LEMMA CallPreserves ==
  ASSUME IInv, NEW n \in Calls, CallStep(n) PROVE IInv'
<1>1. CASE SetVelocity(n)
  <2>1. /\ pc[n] = "velocity" /\ pc' = [pc EXCEPT ![n] = "cancel"]
        /\ velocity' = arg[n] /\ moving' = TRUE
        /\ UNCHANGED <<position, cancel, cancelled, kind, arg, mover, steps,
                       overlapped, late>>
    BY <1>1 DEF SetVelocity, history
  <2>2. velocity' \in Velocities
    BY <2>1 DEF IInv, TypeOK, Unstarted
  <2>3. moving' \in BOOLEAN
    BY <2>1, Zenon
  <2>4. TypeOK'
    BY <2>1, <2>2, <2>3 DEF IInv, TypeOK
  <2>5. pc'[n] = "cancel" /\ InCall' = InCall
    BY <2>1 DEF IInv, TypeOK, InCall
  <2>6. Unstarted'
    BY <2>1 DEF IInv, TypeOK, Unstarted
  <2> QED
    BY <2>1, <2>4, <2>5, <2>6
       DEF IInv, MovingMeansMover, OneMover, OneCall, Live
<1>2. CASE SetCancel(n)
  <2>1. /\ pc[n] = "cancel" /\ pc' = [pc EXCEPT ![n] = "returned"]
        /\ cancel' = n /\ moving' = (moving \/ kind[n] = "absolute")
        /\ mover' = [mover EXCEPT ![n] = "running"]
        /\ UNCHANGED <<position, velocity, cancelled, kind, arg, steps,
                       overlapped, late>>
    BY <1>2 DEF SetCancel, history
  <2>2. moving' \in BOOLEAN
    BY <2>1, Zenon
  <2>3. TypeOK'
    BY <2>1, <2>2 DEF IInv, TypeOK, Calls
  <2>4. Live(n)' /\ n \notin cancelled'
    BY <2>1 DEF IInv, TypeOK, Unstarted, Live
  <2>5. Unstarted'
    BY <2>1 DEF IInv, TypeOK, Unstarted
  <2>6. InCall' = InCall \ {n} /\ n \in InCall
    BY <2>1 DEF IInv, TypeOK, InCall
  <2>7. \A m \in Calls \ {n} : Live(m)' <=> Live(m)
    BY <2>1 DEF IInv, TypeOK, Live
  <2>8. OneMover' /\ OneCall'
    BY <2>1, <2>4, <2>6, <2>7 DEF IInv, OneMover, OneCall
  <2> QED
    BY <2>3, <2>4, <2>5, <2>8 DEF IInv, MovingMeansMover
<1> QED
  BY <1>1, <1>2 DEF CallStep

(* Stop cancels what s.cancel stands for and clears the status.            *)
LEMMA StopPreserves == ASSUME IInv, Stop PROVE IInv'
<1>1. /\ cancelled' = IF cancel = 0 THEN cancelled ELSE cancelled \union {cancel}
      /\ cancel' = 0 /\ velocity' = 0 /\ moving' = FALSE
      /\ overlapped' = (overlapped \/ InCall # {})
      /\ UNCHANGED <<position, pc, kind, arg, mover, steps, late>>
  BY DEF Stop, stopInternal
<1>2. overlapped' \in BOOLEAN /\ moving' \in BOOLEAN
  BY <1>1, Zenon
<1>3. velocity' \in Velocities
  BY <1>1 DEF Velocities
<1>4. TypeOK'
  BY <1>1, <1>2, <1>3, PTZAssumption DEF IInv, TypeOK, Calls, PTZAssumption
<1>5. Unstarted'
  BY <1>1 DEF IInv, TypeOK, Unstarted, Calls
<1>6. InCall' = InCall /\ \A n \in Calls : Live(n)' <=> Live(n)
  BY <1>1 DEF InCall, Live
<1>7. OneMover' /\ OneCall'
  BY <1>1, <1>6 DEF IInv, TypeOK, OneMover, OneCall, Calls
<1> QED
  BY <1>1, <1>4, <1>5, <1>7 DEF IInv, MovingMeansMover

(* A goroutine ends only when it is cancelled, or clears the status.       *)
LEMMA MoverPreserves ==
  ASSUME IInv, NEW n \in Calls, MoverStep(n) \/ MoverCancelled(n) PROVE IInv'
<1>1. /\ UNCHANGED <<cancel, cancelled, pc, kind, arg, overlapped>>
      /\ Live(n)
  BY DEF MoverStep, MoverCancelled, MovementTick, AbsoluteTick, AbsoluteArrived,
         AbsoluteFinish, Live, history
<1>2. PICK s \in {"running", "arrived", "ended"} : mover' = [mover EXCEPT ![n] = s]
  BY DEF MoverStep, MoverCancelled, MovementTick, AbsoluteTick, AbsoluteArrived,
         AbsoluteFinish, IInv, TypeOK
<1>3. position' \in Positions
  <2>1. CASE MovementTick(n)
    <3>1. position + velocity \in Int
      BY PTZAssumption DEF IInv, TypeOK, Positions, Velocities, PTZAssumption
    <3> QED
      BY <2>1, <3>1, ClampInRange DEF MovementTick
  <2>2. CASE AbsoluteTick(n)
    BY <2>2 DEF AbsoluteTick, Towards
  <2>3. CASE AbsoluteFinish(n)
    BY <2>3 DEF AbsoluteFinish, IInv, TypeOK
  <2>4. CASE AbsoluteArrived(n) \/ MoverCancelled(n)
    BY <2>4 DEF AbsoluteArrived, MoverCancelled, IInv, TypeOK
  <2> QED
    BY <2>1, <2>2, <2>3, <2>4 DEF MoverStep
<1>4. \/ moving' = moving /\ velocity' = velocity
      \/ moving' = FALSE /\ velocity' = 0
  BY Zenon DEF MoverStep, MoverCancelled, MovementTick, AbsoluteTick,
               AbsoluteArrived, AbsoluteFinish
<1>5. moving' \in BOOLEAN
  BY <1>4, Zenon DEF IInv, TypeOK
<1>6. velocity' \in Velocities
  BY <1>4 DEF IInv, TypeOK, Velocities
<1>7. steps' \in [Calls -> 0..AbsSteps]
  BY PTZAssumption
     DEF MoverStep, MoverCancelled, MovementTick, AbsoluteTick, AbsoluteArrived,
         AbsoluteFinish, IInv, TypeOK, PTZAssumption
<1>a. late' \in BOOLEAN
  <2>1. late' = late \/ late' = (late \/ n \in cancelled)
    BY Zenon DEF MoverStep, MoverCancelled, MovementTick, AbsoluteTick,
                 AbsoluteArrived, AbsoluteFinish, history
  <2> QED
    BY <2>1, Zenon DEF IInv, TypeOK
<1>8. TypeOK'
  BY <1>1, <1>2, <1>3, <1>5, <1>6, <1>7, <1>a DEF IInv, TypeOK
<1>9. Unstarted'
  <2>1. mover'[n] = "arrived" => kind[n] = "absolute"
    BY DEF MoverStep, MoverCancelled, MovementTick, AbsoluteTick,
           AbsoluteArrived, AbsoluteFinish, IInv, TypeOK, Unstarted
  <2> QED
    BY <1>1, <1>2, <2>1 DEF IInv, TypeOK, Unstarted, Live
<1>10. InCall' = InCall /\ \A m \in Calls : Live(m)' => Live(m)
  BY <1>1, <1>2 DEF IInv, TypeOK, InCall, Live
<1>11. OneMover' /\ OneCall'
  BY <1>1, <1>10 DEF IInv, OneMover, OneCall
<1>12. ~Live(n)' => n \in cancelled \/ moving' = FALSE
  BY <1>2 DEF MoverStep, MoverCancelled, MovementTick, AbsoluteTick,
              AbsoluteArrived, AbsoluteFinish, Live, IInv, TypeOK
<1>13. \A m \in Calls \ {n} : Live(m)' <=> Live(m)
  BY <1>2 DEF IInv, TypeOK, Live
<1>14. MovingMeansMover'
  <2>1. SUFFICES ASSUME moving' PROVE MovingMeansMover'
    BY DEF MovingMeansMover
  <2>2. moving /\ (~Live(n)' => n \in cancelled)
    BY <1>4, <1>12, <2>1, Zenon
  <2>3. PICK m \in Calls : pc[m] = "cancel" \/ (Live(m) /\ m \notin cancelled)
    BY <2>2 DEF IInv, MovingMeansMover
  <2>4. pc'[m] = "cancel" \/ (Live(m)' /\ m \notin cancelled')
    BY <1>1, <1>13, <2>2, <2>3
  <2> QED
    BY <2>4 DEF MovingMeansMover
<1> QED
  BY <1>8, <1>9, <1>11, <1>14 DEF IInv

(* The inductive invariant is preserved by every step.                     *)
LEMMA StepIInv == IInv /\ [Next]_vars => IInv'
<1> SUFFICES ASSUME IInv, [Next]_vars PROVE IInv'
  OBVIOUS
<1>1. CASE RelativeMove
  <2>1. PICK d \in Velocities : position' = clampf(position + d)
    BY <1>1 DEF RelativeMove
  <2>2. position + d \in Int
    BY PTZAssumption DEF IInv, TypeOK, Positions, Velocities, PTZAssumption
  <2>3. position' \in Positions
    BY <2>1, <2>2, ClampInRange
  <2> QED
    BY <1>1, <2>3 DEF RelativeMove, IInv, TypeOK, Unstarted, MovingMeansMover,
                      OneMover, OneCall, InCall, Live, history
<1>2. CASE UNCHANGED vars
  BY <1>2 DEF vars, history, IInv, TypeOK, Unstarted, MovingMeansMover,
              OneMover, OneCall, InCall, Live
<1> QED
  BY <1>1, <1>2, StopPreserves, MovePreserves, CallPreserves, MoverPreserves
     DEF Next

(* The inductive invariant holds in every reachable state.                 *)
THEOREM Invariance == Spec => []IInv
  BY InitIInv, StepIInv, PTL DEF Spec

(* Positions stay in range, whatever velocities and targets are asked for. *)
THEOREM TypeCorrect == Spec => []TypeOK
  BY Invariance, PTL DEF IInv

(* However many calls interleave, GetStatus never says MOVING when nothing *)
(* is moving or about to move.                                             *)
THEOREM StatusIsHonest == Spec => []MovingMeansMover
  BY Invariance, PTL DEF IInv

(* As long as calls come one after the other, a move stops the one before. *)
THEOREM MovesReplaceEachOther == Spec => []OneMover
  BY Invariance, PTL DEF IInv

\* Until an absolute move ends although it was cancelled: the call that is
\* about to start a continuous move has set the velocity, and the goroutine
\* of one that is on finds it unchanged.
InForce(n) == velocity = arg[n] /\ moving = TRUE

ActiveInv ==
  late = FALSE /\ overlapped = FALSE =>
    \A n \in Calls :
      /\ kind[n] = "continuous"
      /\ pc[n] = "cancel" \/ (Live(n) /\ n \notin cancelled)
      => InForce(n)

(* Between calls that do not overlap at most one call is on its way, and   *)
(* while it is everything that still runs is cancelled.                    *)
LEMMA OneAtATime ==
  ASSUME IInv, overlapped = FALSE, NEW n \in Calls,
         pc[n] \in {"velocity", "cancel"}
  PROVE  /\ \A m \in Calls : pc[m] \in {"velocity", "cancel"} => m = n
         /\ \A m \in Calls : Live(m) => m \in cancelled
  BY DEF IInv, OneCall, InCall

(* A step of a call leaves only that call's move on.                       *)
LEMMA CallKeepsActive ==
  ASSUME IInv, IInv', ActiveInv, NEW n \in Calls,
         ContinuousMove(n) \/ AbsoluteMove(n) \/ CallStep(n)
  PROVE  ActiveInv'
<1> SUFFICES ASSUME late' = FALSE, overlapped' = FALSE, NEW m \in Calls,
                    kind'[m] = "continuous",
                    pc'[m] = "cancel" \/ (Live(m)' /\ m \notin cancelled')
             PROVE  InForce(m)'
  BY DEF ActiveInv
<1>1. CASE ContinuousMove(n) \/ AbsoluteMove(n)
  <2>1. /\ pc'[n] \in {"velocity", "cancel"}
        /\ pc'[n] = "cancel" => kind'[n] = "absolute"
    BY <1>1 DEF ContinuousMove, AbsoluteMove, Begin, IInv, TypeOK
  <2>2. overlapped' = FALSE /\ n \in InCall'
    BY <2>1 DEF InCall
  <2>3. /\ \A k \in Calls : pc'[k] \in {"velocity", "cancel"} => k = n
        /\ \A k \in Calls : Live(k)' => k \in cancelled'
    BY <2>2 DEF IInv, OneCall, InCall
  <2> QED
    BY <2>1, <2>3
<1>2. CASE SetVelocity(n)
  <2>1. /\ pc'[n] = "cancel" /\ velocity' = arg[n] /\ moving' = TRUE
        /\ arg' = arg
    BY <1>2 DEF SetVelocity, IInv, TypeOK
  <2>2. /\ \A k \in Calls : pc'[k] \in {"velocity", "cancel"} => k = n
        /\ \A k \in Calls : Live(k)' => k \in cancelled'
    BY <2>1 DEF IInv, OneCall, InCall
  <2> QED
    BY <2>1, <2>2 DEF InForce
<1>3. CASE SetCancel(n)
  <2>1. /\ pc[n] = "cancel" /\ pc' = [pc EXCEPT ![n] = "returned"]
        /\ mover' = [mover EXCEPT ![n] = "running"]
        /\ UNCHANGED <<velocity, cancelled, kind, arg, overlapped, late>>
    BY <1>3 DEF SetCancel, history
  <2>2. /\ \A k \in Calls : pc[k] \in {"velocity", "cancel"} => k = n
        /\ \A k \in Calls : Live(k) => k \in cancelled
    BY <2>1, OneAtATime
  <2>3. m = n
    BY <2>1, <2>2 DEF Live, IInv, TypeOK
  <2>4. InForce(n)
    BY <2>1, <2>3 DEF ActiveInv
  <2>5. moving = TRUE
    BY <2>4 DEF InForce
  <2>6. moving' = TRUE
    BY <1>3, <2>5, Zenon DEF SetCancel
  <2> QED
    BY <2>1, <2>3, <2>4, <2>6 DEF InForce
<1> QED
  BY <1>1, <1>2, <1>3 DEF CallStep

(* Of the goroutines only an absolute move clears the velocity, and one    *)
(* that is not cancelled is the only move that is on.                      *)
LEMMA MoverKeepsActive ==
  ASSUME IInv, IInv', ActiveInv, NEW n \in Calls,
         MoverStep(n) \/ MoverCancelled(n)
  PROVE  ActiveInv'
<1> SUFFICES ASSUME late' = FALSE, overlapped' = FALSE, NEW m \in Calls,
                    kind'[m] = "continuous",
                    pc'[m] = "cancel" \/ (Live(m)' /\ m \notin cancelled')
             PROVE  InForce(m)'
  BY DEF ActiveInv
<1>1. /\ UNCHANGED <<cancel, cancelled, pc, kind, arg, overlapped>>
      /\ Live(n) /\ (Live(m)' => Live(m))
  BY DEF MoverStep, MoverCancelled, MovementTick, AbsoluteTick, AbsoluteArrived,
         AbsoluteFinish, Live, history, IInv, TypeOK
<1>2. CASE MovementTick(n) \/ AbsoluteTick(n) \/ MoverCancelled(n)
  <2>1. UNCHANGED <<velocity, moving, late>>
    BY <1>2, Zenon DEF MovementTick, AbsoluteTick, MoverCancelled, history
  <2> QED
    BY <1>1, <2>1 DEF ActiveInv, InForce
<1>3. CASE AbsoluteArrived(n) \/ AbsoluteFinish(n)
  <2>1. late' = (late \/ n \in cancelled)
    BY <1>3, Zenon DEF AbsoluteArrived, AbsoluteFinish
  <2>2. n \notin cancelled
    BY <2>1, Zenon
  <2>3. kind[n] = "absolute"
    BY <1>3 DEF AbsoluteFinish, AbsoluteArrived, IInv, Unstarted
  <2>4. pc[m] # "cancel"
    BY <1>1, <2>2, OneAtATime
  <2>5. m = cancel /\ n = cancel
    BY <1>1, <2>2, <2>4 DEF IInv, OneMover
  <2> QED
    BY <1>1, <2>3, <2>5
<1> QED
  BY <1>2, <1>3 DEF MoverStep

(* Every step keeps the continuous move in force.                          *)
LEMMA ActiveStep == IInv /\ IInv' /\ ActiveInv /\ [Next]_vars => ActiveInv'
<1> SUFFICES ASSUME IInv, IInv', ActiveInv, [Next]_vars PROVE ActiveInv'
  OBVIOUS
<1>1. CASE Stop
  <2>1. /\ overlapped' = (overlapped \/ InCall # {})
        /\ cancelled' = IF cancel = 0 THEN cancelled
                                      ELSE cancelled \union {cancel}
        /\ UNCHANGED <<pc, mover>>
    BY <1>1 DEF Stop, stopInternal
  <2>2. ASSUME overlapped' = FALSE, NEW n \in Calls
        PROVE  ~(pc'[n] = "cancel" \/ (Live(n)' /\ n \notin cancelled'))
    <3>1. overlapped = FALSE /\ InCall = {}
      BY <2>1, <2>2, Zenon DEF IInv, TypeOK
    <3>2. Live(n) /\ n \notin cancelled => cancel = n
      BY <3>1 DEF IInv, OneMover
    <3> QED
      BY <2>1, <3>1, <3>2 DEF InCall, Live, Calls
  <2> QED
    BY <2>2 DEF ActiveInv
<1>2. CASE RelativeMove \/ UNCHANGED vars
  <2>1. UNCHANGED <<late, overlapped, kind, pc, mover, cancelled, velocity, arg,
                    moving>>
    BY <1>2, Zenon DEF RelativeMove, vars, history
  <2> QED
    BY <2>1, Zenon DEF ActiveInv, InForce, Live
<1> QED
  BY <1>1, <1>2, CallKeepsActive, MoverKeepsActive DEF Next

(* "ContinuousMove stays active until Stop() is called", for any number of *)
(* calls that come one after the other: only an absolute move that ends    *)
(* after it was cancelled ever takes the velocity away.                    *)
THEOREM OnlyLateArrivalsDisturb == Spec => []ActiveUnlessLate
<1>1. Init => ActiveInv
  BY DEF Init, ActiveInv, Live
<1>2. IInv /\ ActiveInv => ActiveUnlessLate
  <2> SUFFICES ASSUME IInv, ActiveInv, ~late, ~overlapped, NEW n \in Calls,
                      Live(n), kind[n] = "continuous", n \notin cancelled
               PROVE  velocity = arg[n] /\ moving
    BY DEF ActiveUnlessLate, ContinuousStaysActive
  <2>1. late = FALSE /\ overlapped = FALSE
    BY Zenon DEF IInv, TypeOK
  <2>2. InForce(n)
    BY <2>1, Zenon DEF ActiveInv
  <2> QED
    BY <2>2, Zenon DEF InForce
<1> QED
  BY Invariance, StepIInv, ActiveStep, <1>1, <1>2, PTL DEF Spec
=============================================================================
