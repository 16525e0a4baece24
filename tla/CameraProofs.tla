---------------------------- MODULE CameraProofs ----------------------------
(***************************************************************************)
(* Theorems about Camera for every value of its constants.  The inductive  *)
(* invariant adds to the properties who owns mu, that run() owns the       *)
(* subprocess, and that a stopped camera that was started has a cancelled  *)
(* context: the last is what makes a late spawn fail.                      *)
(***************************************************************************)
EXTENDS Camera, SequenceTheorems, TLAPS

\* Which goroutine is inside a long section of mu.
MutexOwner ==
  /\ mu = "run" <=> run \in {"fork", "config"}
  /\ started <=> run # "none"

\* There is a subprocess only between SpawnFork and run()'s cleanup.
ChildOwner ==
  run \in {"none", "check", "spawn", "fork", "recheck", "sleep", "exit"}
    => child = "none" /\ ~open

\* A Stop that signalled has cancelled the context of a run() that is past
\* its check of `stopped`.
StopCancels ==
  /\ stopped <=> stop \notin {"idle", "called"}
  /\ stopped /\ run \notin {"none", "check", "exit"} => ctxDone

IInv ==
  TypeOK /\ MutexOwner /\ ChildOwner /\ StopCancels /\ NoOrphan /\ ConfigInSync

(* Delivering the oldest message of the config pipe changes neither the    *)
(* type of the pipe nor the config that is delivered last.                 *)
LEMMA LatestAfterRead ==
  ASSUME NEW S, NEW q \in Seq(S), q # <<>>
  PROVE  /\ Head(q) \in S /\ Tail(q) \in Seq(S)
         /\ q[Len(q)] = IF Tail(q) = <<>> THEN Head(q)
                                          ELSE Tail(q)[Len(Tail(q))]
<1>1. Len(q) \in Nat /\ Len(q) > 0
  OBVIOUS
<1>2. Len(Tail(q)) = Len(q) - 1
  BY HeadTailProperties
<1>3. Head(q) = q[1] /\ Head(q) \in S /\ Tail(q) \in Seq(S)
  BY HeadTailProperties
<1>4. CASE Tail(q) = <<>>
  <2>1. Len(Tail(q)) = 0
    BY <1>4, EmptySeq, Zenon
  <2>2. \A n \in Nat : 0 = n - 1 => n = 1
    OBVIOUS
  <2>3. Len(q) = 1
    BY <1>1, <1>2, <2>1, <2>2, Zenon
  <2> QED
    BY <1>4, <1>3, <2>3
<1>5. CASE Tail(q) # <<>>
  <2>1. Len(q) - 1 \in 1 .. Len(Tail(q))
    BY <1>1, <1>2, <1>3, <1>5, EmptySeq
  <2>2. Tail(q)[Len(q) - 1] = q[(Len(q) - 1) + 1]
    BY <2>1, HeadTailProperties
  <2> QED
    BY <1>1, <1>2, <1>3, <1>5, <2>2
<1> QED
  BY <1>4, <1>5

(* The message appended to a config pipe is the one delivered last.        *)
LEMMA LatestAfterWrite ==
  ASSUME NEW S, NEW q \in Seq(S), NEW e \in S
  PROVE  /\ Append(q, e) \in Seq(S) /\ Append(q, e) # <<>>
         /\ Append(q, e)[Len(Append(q, e))] = e
  OBVIOUS

(* Every initial state satisfies the inductive invariant.                  *)
LEMMA InitIInv == Init => IInv
<1> SUFFICES ASSUME Init PROVE IInv
  OBVIOUS
<1>1. TypeOK
  <2>1. <<>> \in Seq(Nat) /\ <<>> \in Seq(ParamValues) /\ <<>> \in Seq(Messages)
    BY EmptySeq
  <2>2. backoff \in 1..MaxBackoff
    BY CameraAssumption DEF Init
  <2>3. frames \in Seq(Nat) /\ conf \in Seq(ParamValues) /\ video \in Seq(Messages)
    BY <2>1, Zenon DEF Init
  <2> QED
    BY <2>2, <2>3 DEF Init, TypeOK
<1> QED
  BY <1>1 DEF Init, IInv, MutexOwner, ChildOwner, StopCancels, NoOrphan,
              ConfigInSync

(* The type invariant is inductive. *)
LEMMA TypeStep == TypeOK /\ [Next]_vars => TypeOK'
<1> SUFFICES ASSUME TypeOK, [Next]_vars PROVE TypeOK'
  OBVIOUS
<1> USE DEF TypeOK, runVars, pipeVars, chanVars, lifeVars, consVars, bounds
<1>1. CASE RunCheckStopped("check", "spawn")
  BY <1>1 DEF RunCheckStopped
<1>2. CASE SpawnPipes
  <2>1. <<>> \in Seq(ParamValues) /\ <<>> \in Seq(Messages)
    BY EmptySeq
  <2>2. conf' \in Seq(ParamValues) /\ video' \in Seq(Messages)
    BY <1>2, <2>1, Zenon DEF SpawnPipes
  <2> QED
    BY <1>2, <2>2 DEF SpawnPipes
<1>3. CASE SpawnFork
  BY <1>3 DEF SpawnFork
<1>4. CASE SpawnFail
  BY <1>4 DEF SpawnFail
<1>5. CASE SpawnConfig
  <2>a. Append(conf, params) \in Seq(ParamValues)
    BY AppendProperties
  <2>1. conf' \in Seq(ParamValues)
    BY <1>5, <2>a DEF SpawnConfig
  <2>2. backoff' \in 1..MaxBackoff
    BY <1>5, CameraAssumption DEF SpawnConfig
  <2>3. child' \in {"none", "alive", "dead"} /\ open' \in BOOLEAN
    BY <1>5 DEF SpawnConfig, Cleanup
  <2>4. run' \in {"attach", "sleep"} /\ mu' = "free"
    BY <1>5 DEF SpawnConfig
  <2> QED
    BY <1>5, <2>1, <2>2, <2>3, <2>4 DEF SpawnConfig
<1>6. CASE ReadAttach
  BY <1>6 DEF ReadAttach
<1>7. CASE ReadEnter
  BY <1>7 DEF ReadEnter
<1>8. CASE ReadMessage
  <2>1. Head(video) \in Messages /\ video' \in Seq(Messages)
    BY <1>8, HeadTailProperties DEF ReadMessage
  <2>2. inHand' \in Nat
    BY <1>8, <2>1 DEF ReadMessage, Messages, Failure
  <2> QED
    BY <1>8, <2>1, <2>2 DEF ReadMessage
<1>9. CASE ReadEOF
  BY <1>9 DEF ReadEOF
<1>10. CASE SendFrame
  <2>a. Append(frames, inHand) \in Seq(Nat)
    BY AppendProperties
  <2>1. frames' \in Seq(Nat)
    BY <1>10, <2>a DEF SendFrame
  <2> QED
    BY <1>10, <2>1 DEF SendFrame
<1>11. CASE RunCleanup
  BY <1>11 DEF RunCleanup, Cleanup
<1>12. CASE RunCheckStopped("recheck", "sleep")
  BY <1>12 DEF RunCheckStopped
<1>13. CASE SleepCancelled
  BY <1>13 DEF SleepCancelled
<1>14. CASE SleepOver
  BY <1>14, CameraAssumption DEF SleepOver, Lesser
<1>15. CASE Start
  BY <1>15 DEF Start
<1>16. CASE SetParam
  BY <1>16 DEF SetParam
<1>17. CASE SetParamWrite
  <2>a. Append(conf, params) \in Seq(ParamValues)
    BY AppendProperties
  <2>1. conf' \in Seq(ParamValues)
    BY <1>17, <2>a DEF SetParamWrite
  <2> QED
    BY <1>17, <2>1 DEF SetParamWrite
<1>18. CASE StopCall
  BY <1>18 DEF StopCall
<1>19. CASE StopSignal
  BY <1>19 DEF StopSignal
<1>20. CASE StopCleanup
  BY <1>20 DEF StopCleanup, Cleanup
<1>21. CASE StopClose
  BY <1>21 DEF StopClose
<1>22. CASE StopJoin
  BY <1>22 DEF StopJoin
<1>23. CASE StopTimeout
  BY <1>23 DEF StopTimeout
<1>24. CASE ForeignFork
  BY <1>24 DEF ForeignFork
<1>25. CASE ForeignExit
  <2>1. held' \in BOOLEAN
    BY <1>25, Zenon DEF ForeignExit
  <2> QED
    BY <1>25, <2>1 DEF ForeignExit
<1>26. CASE ParentCancel
  BY <1>26 DEF ParentCancel
<1>27. CASE ContextKill
  BY <1>27 DEF ContextKill
<1>28. CASE ChildDies
  BY <1>28 DEF ChildDies
<1>29. CASE ChildReadsConfig
  BY <1>29 DEF ChildReadsConfig
<1>30. CASE ChildWrites
  <2>1. produced' \in Nat
    BY <1>30 DEF ChildWrites
  <2>2. Ready \in Messages /\ Failure \in Messages /\ produced' \in Messages
    BY <2>1 DEF Messages, Ready, Failure
  <2>a. \A m \in Messages : Append(video, m) \in Seq(Messages)
    BY AppendProperties
  <2>3. video' \in Seq(Messages)
    BY <1>30, <2>2, <2>a DEF ChildWrites
  <2> QED
    BY <1>30, <2>1, <2>3 DEF ChildWrites
<1>31. CASE ConsumerAttach
  BY <1>31 DEF ConsumerAttach
<1>32. CASE ConsumerReceives
  <2>1. received' \in Nat /\ frames' \in Seq(Nat)
    BY <1>32, HeadTailProperties DEF ConsumerReceives
  <2> QED
    BY <1>32, <2>1 DEF ConsumerReceives
<1>33. CASE UNCHANGED vars
  BY <1>33 DEF vars
<1> QED
  BY <1>1, <1>2, <1>3, <1>4, <1>5, <1>6, <1>7, <1>8, <1>9, <1>10, <1>11, <1>12, <1>13, <1>14, <1>15, <1>16, <1>17, <1>18, <1>19, <1>20, <1>21, <1>22, <1>23, <1>24, <1>25, <1>26, <1>27, <1>28, <1>29, <1>30, <1>31, <1>32, <1>33 DEF Next, RunStep, StopStep

\* The part of the inductive invariant that speaks of control only.
Control == MutexOwner /\ ChildOwner /\ StopCancels /\ NoOrphan

(* Every step preserves who owns what, and that no subprocess outlives Stop. *)
LEMMA ControlStep == TypeOK /\ Control /\ [Next]_vars => Control'
<1> SUFFICES ASSUME TypeOK, Control, [Next]_vars PROVE Control'
  OBVIOUS
<1> USE DEF Control, MutexOwner, ChildOwner, StopCancels, NoOrphan, TypeOK,
            runVars, pipeVars, chanVars, lifeVars, consVars, bounds
<1>1. CASE RunCheckStopped("check", "spawn")
  BY <1>1 DEF RunCheckStopped
<1>2. CASE SpawnPipes
  BY <1>2 DEF SpawnPipes
<1>3. CASE SpawnFork
  BY <1>3 DEF SpawnFork
<1>4. CASE SpawnFail
  BY <1>4 DEF SpawnFail
<1>5. CASE SpawnConfig
  BY <1>5 DEF SpawnConfig, Cleanup
<1>6. CASE ReadAttach
  BY <1>6 DEF ReadAttach
<1>7. CASE ReadEnter
  BY <1>7 DEF ReadEnter
<1>8. CASE ReadMessage
  BY <1>8 DEF ReadMessage
<1>9. CASE ReadEOF
  BY <1>9 DEF ReadEOF
<1>10. CASE SendFrame
  BY <1>10 DEF SendFrame
<1>11. CASE RunCleanup
  BY <1>11 DEF RunCleanup, Cleanup
<1>12. CASE RunCheckStopped("recheck", "sleep")
  BY <1>12 DEF RunCheckStopped
<1>13. CASE SleepCancelled
  BY <1>13 DEF SleepCancelled
<1>14. CASE SleepOver
  BY <1>14 DEF SleepOver
<1>15. CASE Start
  BY <1>15 DEF Start
<1>16. CASE SetParam
  BY <1>16 DEF SetParam
<1>17. CASE SetParamWrite
  BY <1>17 DEF SetParamWrite
<1>18. CASE StopCall
  BY <1>18 DEF StopCall
<1>19. CASE StopSignal
  BY <1>19 DEF StopSignal
<1>20. CASE StopCleanup
  BY <1>20 DEF StopCleanup, Cleanup
<1>21. CASE StopClose
  BY <1>21 DEF StopClose
<1>22. CASE StopJoin
  BY <1>22 DEF StopJoin
<1>23. CASE StopTimeout
  BY <1>23 DEF StopTimeout
<1>24. CASE ForeignFork
  BY <1>24 DEF ForeignFork
<1>25. CASE ForeignExit
  BY <1>25 DEF ForeignExit
<1>26. CASE ParentCancel
  BY <1>26 DEF ParentCancel
<1>27. CASE ContextKill
  BY <1>27 DEF ContextKill
<1>28. CASE ChildDies
  BY <1>28 DEF ChildDies
<1>29. CASE ChildReadsConfig
  BY <1>29 DEF ChildReadsConfig
<1>30. CASE ChildWrites
  BY <1>30 DEF ChildWrites
<1>31. CASE ConsumerAttach
  BY <1>31 DEF ConsumerAttach
<1>32. CASE ConsumerReceives
  BY <1>32 DEF ConsumerReceives
<1>33. CASE UNCHANGED vars
  BY <1>33 DEF vars
<1> QED
  BY <1>1, <1>2, <1>3, <1>4, <1>5, <1>6, <1>7, <1>8, <1>9, <1>10, <1>11, <1>12, <1>13, <1>14, <1>15, <1>16, <1>17, <1>18, <1>19, <1>20, <1>21, <1>22, <1>23, <1>24, <1>25, <1>26, <1>27, <1>28, <1>29, <1>30, <1>31, <1>32, <1>33
     DEF Next, RunStep, StopStep

(* Every step keeps the subprocess's last config in line with c.params.     *)
LEMMA ConfigStep ==
  TypeOK /\ Control /\ ConfigInSync /\ [Next]_vars => ConfigInSync'
<1> SUFFICES ASSUME TypeOK, Control, ConfigInSync, [Next]_vars
             PROVE  ConfigInSync'
  OBVIOUS
<1> USE DEF Control, ConfigInSync, Latest, TypeOK, runVars, pipeVars,
            chanVars, lifeVars, consVars, bounds
<1>1. CASE RunCheckStopped("check", "spawn")
  BY <1>1 DEF RunCheckStopped
<1>2. CASE SpawnPipes
  BY <1>2 DEF SpawnPipes
<1>3. CASE SpawnFork
  BY <1>3 DEF SpawnFork, MutexOwner
<1>4. CASE SpawnFail
  BY <1>4 DEF SpawnFail, ChildOwner
<1>5. CASE SpawnConfig
  <2>1. CASE ConfReader
    BY <1>5, <2>1, LatestAfterWrite DEF SpawnConfig
  <2>2. CASE ~ConfReader
    BY <1>5, <2>2 DEF SpawnConfig, Cleanup
  <2> QED
    BY <2>1, <2>2
<1>6. CASE ReadAttach
  BY <1>6 DEF ReadAttach
<1>7. CASE ReadEnter
  BY <1>7 DEF ReadEnter
<1>8. CASE ReadMessage
  BY <1>8 DEF ReadMessage
<1>9. CASE ReadEOF
  BY <1>9 DEF ReadEOF
<1>10. CASE SendFrame
  BY <1>10 DEF SendFrame
<1>11. CASE RunCleanup
  BY <1>11 DEF RunCleanup, Cleanup
<1>12. CASE RunCheckStopped("recheck", "sleep")
  BY <1>12 DEF RunCheckStopped
<1>13. CASE SleepCancelled
  BY <1>13 DEF SleepCancelled
<1>14. CASE SleepOver
  BY <1>14 DEF SleepOver
<1>15. CASE Start
  BY <1>15 DEF Start
<1>16. CASE SetParam
  BY <1>16 DEF SetParam
<1>17. CASE SetParamWrite
  <2>1. CASE ConfReader
    BY <1>17, <2>1, LatestAfterWrite DEF SetParamWrite
  <2>2. CASE ~ConfReader
    BY <1>17, <2>2 DEF SetParamWrite, ConfReader
  <2> QED
    BY <2>1, <2>2
<1>18. CASE StopCall
  BY <1>18 DEF StopCall
<1>19. CASE StopSignal
  BY <1>19 DEF StopSignal
<1>20. CASE StopCleanup
  BY <1>20 DEF StopCleanup, Cleanup
<1>21. CASE StopClose
  BY <1>21 DEF StopClose
<1>22. CASE StopJoin
  BY <1>22 DEF StopJoin
<1>23. CASE StopTimeout
  BY <1>23 DEF StopTimeout
<1>24. CASE ForeignFork
  BY <1>24 DEF ForeignFork
<1>25. CASE ForeignExit
  BY <1>25 DEF ForeignExit
<1>26. CASE ParentCancel
  BY <1>26 DEF ParentCancel
<1>27. CASE ContextKill
  BY <1>27 DEF ContextKill
<1>28. CASE ChildDies
  BY <1>28 DEF ChildDies
<1>29. CASE ChildReadsConfig
  <2>1. conf[Len(conf)] = IF conf' = <<>> THEN applied' ELSE conf'[Len(conf')]
    BY <1>29, LatestAfterRead DEF ChildReadsConfig
  <2>2. Latest' = Latest
    BY <1>29, <2>1 DEF ChildReadsConfig
  <2> QED
    BY <1>29, <2>2 DEF ChildReadsConfig
<1>30. CASE ChildWrites
  BY <1>30 DEF ChildWrites
<1>31. CASE ConsumerAttach
  BY <1>31 DEF ConsumerAttach
<1>32. CASE ConsumerReceives
  BY <1>32 DEF ConsumerReceives
<1>33. CASE UNCHANGED vars
  BY <1>33 DEF vars
<1> QED
  BY <1>1, <1>2, <1>3, <1>4, <1>5, <1>6, <1>7, <1>8, <1>9, <1>10, <1>11, <1>12, <1>13, <1>14, <1>15, <1>16, <1>17, <1>18, <1>19, <1>20, <1>21, <1>22, <1>23, <1>24, <1>25, <1>26, <1>27, <1>28, <1>29, <1>30, <1>31, <1>32, <1>33
     DEF Next, RunStep, StopStep

(* The inductive invariant holds in every reachable state: nothing but the *)
(* assumption on the constants is used.                                    *)
THEOREM Invariance == Spec => []IInv
<1>1. IInv /\ [Next]_vars => IInv'
  BY TypeStep, ControlStep, ConfigStep DEF IInv, Control
<1> QED
  BY InitIInv, <1>1, PTL DEF Spec

(* Every variable keeps to its type.                                       *)
THEOREM TypeCorrect == Spec => []TypeOK
  BY Invariance, PTL DEF IInv

(* However Stop interleaves with run(), SetParam, a dying subprocess and   *)
(* the cancellation of the parent context, no subprocess survives it.      *)
THEOREM StopLeavesNoOrphan == Spec => []NoOrphan
  BY Invariance, PTL DEF IInv

(* However updates interleave with restarts, a running subprocess has or   *)
(* is about to have the current parameters, for any size of the pipe.      *)
THEOREM ConfigStaysInSync == Spec => []ConfigInSync
  BY Invariance, PTL DEF IInv

(* A new subprocess never overwrites one that was not reaped, nor pipes    *)
(* that were not closed.                                                   *)
THEOREM RespawnIsClean == Spec => CleanRespawn
<1>1. IInv /\ [Next]_vars =>
        [run' = "config" /\ run # "config" => child = "none" /\ ~open]_vars
  <2> SUFFICES ASSUME IInv, Next, run' = "config", run # "config"
               PROVE  child = "none" /\ ~open
    OBVIOUS
  <2>1. CASE RunStep
    BY <2>1 DEF RunStep, RunCheckStopped, SpawnPipes, SpawnFork, SpawnFail,
         SpawnConfig, ReadAttach, ReadEnter, ReadMessage, ReadEOF, SendFrame,
         RunCleanup, SleepCancelled, SleepOver, IInv, ChildOwner
  <2>2. CASE Start
    BY <2>2 DEF Start
  <2>3. CASE UNCHANGED run
    BY <2>3
  <2>4. Next => RunStep \/ Start \/ UNCHANGED run
    BY DEF Next, SetParam, SetParamWrite, StopStep, StopCall, StopSignal,
         StopCleanup, StopClose, StopJoin, StopTimeout, ForeignFork,
         ForeignExit, ParentCancel, ContextKill, ChildDies, ChildReadsConfig,
         ChildWrites, ConsumerAttach, ConsumerReceives, runVars
  <2> QED
    BY <2>1, <2>2, <2>3, <2>4
<1> QED
  BY Invariance, <1>1, PTL DEF Spec, CleanRespawn

----------------------------------------------------------------------------
(* The frames channel implements LossyChannel: the frames that are still   *)
(* to be sent are newer than the one that was sent last.                   *)
FrameOrder ==
  /\ LastSent <= inHand /\ (run = "send" => LastSent < inHand)
  /\ inHand <= produced
  /\ \A i \in DOMAIN video :
       video[i] > 0 => inHand < video[i] /\ video[i] <= produced
  /\ \A i, j \in DOMAIN video :
       i < j /\ video[i] > 0 /\ video[j] > 0 => video[i] < video[j]

\* Stop closes the channel once.
ClosedByStop == closed => stop \in {"wait", "returned"}

OrderInv == TypeOK /\ FrameOrder /\ ClosedByStop

(* Taking the oldest frame out of the channel leaves the newest where it   *)
(* is, or in the consumer's hand.                                          *)
LEMMA LastSentAfterReceive ==
  ASSUME TypeOK, ConsumerReceives
  PROVE  LastSent' = LastSent
<1>1. CASE frames = <<>>
  BY <1>1, Zenon DEF ConsumerReceives, LastSent
<1>2. CASE frames # <<>>
  <2>1. frames[Len(frames)] = IF Tail(frames) = <<>> THEN Head(frames)
                                ELSE Tail(frames)[Len(Tail(frames))]
    BY <1>2, LatestAfterRead DEF TypeOK
  <2>2. received' = Head(frames) /\ frames' = Tail(frames)
    BY <1>2, Zenon DEF ConsumerReceives
  <2> QED
    BY <1>2, <2>1, <2>2, Zenon DEF LastSent
<1> QED
  BY <1>1, <1>2

(* LastSent is a number.                                                   *)
LEMMA LastSentType == TypeOK => LastSent \in Nat
<1> SUFFICES ASSUME TypeOK PROVE LastSent \in Nat
  OBVIOUS
<1>1. CASE frames = <<>>
  BY <1>1 DEF LastSent, TypeOK
<1>2. CASE frames # <<>>
  <2>1. Len(frames) \in 1..Len(frames)
    BY <1>2, EmptySeq, LenProperties DEF TypeOK
  <2> QED
    BY <1>2, <2>1, ElementOfSeq DEF LastSent, TypeOK
<1> QED
  BY <1>1, <1>2

(* The order of the frames is inductive.                                   *)
LEMMA OrderStep == OrderInv /\ [Next]_vars => OrderInv'
<1> SUFFICES ASSUME OrderInv, [Next]_vars PROVE OrderInv'
  OBVIOUS
<1> USE DEF OrderInv
<1>t. TypeOK'
  BY TypeStep
<1>n. LastSent \in Nat /\ inHand \in Nat /\ produced \in Nat /\ video \in Seq(Messages)
  BY LastSentType DEF TypeOK
<1>c. ClosedByStop'
  BY DEF ClosedByStop, Next, vars, runVars, pipeVars, chanVars, lifeVars,
    consVars, bounds, Start, RunStep, SetParam, SetParamWrite, StopStep,
    StopCall, StopSignal, StopCleanup, StopClose, StopJoin, StopTimeout,
    ForeignFork, ForeignExit, ParentCancel, ContextKill, ChildDies,
    ChildReadsConfig, ChildWrites, ConsumerAttach, ConsumerReceives,
    RunCheckStopped, SpawnPipes, SpawnFork, SpawnFail, SpawnConfig,
    ReadAttach, ReadEnter, ReadMessage, ReadEOF, SendFrame, RunCleanup,
    SleepCancelled, SleepOver
<1>1. CASE SpawnPipes
  <2>1. video' = <<>> /\ UNCHANGED <<frames, received, inHand, produced>>
        /\ run' # "send"
    BY <1>1, Zenon DEF SpawnPipes, chanVars, consVars, bounds
  <2>2. DOMAIN video' = {}
    BY <2>1
  <2>3. LastSent' = LastSent
    BY <2>1 DEF LastSent
  <2>4. FrameOrder'
    BY <2>1, <2>2, <2>3 DEF FrameOrder
  <2> QED
    BY <1>t, <1>c, <2>4
<1>2. CASE ReadMessage
  <2>1. /\ video # <<>> /\ video' = Tail(video)
        /\ UNCHANGED <<frames, received, produced>>
    BY <1>2, Zenon DEF ReadMessage, chanVars, consVars, bounds
  <2>2. LastSent' = LastSent
    BY <2>1 DEF LastSent
  <2>3. Len(video) \in Nat /\ Len(video) > 0 /\ DOMAIN video = 1..Len(video)
    BY <1>n, <2>1, EmptySeq, LenProperties
  <2>4. /\ DOMAIN video' = 1..(Len(video) - 1) /\ Head(video) = video[1]
        /\ \A i \in 1..(Len(video) - 1) : video'[i] = video[i + 1]
    BY <1>n, <2>1, HeadTailProperties, LenProperties
  <2>5. \A i \in DOMAIN video : video[i] \in Int
    BY <1>n, ElementOfSeq, <2>3 DEF Messages, Failure
  <2>6. \A i, j \in DOMAIN video' :
          i < j /\ video'[i] > 0 /\ video'[j] > 0 => video'[i] < video'[j]
    BY <2>3, <2>4 DEF FrameOrder
  <2>7. CASE inHand' = inHand /\ run' # "send"
    <3>1. \A i \in DOMAIN video' :
            video'[i] > 0 => inHand' < video'[i] /\ video'[i] <= produced'
      BY <2>1, <2>3, <2>4, <2>7 DEF FrameOrder
    <3> QED
      BY <1>t, <1>c, <2>1, <2>2, <2>6, <2>7, <3>1 DEF FrameOrder
  <2>8. CASE inHand' = Head(video) /\ Head(video) > 0
    <3>1. inHand' = video[1] /\ video[1] > 0 /\ 1 \in DOMAIN video
      BY <2>3, <2>4, <2>8
    <3>2. inHand < inHand' /\ inHand' <= produced
      BY <3>1 DEF FrameOrder
    <3>3. \A i \in DOMAIN video' :
            video'[i] > 0 => inHand' < video'[i] /\ video'[i] <= produced'
      BY <2>1, <2>3, <2>4, <3>1 DEF FrameOrder
    <3>4. LastSent' < inHand' /\ inHand' <= produced'
      BY <1>n, <1>t, <2>1, <2>2, <3>2 DEF FrameOrder, TypeOK
    <3>5. LastSent' <= inHand'
      BY <1>n, <1>t, <2>2, <3>4 DEF TypeOK
    <3> QED
      BY <1>t, <1>c, <2>6, <3>3, <3>4, <3>5 DEF FrameOrder
  <2>9. Head(video) \in Messages
    BY <1>n, <2>1, HeadTailProperties
  <2>10. \/ inHand' = inHand /\ run' # "send"
         \/ inHand' = Head(video) /\ Head(video) > 0
    BY <1>2, <2>9 DEF ReadMessage, Messages, Ready, Failure
  <2> QED
    BY <2>7, <2>8, <2>10
<1>3. CASE SendFrame
  <2>1. UNCHANGED <<video, inHand, produced, received>> /\ run = "send" /\ run' # "send"
    BY <1>3, Zenon DEF SendFrame, pipeVars, consVars, bounds
  <2>2. frames' = frames \/ frames' = Append(frames, inHand)
    BY <1>3, Zenon DEF SendFrame
  <2>3. frames' = frames => LastSent' = LastSent
    BY <2>1 DEF LastSent
  <2>4. frames' = Append(frames, inHand) => LastSent' = inHand
    BY LatestAfterWrite, <1>n DEF LastSent, TypeOK
  <2>5. LastSent' <= inHand'
    BY <1>n, <2>1, <2>2, <2>3, <2>4 DEF FrameOrder
  <2> QED
    BY <1>t, <1>c, <2>1, <2>5 DEF FrameOrder
<1>4. CASE ChildWrites
  <2>1. UNCHANGED <<frames, received, inHand, run>>
    BY <1>4, Zenon DEF ChildWrites, runVars, chanVars, consVars
  <2>2. LastSent' = LastSent
    BY <2>1 DEF LastSent
  <2>3. PICK m \in Messages :
          /\ video' = Append(video, m)
          /\ \/ m \in {Ready, Failure} /\ produced' = produced
             \/ produced' = produced + 1 /\ m = produced'
    BY <1>4, <1>n DEF ChildWrites, Messages, Ready, Failure
  <2>4. /\ Len(video) \in Nat /\ DOMAIN video = 1..Len(video)
        /\ DOMAIN video' = 1..(Len(video) + 1)
        /\ video'[Len(video) + 1] = m
        /\ \A i \in 1..Len(video) : video'[i] = video[i]
    BY <1>n, <2>3, AppendProperties, LenProperties
  <2>5. \A i \in DOMAIN video : video[i] \in Int
    BY <1>n, ElementOfSeq, <2>4 DEF Messages, Failure
  <2>6. m > 0 => m = produced + 1 /\ produced' = produced + 1
    BY <2>3 DEF Ready, Failure
  <2>7. produced <= produced' /\ produced' \in Nat /\ m \in Int
    BY <1>n, <2>3 DEF Messages, Failure
  <2>8. \A i \in DOMAIN video' :
          video'[i] > 0 => inHand' < video'[i] /\ video'[i] <= produced'
    <3> SUFFICES ASSUME NEW i \in DOMAIN video', video'[i] > 0
                 PROVE  inHand' < video'[i] /\ video'[i] <= produced'
      OBVIOUS
    <3>1. CASE i \in DOMAIN video
      BY <1>n, <2>1, <2>4, <2>5, <2>7, <3>1 DEF FrameOrder
    <3>2. CASE i = Len(video) + 1
      BY <1>n, <2>1, <2>4, <2>6, <3>2 DEF FrameOrder
    <3> QED
      BY <2>4, <3>1, <3>2
  <2>9. \A i, j \in DOMAIN video' :
          i < j /\ video'[i] > 0 /\ video'[j] > 0 => video'[i] < video'[j]
    <3> SUFFICES ASSUME NEW i \in DOMAIN video', NEW j \in DOMAIN video',
                        i < j, video'[i] > 0, video'[j] > 0
                 PROVE  video'[i] < video'[j]
      OBVIOUS
    <3>1. CASE j \in DOMAIN video
      BY <2>4, <3>1 DEF FrameOrder
    <3>2. CASE j = Len(video) + 1
      BY <1>n, <2>4, <2>5, <2>6, <3>2 DEF FrameOrder
    <3> QED
      BY <2>4, <3>1, <3>2
  <2> QED
    BY <1>n, <1>t, <1>c, <2>1, <2>2, <2>7, <2>8, <2>9 DEF FrameOrder
<1>5. CASE ConsumerReceives
  <2>1. LastSent' = LastSent
    BY <1>5, LastSentAfterReceive
  <2>2. UNCHANGED <<video, inHand, produced, run>>
    BY <1>5, Zenon DEF ConsumerReceives, runVars, pipeVars, bounds
  <2> QED
    BY <1>t, <1>c, <2>1, <2>2 DEF FrameOrder
<1>6. CASE /\ UNCHANGED <<video, inHand, produced, frames, received>>
           /\ run' = "send" => run = "send"
  <2>1. LastSent' = LastSent
    BY <1>6 DEF LastSent
  <2> QED
    BY <1>t, <1>c, <1>6, <2>1 DEF FrameOrder
<1>7. \/ SpawnPipes \/ ReadMessage \/ SendFrame \/ ChildWrites
      \/ ConsumerReceives
      \/ /\ UNCHANGED <<video, inHand, produced, frames, received>>
         /\ run' = "send" => run = "send"
  BY DEF Next, vars, runVars, pipeVars, chanVars, lifeVars,
    consVars, bounds, Start, RunStep, SetParam, SetParamWrite, StopStep,
    StopCall, StopSignal, StopCleanup, StopClose, StopJoin, StopTimeout,
    ForeignFork, ForeignExit, ParentCancel, ContextKill, ChildDies,
    ChildReadsConfig, ConsumerAttach, RunCheckStopped, SpawnFork, SpawnFail,
    SpawnConfig, ReadAttach, ReadEnter, ReadEOF, RunCleanup, SleepCancelled,
    SleepOver
<1> QED
  BY <1>1, <1>2, <1>3, <1>4, <1>5, <1>6, <1>7

(* The channel between camera and consumer implements the abstract one.    *)
THEOREM ImplementsLossyChannel == Spec => FramesAreLossyChannel
<1>1. Init => OrderInv /\ Promise!Init
  <2> SUFFICES ASSUME Init PROVE OrderInv /\ Promise!Init
    OBVIOUS
  <2>1. TypeOK
    BY InitIInv DEF IInv
  <2>2. LastSent = 0 /\ frames = <<>> /\ closed = FALSE
    BY Zenon DEF Init, LastSent
  <2>3. video = <<>> /\ inHand = 0 /\ produced = 0 /\ run = "none"
    BY Zenon DEF Init
  <2> QED
    BY <2>1, <2>2, <2>3 DEF OrderInv, FrameOrder, ClosedByStop, Promise!Init
<1>2. OrderInv /\ [Next]_vars => [Promise!Next]_(Promise!channel)
  <2> SUFFICES ASSUME OrderInv, [Next]_vars
               PROVE  Promise!Next \/ UNCHANGED <<frames, LastSent, closed>>
    BY DEF Promise!channel
  <2> USE DEF OrderInv
  <2>1. CASE SendFrame
    <3>1. frames' = frames => UNCHANGED <<frames, LastSent, closed>>
      BY <2>1 DEF SendFrame, LastSent, consVars
    <3>2. CASE frames' # frames
      <4>1. /\ ~closed /\ Len(frames) < FrameCap
            /\ frames' = Append(frames, inHand) /\ closed' = closed
        BY <2>1, <3>2, Zenon DEF SendFrame
      <4>2. LastSent' = inHand
        BY <4>1, LatestAfterWrite DEF LastSent, TypeOK
      <4>3. LastSent' > LastSent
        BY <2>1, <4>2, LastSentType DEF SendFrame, FrameOrder, TypeOK
      <4> QED
        BY <4>1, <4>2, <4>3 DEF Promise!Next, Promise!Send
    <3> QED
      BY <3>1, <3>2
  <2>2. CASE ConsumerReceives
    <3>1. LastSent' = LastSent /\ closed' = closed
      BY <2>2, LastSentAfterReceive DEF ConsumerReceives
    <3>2. frames' = frames \/ (frames # <<>> /\ frames' = Tail(frames))
      BY <2>2, Zenon DEF ConsumerReceives
    <3> QED
      BY <3>1, <3>2 DEF Promise!Next, Promise!Receive
  <2>3. CASE StopClose
    <3>1. UNCHANGED <<frames, received>> /\ ~closed /\ closed' \in {TRUE, FALSE}
      BY <2>3 DEF StopClose, ClosedByStop, TypeOK, consVars
    <3>2. LastSent' = LastSent
      BY <3>1 DEF LastSent
    <3> QED
      BY <3>1, <3>2 DEF TypeOK, Promise!Next, Promise!Close
  <2>4. CASE UNCHANGED <<frames, received, closed>>
    BY <2>4 DEF LastSent
  <2>5. \/ SendFrame \/ ConsumerReceives \/ StopClose
        \/ UNCHANGED <<frames, received, closed>>
    BY DEF Next, vars, runVars, pipeVars, chanVars, lifeVars,
      consVars, bounds, Start, RunStep, SetParam, SetParamWrite, StopStep,
      StopCall, StopSignal, StopCleanup, StopJoin, StopTimeout,
      ForeignFork, ForeignExit, ParentCancel, ContextKill, ChildDies,
      ChildReadsConfig, ChildWrites, ConsumerAttach, RunCheckStopped,
      SpawnPipes, SpawnFork, SpawnFail, SpawnConfig, ReadAttach, ReadEnter,
      ReadMessage, ReadEOF, RunCleanup, SleepCancelled, SleepOver
  <2> QED
    BY <2>1, <2>2, <2>3, <2>4, <2>5
<1> QED
  BY <1>1, <1>2, OrderStep, PTL DEF Spec, FramesAreLossyChannel, Promise!Spec
=============================================================================
