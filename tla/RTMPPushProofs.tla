--------------------------- MODULE RTMPPushProofs ---------------------------
(***************************************************************************)
(* RTMPPush, for every number of attempts a window admits, every length of *)
(* window and cool-down and any number of Starts.  Counted are attempts    *)
(* since the last Start or Stop, which reset the counters.  An attempt     *)
(* counts for the window it was made in, or for a window that is over but  *)
(* for its first attempt; a run that an earlier Start left behind adds at  *)
(* most one more window, because a cancelled run resets the counters once. *)
(***************************************************************************)
EXTENDS RTMPPush, FiniteSetTheorems, SequenceTheorems, TLAPS

Places == {"none", "top", "enter", "cooling", "cooled", "tooMany",
  "cooldown", "connecting", "build", "start", "connected", "wait",
  "exited", "check", "failed", "ended", "delay", "done"}

\* Where a run may still reset the counters without passing the check of its
\* context, and the runs left behind that no longer are there.
Resetting == {"enter", "cooling", "cooled", "tooMany", "cooldown"}
Waiting   == Resetting \ {"enter"}
Spent     == {r \in left : pc[r] \notin Resetting}
Extra     == MaxRestarts * Cardinality(Spent)

\* A run is cancelled before the next is started.
Begun ==
  /\ \A r \in Runs : /\ pc[r] # "none" <=> r <= starts
                     /\ r < starts => r \in cancelled
                     /\ caller \notin {"started", "cancel"} /\ r <= starts
                          => r \in cancelled
  /\ caller = "starting" => starts < MaxStarts
  /\ caller = "started" => cancel = starts
  /\ caller = "cancel" => heldCancel = starts

\* Besides those left behind at most the last run is alive.
LeftBehind ==
  /\ left \subseteq cancelled
  /\ \A r \in Runs : /\ r \in left => pc[r] # "none"
                     /\ r \notin left /\ Active(r)
                          => r = starts /\ caller # "starting"

OldestFirst ==
  \A i, j \in 1..Len(recent) : i <= j => recent[i] >= recent[j]

\* The attempts that count are the last ones, the first of them as old as the
\* window; those before are too many for one window only by Extra.
WindowOK ==
  IF window = None
    THEN restartCount = 0 /\ Len(recent) <= MaxRestarts - 1 + Extra
    ELSE /\ restartCount > 0
         /\ Len(recent) <= MaxRestarts - 1 + Extra + restartCount
         /\ \A i \in 1..Len(recent) :
              i <= Len(recent) - restartCount + 1 => recent[i] >= window

\* Nothing is attempted during a cool-down,
CooldownOK ==
  cooldown # None =>
    \A i \in 1..Len(recent) : recent[i] >= Cooldown - cooldown

\* and by the time a run has waited for its end only by those left behind.
WaitOK ==
  \A r \in Runs \ left : pc[r] \in Waiting =>
    /\ wait[r] <= Cooldown
    /\ \A i \in 1..Len(recent) :
         i <= Len(recent) - Cardinality(Spent) =>
           recent[i] >= Cooldown - wait[r]

Counted == OldestFirst /\ WindowOK /\ CooldownOK /\ WaitOK
IInv    == TypeOK /\ Begun /\ LeftBehind /\ Counted

(* The runs of a bounded number of Starts are finitely many.               *)
LEMMA FiniteRuns == MaxStarts \in Nat /\ IsFiniteSet(Runs) /\ Runs \subseteq Nat
<1>1. MaxStarts \in Nat
  BY PushAssumption
<1> QED
  BY <1>1, FS_Interval DEF Runs

(* Who is spent stays so, and one more pays for one more window.           *)
LEMMA SpentGrows ==
  ASSUME TypeOK, TypeOK', Spent \subseteq Spent'
  PROVE  /\ Cardinality(Spent) \in Nat /\ Cardinality(Spent)' \in Nat
         /\ Extra \in Nat /\ Extra' \in Nat
         /\ Cardinality(Spent) <= Extra /\ Cardinality(Spent)' <= Extra'
         /\ Cardinality(Spent) <= Cardinality(Spent)' /\ Extra <= Extra'
         /\ Spent # Spent' => /\ Cardinality(Spent) + 1 <= Cardinality(Spent)'
                              /\ Extra + MaxRestarts <= Extra'
<1>1. IsFiniteSet(Spent) /\ IsFiniteSet(Spent')
  <2>1. Spent \subseteq Runs /\ Spent' \subseteq Runs
    BY DEF Spent, TypeOK
  <2> QED
    BY <2>1, FiniteRuns, FS_Subset
<1>2. /\ Cardinality(Spent) \in Nat /\ Cardinality(Spent') \in Nat
      /\ Cardinality(Spent) <= Cardinality(Spent')
  BY <1>1, FS_CardinalityType, FS_Subset
<1>3. Spent # Spent' => Cardinality(Spent) + 1 <= Cardinality(Spent')
  <2>1. Spent # Spent' => Cardinality(Spent) # Cardinality(Spent')
    BY <1>1, FS_Subset
  <2> QED
    BY <1>2, <2>1
<1>4. MaxRestarts \in Nat /\ MaxRestarts >= 1
  BY PushAssumption
<1>5. \A c \in Nat : MaxRestarts * c \in Nat /\ c <= MaxRestarts * c
  BY <1>4
<1>6. \A c, d \in Nat : c <= d => MaxRestarts * c <= MaxRestarts * d
  BY <1>4
<1>7. \A c \in Nat : MaxRestarts * (c + 1) = MaxRestarts * c + MaxRestarts
  BY <1>4
<1>8. Cardinality(Spent)' = Cardinality(Spent')
      /\ Extra' = MaxRestarts * Cardinality(Spent')
  BY DEF Extra
<1>9. Extra \in Nat /\ Extra' \in Nat /\ Extra <= Extra'
  BY <1>2, <1>5, <1>6, <1>8 DEF Extra
<1>10. Cardinality(Spent) <= Extra /\ Cardinality(Spent') <= Extra'
  BY <1>2, <1>5, <1>8 DEF Extra
<1>11. Spent # Spent' => Extra + MaxRestarts <= Extra'
  <2>1. Cardinality(Spent) + 1 \in Nat
    BY <1>2
  <2>2. Spent # Spent' => MaxRestarts * (Cardinality(Spent) + 1) <= Extra'
    BY <1>2, <1>3, <1>6, <1>8, <2>1
  <2> QED
    BY <1>2, <1>7, <2>2 DEF Extra
<1> QED
  BY <1>2, <1>3, <1>8, <1>9, <1>10, <1>11

(* With the oldest first, those that leave the window are the first.       *)
LEMMA Ageing ==
  ASSUME TypeOK, OldestFirst, Tick
  PROVE  /\ recent' \in Seq(0..RestartWindow)
         /\ \E n \in 0..Len(recent) :
              /\ Len(recent') = Len(recent) - n
              /\ \A i \in 1..Len(recent') : /\ i + n \in 1..Len(recent)
                                            /\ recent'[i] = recent[i + n] + 1
<1> DEFINE n == Cardinality(Oldest)
           L == Len(recent)
<1>1. /\ recent \in Seq(0..RestartWindow) /\ L \in Nat
      /\ RestartWindow \in Nat
      /\ \A i \in 1..L : recent[i] \in 0..RestartWindow
  BY PushAssumption, ElementOfSeq, LenProperties DEF TypeOK
<1>2. Oldest = {i \in 1..L : recent[i] = RestartWindow}
  BY <1>1, LenProperties DEF Oldest
<1>3. /\ IsFiniteSet(Oldest) /\ n \in Nat /\ n <= L
  <2>1. 1 \in Int /\ L \in Int
    BY <1>1
  <2>2. Cardinality(1..L) = IF 1 > L THEN 0 ELSE L - 1 + 1
    BY <2>1, FS_Interval
  <2>3. IsFiniteSet(1..L) /\ Oldest \subseteq 1..L
    BY <1>2, <2>1, FS_Interval
  <2>4. IsFiniteSet(Oldest) /\ n <= Cardinality(1..L)
    BY <2>3, FS_Subset
  <2> QED
    BY <1>1, <2>2, <2>4, FS_CardinalityType
<1>4. ASSUME NEW j \in Oldest PROVE 1..j \subseteq Oldest
  BY <1>1, <1>2 DEF OldestFirst
<1>5. ASSUME NEW j \in Oldest PROVE j <= n
  <2>1. 1 \in Int /\ j \in Int /\ j \in Nat /\ j >= 1
    BY <1>1, <1>2
  <2>2. Cardinality(1..j) = IF 1 > j THEN 0 ELSE j - 1 + 1
    BY <2>1, FS_Interval
  <2>3. Cardinality(1..j) <= n
    BY <1>3, <1>4, FS_Subset
  <2> QED
    BY <2>1, <2>2, <2>3
<1>6. Oldest = 1..n
  <2>1. Oldest \subseteq 1..n
    BY <1>1, <1>2, <1>3, <1>5
  <2>2. 1 \in Int /\ n \in Int
    BY <1>3
  <2>3. Cardinality(1..n) = IF 1 > n THEN 0 ELSE n - 1 + 1
    BY <2>2, FS_Interval
  <2>4. IsFiniteSet(1..n) /\ Cardinality(1..n) = n
    BY <1>3, <2>2, <2>3, FS_Interval
  <2> QED
    BY <2>1, <2>4, FS_Subset
<1> HIDE DEF n
<1>7. \A i \in 1..(L - n) :
        i + n \in 1..L /\ recent[i + n] + 1 \in 0..RestartWindow
  <2> SUFFICES ASSUME NEW i \in 1..(L - n)
               PROVE  i + n \in 1..L /\ recent[i + n] + 1 \in 0..RestartWindow
    OBVIOUS
  <2>1. i + n \in 1..L /\ i + n \notin 1..n
    BY <1>1, <1>3
  <2>2. recent[i + n] # RestartWindow
    BY <1>2, <1>6, <2>1
  <2> QED
    BY <1>1, <2>1, <2>2
<1>8. recent' = [i \in 1..(L - n) |-> recent[i + n] + 1]
  BY DEF Tick, n
<1>9. L - n \in Nat
  BY <1>1, <1>3
<1>10. recent' \in Seq(0..RestartWindow) /\ Len(recent') = L - n
  <2> DEFINE k == L - n
  <2>1. recent' \in [1..k -> 0..RestartWindow]
    BY <1>7, <1>8
  <2>2. k \in Nat
    BY <1>9
  <2> HIDE DEF k
  <2>3. recent' \in Seq(0..RestartWindow)
    BY <2>1, <2>2, SeqDef
  <2>4. Len(recent') \in Nat /\ 1..Len(recent') = 1..k
    BY <2>1, <2>3, LenProperties
  <2>5. Len(recent') = k
    BY <2>2, <2>4
  <2> QED
    BY <2>3, <2>5 DEF k
<1>11. n \in 0..L
  BY <1>1, <1>3
<1>12. \A i \in 1..Len(recent') : /\ i + n \in 1..L
                                 /\ recent'[i] = recent[i + n] + 1
  BY <1>7, <1>8, <1>10
<1> QED
  BY <1>10, <1>11, <1>12, Zenon

(* Every action keeps the types, Tick with the help of the order.          *)
LEMMA Typed == ASSUME TypeOK, Begun, OldestFirst, Next PROVE TypeOK'
<1>1. /\ MaxRestarts \in Nat /\ MaxRestarts > 0 /\ RestartWindow \in Nat
      /\ Cooldown \in Nat /\ RestartDelay \in Nat /\ MaxStarts \in Nat
  BY PushAssumption
<1>2. \A r \in Runs, to \in Places : [pc EXCEPT ![r] = to] \in [Runs -> Places]
  BY DEF TypeOK, Places
<1> USE DEF TypeOK, timeVars, runVars, callerVars, history, None, Places
<1>3. CASE StartReset
  <2>1. recent' \in Seq(0..RestartWindow) /\ left' \subseteq Runs
    BY <1>3, EmptySeq DEF StartReset
  <2> QED
    BY <1>1, <1>3, <2>1 DEF StartReset, Forget
<1>4. CASE StartRun
  <2>1. starts' \in Runs /\ starts' \in 0..MaxStarts
    BY <1>1, <1>4 DEF StartRun, Runs, Begun
  <2> QED
    BY <1>2, <1>4, <2>1 DEF StartRun, Go
<1>5. CASE StopRead \/ StopCancel \/ ParentCancel
  <2>1. CASE StopRead
    BY <1>1, <2>1 DEF StopRead
  <2>2. CASE StopCancel
    <3>1. cancelled' \subseteq Runs /\ 0 \in 0..MaxStarts
      BY <1>1, <2>2 DEF StopCancel, Runs
    <3> QED
      BY <2>2, <3>1 DEF StopCancel
  <2>3. CASE ParentCancel
    <3>1. cancelled' \subseteq Runs
      BY <2>3 DEF ParentCancel
    <3> QED
      BY <2>3, <3>1 DEF ParentCancel
  <2> QED
    BY <1>5, <2>1, <2>2, <2>3
<1>6. CASE StopKill
  BY <1>6 DEF StopKill
<1>7. CASE StopClear
  <2>1. recent' \in Seq(0..RestartWindow)
    BY <1>7, EmptySeq DEF StopClear
  <2> QED
    BY <1>1, <1>7, <2>1 DEF StopClear, Forget, setStatus
<1>8. CASE Tick
  <2>1. recent' \in Seq(0..RestartWindow)
    BY <1>8, Ageing
  <2>2. window' \in None..(RestartWindow + 1)
    BY <1>1, <1>8 DEF Tick
  <2>3. cooldown' \in None..Cooldown /\ wait' \in [Runs -> Nat]
    BY <1>1, <1>8 DEF Tick, Less
  <2> QED
    BY <1>8, <2>1, <2>2, <2>3 DEF Tick
<1>9. ASSUME NEW r \in Runs, FfmpegExits(r) PROVE TypeOK'
  BY <1>9 DEF FfmpegExits
<1>10. ASSUME NEW r \in Runs, NEW count \in {0, restartCount},
              NEW age \in {None, window}, Admit(r, count, age)
       PROVE  /\ recent' \in Seq(0..RestartWindow)
              /\ restartCount' \in 0..MaxRestarts
              /\ window' \in None..(RestartWindow + 1)
              /\ cooldown' \in None..Cooldown
              /\ wait' \in [Runs -> Nat] /\ pc' \in [Runs -> Places]
  <2>1. Append(recent, 0) \in Seq(0..RestartWindow)
    BY <1>1, AppendProperties
  <2>2. recent' \in Seq(0..RestartWindow)
    BY <1>10, <2>1 DEF Admit
  <2>3. restartCount' \in 0..MaxRestarts
    BY <1>1, <1>10 DEF Admit
  <2>4. window' \in None..(RestartWindow + 1) /\ cooldown' \in None..Cooldown
    BY <1>1, <1>10 DEF Admit
  <2>5. wait' \in [Runs -> Nat] /\ pc' \in [Runs -> Places]
    <3>1. wait' = wait \/ wait' = [wait EXCEPT ![r] = Cooldown]
      BY <1>10 DEF Admit
    <3>2. \E to \in {"tooMany", "connecting"} : pc' = [pc EXCEPT ![r] = to]
      BY <1>10 DEF Admit, Go
    <3> QED
      BY <1>1, <1>2, <3>1, <3>2
  <2> QED
    BY <2>2, <2>3, <2>4, <2>5
<1>11. ASSUME NEW r \in Runs, RunEnter(r) PROVE TypeOK'
  <2>1. CASE cooldown > 0
    <3>1. wait' \in [Runs -> Nat] /\ UNCHANGED <<timeVars, recent>>
      BY <1>1, <1>11, <2>1 DEF RunEnter
    <3>2. pc' \in [Runs -> Places]
      BY <1>2, <1>11, <2>1 DEF RunEnter, Go
    <3> QED
      BY <1>11, <3>1, <3>2 DEF RunEnter
  <2>2. CASE ~(cooldown > 0)
    <3>1. Admit(r, restartCount, window) \/ Admit(r, 0, None)
      BY <1>11, <2>2 DEF RunEnter
    <3> QED
      BY <1>10, <1>11, <3>1 DEF RunEnter
  <2> QED
    BY <2>1, <2>2
<1>12. ASSUME NEW r \in Runs, RunCooled(r) PROVE TypeOK'
  <2>1. CASE Admit(r, 0, None)
    BY <1>10, <1>12, <2>1 DEF RunCooled
  <2>2. CASE Go(r, "done") /\ UNCHANGED <<wait, timeVars, recent>>
    BY <1>2, <1>12, <2>2 DEF RunCooled, Go
  <2> QED
    BY <1>12, <2>1, <2>2 DEF RunCooled
<1>13. ASSUME NEW r \in Runs, RunTop(r) PROVE TypeOK'
  BY <1>1, <1>2, <1>13 DEF RunTop, Go
<1>14. ASSUME NEW r \in Runs, RunCooling(r) PROVE TypeOK'
  BY <1>1, <1>2, <1>14 DEF RunCooling, Go, setStatus
<1>15. ASSUME NEW r \in Runs, RunTooMany(r) PROVE TypeOK'
  BY <1>1, <1>2, <1>15 DEF RunTooMany, Go, setStatus
<1>16. ASSUME NEW r \in Runs, RunCooldown(r) PROVE TypeOK'
  <2>1. \E to \in {"done", "top"} : pc' = [pc EXCEPT ![r] = to]
    BY <1>16 DEF RunCooldown, Go
  <2>2. /\ restartCount' \in 0..MaxRestarts /\ cooldown' \in None..Cooldown
        /\ window' \in None..(RestartWindow + 1)
    BY <1>1, <1>16 DEF RunCooldown, Forget
  <2> QED
    BY <1>2, <1>16, <2>1, <2>2 DEF RunCooldown
<1>17. ASSUME NEW r \in Runs, RunConnecting(r) PROVE TypeOK'
  BY <1>1, <1>2, <1>17 DEF RunConnecting, Go, setStatus
<1>18. ASSUME NEW r \in Runs, RunBuild(r) PROVE TypeOK'
  <2>1. cmd' \in 0..MaxStarts
    BY <1>1, <1>18 DEF RunBuild, Runs
  <2> QED
    BY <1>2, <1>18, <2>1 DEF RunBuild, Go
<1>19. ASSUME NEW r \in Runs, RunStart(r) PROVE TypeOK'
  BY <1>1, <1>2, <1>19 DEF RunStart, Go
<1>20. ASSUME NEW r \in Runs, RunConnected(r) PROVE TypeOK'
  BY <1>1, <1>2, <1>20 DEF RunConnected, Go, setStatus
<1>21. ASSUME NEW r \in Runs, RunWait(r) PROVE TypeOK'
  BY <1>1, <1>2, <1>21 DEF RunWait, Go
<1>22. ASSUME NEW r \in Runs, RunExited(r) PROVE TypeOK'
  BY <1>1, <1>2, <1>22 DEF RunExited, Go
<1>23. ASSUME NEW r \in Runs, RunCheck(r) PROVE TypeOK'
  BY <1>1, <1>2, <1>23 DEF RunCheck, Go
<1>24. ASSUME NEW r \in Runs, RunReport(r) PROVE TypeOK'
  BY <1>1, <1>2, <1>24 DEF RunReport, Go, setStatus
<1>25. ASSUME NEW r \in Runs, RunDelay(r) PROVE TypeOK'
  BY <1>1, <1>2, <1>25 DEF RunDelay, Go
<1> QED
  BY <1>3, <1>4, <1>5, <1>6, <1>7, <1>8, <1>9, <1>11, <1>12,
     <1>13, <1>14, <1>15, <1>16, <1>17, <1>18, <1>19, <1>20, <1>21, <1>22,
     <1>23, <1>24, <1>25
     DEF Next, CallerStep, RunStep

(* Whatever a run does moves it, and it alone; once cancelled and past the *)
(* counters it never comes back to them.                                   *)
LEMMA RunMoves ==
  ASSUME TypeOK, NEW r \in Runs, RunStep(r)
  PROVE  /\ pc[r] \notin {"none", "done"} /\ pc'[r] # "none"
         /\ \A q \in Runs : q # r => pc'[q] = pc[q]
         /\ r \in cancelled /\ pc[r] \notin Resetting => pc'[r] \notin Resetting
         /\ UNCHANGED <<cancel, cancelled, parentDone, caller, starts,
                        heldCancel, left>>
<1> USE DEF TypeOK, timeVars, runVars, callerVars, history, At, Go, Resetting
<1>1. CASE RunEnter(r) \/ RunCooled(r)
  BY <1>1 DEF RunEnter, RunCooled, Admit
<1>2. CASE RunTop(r) \/ RunCooling(r) \/ RunTooMany(r) \/ RunCooldown(r)
           \/ RunConnecting(r)
  BY <1>2 DEF RunTop, RunCooling, RunTooMany, RunCooldown, RunConnecting
<1>3. CASE RunBuild(r) \/ RunStart(r) \/ RunConnected(r) \/ RunWait(r)
           \/ RunExited(r)
  BY <1>3 DEF RunBuild, RunStart, RunConnected, RunWait, RunExited
<1>4. CASE RunCheck(r) \/ RunReport(r) \/ RunDelay(r)
  BY <1>4 DEF RunCheck, RunReport, RunDelay
<1> QED
  BY <1>1, <1>2, <1>3, <1>4 DEF RunStep

(* What no step of a run or of ffmpeg changes.                             *)
LEMMA CallersOnly ==
  ASSUME TypeOK, NEW r \in Runs, RunStep(r) \/ FfmpegExits(r)
  PROVE  /\ UNCHANGED <<cancel, cancelled, caller, starts, heldCancel, left>>
         /\ \A q \in Runs : /\ pc'[q] = "none" <=> pc[q] = "none"
                            /\ pc[q] = "done" => pc'[q] = "done"
<1>1. CASE RunStep(r)
  BY <1>1, RunMoves
<1>2. CASE FfmpegExits(r)
  BY <1>2 DEF FfmpegExits, callerVars, history
<1> QED
  BY <1>1, <1>2

(* A run is cancelled before the next one is started, which leaves behind  *)
(* those alive.                                                            *)
LEMMA BegunStep ==
  ASSUME TypeOK, Begun, LeftBehind, Next
  PROVE  Begun' /\ LeftBehind'
<1>1. /\ MaxStarts \in Nat /\ starts \in 0..MaxStarts /\ Runs = 1..MaxStarts
      /\ pc \in [Runs -> Places] /\ cancelled \subseteq Runs
      /\ left \subseteq Runs
  BY PushAssumption DEF TypeOK, Runs, Places
<1> USE DEF timeVars, runVars, callerVars, history
<1>2. CASE StartReset
  <2>1. \A r \in Runs : r <= starts => r \in cancelled
    BY <1>2 DEF StartReset, Begun
  <2>2. Begun'
    BY <1>2, <2>1 DEF StartReset, Begun
  <2>3. LeftBehind'
    BY <1>1, <1>2, <2>1 DEF StartReset, Begun, LeftBehind, Active
  <2> QED
    BY <2>2, <2>3
<1>3. CASE StartRun
  <2>1. /\ starts' = starts + 1 /\ starts' \in Runs /\ caller' = "started"
        /\ pc' = [pc EXCEPT ![starts'] = "top"] /\ cancel' = starts'
        /\ caller = "starting" /\ left' = left /\ cancelled \subseteq cancelled'
    BY <1>1, <1>3 DEF StartRun, Begun, Go
  <2>2. \A r \in Runs : r <= starts => r \in cancelled
    BY <2>1 DEF Begun
  <2>3. Begun'
    BY <1>1, <2>1, <2>2 DEF Begun
  <2>4. pc'[starts'] = "top" /\ \A r \in Runs \ {starts'} : pc'[r] = pc[r]
    BY <1>1, <2>1
  <2>5. LeftBehind'
    BY <1>1, <2>1, <2>4 DEF LeftBehind, Active
  <2> QED
    BY <2>3, <2>5
<1>4. CASE StopRead
  <2>1. UNCHANGED <<pc, starts, cancelled, left>> /\ caller = "started"
        /\ caller' = "cancel" /\ heldCancel' = cancel
    BY <1>4 DEF StopRead
  <2> QED
    BY <2>1 DEF Begun, LeftBehind, Active
<1>5. CASE StopCancel
  <2>1. /\ UNCHANGED <<pc, starts, left>> /\ caller = "cancel"
        /\ caller' = "kill" /\ heldCancel = starts
        /\ cancelled' = cancelled \union ({starts} \ {0})
    BY <1>5 DEF StopCancel, Begun
  <2>2. Begun'
    BY <1>1, <2>1 DEF Begun
  <2>3. LeftBehind'
    BY <2>1 DEF LeftBehind, Active
  <2> QED
    BY <2>2, <2>3
<1>6. CASE StopKill \/ StopClear
  <2>1. /\ UNCHANGED <<pc, starts, cancelled, left>>
        /\ caller \in {"kill", "clear"} /\ caller' \in {"clear", "idle"}
    BY <1>6 DEF StopKill, StopClear
  <2> QED
    BY <2>1 DEF Begun, LeftBehind, Active
<1>7. CASE ParentCancel
  <2>1. /\ UNCHANGED <<pc, starts, caller, cancel, heldCancel, left>>
        /\ cancelled \subseteq cancelled'
    BY <1>7 DEF ParentCancel
  <2> QED
    BY <2>1 DEF Begun, LeftBehind, Active
<1>8. ASSUME UNCHANGED <<cancel, cancelled, caller, starts, heldCancel, left>>,
             \A q \in Runs : /\ pc'[q] = "none" <=> pc[q] = "none"
                             /\ pc[q] = "done" => pc'[q] = "done"
      PROVE  Begun' /\ LeftBehind'
  BY <1>8 DEF Begun, LeftBehind, Active
<1>9. ASSUME NEW r \in Runs, RunStep(r) \/ FfmpegExits(r)
      PROVE  Begun' /\ LeftBehind'
  BY <1>8, <1>9, CallersOnly
<1>10. CASE Tick
  <2>1. /\ UNCHANGED <<cancel, cancelled, caller, starts, heldCancel, left>>
        /\ pc' = pc
    BY <1>10 DEF Tick
  <2> QED
    BY <1>8, <2>1
<1> QED
  BY <1>2, <1>3, <1>4, <1>5, <1>6, <1>7, <1>9, <1>10 DEF Next, CallerStep

(* Only a Start says anew who was left behind.                             *)
LEMMA SpentStays ==
  ASSUME TypeOK, LeftBehind, Begun, Next, ~StartReset
  PROVE  Spent \subseteq Spent'
<1> USE DEF timeVars, runVars, callerVars, history
<1>1. ASSUME left' = left,
             \A r \in left : pc[r] \notin Resetting => pc'[r] \notin Resetting
      PROVE  Spent \subseteq Spent'
  BY <1>1 DEF Spent
<1>2. left \subseteq Runs /\ left \subseteq cancelled
  BY DEF TypeOK, LeftBehind
<1>3. ASSUME NEW r \in Runs, RunStep(r) PROVE Spent \subseteq Spent'
  BY <1>1, <1>2, <1>3, RunMoves
<1>4. CASE StartRun
  <2>1. left' = left /\ pc' = [pc EXCEPT ![starts'] = "top"]
        /\ starts' = starts + 1 /\ starts < MaxStarts
    BY <1>4 DEF StartRun, Begun, Go
  <2>2. \A r \in left : r # starts'
    <3>1. \A r \in left : r <= starts
      BY <1>2 DEF LeftBehind, Begun
    <3>2. starts \in Nat /\ \A r \in left : r \in Nat
      BY <1>2, FiniteRuns DEF TypeOK
    <3> QED
      BY <2>1, <3>1, <3>2
  <2>3. \A r \in left : pc'[r] = pc[r]
    BY <1>2, <2>1, <2>2 DEF TypeOK
  <2> QED
    BY <1>1, <2>1, <2>3
<1>5. CASE StopRead \/ StopCancel \/ StopKill \/ StopClear \/ ParentCancel
           \/ Tick \/ \E r \in Runs : FfmpegExits(r)
  BY <1>1, <1>5 DEF StopRead, StopCancel, StopKill, StopClear, ParentCancel,
     Tick, FfmpegExits
<1> QED
  BY <1>3, <1>4, <1>5 DEF Next, CallerStep

(* What the proofs below need of the types.                                *)
LEMMA Numbers ==
  ASSUME TypeOK
  PROVE  /\ MaxRestarts \in Nat /\ MaxRestarts >= 1
         /\ RestartWindow \in Nat /\ Cooldown \in Nat
         /\ RestartWindow < Cooldown
         /\ Len(recent) \in Nat /\ recent \in Seq(0..RestartWindow)
         /\ \A i \in 1..Len(recent) : recent[i] \in 0..RestartWindow
         /\ restartCount \in 0..MaxRestarts /\ cooldown \in -1..Cooldown
         /\ window \in -1..(RestartWindow + 1) /\ None = -1
         /\ \A r \in Runs : wait[r] \in Nat
<1>1. /\ MaxRestarts \in Nat /\ MaxRestarts >= 1
      /\ RestartWindow \in Nat /\ Cooldown \in Nat
      /\ RestartWindow < Cooldown
  BY PushAssumption
<1>2. recent \in Seq(0..RestartWindow)
  BY DEF TypeOK
<1>3. /\ Len(recent) \in Nat
      /\ \A i \in 1..Len(recent) : recent[i] \in 0..RestartWindow
  BY <1>2, ElementOfSeq, LenProperties
<1>4. /\ restartCount \in 0..MaxRestarts /\ cooldown \in -1..Cooldown
      /\ window \in -1..(RestartWindow + 1) /\ None = -1
      /\ \A r \in Runs : wait[r] \in Nat
  BY DEF TypeOK, None
<1> QED
  BY <1>1, <1>2, <1>3, <1>4

(* A step that leaves the counters and the attempts alone.                 *)
LEMMA CountsNothing ==
  ASSUME IInv, TypeOK', Spent \subseteq Spent', UNCHANGED <<timeVars, history>>,
         \A r \in Runs \ left :
           pc'[r] \in Waiting => pc[r] \in Waiting /\ wait'[r] = wait[r]
  PROVE  Counted'
<1>1. UNCHANGED <<restartCount, window, cooldown, recent, left>>
  BY DEF timeVars, history
<1>2. /\ Cardinality(Spent) \in Nat /\ Cardinality(Spent)' \in Nat
      /\ Cardinality(Spent) <= Cardinality(Spent)'
      /\ Extra \in Nat /\ Extra' \in Nat /\ Extra <= Extra'
  BY SpentGrows DEF IInv
<1>3. OldestFirst' /\ CooldownOK'
  BY <1>1 DEF IInv, Counted, OldestFirst, CooldownOK
<1>4. WindowOK'
  <2>1. restartCount \in Nat /\ MaxRestarts \in Nat /\ Len(recent) \in Nat
    BY Numbers DEF IInv
  <2> QED
    BY <1>1, <1>2, <2>1 DEF IInv, Counted, WindowOK
<1>5. WaitOK'
  <2> SUFFICES ASSUME NEW r \in Runs \ left, pc'[r] \in Waiting
               PROVE  /\ wait'[r] <= Cooldown
                      /\ \A i \in 1..Len(recent) :
                           i <= Len(recent) - Cardinality(Spent)' =>
                             recent[i] >= Cooldown - wait'[r]
    BY <1>1 DEF WaitOK
  <2>1. pc[r] \in Waiting /\ wait'[r] = wait[r] /\ Len(recent) \in Nat
    BY Numbers DEF IInv
  <2> QED
    BY <1>2, <2>1 DEF IInv, Counted, WaitOK
<1> QED
  BY <1>3, <1>4, <1>5 DEF Counted

(* The counters are forgotten: by a run left behind, which is spent        *)
(* thereby, or when no attempt is left that the spent did not make.        *)
LEMMA ForgetCounts ==
  ASSUME IInv, TypeOK', Spent \subseteq Spent', UNCHANGED history, Forget,
         \/ Spent # Spent'
         \/ Len(recent) <= Cardinality(Spent),
         \A r \in Runs \ left :
           pc'[r] \in Waiting => pc[r] \in Waiting /\ wait'[r] = wait[r]
  PROVE  Counted'
<1>1. /\ UNCHANGED <<recent, left>> /\ restartCount' = 0 /\ window' = None
      /\ cooldown' = None
  BY DEF Forget, history
<1>2. /\ Cardinality(Spent) \in Nat /\ Cardinality(Spent)' \in Nat
      /\ Cardinality(Spent) <= Cardinality(Spent)'
      /\ Extra \in Nat /\ Extra' \in Nat /\ Extra <= Extra'
      /\ Cardinality(Spent) <= Extra
      /\ Spent # Spent' => Extra + MaxRestarts <= Extra'
  BY SpentGrows DEF IInv
<1>3. /\ restartCount \in 0..MaxRestarts /\ MaxRestarts \in Nat
      /\ MaxRestarts >= 1 /\ Len(recent) \in Nat
  BY Numbers DEF IInv
<1>4. OldestFirst' /\ CooldownOK'
  BY <1>1 DEF IInv, Counted, OldestFirst, CooldownOK
<1>5. Len(recent) <= MaxRestarts - 1 + Extra + restartCount
  BY <1>2, <1>3 DEF IInv, Counted, WindowOK
<1>6. WindowOK'
  BY <1>1, <1>2, <1>3, <1>5 DEF WindowOK
<1>7. WaitOK'
  <2> SUFFICES ASSUME NEW r \in Runs \ left, pc'[r] \in Waiting
               PROVE  /\ wait'[r] <= Cooldown
                      /\ \A i \in 1..Len(recent) :
                           i <= Len(recent) - Cardinality(Spent)' =>
                             recent[i] >= Cooldown - wait'[r]
    BY <1>1 DEF WaitOK
  <2>1. pc[r] \in Waiting /\ wait'[r] = wait[r]
    OBVIOUS
  <2> QED
    BY <1>2, <1>3, <2>1 DEF IInv, Counted, WaitOK
<1> QED
  BY <1>4, <1>6, <1>7 DEF Counted

(* Time passes: every attempt ages as fast as the window and the waits.    *)
LEMMA TickCounts ==
  ASSUME IInv, TypeOK', Tick
  PROVE  Counted'
<1> DEFINE L == Len(recent)
<1>1. PICK n \in 0..L : /\ Len(recent') = L - n
                        /\ \A i \in 1..Len(recent') :
                             /\ i + n \in 1..L
                             /\ recent'[i] = recent[i + n] + 1
  BY Ageing DEF IInv, Counted
<1>2. /\ restartCount' = restartCount /\ pc' = pc /\ left' = left
      /\ window' = IF window \in 0..RestartWindow THEN window + 1 ELSE window
      /\ cooldown' = Less(cooldown)
      /\ \A r \in Runs : wait'[r] = Less(wait[r])
  BY DEF Tick, history, TypeOK, IInv
<1>3. Spent' = Spent
  BY <1>2 DEF Spent
<1>4. /\ Cardinality(Spent)' = Cardinality(Spent) /\ Extra' = Extra
      /\ Cardinality(Spent) \in Nat /\ Extra \in Nat
  BY <1>3, SpentGrows DEF Extra, IInv
<1>5. /\ MaxRestarts \in Nat /\ RestartWindow \in Nat /\ Cooldown \in Nat
      /\ L \in Nat /\ \A i \in 1..L : recent[i] \in Nat
      /\ restartCount \in Nat /\ cooldown \in -1..Cooldown
      /\ window \in -1..(RestartWindow + 1) /\ None = -1
      /\ \A r \in Runs : wait[r] \in Nat
  BY Numbers DEF IInv
<1>6. OldestFirst'
  <2> SUFFICES ASSUME NEW i \in 1..Len(recent'), NEW j \in 1..Len(recent'),
                      i <= j
               PROVE  recent'[i] >= recent'[j]
    BY DEF OldestFirst
  <2>1. /\ i + n \in 1..L /\ j + n \in 1..L
        /\ recent'[i] = recent[i + n] + 1 /\ recent'[j] = recent[j + n] + 1
    BY <1>1
  <2>2. i + n <= j + n
    BY <1>5
  <2>3. recent[i + n] >= recent[j + n]
    BY <2>1, <2>2 DEF IInv, Counted, OldestFirst
  <2>4. recent[i + n] \in Nat /\ recent[j + n] \in Nat
    BY <1>5, <2>1
  <2> HIDE DEF L
  <2> QED
    BY <2>1, <2>3, <2>4
<1>7. ASSUME NEW i \in 1..Len(recent'), NEW m \in Int, NEW least \in Int,
              i <= Len(recent') - m,
              \A j \in 1..L : j <= L - m => recent[j] >= least
       PROVE  recent'[i] >= least + 1
  <2>1. i + n \in 1..L /\ recent'[i] = recent[i + n] + 1
    BY <1>1
  <2>2. i + n <= L - m
    BY <1>1, <1>5, <1>7
  <2>3. recent[i + n] >= least /\ recent[i + n] \in Nat
    BY <1>5, <1>7, <2>1, <2>2
  <2> QED
    BY <2>1, <2>3
<1>8. WindowOK'
  <2>1. CASE window = None
    <3>1. restartCount = 0 /\ L <= MaxRestarts - 1 + Extra
      BY <2>1 DEF IInv, Counted, WindowOK
    <3>2. window' = None
      BY <1>2, <1>5, <2>1
    <3> QED
      BY <1>1, <1>2, <1>4, <1>5, <3>1, <3>2 DEF WindowOK
  <2>2. CASE window # None
    <3>1. /\ restartCount > 0 /\ L <= MaxRestarts - 1 + Extra + restartCount
          /\ \A i \in 1..L : i <= L - restartCount + 1 => recent[i] >= window
      BY <2>2 DEF IInv, Counted, WindowOK
    <3>2. window' \in Nat /\ window' <= window + 1
      BY <1>2, <1>5, <2>2
    <3>3. \A i \in 1..Len(recent') :
            i <= Len(recent') - restartCount + 1 => recent'[i] >= window'
      <4> SUFFICES ASSUME NEW i \in 1..Len(recent'),
                          i <= Len(recent') - restartCount + 1
                   PROVE  recent'[i] >= window'
        OBVIOUS
      <4> DEFINE m == restartCount - 1
      <4>1. m \in Int /\ Len(recent') \in Int /\ window \in Int
        BY <1>1, <1>5
      <4>2. /\ i <= Len(recent') - m
            /\ \A j \in 1..L : j <= L - m => recent[j] >= window
        BY <1>5, <3>1, <4>1
      <4>3. recent'[i] >= window + 1
        <5> HIDE DEF m
        <5> QED
          BY <1>7, <4>1, <4>2
      <4>4. recent'[i] \in Int
        BY <1>1, <1>5
      <4> QED
        BY <3>2, <4>1, <4>3, <4>4
    <3> QED
      BY <1>1, <1>2, <1>4, <1>5, <3>1, <3>2, <3>3 DEF WindowOK
  <2> QED
    BY <2>1, <2>2
<1>9. CooldownOK'
  <2>1. cooldown' # None => cooldown # None /\ cooldown' >= cooldown - 1
    BY <1>2, <1>5 DEF Less
  <2>2. cooldown' \in Int
    BY <1>2, <1>5 DEF Less
  <2> SUFFICES ASSUME NEW i \in 1..Len(recent'), cooldown' # None
               PROVE  recent'[i] >= Cooldown - cooldown'
    BY DEF CooldownOK
  <2>3. /\ Cooldown - cooldown \in Int /\ 0 \in Int /\ i <= Len(recent') - 0
        /\ \A j \in 1..L : j <= L - 0 => recent[j] >= Cooldown - cooldown
    BY <1>1, <1>5, <2>1 DEF IInv, Counted, CooldownOK
  <2>4. recent'[i] >= (Cooldown - cooldown) + 1
    BY <1>7, <2>3
  <2>5. recent'[i] \in Int
    BY <1>1, <1>5
  <2> QED
    BY <1>5, <2>1, <2>2, <2>4, <2>5
<1>10. WaitOK'
  <2> SUFFICES ASSUME NEW r \in Runs \ left, pc[r] \in Waiting
               PROVE  /\ wait'[r] <= Cooldown
                      /\ \A i \in 1..Len(recent') :
                           i <= Len(recent') - Cardinality(Spent) =>
                             recent'[i] >= Cooldown - wait'[r]
    BY <1>2, <1>4 DEF WaitOK
  <2>1. /\ wait'[r] \in Nat /\ wait'[r] >= wait[r] - 1 /\ wait'[r] <= wait[r]
    BY <1>2, <1>5 DEF Less
  <2>2. /\ wait[r] <= Cooldown
        /\ \A i \in 1..L : i <= L - Cardinality(Spent) =>
             recent[i] >= Cooldown - wait[r]
    BY DEF IInv, Counted, WaitOK
  <2>3. wait'[r] <= Cooldown
    BY <1>5, <2>1, <2>2
  <2>4. ASSUME NEW i \in 1..Len(recent'),
               i <= Len(recent') - Cardinality(Spent)
        PROVE  recent'[i] >= Cooldown - wait'[r]
    <3>1. Cooldown - wait[r] \in Int /\ Cardinality(Spent) \in Int
      BY <1>4, <1>5
    <3>2. recent'[i] >= (Cooldown - wait[r]) + 1
      BY <1>7, <2>2, <2>4, <3>1
    <3>3. recent'[i] \in Int
      BY <1>1, <1>5
    <3> QED
      BY <1>5, <2>1, <3>2, <3>3
  <2> QED
    BY <2>3, <2>4
<1> QED
  BY <1>6, <1>8, <1>9, <1>10 DEF Counted

(* An attempt is made: the first of a window, or one more in it.           *)
LEMMA AttemptCounts ==
  ASSUME IInv, TypeOK', Spent \subseteq Spent', UNCHANGED <<left, wait>>,
         NEW r \in Runs, pc[r] \in {"enter", "cooled"},
         \A q \in Runs : q # r => pc'[q] = pc[q],
         pc'[r] = "connecting", cooldown' = None,
         recent' = Append(recent, 0),
         \/ /\ window # None /\ window' = window
            /\ restartCount' = restartCount + 1 /\ restartCount < MaxRestarts
         \/ /\ window' = 0 /\ restartCount' = 1
            /\ \/ window = None \/ window > RestartWindow
               \/ Len(recent) <= Cardinality(Spent) \/ Spent # Spent'
  PROVE  Counted'
<1> DEFINE L == Len(recent)
<1>1. /\ Cardinality(Spent) \in Nat /\ Cardinality(Spent)' \in Nat
      /\ Cardinality(Spent) <= Cardinality(Spent)'
      /\ Extra \in Nat /\ Extra' \in Nat /\ Extra <= Extra'
      /\ Cardinality(Spent) <= Extra
      /\ Spent # Spent' => /\ Extra + MaxRestarts <= Extra'
                           /\ Cardinality(Spent) + 1 <= Cardinality(Spent)'
  BY SpentGrows DEF IInv
<1>2. /\ MaxRestarts \in Nat /\ RestartWindow \in Nat /\ Cooldown \in Nat
      /\ L \in Nat /\ \A i \in 1..L : recent[i] \in 0..RestartWindow
      /\ restartCount \in 0..MaxRestarts /\ MaxRestarts >= 1
      /\ window \in -1..(RestartWindow + 1) /\ None = -1
      /\ recent \in Seq(0..RestartWindow)
  BY Numbers DEF IInv
<1>3. /\ Len(recent') = L + 1 /\ recent'[L + 1] = 0
      /\ \A i \in 1..L : recent'[i] = recent[i]
      /\ \A i \in 1..Len(recent') : recent'[i] \in Nat
  <2>1. 0 \in 0..RestartWindow
    BY <1>2
  <2>2. /\ Len(recent') = L + 1 /\ recent'[L + 1] = 0
        /\ \A i \in 1..L : recent'[i] = recent[i]
    BY <1>2, <2>1, AppendProperties
  <2> QED
    BY <1>2, <2>2
<1>4. OldestFirst'
  <2> SUFFICES ASSUME NEW i \in 1..(L + 1), NEW j \in 1..(L + 1), i <= j
               PROVE  recent'[i] >= recent'[j]
    BY <1>3 DEF OldestFirst
  <2>1. CASE j = L + 1
    BY <1>2, <1>3, <2>1
  <2>2. CASE j # L + 1
    <3>1. i \in 1..L /\ j \in 1..L
      BY <1>2, <2>2
    <3>2. recent[i] >= recent[j]
      BY <3>1 DEF IInv, Counted, OldestFirst
    <3> QED
      BY <1>3, <3>1, <3>2
  <2> QED
    BY <2>1, <2>2
<1>5. WindowOK'
  <2>1. CASE window # None /\ window' = window
             /\ restartCount' = restartCount + 1
    <3>1. /\ restartCount > 0 /\ L <= MaxRestarts - 1 + Extra + restartCount
          /\ \A i \in 1..L : i <= L - restartCount + 1 => recent[i] >= window
      BY <2>1 DEF IInv, Counted, WindowOK
    <3>2. ASSUME NEW i \in 1..Len(recent'),
                 i <= Len(recent') - restartCount' + 1
          PROVE  recent'[i] >= window'
      <4>1. i \in 1..L /\ i <= L - restartCount + 1
        BY <1>2, <1>3, <2>1, <3>1, <3>2
      <4> QED
        BY <1>3, <2>1, <3>1, <4>1
    <3>3. Len(recent') <= MaxRestarts - 1 + Extra' + restartCount'
      BY <1>1, <1>2, <1>3, <2>1, <3>1
    <3>4. restartCount' > 0
      BY <1>2, <2>1
    <3> QED
      BY <2>1, <3>2, <3>3, <3>4 DEF WindowOK
  <2>2. CASE /\ window' = 0 /\ restartCount' = 1
             /\ \/ window = None \/ window > RestartWindow
                \/ Len(recent) <= Cardinality(Spent) \/ Spent # Spent'
    <3>1. L <= MaxRestarts - 1 + Extra'
      <4>1. CASE window = None
        BY <1>1, <1>2, <4>1 DEF IInv, Counted, WindowOK
      <4>2. CASE window > RestartWindow
        <5>1. /\ restartCount > 0
              /\ \A i \in 1..L : i <= L - restartCount + 1 =>
                   recent[i] >= window
          BY <1>2, <4>2 DEF IInv, Counted, WindowOK
        <5>2. \A i \in 1..L : ~(i <= L - restartCount + 1)
          BY <1>2, <4>2, <5>1
        <5>3. L < 1 \/ L - restartCount + 1 < 1
          <6>1. L >= 1 => 1 \in 1..L
            BY <1>2
          <6>2. L >= 1 => ~(1 <= L - restartCount + 1)
            BY <5>2, <6>1
          <6> QED
            BY <1>2, <6>2
        <5> QED
          BY <1>1, <1>2, <5>1, <5>3
      <4>3. CASE Len(recent) <= Cardinality(Spent)
        BY <1>1, <1>2, <4>3
      <4>4. CASE Spent # Spent'
        <5>1. L <= MaxRestarts - 1 + Extra + restartCount
          BY <1>1, <1>2 DEF IInv, Counted, WindowOK
        <5> QED
          BY <1>1, <1>2, <4>4, <5>1
      <4> QED
        BY <2>2, <4>1, <4>2, <4>3, <4>4
    <3>2. window' # None /\ \A i \in 1..Len(recent') : recent'[i] >= window'
      BY <1>2, <1>3, <2>2
    <3> QED
      BY <1>1, <1>2, <1>3, <2>2, <3>1, <3>2 DEF WindowOK
  <2> QED
    BY <2>1, <2>2
<1>6. CooldownOK'
  BY DEF CooldownOK
<1>7. WaitOK'
  <2> SUFFICES ASSUME NEW q \in Runs \ left, pc'[q] \in Waiting
               PROVE  /\ wait[q] <= Cooldown
                      /\ \A i \in 1..Len(recent') :
                           i <= Len(recent') - Cardinality(Spent)' =>
                             recent'[i] >= Cooldown - wait[q]
    BY DEF WaitOK
  <2>1. q # r /\ pc[q] \in Waiting
    BY DEF Waiting, Resetting
  <2>2. r \in left
    BY <2>1 DEF IInv, LeftBehind, Active, Waiting, Resetting
  <2>3. r \in Spent' /\ r \notin Spent
    BY <2>2 DEF Spent, Resetting
  <2>4. Cardinality(Spent) + 1 <= Cardinality(Spent)'
    BY <1>1, <2>3
  <2>5. /\ wait[q] <= Cooldown
        /\ \A i \in 1..L : i <= L - Cardinality(Spent) =>
             recent[i] >= Cooldown - wait[q]
    BY <2>1 DEF IInv, Counted, WaitOK
  <2>6. ASSUME NEW i \in 1..Len(recent'),
               i <= Len(recent') - Cardinality(Spent)'
        PROVE  recent'[i] >= Cooldown - wait[q]
    <3>1. i \in 1..L /\ i <= L - Cardinality(Spent)
      BY <1>1, <1>2, <1>3, <2>4, <2>6
    <3> QED
      BY <1>3, <2>5, <3>1
  <2> QED
    BY <2>5, <2>6
<1> QED
  BY <1>4, <1>5, <1>6, <1>7 DEF Counted

(* The window is exhausted: a cool-down begins, nothing is older than it.  *)
LEMMA TooManyCounts ==
  ASSUME IInv, TypeOK', Spent \subseteq Spent',
         UNCHANGED <<left, recent, restartCount, window>>,
         NEW r \in Runs, \A q \in Runs : q # r => pc'[q] = pc[q],
         cooldown' = Cooldown, wait' = [wait EXCEPT ![r] = Cooldown]
  PROVE  Counted'
<1>1. /\ Cardinality(Spent) \in Nat /\ Cardinality(Spent)' \in Nat
      /\ Cardinality(Spent) <= Cardinality(Spent)'
      /\ Extra \in Nat /\ Extra' \in Nat /\ Extra <= Extra'
  BY SpentGrows DEF IInv
<1>2. /\ MaxRestarts \in Nat /\ Cooldown \in Nat /\ Len(recent) \in Nat
      /\ restartCount \in Nat
      /\ \A i \in 1..Len(recent) : recent[i] \in Nat
      /\ wait'[r] = Cooldown /\ \A q \in Runs : q # r => wait'[q] = wait[q]
  <2>1. wait'[r] = Cooldown /\ \A q \in Runs : q # r => wait'[q] = wait[q]
    BY DEF IInv, TypeOK
  <2> QED
    BY <2>1, Numbers DEF IInv
<1>3. OldestFirst' /\ CooldownOK'
  BY <1>2 DEF IInv, Counted, OldestFirst, CooldownOK
<1>4. WindowOK'
  BY <1>1, <1>2 DEF IInv, Counted, WindowOK
<1>5. WaitOK'
  <2> SUFFICES ASSUME NEW q \in Runs \ left, pc'[q] \in Waiting
               PROVE  /\ wait'[q] <= Cooldown
                      /\ \A i \in 1..Len(recent) :
                           i <= Len(recent) - Cardinality(Spent)' =>
                             recent[i] >= Cooldown - wait'[q]
    BY DEF WaitOK
  <2>1. CASE q = r
    BY <1>2, <2>1
  <2>2. CASE q # r
    BY <1>1, <1>2, <2>2 DEF IInv, Counted, WaitOK
  <2> QED
    BY <2>1, <2>2
<1> QED
  BY <1>3, <1>4, <1>5 DEF Counted

(* When a cool-down is over every attempt before it has left the window.   *)
LEMMA NoneLeft ==
  ASSUME IInv
  PROVE  /\ cooldown = 0 => Len(recent) <= Cardinality(Spent)
         /\ \A r \in Runs \ left : pc[r] \in Waiting /\ wait[r] = 0 =>
              Len(recent) <= Cardinality(Spent)
<1>1. /\ RestartWindow \in Nat /\ Cooldown \in Nat /\ RestartWindow < Cooldown
      /\ Len(recent) \in Nat /\ None = -1 /\ Cardinality(Spent) \in Nat
      /\ \A i \in 1..Len(recent) : recent[i] \in 0..RestartWindow
  <2>1. Cardinality(Spent) \in Nat
    <3>1. Spent \subseteq Runs
      BY DEF IInv, TypeOK, Spent
    <3> QED
      BY <3>1, FiniteRuns, FS_Subset, FS_CardinalityType
  <2> QED
    BY <2>1, Numbers DEF IInv
<1>2. ASSUME cooldown = 0 PROVE Len(recent) <= Cardinality(Spent)
  <2>1. \A i \in 1..Len(recent) : recent[i] >= Cooldown
    BY <1>1, <1>2 DEF IInv, Counted, CooldownOK
  <2>2. Len(recent) >= 1 => 1 \in 1..Len(recent)
    BY <1>1
  <2>3. ~(Len(recent) >= 1)
    BY <1>1, <2>1, <2>2
  <2> QED
    BY <1>1, <2>3
<1>3. ASSUME NEW r \in Runs \ left, pc[r] \in Waiting, wait[r] = 0
      PROVE  Len(recent) <= Cardinality(Spent)
  <2> DEFINE first == Len(recent) - Cardinality(Spent)
  <2> SUFFICES ASSUME ~(Len(recent) <= Cardinality(Spent)) PROVE FALSE
    OBVIOUS
  <2>1. first \in 1..Len(recent)
    BY <1>1
  <2>2. recent[first] >= Cooldown
    BY <1>1, <1>3, <2>1 DEF IInv, Counted, WaitOK
  <2> HIDE DEF first
  <2> QED
    BY <1>1, <2>1, <2>2
<1> QED
  BY <1>2, <1>3

(* The rest of the section that counts an attempt, from whichever place.   *)
LEMMA AdmitCounts ==
  ASSUME IInv, TypeOK', Spent \subseteq Spent', UNCHANGED left, NEW r \in Runs,
         pc[r] \in {"enter", "cooled"}, \A q \in Runs : q # r => pc'[q] = pc[q],
         \/ Admit(r, restartCount, window)
         \/ /\ Admit(r, 0, None)
            /\ r \in left \/ Len(recent) <= Cardinality(Spent)
  PROVE  Counted'
<1>1. /\ MaxRestarts \in Nat /\ MaxRestarts >= 1 /\ RestartWindow \in Nat
      /\ restartCount \in 0..MaxRestarts /\ None = -1
      /\ window \in -1..(RestartWindow + 1)
  BY Numbers DEF IInv
<1>2. pc \in [Runs -> Places]
  BY DEF IInv, TypeOK, Places
<1>3. r \in left /\ pc'[r] = "connecting" => Spent # Spent'
  BY DEF Spent, Resetting
<1>4. CASE Admit(r, restartCount, window)
  <2>1. window = None => restartCount = 0
    BY DEF IInv, Counted, WindowOK
  <2>2. CASE ~(window > RestartWindow) /\ restartCount >= MaxRestarts
    <3>1. window # None
      BY <1>1, <2>1, <2>2
    <3>2. /\ UNCHANGED <<recent, restartCount, window>>
          /\ cooldown' = Cooldown /\ wait' = [wait EXCEPT ![r] = Cooldown]
      BY <1>1, <1>4, <2>2, <3>1 DEF Admit
    <3> QED
      BY <3>2, TooManyCounts
  <2>3. CASE window > RestartWindow \/ window = None
    <3>1. /\ window' = 0 /\ restartCount' = 1 /\ cooldown' = None
          /\ recent' = Append(recent, 0) /\ wait' = wait
          /\ pc'[r] = "connecting"
      BY <1>1, <1>2, <1>4, <2>1, <2>3 DEF Admit, Go
    <3> QED
      BY <2>3, <3>1, AttemptCounts
  <2>4. CASE /\ ~(window > RestartWindow) /\ window # None
             /\ ~(restartCount >= MaxRestarts)
    <3>1. /\ window' = window /\ restartCount' = restartCount + 1
          /\ cooldown' = None /\ recent' = Append(recent, 0) /\ wait' = wait
          /\ pc'[r] = "connecting" /\ restartCount < MaxRestarts
      BY <1>1, <1>2, <1>4, <2>4 DEF Admit, Go
    <3> QED
      BY <2>4, <3>1, AttemptCounts
  <2> QED
    BY <2>2, <2>3, <2>4
<1>5. CASE Admit(r, 0, None)
           /\ (r \in left \/ Len(recent) <= Cardinality(Spent))
  <2>1. /\ window' = 0 /\ restartCount' = 1 /\ cooldown' = None
        /\ recent' = Append(recent, 0) /\ wait' = wait
        /\ pc'[r] = "connecting"
    BY <1>1, <1>2, <1>5 DEF Admit, Go
  <2> QED
    BY <1>3, <1>5, <2>1, AttemptCounts
<1> QED
  BY <1>4, <1>5

(* A run may stop waiting, but begins to wait in no other step than the    *)
(* ones that count.                                                        *)
LEMMA RunCounts ==
  ASSUME IInv, TypeOK', NEW r \in Runs, RunStep(r), Spent \subseteq Spent'
  PROVE  Counted'
<1>1. /\ pc \in [Runs -> Places] /\ left' = left
      /\ \A q \in Runs : q # r => pc'[q] = pc[q]
  BY RunMoves DEF IInv, TypeOK, Places
<1> USE DEF timeVars, runVars, callerVars, history, Waiting, Resetting
<1>2. CASE RunEnter(r)
  <2>1. CASE cooldown = None \/ cooldown = 0
    <3>1. \/ Admit(r, restartCount, window)
          \/ Admit(r, 0, None) /\ cooldown = 0
      BY <1>2, <2>1 DEF RunEnter, None
    <3>2. pc[r] = "enter"
      BY <1>2 DEF RunEnter, At
    <3> QED
      BY <1>1, <3>1, <3>2, NoneLeft, AdmitCounts
  <2>2. CASE ~(cooldown = None \/ cooldown = 0)
    <3>1. /\ cooldown > 0 /\ cooldown <= Cooldown /\ cooldown \in Nat
          /\ UNCHANGED <<restartCount, window, cooldown, recent>>
          /\ wait' = [wait EXCEPT ![r] = cooldown]
      BY <1>2, <2>2, Numbers DEF RunEnter, IInv
    <3>2. OldestFirst' /\ CooldownOK'
      BY <3>1 DEF IInv, Counted, OldestFirst, CooldownOK
    <3>3. /\ Cardinality(Spent) \in Nat /\ Cardinality(Spent)' \in Nat
          /\ Cardinality(Spent) <= Cardinality(Spent)'
          /\ Extra \in Nat /\ Extra' \in Nat /\ Extra <= Extra'
      BY SpentGrows DEF IInv
    <3>4. /\ MaxRestarts \in Nat /\ restartCount \in Nat /\ Len(recent) \in Nat
          /\ Cooldown \in Nat
      BY Numbers DEF IInv
    <3>5. WindowOK'
      BY <3>1, <3>3, <3>4 DEF IInv, Counted, WindowOK
    <3>6. WaitOK'
      <4> SUFFICES ASSUME NEW q \in Runs \ left, pc'[q] \in Waiting
                   PROVE  /\ wait'[q] <= Cooldown
                          /\ \A i \in 1..Len(recent) :
                               i <= Len(recent) - Cardinality(Spent)' =>
                                 recent[i] >= Cooldown - wait'[q]
        BY <1>1, <3>1 DEF WaitOK
      <4>1. CASE q = r
        <5>1. wait'[r] = cooldown
          BY <3>1 DEF IInv, TypeOK
        <5>2. \A i \in 1..Len(recent) : recent[i] >= Cooldown - cooldown
          BY <2>2 DEF IInv, Counted, CooldownOK
        <5> QED
          BY <3>1, <4>1, <5>1, <5>2
      <4>2. CASE q # r
        <5>1. wait'[q] = wait[q] /\ pc[q] \in Waiting
          BY <1>1, <3>1, <4>2 DEF IInv, TypeOK
        <5> QED
          BY <3>3, <3>4, <5>1 DEF IInv, Counted, WaitOK
      <4> QED
        BY <4>1, <4>2
    <3> QED
      BY <3>2, <3>5, <3>6 DEF Counted
  <2> QED
    BY <2>1, <2>2
<1>3. CASE RunCooled(r)
  <2>1. pc[r] = "cooled"
    BY <1>3 DEF RunCooled, At
  <2>2. CASE Go(r, "done") /\ UNCHANGED <<wait, timeVars, recent>>
    <3>1. \A q \in Runs \ left : pc'[q] \in Waiting => pc[q] \in Waiting
      BY <1>1, <2>1
    <3> QED
      BY <1>1, <2>2, <3>1, CountsNothing
  <2>3. CASE wait[r] = 0 /\ Admit(r, 0, None)
    BY <1>1, <2>1, <2>3, NoneLeft, AdmitCounts
  <2> QED
    BY <1>3, <2>2, <2>3 DEF RunCooled
<1>4. CASE RunCooldown(r)
  <2>1. pc[r] = "cooldown" /\ UNCHANGED <<wait, recent>>
    BY <1>4 DEF RunCooldown, At
  <2>2. \A q \in Runs \ left : pc'[q] \in Waiting => pc[q] \in Waiting
    BY <1>1, <2>1
  <2>3. CASE UNCHANGED timeVars
    BY <1>1, <2>1, <2>2, <2>3, CountsNothing
  <2>4. CASE wait[r] = 0 /\ pc'[r] = "top" /\ Forget
    <3>1. r \in left => Spent # Spent'
      BY <1>1, <2>1, <2>4 DEF Spent
    <3> QED
      BY <1>1, <2>1, <2>2, <2>4, <3>1, NoneLeft, ForgetCounts
  <2>5. pc' = [pc EXCEPT ![r] = "top"] => pc'[r] = "top"
    BY <1>1
  <2> QED
    BY <1>4, <2>3, <2>4, <2>5 DEF RunCooldown, Go
<1>5. ASSUME UNCHANGED <<timeVars, recent>>,
             pc'[r] \in Waiting => pc[r] \in Waiting /\ wait'[r] = wait[r],
             \A q \in Runs : q # r => wait'[q] = wait[q]
      PROVE  Counted'
  <2>1. \A q \in Runs \ left :
          pc'[q] \in Waiting => pc[q] \in Waiting /\ wait'[q] = wait[q]
    BY <1>1, <1>5
  <2> QED
    BY <1>1, <1>5, <2>1, CountsNothing
<1>6. CASE RunTop(r) \/ RunCooling(r) \/ RunTooMany(r) \/ RunConnecting(r)
  <2>1. UNCHANGED <<timeVars, recent, wait>>
    BY <1>6 DEF RunTop, RunCooling, RunTooMany, RunConnecting
  <2>2. pc'[r] \in Waiting => pc[r] \in Waiting
    BY <1>1, <1>6 DEF RunTop, RunCooling, RunTooMany, RunConnecting, At, Go
  <2> QED
    BY <1>5, <2>1, <2>2
<1>7. CASE RunBuild(r) \/ RunStart(r) \/ RunConnected(r) \/ RunWait(r)
           \/ RunExited(r) \/ RunCheck(r) \/ RunDelay(r)
  <2>1. UNCHANGED <<timeVars, recent, wait>>
    BY <1>7 DEF RunBuild, RunStart, RunConnected, RunWait, RunExited,
       RunCheck, RunDelay
  <2>2. pc'[r] \notin Waiting
    BY <1>1, <1>7 DEF RunBuild, RunStart, RunConnected, RunWait, RunExited,
       RunCheck, RunDelay, Go
  <2> QED
    BY <1>5, <2>1, <2>2
<1>8. CASE RunReport(r)
  <2>1. UNCHANGED <<timeVars, recent>> /\ pc'[r] = "delay"
        /\ \A q \in Runs : q # r => wait'[q] = wait[q]
    BY <1>1, <1>8 DEF RunReport, Go, IInv, TypeOK
  <2> QED
    BY <1>5, <2>1
<1> QED
  BY <1>2, <1>3, <1>4, <1>6, <1>7, <1>8 DEF RunStep

(* Start and Stop forget the attempts with the counters.                   *)
LEMMA CallersCount ==
  ASSUME IInv, TypeOK', StartReset \/ StopClear
  PROVE  Counted'
<1>1. /\ Len(recent') = 0 /\ restartCount' = 0
      /\ window' = None /\ cooldown' = None
  BY EmptySeq DEF StartReset, StopClear, Forget
<1>2. Extra' \in Nat /\ MaxRestarts \in Nat /\ MaxRestarts >= 1
  <2>1. IsFiniteSet(Spent')
    <3>1. Spent' \subseteq Runs
      BY DEF Spent, TypeOK
    <3> QED
      BY <3>1, FiniteRuns, FS_Subset
  <2>2. Cardinality(Spent') \in Nat
    BY <2>1, FS_CardinalityType
  <2>3. MaxRestarts \in Nat /\ MaxRestarts >= 1
    BY Numbers DEF IInv
  <2>4. Extra' = MaxRestarts * Cardinality(Spent')
    BY DEF Extra
  <2> QED
    BY <2>2, <2>3, <2>4
<1>3. OldestFirst' /\ CooldownOK' /\ WindowOK'
  <2>1. \A i \in 1..Len(recent') : FALSE
    BY <1>1
  <2>2. OldestFirst' /\ CooldownOK'
    BY <1>1, <2>1 DEF OldestFirst, CooldownOK
  <2>3. WindowOK'
    <3>1. \A m, e \in Nat : m >= 1 => 0 <= m - 1 + e
      OBVIOUS
    <3>2. 0 <= MaxRestarts - 1 + Extra'
      BY <1>2, <3>1, Zenon
    <3> QED
      BY <1>1, <3>2, Zenon DEF WindowOK
  <2> QED
    BY <2>2, <2>3
<1>4. WaitOK'
  <2>1. CASE StartReset
    <3>1. \A r \in Runs \ left' : pc'[r] \notin Waiting
      BY <2>1 DEF StartReset, runVars, Active, Waiting, Resetting
    <3> QED
      BY <3>1 DEF WaitOK
  <2>2. CASE StopClear
    <3>1. left' = left /\ pc' = pc /\ wait' = wait
      BY <2>2 DEF StopClear, runVars
    <3>2. \A i \in 1..Len(recent') : FALSE
      BY <1>1
    <3> QED
      BY <3>1, <3>2 DEF IInv, Counted, WaitOK
  <2> QED
    BY <2>1, <2>2
<1> QED
  BY <1>3, <1>4 DEF Counted

(* The inductive invariant is kept by every step.                          *)
LEMMA Step == IInv /\ [Next]_vars => IInv'
<1> SUFFICES ASSUME IInv, [Next]_vars PROVE IInv'
  OBVIOUS
<1>1. CASE UNCHANGED vars
  <2>1. /\ UNCHANGED <<status, restartCount, window, cooldown, pc, wait, proc>>
        /\ UNCHANGED <<cmd, cancel, cancelled, parentDone, caller, starts>>
        /\ UNCHANGED <<heldCancel, heldCmd, recent, left>>
    BY <1>1 DEF vars, timeVars, runVars, callerVars, history
  <2>2. TypeOK' /\ Begun' /\ LeftBehind'
    BY <2>1 DEF IInv, TypeOK, Begun, LeftBehind, Active
  <2>3. Spent' = Spent
    BY <2>1 DEF Spent
  <2>4. Counted'
    BY <2>1, <2>2, <2>3, CountsNothing DEF timeVars, history
  <2> QED
    BY <2>2, <2>4 DEF IInv
<1>2. CASE Next
  <2>1. TypeOK' /\ Begun' /\ LeftBehind'
    BY <1>2, Typed, BegunStep DEF IInv, Counted
  <2>2. CASE StartReset \/ StopClear
    BY <2>1, <2>2, CallersCount DEF IInv
  <2>3. ASSUME ~StartReset, ~StopClear PROVE Counted'
    <3>1. Spent \subseteq Spent'
      BY <1>2, <2>3, SpentStays DEF IInv
    <3>2. ASSUME UNCHANGED <<timeVars, history, wait>>,
                 \A r \in Runs : pc'[r] \in Waiting => pc[r] \in Waiting
          PROVE  Counted'
      BY <2>1, <3>1, <3>2, CountsNothing
    <3>3. CASE StartRun
      <4>1. UNCHANGED <<timeVars, history, wait>>
        BY <3>3 DEF StartRun
      <4>2. \A r \in Runs : pc'[r] = pc[r] \/ pc'[r] = "top"
        BY <3>3 DEF StartRun, Go, IInv, TypeOK
      <4> QED
        BY <3>2, <4>1, <4>2 DEF Waiting, Resetting
    <3>4. CASE StopRead \/ StopCancel \/ StopKill \/ ParentCancel
               \/ \E r \in Runs : FfmpegExits(r)
      <4>1. UNCHANGED <<timeVars, history, wait, pc>>
        BY <3>4 DEF StopRead, StopCancel, StopKill, ParentCancel,
           FfmpegExits, runVars
      <4> QED
        BY <3>2, <4>1
    <3>5. CASE Tick
      BY <2>1, <3>5, TickCounts
    <3>6. ASSUME NEW r \in Runs, RunStep(r) PROVE Counted'
      BY <2>1, <3>1, <3>6, RunCounts
    <3> QED
      BY <1>2, <2>3, <3>3, <3>4, <3>5, <3>6 DEF Next, CallerStep
  <2> QED
    BY <2>1, <2>2, <2>3 DEF IInv
<1> QED
  BY <1>1, <1>2

(* It holds before the first Start.                                        *)
LEMMA Starts == Init => IInv
<1> SUFFICES ASSUME Init PROVE IInv
  OBVIOUS
<1>1. /\ MaxStarts \in Nat /\ MaxRestarts \in Nat /\ RestartWindow \in Nat
      /\ Cooldown \in Nat /\ MaxRestarts >= 1
  BY PushAssumption
<1>2. recent \in Seq(0..RestartWindow) /\ Len(recent) = 0
  BY EmptySeq DEF Init
<1>3. TypeOK
  <2>1. /\ pc \in [Runs -> Places] /\ wait \in [Runs -> Nat]
        /\ proc \in [Runs -> {"none", "alive", "killed", "dead"}]
    BY DEF Init, Places
  <2>2. parentDone \in BOOLEAN
    BY Zenon DEF Init
  <2> QED
    BY <1>1, <1>2, <2>1, <2>2 DEF Init, TypeOK, None, Places
<1>4. Begun /\ LeftBehind
  BY <1>1 DEF Init, Begun, LeftBehind, Active, Runs
<1>5. Spent = {} /\ Cardinality(Spent) = 0 /\ Extra = 0
  <2>1. Spent = {}
    BY DEF Init, Spent
  <2> QED
    BY <1>1, <2>1, FS_EmptySet DEF Extra
<1>6. Counted
  BY <1>1, <1>2, <1>5
     DEF Init, Counted, OldestFirst, WindowOK, CooldownOK, WaitOK, Waiting,
         Resetting
<1> QED
  BY <1>3, <1>4, <1>6 DEF IInv

(* The inductive invariant holds in every reachable state.                 *)
THEOREM Invariance == Spec => []IInv
  BY Starts, Step, PTL DEF Spec

(* Between one Start or Stop and the next, however ffmpeg fails, a stretch *)
(* of the window's length sees fewer than two windows of attempts, and one *)
(* more window for each run that an earlier Start left behind (run).       *)
THEOREM AttemptsAreBounded == Spec => []AttemptsBounded
<1>1. ASSUME IInv PROVE AttemptsBounded
  <2>1. /\ MaxRestarts \in Nat /\ MaxRestarts >= 1 /\ Len(recent) \in Nat
        /\ restartCount \in 0..MaxRestarts
    BY <1>1, Numbers DEF IInv
  <2>2. /\ Cardinality(Spent) \in Nat /\ Cardinality(left) \in Nat
        /\ Cardinality(Spent) <= Cardinality(left)
    <3>1. IsFiniteSet(left) /\ Spent \subseteq left
      BY <1>1, FiniteRuns, FS_Subset DEF IInv, TypeOK, Spent
    <3> QED
      BY <3>1, FS_Subset, FS_CardinalityType
  <2>3. \A c, d \in Nat : c <= d => /\ MaxRestarts * c \in Nat
                                    /\ MaxRestarts * d \in Nat
                                    /\ MaxRestarts * c <= MaxRestarts * d
    BY <2>1
  <2>4. Extra \in Nat /\ MaxRestarts * Cardinality(left) \in Nat
        /\ Extra <= MaxRestarts * Cardinality(left)
    BY <2>2, <2>3 DEF Extra
  <2>5. Len(recent) <= MaxRestarts - 1 + Extra + restartCount
    BY <1>1, <2>1, <2>4 DEF IInv, Counted, WindowOK
  <2>6. Len(recent) <= 2 * MaxRestarts - 1 + MaxRestarts * Cardinality(left)
    BY <2>1, <2>4, <2>5
  <2> QED
    BY <1>1, <2>6 DEF IInv, AttemptsBounded
<1> QED
  BY <1>1, Invariance, PTL

=============================================================================
