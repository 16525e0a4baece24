-------------------------- MODULE RTSPServerProofs --------------------------
(***************************************************************************)
(* Theorems about RTSPServer for every set of sessions and every bound.    *)
(* clientCount is wrong as a count of clients: it also goes down for       *)
(* sessions that never played, and it counts a session that sends PLAY     *)
(* twice as two.  Each errs on one side only.  Until a session plays twice *)
(* the count never exceeds the number of playing sessions, so that a       *)
(* reader runs only while somebody plays; until one ends that never played *)
(* it is never below that number, so that who plays is served.  Whatever   *)
(* the count, a reader starts only when none is left that could have been  *)
(* cancelled.                                                              *)
(***************************************************************************)
EXTENDS RTSPServer, FiniteSetTheorems, SequenceTheorems, TLAPS

\* The types of the variables that decide when readers start and stop.
ControlType ==
  /\ session \in [Sessions -> {"none", "open", "setup", "play"}]
  /\ clientCount \in Int /\ cancelStream \in Readers \union {0}
  /\ cancelled \subseteq Readers /\ readers \in 0..MaxReaders
  /\ pc \in [Readers -> {"unused", "select", "capture", "format", "inject",
                         "write", "done"}]

\* Readers are numbered in the order they are started.
Numbered ==
  /\ cancelStream <= readers
  /\ \A r \in Readers : r > readers => pc[r] = "unused" /\ r \notin cancelled

\* Until a session sends PLAY a second time.
CountAtMostPlaying == replayed = FALSE => clientCount <= Cardinality(Playing)

CancelWhileCounted == cancelStream # 0 => clientCount >= 1

IInv ==
  /\ ControlType /\ Numbered /\ CountAtMostPlaying /\ CancelWhileCounted
  /\ NoStrayReader

(* The set of playing sessions is finite, so that it can be counted.       *)
LEMMA PlayingFinite == IsFiniteSet(Playing) /\ Cardinality(Playing) \in Nat
<1>1. Playing \subseteq Sessions
  BY DEF Playing
<1> QED
  BY <1>1, FS_Subset, FS_CardinalityType, RTSPAssumption DEF RTSPAssumption

HistoryType == unplayed \in BOOLEAN /\ replayed \in BOOLEAN

(* Only the end of a session writes unplayed, and only a PLAY replayed:    *)
(* both are disjunctions.                                                  *)
LEMMA HistoryStep == HistoryType /\ [Next]_vars => HistoryType'
<1> SUFFICES ASSUME HistoryType, [Next]_vars PROVE HistoryType'
  OBVIOUS
<1> USE DEF HistoryType
<1>1. ASSUME NEW s \in Sessions, OnSessionClose(s) PROVE HistoryType'
  BY <1>1, Zenon DEF OnSessionClose
<1>2. ASSUME NEW s \in Sessions, OnPlay(s) PROVE HistoryType'
  BY <1>2, Zenon DEF OnPlay
<1>3. ASSUME NEW s \in Sessions, SessionOpen(s) \/ OnSetup(s)
      PROVE  unplayed' = unplayed /\ replayed' = replayed
  BY <1>3 DEF SessionOpen, OnSetup
<1>4. ASSUME NEW r \in Readers, ReaderStep(r)
      PROVE  unplayed' = unplayed /\ replayed' = replayed
  BY <1>4 DEF ReaderStep, ReaderDone, ReaderTakes, ReaderCaptures,
     updateFormat, ReaderInjects, ReaderWrites, sessionVars
<1>5. ASSUME \/ OnDescribe \/ StopCancel \/ StopStep \/ Produce
             \/ SourceCloses \/ UNCHANGED vars
      PROVE  unplayed' = unplayed /\ replayed' = replayed
  BY <1>5 DEF OnDescribe, StopCancel, StopStep, StopJoin, StopStream,
     StopServer, Produce, SourceCloses, vars, sessionVars
<1> QED
  BY <1>1, <1>2, <1>3, <1>4, <1>5, Zenon DEF Next

(* Both histories are flags.                                               *)
LEMMA HistoryInvariance == Spec => []HistoryType
<1>1. Init => HistoryType
  BY Zenon DEF Init, HistoryType
<1> QED
  BY <1>1, HistoryStep, PTL DEF Spec

(* Every initial state satisfies the inductive invariant.                  *)
LEMMA InitIInv == Init => IInv
<1> SUFFICES ASSUME Init PROVE IInv
  OBVIOUS
<1>1. Playing = {}
  BY DEF Init, Playing
<1>2. Cardinality(Playing) = 0
  BY <1>1, FS_EmptySet
<1>3. ControlType /\ Numbered
  BY RTSPAssumption DEF Init, ControlType, Numbered, Readers, RTSPAssumption
<1> QED
  BY <1>2, <1>3 DEF Init, IInv, CountAtMostPlaying, CancelWhileCounted,
                    NoStrayReader, Live, Running

(* The steps of a reader start no reader and cancel none.                  *)
LEMMA ReaderPreserves ==
  ASSUME IInv, NEW r \in Readers, ReaderStep(r)
  PROVE  IInv'
<1>1. \E v \in {"select", "capture", "format", "inject", "write", "done"} :
        pc' = [pc EXCEPT ![r] = v]
  BY DEF ReaderStep, ReaderDone, ReaderTakes, ReaderCaptures, updateFormat,
         ReaderInjects, ReaderWrites
<1>2. /\ pc[r] \notin {"unused", "done"}
      /\ UNCHANGED <<session, replayed, clientCount, cancelStream, cancelled,
                     readers>>
  BY DEF ReaderStep, ReaderDone, ReaderTakes, ReaderCaptures, updateFormat,
         ReaderInjects, ReaderWrites, sessionVars, controlVars
<1>3. ControlType'
  BY <1>1, <1>2 DEF IInv, ControlType
<1>4. Numbered'
  BY <1>1, <1>2 DEF IInv, Numbered, ControlType
<1>5. NoStrayReader'
  BY <1>1, <1>2 DEF IInv, NoStrayReader, Live, Running, ControlType
<1>6. Playing' = Playing
  BY <1>2 DEF Playing
<1> QED
  BY <1>2, <1>3, <1>4, <1>5, <1>6
     DEF IInv, CountAtMostPlaying, CancelWhileCounted

(* Opening, setting up or describing changes nothing that is counted.      *)
LEMMA QuietPreserves ==
  ASSUME IInv,
         UNCHANGED <<replayed, clientCount, cancelStream, cancelled, readers,
                     pc>>,
         session' \in [Sessions -> {"none", "open", "setup", "play"}],
         Playing' = Playing
  PROVE  IInv'
<1>1. ControlType'
  BY DEF IInv, ControlType
<1>2. Numbered' /\ NoStrayReader'
  BY DEF IInv, Numbered, NoStrayReader, Live, Running
<1> QED
  BY <1>1, <1>2 DEF IInv, CountAtMostPlaying, CancelWhileCounted

(* A session's first PLAY adds one to both sides; a reader is started when *)
(* the count was zero, and then there is none that is not cancelled.       *)
LEMMA PlayPreserves ==
  ASSUME IInv, HistoryType, NEW s \in Sessions, OnPlay(s)
  PROVE  IInv'
<1>1. Playing' = Playing \union {s} /\ (session[s] # "play" => s \notin Playing)
  BY DEF OnPlay, Playing, IInv, ControlType
<1>2. session[s] # "play" => Cardinality(Playing') = Cardinality(Playing) + 1
  BY <1>1, PlayingFinite, FS_AddElement
<1>3. CountAtMostPlaying'
  <2>1. replayed' = FALSE => replayed = FALSE /\ session[s] # "play"
    BY Zenon DEF OnPlay, HistoryType
  <2> QED
    BY <1>2, <2>1, PlayingFinite
       DEF OnPlay, IInv, CountAtMostPlaying, ControlType
<1>4. CASE clientCount + 1 = 1
  <2>1. cancelStream = 0
    BY <1>4 DEF IInv, CancelWhileCounted, ControlType
  <2>2. \A r \in Readers : ~Live(r)
    BY <2>1 DEF IInv, NoStrayReader, Readers
  <2>3. /\ readers + 1 \in Readers /\ readers' = readers + 1
        /\ cancelStream' = readers + 1 /\ cancelled' = cancelled
        /\ pc' = [pc EXCEPT ![readers + 1] = "select"]
        /\ clientCount' = clientCount + 1
    BY <1>4, RTSPAssumption DEF OnPlay, startFrameReader, IInv, ControlType,
                                Readers, RTSPAssumption
  <2>4. ControlType'
    BY <2>3, RTSPAssumption DEF OnPlay, IInv, ControlType, Readers,
                                RTSPAssumption
  <2>5. Numbered'
    BY <2>3 DEF IInv, Numbered, ControlType, Readers
  <2>6. NoStrayReader'
    BY <2>2, <2>3 DEF IInv, ControlType, NoStrayReader, Live, Running
  <2>7. CancelWhileCounted'
    BY <1>4, <2>3 DEF CancelWhileCounted
  <2> QED
    BY <1>3, <2>4, <2>5, <2>6, <2>7 DEF IInv
<1>5. CASE clientCount + 1 # 1
  <2>1. UNCHANGED <<cancelStream, cancelled, pc, readers>>
    BY <1>5 DEF OnPlay
  <2>2. ControlType'
    BY <2>1 DEF OnPlay, IInv, ControlType
  <2>3. Numbered' /\ NoStrayReader'
    BY <2>1 DEF IInv, Numbered, NoStrayReader, Live, Running
  <2>4. CancelWhileCounted'
    BY <2>1 DEF OnPlay, IInv, CancelWhileCounted, ControlType
  <2> QED
    BY <1>3, <2>2, <2>3, <2>4 DEF IInv
<1> QED
  BY <1>4, <1>5

(* Forgetting the cancel function after calling it leaves no reader that   *)
(* could still be cancelled.                                               *)
LEMMA StopReaderPreserves ==
  ASSUME ControlType, Numbered, NoStrayReader, stopFrameReader
  PROVE  /\ cancelled' \subseteq Readers /\ cancelStream' = 0
         /\ Numbered' /\ NoStrayReader'
<1>1. cancelled' \subseteq Readers /\ cancelStream' = 0
  BY DEF ControlType, stopFrameReader
<1>2. Numbered'
  BY DEF ControlType, Numbered, stopFrameReader, Readers
<1>3. NoStrayReader'
  BY DEF ControlType, NoStrayReader, Live, Running, stopFrameReader, Readers
<1> QED
  BY <1>1, <1>2, <1>3

(* A close takes one from the count and at most one from those playing; at *)
(* zero the reader is cancelled.                                           *)
LEMMA ClosePreserves ==
  ASSUME IInv, NEW s \in Sessions, OnSessionClose(s)
  PROVE  IInv'
<1>1. Playing' = Playing \ {s}
  BY DEF OnSessionClose, Playing, IInv, ControlType
<1>2. /\ Cardinality(Playing') >= Cardinality(Playing) - 1
      /\ Cardinality(Playing') \in Nat
  <2>1. /\ IsFiniteSet(Playing')
        /\ Cardinality(Playing') = IF s \in Playing THEN Cardinality(Playing) - 1
                                   ELSE Cardinality(Playing)
    BY <1>1, PlayingFinite, FS_RemoveElement
  <2>2. Cardinality(Playing') \in Nat
    BY <2>1, FS_CardinalityType
  <2> QED
    BY <2>1, <2>2, PlayingFinite
<1>3. CountAtMostPlaying'
  BY <1>2, PlayingFinite
     DEF OnSessionClose, IInv, CountAtMostPlaying, ControlType
<1>4. CASE clientCount - 1 = 0
  <2>1. stopFrameReader
    BY <1>4 DEF OnSessionClose
  <2>2. /\ cancelled' \subseteq Readers /\ cancelStream' = 0
        /\ Numbered' /\ NoStrayReader'
    BY <2>1, StopReaderPreserves DEF IInv
  <2>3. ControlType'
    BY <2>1, <2>2 DEF OnSessionClose, stopFrameReader, IInv, ControlType
  <2> QED
    BY <1>3, <2>2, <2>3 DEF IInv, CancelWhileCounted
<1>5. CASE clientCount - 1 # 0
  <2>1. UNCHANGED <<cancelStream, cancelled, pc, readers>>
    BY <1>5 DEF OnSessionClose
  <2>2. ControlType'
    BY <2>1 DEF OnSessionClose, IInv, ControlType
  <2>3. Numbered' /\ NoStrayReader'
    BY <2>1 DEF IInv, Numbered, NoStrayReader, Live, Running
  <2>4. CancelWhileCounted'
    BY <1>5, <2>1 DEF OnSessionClose, IInv, CancelWhileCounted, ControlType
  <2> QED
    BY <1>3, <2>2, <2>3, <2>4 DEF IInv
<1> QED
  BY <1>4, <1>5

(* The inductive invariant is preserved by every step.                     *)
LEMMA StepIInv == IInv /\ HistoryType /\ [Next]_vars => IInv'
<1> SUFFICES ASSUME IInv, HistoryType, [Next]_vars PROVE IInv'
  OBVIOUS
<1>1. ASSUME NEW s \in Sessions, SessionOpen(s) \/ OnSetup(s) PROVE IInv'
  <2>1. /\ session' \in [Sessions -> {"none", "open", "setup", "play"}]
        /\ Playing' = Playing
    BY <1>1 DEF SessionOpen, OnSetup, IInv, ControlType, Playing
  <2> QED
    BY <1>1, <2>1, QuietPreserves
       DEF SessionOpen, OnSetup, controlVars, readerVars
<1>2. ASSUME NEW s \in Sessions, OnPlay(s) PROVE IInv'
  BY <1>2, PlayPreserves
<1>3. ASSUME NEW s \in Sessions, OnSessionClose(s) PROVE IInv'
  BY <1>3, ClosePreserves
<1>4. ASSUME NEW r \in Readers, ReaderStep(r) PROVE IInv'
  BY <1>4, ReaderPreserves
<1>5. CASE StopCancel
  <2>1. /\ cancelled' \subseteq Readers /\ cancelStream' = 0
        /\ Numbered' /\ NoStrayReader'
    BY <1>5, StopReaderPreserves DEF StopCancel, IInv
  <2>2. ControlType' /\ CountAtMostPlaying'
    BY <1>5, <2>1 DEF StopCancel, stopFrameReader, IInv, ControlType,
                      CountAtMostPlaying, Playing, sessionVars
  <2> QED
    BY <2>1, <2>2 DEF IInv, CancelWhileCounted
<1>6. CASE OnDescribe \/ StopStep \/ Produce \/ SourceCloses \/ UNCHANGED vars
  <2>1. UNCHANGED <<session, replayed, clientCount, cancelStream, cancelled,
                    readers, pc>>
    BY <1>6 DEF OnDescribe, StopStep, StopJoin, StopStream, StopServer,
       Produce, SourceCloses, vars, sessionVars, controlVars, readerVars
  <2> QED
    BY <2>1, QuietPreserves DEF Playing, IInv, ControlType
<1> QED
  BY <1>1, <1>2, <1>3, <1>4, <1>5, <1>6 DEF Next

(* The inductive invariant holds in every reachable state.                 *)
THEOREM Invariance == Spec => []IInv
  BY InitIInv, StepIInv, HistoryInvariance, PTL DEF Spec

\* The types of the variables that the units go through: those that are
\* Boolean, and the others.
FlagType ==
  /\ params \in [Readers -> BOOLEAN] /\ haveFormat \in BOOLEAN
  /\ sourceClosed \in BOOLEAN
  /\ rtp \in [au : Units \union {NoUnit}, params : BOOLEAN]

DataType ==
  /\ attached \in [Sessions -> Nat] /\ opens \in Nat
  /\ unit \in [Readers -> Units \union {NoUnit}]
  /\ local \in [Readers -> Nat]
  /\ stream \in Nat /\ streams \in Nat
  /\ source \in Seq(Units) /\ Len(source) <= SourceCap
  /\ produced \in 0..MaxAUs /\ announced \in 0..MaxAUs
  /\ stop \in {"idle", "wait", "stream", "server", "returned"}

(* Every step keeps the flags Boolean, and what is written well formed.    *)
LEMMA FlagStep == DataType /\ FlagType /\ [Next]_vars => FlagType'
<1> SUFFICES ASSUME DataType, FlagType, [Next]_vars PROVE FlagType'
  OBVIOUS
<1> USE DEF FlagType
<1>1. ASSUME NEW r \in Readers, ReaderCaptures(r) PROVE FlagType'
  <2>1. (unit[r].kind = "params") \in BOOLEAN
    OBVIOUS
  <2>2. params' = [params EXCEPT ![r] = unit[r].kind = "params"]
    BY <1>1, Zenon DEF ReaderCaptures
  <2>3. UNCHANGED <<haveFormat, sourceClosed, rtp>>
    BY <1>1, Zenon DEF ReaderCaptures, streamVars, sourceVars
  <2> QED
    BY <2>1, <2>2, <2>3, Zenon
<1>2. ASSUME NEW r \in Readers, updateFormat(r) PROVE FlagType'
  <2>1. haveFormat' \in BOOLEAN
    BY <1>2, Zenon DEF updateFormat
  <2>2. UNCHANGED <<params, sourceClosed, rtp>>
    BY <1>2, Zenon DEF updateFormat, sourceVars
  <2> QED
    BY <2>1, <2>2, Zenon
<1>3. ASSUME NEW r \in Readers, ReaderInjects(r) PROVE FlagType'
  <2>1. UNCHANGED <<haveFormat, sourceClosed, rtp>>
    BY <1>3, Zenon DEF ReaderInjects, streamVars, sourceVars
  <2> QED
    BY <1>3, <2>1, Zenon DEF ReaderInjects
<1>4. ASSUME NEW r \in Readers, ReaderWrites(r) PROVE FlagType'
  <2>1. [au |-> unit[r], params |-> params[r]]
          \in [au : Units \union {NoUnit}, params : BOOLEAN]
    BY Zenon DEF DataType
  <2>2. rtp' \in [au : Units \union {NoUnit}, params : BOOLEAN]
    BY <1>4, <2>1, Zenon DEF ReaderWrites
  <2>3. params' \in [Readers -> BOOLEAN]
    <3>1. params' = [params EXCEPT ![r] = FALSE]
      BY <1>4, Zenon DEF ReaderWrites
    <3> QED
      BY <3>1, Zenon
  <2>4. UNCHANGED <<haveFormat, sourceClosed>>
    BY <1>4, Zenon DEF ReaderWrites, streamVars, sourceVars
  <2> QED
    BY <2>2, <2>3, <2>4, Zenon
<1>5. CASE SourceCloses
  <2>1. UNCHANGED <<params, haveFormat, rtp>>
    BY <1>5, Zenon DEF SourceCloses, readerVars, streamVars
  <2>2. sourceClosed' = TRUE
    BY <1>5, Zenon DEF SourceCloses
  <2> QED
    BY <2>1, <2>2, Zenon
<1>6. ASSUME NEW s \in Sessions,
             SessionOpen(s) \/ OnSetup(s) \/ OnPlay(s) \/ OnSessionClose(s)
      PROVE  UNCHANGED <<params, haveFormat, sourceClosed, rtp>>
  BY <1>6 DEF SessionOpen, OnSetup, OnPlay, OnSessionClose, readerVars,
     streamVars, sourceVars
<1>7. ASSUME NEW r \in Readers, ReaderDone(r) \/ ReaderTakes(r)
      PROVE  UNCHANGED <<params, haveFormat, sourceClosed, rtp>>
  BY <1>7, Zenon DEF ReaderDone, ReaderTakes, streamVars, sourceVars
<1>8. ASSUME OnDescribe \/ StopCancel \/ StopStep \/ Produce \/ UNCHANGED vars
      PROVE  UNCHANGED <<params, haveFormat, sourceClosed, rtp>>
  BY <1>8 DEF OnDescribe, StopCancel, StopStep, StopJoin, StopStream,
     StopServer, Produce, vars, readerVars, streamVars, sourceVars
<1>9. (\/ \E s \in Sessions : SessionOpen(s) \/ OnSetup(s) \/ OnPlay(s)
                                \/ OnSessionClose(s)
       \/ \E r \in Readers : ReaderDone(r) \/ ReaderTakes(r)
       \/ OnDescribe \/ StopCancel \/ StopStep \/ Produce \/ UNCHANGED vars)
      => FlagType'
  BY <1>6, <1>7, <1>8, Zenon
<1> QED
  BY <1>1, <1>2, <1>3, <1>4, <1>5, <1>9, Zenon DEF Next, ReaderStep

(* Every step keeps the units well formed and the channel within its size. *)
LEMMA DataStep == ControlType /\ DataType /\ [Next]_vars => DataType'
<1> SUFFICES ASSUME ControlType, DataType, [Next]_vars PROVE DataType'
  OBVIOUS
<1> USE DEF DataType, sessionVars, readerVars, controlVars, streamVars, sourceVars
<1>1. ASSUME NEW s \in Sessions, SessionOpen(s) \/ OnSetup(s)
      PROVE  DataType'
  <2>1. CASE SessionOpen(s)
    BY <2>1 DEF SessionOpen
  <2>2. CASE OnSetup(s)
    BY <2>2 DEF OnSetup, initStream
  <2> QED
    BY <1>1, <2>1, <2>2
<1>2. ASSUME NEW s \in Sessions, OnPlay(s) \/ OnSessionClose(s)
      PROVE  DataType'
  BY <1>2 DEF OnPlay, OnSessionClose
<1>3. ASSUME NEW r \in Readers, ReaderTakes(r) PROVE DataType'
  <2>1. /\ Head(source) \in Units /\ Tail(source) \in Seq(Units)
        /\ Len(Tail(source)) = Len(source) - 1 /\ Len(source) \in Nat
    BY <1>3, HeadTailProperties, LenProperties DEF ReaderTakes
  <2>2. source' \in Seq(Units) /\ Len(source') <= SourceCap
    BY <1>3, <2>1, RTSPAssumption DEF ReaderTakes, RTSPAssumption
  <2>3. unit' \in [Readers -> Units \union {NoUnit}]
    BY <1>3, <2>1 DEF ReaderTakes
  <2> QED
    BY <1>3, <2>2, <2>3 DEF ReaderTakes
<1>4. ASSUME NEW r \in Readers, ReaderCaptures(r) PROVE DataType'
  <2>1. local' \in [Readers -> Nat]
    BY <1>4, Zenon DEF ReaderCaptures
  <2>2. UNCHANGED <<unit, attached, opens, stream, streams, source, produced,
                    announced, stop>>
    BY <1>4, Zenon DEF ReaderCaptures
  <2> QED
    BY <2>1, <2>2
<1>5. ASSUME NEW r \in Readers,
             ReaderDone(r) \/ updateFormat(r) \/ ReaderInjects(r)
      PROVE  DataType'
  BY <1>5 DEF ReaderDone, updateFormat, initStream, ReaderInjects
<1>6. ASSUME NEW r \in Readers, ReaderWrites(r) PROVE DataType'
  <2>1. UNCHANGED <<attached, opens, stream, streams, source,
                    produced, announced, stop>>
    BY <1>6, Zenon DEF ReaderWrites
  <2>2. /\ unit' = [unit EXCEPT ![r] = NoUnit]
        /\ local' = [local EXCEPT ![r] = 0]
    BY <1>6 DEF ReaderWrites
  <2> QED
    BY <2>1, <2>2
<1>7. CASE Produce
  <2>1. produced' \in 1..MaxAUs
    BY <1>7, RTSPAssumption DEF Produce, RTSPAssumption
  <2>2. \A k \in Kinds : [n |-> produced', kind |-> k] \in Units
    BY <2>1 DEF Units
  <2>3. \A u \in Units : /\ Append(source, u) \in Seq(Units)
                         /\ Len(Append(source, u)) = Len(source) + 1
    BY AppendProperties
  <2>4. Len(source) \in Nat
    BY LenProperties
  <2>5. source' \in Seq(Units) /\ Len(source') <= SourceCap
    <3>1. \/ source' = source
          \/ /\ Len(source) < SourceCap
             /\ \E u \in Units : source' = Append(source, u)
      BY <1>7, <2>2 DEF Produce
    <3>2. CASE source' = source
      BY <3>2
    <3>3. ASSUME NEW u \in Units, source' = Append(source, u),
                 Len(source) < SourceCap
          PROVE  source' \in Seq(Units) /\ Len(source') <= SourceCap
      <4>1. source' \in Seq(Units) /\ Len(source') = Len(source) + 1
        BY <2>3, <3>3
      <4> QED
        BY <2>4, <3>3, <4>1, RTSPAssumption DEF RTSPAssumption
    <3> QED
      BY <3>1, <3>2, <3>3
  <2>6. announced' = announced \/ announced' = produced'
    BY <1>7 DEF Produce
  <2>7. produced' \in 0..MaxAUs /\ announced' \in 0..MaxAUs
    BY <2>1, <2>6
  <2> QED
    BY <1>7, <2>5, <2>7 DEF Produce
<1>8. CASE OnDescribe \/ StopCancel \/ StopStep
  BY <1>8 DEF OnDescribe, initStream, StopCancel, StopStep, StopJoin,
     StopStream, StopServer, Stopped
<1>9. CASE SourceCloses \/ UNCHANGED vars
  <2>1. UNCHANGED <<unit, local, attached, opens, stream, streams, source,
                    produced, announced, stop>>
    BY <1>9, Zenon DEF SourceCloses, vars
  <2> QED
    BY <2>1
<1> QED
  BY <1>1, <1>2, <1>3, <1>4, <1>5, <1>6, <1>7, <1>8, <1>9
     DEF Next, ReaderStep

(* What every variable is of, and the size of the channel.                 *)
LEMMA DataInvariance == Spec => [](DataType /\ FlagType)
<1>1. Init => DataType /\ FlagType
  <2> SUFFICES ASSUME Init PROVE DataType /\ FlagType
    OBVIOUS
  <2>1. source \in Seq(Units) /\ Len(source) = 0
    BY EmptySeq DEF Init
  <2>2. DataType
    BY <2>1, RTSPAssumption DEF Init, DataType, RTSPAssumption
  <2>3. FlagType
    BY Zenon DEF Init, FlagType
  <2> QED
    BY <2>2, <2>3
<1>2. IInv /\ DataType /\ FlagType /\ [Next]_vars => DataType' /\ FlagType'
  BY DataStep, FlagStep DEF IInv
<1> QED
  BY Invariance, <1>1, <1>2, PTL DEF Spec

(* Every variable keeps to its type, and the channel to its capacity.      *)
THEOREM TypeCorrect == Spec => []TypeOK
<1>1. IInv /\ DataType /\ FlagType /\ HistoryType => TypeOK
  BY Zenon DEF IInv, ControlType, DataType, FlagType, HistoryType, TypeOK
<1> QED
  BY Invariance, DataInvariance, HistoryInvariance, <1>1, PTL

(* However sessions open, play, close and Stop interleave, a reader that   *)
(* nobody cancelled is the one s.cancelStream can still cancel.            *)
THEOREM ReaderIsNeverLost == Spec => []NoStrayReader
  BY Invariance, PTL DEF IInv

(* "The server starts consuming frames only when at least one client is    *)
(* connected", although clientCount is not the number of clients, until a  *)
(* session sends PLAY a second time: for any number of sessions, in any    *)
(* order, and whether or not they ever play.                               *)
THEOREM OnDemand == Spec => []ConsumesUnlessReplayed
<1>1. IInv /\ HistoryType => ConsumesUnlessReplayed
  <2> SUFFICES ASSUME IInv, HistoryType, ~replayed, NEW r \in Readers, Live(r)
               PROVE  Playing # {}
    BY DEF ConsumesUnlessReplayed
  <2>1. cancelStream # 0
    BY DEF IInv, NoStrayReader, Readers
  <2>2. replayed = FALSE
    BY Zenon DEF HistoryType
  <2>3. 1 <= Cardinality(Playing)
    BY <2>1, <2>2, PlayingFinite
       DEF IInv, CancelWhileCounted, CountAtMostPlaying, ControlType
  <2> QED
    BY <2>3, FS_EmptySet
<1> QED
  BY Invariance, HistoryInvariance, <1>1, PTL

\* While the server is up a session that is set up has a stream, and so has
\* everybody once a reader was started.
Served ==
  stop \in {"idle", "wait", "stream"} =>
    /\ \A s \in Sessions : session[s] \in {"setup", "play"} => stream # 0
    /\ readers > 0 => stream # 0

\* Until Stop, and as long as one reader did all the reading.
Alone == stop = "idle" /\ readers <= 1

\* Units travel in the order of their numbers.
Order ==
  /\ announced <= produced /\ rtp.au.n <= produced
  /\ \A r \in Readers : unit[r].n <= produced
  /\ \A i \in 1..Len(source) : source[i].n <= produced
  /\ \A i, j \in 1..Len(source) : i < j => source[i].n < source[j].n

\* The first unit with SPS and PPS that was put in the channel is on its way
\* to the format, or is in it.
FirstParams ==
  announced # 0 =>
    \/ haveFormat = TRUE
    \/ \E r \in Readers :
         pc[r] \in {"capture", "format"} /\ unit[r].kind = "params"
    \/ \E i \in 1..Len(source) :
         source[i].n = announced /\ source[i].kind = "params"

\* What a reader knows of the unit it has in hand.
InHand ==
  \A r \in Readers : LET later == announced # 0 /\ unit[r].n > announced IN
    /\ pc[r] = "format" => unit[r].kind = "params"
    /\ pc[r] \in {"capture", "inject"} /\ later => haveFormat = TRUE
    /\ pc[r] = "write" /\ unit[r].kind = "idr" /\ later => params[r] = TRUE

Written ==
  rtp.au.kind = "idr" /\ announced # 0 /\ rtp.au.n > announced
  => rtp.params = TRUE

DecodeInv == Alone => FirstParams /\ InHand /\ Written

(* The channel yields units in the order they were produced.               *)
LEMMA OrderStep == DataType /\ FlagType /\ Order /\ [Next]_vars => Order'
<1> SUFFICES ASSUME DataType, FlagType, Order, [Next]_vars PROVE Order'
  OBVIOUS
<1> USE DEF Order
<1>1. produced \in Nat /\ announced \in Nat /\ Len(source) \in Nat
  BY LenProperties, RTSPAssumption DEF DataType, RTSPAssumption
<1>2. \A u \in Units \union {NoUnit} : u.n \in Nat
  BY DEF Units, NoUnit
<1>3. ASSUME UNCHANGED <<source, produced, announced, rtp, unit>> PROVE Order'
  BY <1>3
<1>4. ASSUME NEW r \in Readers, ReaderTakes(r) PROVE Order'
  <2>1. /\ source # <<>> /\ source' = Tail(source)
        /\ unit' = [unit EXCEPT ![r] = Head(source)]
        /\ UNCHANGED <<produced, announced, rtp>>
    BY <1>4 DEF ReaderTakes
  <2>2. /\ Len(source') = Len(source) - 1
        /\ \A i \in 1..Len(source') : source'[i] = source[i + 1]
        /\ Head(source) = source[1] /\ 1 \in 1..Len(source)
    BY <1>1, <2>1, HeadTailProperties, EmptySeq DEF DataType
  <2>3. \A q \in Readers : unit'[q].n <= produced
    BY <2>1, <2>2 DEF DataType
  <2> HIDE DEF Order
  <2>4. \A i \in 1..Len(source') :
          /\ i + 1 \in 1..Len(source) /\ source'[i] = source[i + 1]
    BY <1>1, <2>2
  <2>5. \A i \in 1..Len(source') : source'[i].n <= produced
    BY <2>4 DEF Order
  <2>6. \A i, j \in 1..Len(source') : i < j => source'[i].n < source'[j].n
    BY <1>1, <2>2, <2>4 DEF Order
  <2> QED
    BY <2>1, <2>3, <2>5, <2>6 DEF Order
<1>5. ASSUME NEW r \in Readers, ReaderWrites(r) PROVE Order'
  <2>1. /\ unit' = [unit EXCEPT ![r] = NoUnit]
        /\ rtp' = rtp \/ rtp'.au = unit[r]
        /\ UNCHANGED <<source, produced, announced>>
    BY <1>5 DEF ReaderWrites, sourceVars
  <2> QED
    BY <1>1, <2>1 DEF DataType, NoUnit
<1>6. CASE Produce
  <2>1. /\ produced' = produced + 1 /\ produced' \in 1..MaxAUs
        /\ UNCHANGED <<rtp, unit>>
    BY <1>1, <1>6, RTSPAssumption DEF Produce, readerVars, RTSPAssumption
  <2>2. announced' = announced \/ announced' = produced'
    BY <1>6 DEF Produce
  <2>3. announced' <= produced'
    BY <1>1, <2>1, <2>2
  <2>4. rtp.au.n \in Nat /\ \A r \in Readers : unit[r].n \in Nat
    BY <1>2 DEF DataType, FlagType
  <2>5. \A i \in 1..Len(source) : source[i].n \in Nat
    BY <1>2, ElementOfSeq DEF DataType
  <2>6. rtp'.au.n <= produced' /\ \A r \in Readers : unit'[r].n <= produced'
    BY <1>1, <2>1, <2>4
  <2>7. CASE source' = source
    BY <1>1, <2>1, <2>3, <2>5, <2>6, <2>7
  <2>8. ASSUME NEW u \in Units, u.n = produced', source' = Append(source, u)
        PROVE  Order'
    <3>1. /\ Len(source') = Len(source) + 1 /\ source'[Len(source) + 1] = u
          /\ \A i \in 1..Len(source) : source'[i] = source[i]
      BY <2>8, AppendProperties DEF DataType
    <3>2. \A i \in 1..Len(source') :
            \/ i \in 1..Len(source) /\ source'[i] = source[i]
            \/ i = Len(source) + 1 /\ source'[i] = u
      BY <1>1, <3>1
    <3>3. \A i \in 1..Len(source) : source'[i].n < produced'
      BY <1>1, <2>1, <2>5, <3>1
    <3>4. \A i \in 1..Len(source') : source'[i].n <= produced'
      BY <1>1, <2>1, <2>5, <2>8, <3>2, <3>3
    <3>5. ASSUME NEW i \in 1..Len(source'), NEW j \in 1..Len(source'), i < j
          PROVE  source'[i].n < source'[j].n
      <4>1. i \in 1..Len(source)
        BY <1>1, <3>1, <3>5
      <4>2. CASE j \in 1..Len(source)
        BY <3>1, <3>5, <4>1, <4>2
      <4>3. CASE source'[j] = u
        BY <2>8, <3>3, <4>1, <4>3
      <4> QED
        BY <3>2, <4>2, <4>3
    <3> QED
      BY <2>3, <2>6, <3>4, <3>5
  <2>9. \/ source' = source
        \/ \E k \in Kinds :
             source' = Append(source, [n |-> produced', kind |-> k])
    BY <1>6 DEF Produce
  <2>10. \A k \in Kinds : LET u == [n |-> produced', kind |-> k] IN
           u \in Units /\ u.n = produced'
    BY <2>1 DEF Units
  <2> QED
    BY <2>7, <2>8, <2>9, <2>10
<1>7. ASSUME NEW s \in Sessions,
             SessionOpen(s) \/ OnSetup(s) \/ OnPlay(s) \/ OnSessionClose(s)
      PROVE  UNCHANGED <<source, produced, announced, rtp, unit>>
  BY <1>7 DEF SessionOpen, OnSetup, OnPlay, OnSessionClose, readerVars,
     sourceVars
<1>8. ASSUME NEW r \in Readers,
             \/ ReaderDone(r) \/ ReaderCaptures(r) \/ updateFormat(r)
             \/ ReaderInjects(r)
      PROVE  UNCHANGED <<source, produced, announced, rtp, unit>>
  BY <1>8, Zenon DEF ReaderDone, ReaderCaptures, updateFormat, ReaderInjects,
     sourceVars
<1>9. ASSUME \/ OnDescribe \/ StopCancel \/ StopStep \/ SourceCloses
             \/ UNCHANGED vars
      PROVE  UNCHANGED <<source, produced, announced, rtp, unit>>
  BY <1>9 DEF OnDescribe, StopCancel, StopStep, StopJoin, StopStream,
     StopServer, SourceCloses, vars, readerVars, sourceVars
<1> HIDE DEF Order
<1> QED
  BY <1>3, <1>4, <1>5, <1>6, <1>7, <1>8, <1>9, Zenon DEF Next, ReaderStep

(* Order holds in every reachable state.                                   *)
LEMMA OrderInvariance == Spec => []Order
<1>1. Init => Order
  <2> SUFFICES ASSUME Init PROVE Order
    OBVIOUS
  <2>1. Len(source) = 0
    BY EmptySeq DEF Init
  <2> QED
    BY <2>1 DEF Init, Order, NoUnit
<1> QED
  BY <1>1, OrderStep, DataInvariance, PTL DEF Spec

(* No step takes the stream from a session or a reader before Stop does.   *)
LEMMA ServedStep == IInv /\ DataType /\ Served /\ [Next]_vars => Served'
<1> SUFFICES ASSUME IInv, DataType, Served, [Next]_vars PROVE Served'
  OBVIOUS
<1> USE DEF Served, IInv, ControlType, DataType, sessionVars, readerVars,
            controlVars, streamVars, sourceVars
<1>1. ASSUME NEW s \in Sessions, SessionOpen(s) \/ OnSetup(s) PROVE Served'
  BY <1>1 DEF SessionOpen, OnSetup, initStream
<1>2. ASSUME NEW s \in Sessions, OnPlay(s) PROVE Served'
  <2>1. /\ session' = [session EXCEPT ![s] = "play"]
        /\ session[s] \in {"setup", "play"}
        /\ stream' = stream /\ stop' = stop
    BY <1>2 DEF OnPlay
  <2> QED
    BY <2>1
<1>3. ASSUME NEW s \in Sessions, OnSessionClose(s) PROVE Served'
  BY <1>3 DEF OnSessionClose, stopFrameReader
<1>4. ASSUME NEW r \in Readers, ReaderStep(r) PROVE Served'
  <2>1. /\ UNCHANGED <<session, readers, stop>>
        /\ stream' = stream \/ stream' = streams + 1
    BY <1>4 DEF ReaderStep, ReaderDone, ReaderTakes, ReaderCaptures,
                updateFormat, initStream, ReaderInjects, ReaderWrites
  <2> QED
    BY <2>1
<1>5. CASE OnDescribe
  BY <1>5 DEF OnDescribe, initStream
<1>6. CASE StopCancel
  BY <1>6 DEF StopCancel, stopFrameReader, Stopped
<1>7. CASE StopJoin
  BY <1>7 DEF StopJoin, Stopped
<1>8. CASE StopStream \/ StopServer
  <2>1. stop' \notin {"idle", "wait", "stream"}
    BY <1>8 DEF StopStream, StopServer, Stopped
  <2> QED
    BY <2>1
<1>9. CASE Produce \/ SourceCloses \/ UNCHANGED vars
  <2>1. UNCHANGED <<session, readers, stream, stop>>
    BY <1>9, Zenon DEF Produce, SourceCloses, vars
  <2> QED
    BY <2>1
<1> QED
  BY <1>1, <1>2, <1>3, <1>4, <1>5, <1>6, <1>7, <1>8, <1>9 DEF Next, StopStep

(* Every step of a lone reader, and of everybody else, keeps SPS and PPS   *)
(* ahead of the IDR pictures that came after them.                         *)
LEMMA DecodeStep ==
  /\ IInv /\ DataType /\ FlagType /\ Order /\ Served /\ DecodeInv /\ [Next]_vars
  => DecodeInv'
<1> SUFFICES ASSUME IInv, DataType, FlagType, Order, Served, DecodeInv,
                    [Next]_vars, Alone'
             PROVE  FirstParams' /\ InHand' /\ Written'
  BY DEF DecodeInv
<1>1. /\ readers \in Nat /\ MaxReaders \in Nat /\ pc \in [Readers -> {"unused",
           "select", "capture", "format", "inject", "write", "done"}]
      /\ Readers = 1..MaxReaders
      /\ \A r \in Readers : r > readers => pc[r] = "unused"
  BY RTSPAssumption DEF IInv, ControlType, Numbered, RTSPAssumption, Readers
<1>2. ASSUME DecodeInv, Alone, UNCHANGED <<announced, unit, params, haveFormat,
                                           source, rtp>>,
             \A r \in Readers :
               pc'[r] = pc[r] \/ (pc[r] \in {"unused", "select"}
                                  /\ pc'[r] \in {"select", "done"})
      PROVE  FirstParams' /\ InHand' /\ Written'
  <2>1. FirstParams /\ InHand /\ Written
    BY <1>2 DEF DecodeInv
  <2>2. FirstParams'
    BY <1>2, <2>1 DEF FirstParams
  <2>3. InHand'
    BY <1>2, <2>1 DEF InHand
  <2> QED
    BY <1>2, <2>1, <2>2, <2>3, Zenon DEF Written
<1>a. ASSUME NEW s \in Sessions,
             SessionOpen(s) \/ OnSetup(s) \/ OnPlay(s) \/ OnSessionClose(s)
      PROVE  FirstParams' /\ InHand' /\ Written'
  <2>1. /\ UNCHANGED <<stop, announced, unit, params, haveFormat, source, rtp>>
        /\ \/ UNCHANGED <<readers, pc>>
           \/ /\ readers' = readers + 1 /\ readers < MaxReaders
              /\ pc' = [pc EXCEPT ![readers + 1] = "select"]
    BY <1>a DEF SessionOpen, OnSetup, OnPlay, startFrameReader, OnSessionClose,
         stopFrameReader, sessionVars, readerVars, controlVars, streamVars,
         sourceVars
  <2>2. Alone
    BY <1>1, <2>1 DEF Alone
  <2>3. \A r \in Readers :
          pc'[r] = pc[r] \/ (pc[r] = "unused" /\ pc'[r] = "select")
    BY <1>1, <2>1
  <2> QED
    BY <1>2, <2>1, <2>2, <2>3
<1>b. ASSUME NEW r \in Readers, ReaderStep(r)
      PROVE  FirstParams' /\ InHand' /\ Written'
  <2>1. UNCHANGED <<stop, readers, announced>>
    BY <1>b, Zenon DEF ReaderStep, ReaderDone, ReaderTakes, ReaderCaptures,
         updateFormat, ReaderInjects, ReaderWrites, controlVars, sourceVars
  <2>2. Alone
    BY <2>1 DEF Alone
  <2>3. pc[r] # "unused" /\ pc[r] # "done"
    BY <1>b DEF ReaderStep, ReaderDone, ReaderTakes, ReaderCaptures,
         updateFormat, ReaderInjects, ReaderWrites
  <2>4. /\ r = 1 /\ readers = 1
        /\ \A q \in Readers : q # r => pc[q] = "unused"
    BY <1>1, <2>2, <2>3 DEF Alone
  <2>5. stream # 0
    BY <2>2, <2>4 DEF Served, Alone
  <2>6. FirstParams /\ InHand /\ Written
    BY <2>2 DEF DecodeInv
  <2>7. CASE ReaderDone(r)
    <3>1. /\ pc[r] = "select" /\ pc' = [pc EXCEPT ![r] = "done"]
          /\ UNCHANGED <<unit, params, haveFormat, source, rtp>>
      BY <2>7, Zenon DEF ReaderDone, streamVars, sourceVars
    <3>2. \A q \in Readers :
            pc'[q] = pc[q] \/ (pc[q] = "select" /\ pc'[q] = "done")
      BY <1>1, <3>1
    <3> QED
      BY <1>2, <2>1, <2>2, <3>1, <3>2
  <2>8. CASE ReaderTakes(r)
    <3>1. /\ pc[r] = "select" /\ source # <<>>
          /\ pc' = [pc EXCEPT ![r] = "capture"]
          /\ unit' = [unit EXCEPT ![r] = Head(source)] /\ source' = Tail(source)
          /\ UNCHANGED <<params, haveFormat, rtp>>
      BY <2>8, Zenon DEF ReaderTakes, streamVars
    <3>2. /\ pc'[r] = "capture" /\ unit'[r] = Head(source)
          /\ \A q \in Readers : q # r => pc'[q] = "unused"
      BY <1>1, <2>4, <3>1 DEF DataType
    <3>3. /\ Head(source) = source[1] /\ Len(source) \in Nat /\ Len(source) >= 1
          /\ Len(source') = Len(source) - 1
          /\ \A i \in 1..Len(source') : source'[i] = source[i + 1]
      BY <3>1, HeadTailProperties, LenProperties, EmptySeq DEF DataType
    <3>4. \A i \in 1..Len(source) : source[i].n \in Nat
      <4>1. \A u \in Units : u.n \in Nat
        BY DEF Units
      <4> QED
        BY <4>1, ElementOfSeq DEF DataType
    <3>5. announced \in Nat
      BY RTSPAssumption DEF DataType, RTSPAssumption
    <3>6. announced # 0 =>
            \/ haveFormat = TRUE
            \/ \E i \in 1..Len(source) :
                 source[i].n = announced /\ source[i].kind = "params"
      BY <2>4, <2>6, <3>1 DEF FirstParams
    <3>7. CASE announced = 0 \/ haveFormat = TRUE
      BY <2>1, <2>6, <3>1, <3>2, <3>7, Zenon DEF FirstParams, InHand, Written
    <3>8. ASSUME NEW i \in 1..Len(source), source[i].n = announced,
                 source[i].kind = "params"
          PROVE  FirstParams' /\ InHand'
      <4>1. CASE i = 1
        <5>1. unit'[r].kind = "params" /\ unit'[r].n = announced
          BY <3>2, <3>3, <3>8, <4>1
        <5>2. FirstParams'
          BY <3>2, <5>1 DEF FirstParams
        <5>3. ~(unit'[r].n > announced')
          BY <2>1, <3>5, <5>1
        <5> QED
          BY <3>2, <5>2, <5>3 DEF InHand
      <4>2. CASE i # 1
        <5>1. /\ i - 1 \in 1..Len(source') /\ source'[i - 1] = source[i]
              /\ 1 \in 1..Len(source) /\ 1 < i
          BY <3>3, <4>2
        <5>2. FirstParams'
          BY <2>1, <3>8, <5>1 DEF FirstParams
        <5>3. source[1].n < announced
          BY <3>8, <5>1 DEF Order
        <5>4. ~(unit'[r].n > announced')
          BY <2>1, <3>2, <3>3, <3>4, <3>5, <5>1, <5>3
        <5> QED
          BY <3>2, <5>2, <5>4 DEF InHand
      <4> QED
        BY <4>1, <4>2
    <3>9. Written'
      BY <2>1, <2>6, <3>1, Zenon DEF Written
    <3> QED
      BY <3>6, <3>7, <3>8, <3>9
  <2>9. CASE ReaderCaptures(r)
    <3>1. /\ pc[r] = "capture"
          /\ UNCHANGED <<unit, haveFormat, source, rtp>>
      BY <2>9, Zenon DEF ReaderCaptures, streamVars, sourceVars
    <3>2. pc'[r] = IF unit[r].kind = "params" THEN "format"
                   ELSE IF unit[r].kind = "idr" THEN "inject" ELSE "write"
      BY <1>1, <2>5, <2>9 DEF ReaderCaptures
    <3>3. \A q \in Readers : q # r => pc'[q] = "unused"
      BY <1>1, <2>4, <2>9 DEF ReaderCaptures
    <3>4. announced # 0 /\ unit[r].n > announced => haveFormat = TRUE
      BY <2>6, <3>1 DEF InHand
    <3>5. FirstParams'
      BY <2>1, <2>4, <2>6, <3>1, <3>2 DEF FirstParams
    <3>6. InHand'
      BY <2>1, <3>1, <3>2, <3>3, <3>4 DEF InHand
    <3> QED
      BY <2>1, <2>6, <3>1, <3>5, <3>6, Zenon DEF Written
  <2>10. CASE updateFormat(r)
    <3>1. /\ pc[r] = "format" /\ pc' = [pc EXCEPT ![r] = "write"]
          /\ haveFormat' = TRUE /\ UNCHANGED <<unit, params, rtp>>
      BY <2>10, Zenon DEF updateFormat
    <3>2. /\ pc'[r] = "write" /\ unit'[r].kind = "params"
          /\ \A q \in Readers : q # r => pc'[q] = "unused"
      BY <1>1, <2>4, <2>6, <3>1 DEF InHand
    <3>3. InHand'
      BY <3>2 DEF InHand
    <3> QED
      BY <2>1, <2>6, <3>1, <3>3, Zenon DEF FirstParams, Written
  <2>11. CASE ReaderInjects(r)
    <3>1. /\ pc[r] = "inject" /\ pc' = [pc EXCEPT ![r] = "write"]
          /\ params' = [params EXCEPT ![r] = haveFormat]
          /\ UNCHANGED <<unit, haveFormat, source, rtp>>
      BY <2>11, Zenon DEF ReaderInjects, streamVars, sourceVars
    <3>2. /\ pc'[r] = "write"
          /\ \A q \in Readers : q # r => pc'[q] = "unused"
      BY <1>1, <2>4, <3>1
    <3>3. announced # 0 /\ unit[r].n > announced => haveFormat = TRUE
      BY <2>6, <3>1 DEF InHand
    <3>4. params'[r] = haveFormat
      BY <3>1, Zenon DEF FlagType
    <3>5. InHand'
      BY <2>1, <3>1, <3>2, <3>3, <3>4 DEF InHand
    <3>6. FirstParams'
      BY <2>1, <2>4, <2>6, <3>1 DEF FirstParams
    <3> QED
      BY <2>1, <2>6, <3>1, <3>5, <3>6, Zenon DEF Written
  <2>12. CASE ReaderWrites(r)
    <3>1. /\ pc[r] = "write" /\ pc' = [pc EXCEPT ![r] = "select"]
          /\ UNCHANGED <<haveFormat, source>>
      BY <2>12, Zenon DEF ReaderWrites, streamVars, sourceVars
    <3>2. rtp' = rtp \/ rtp' = [au |-> unit[r], params |-> params[r]]
      BY <2>12, Zenon DEF ReaderWrites
    <3>3. /\ pc'[r] = "select"
          /\ \A q \in Readers : q # r => pc'[q] = "unused"
      BY <1>1, <2>4, <3>1
    <3>4. Written'
      <4>1. CASE rtp' = rtp
        BY <2>1, <2>6, <4>1, Zenon DEF Written
      <4>2. CASE rtp' = [au |-> unit[r], params |-> params[r]]
        <5>1. rtp'.au = unit[r] /\ rtp'.params = params[r]
          BY <4>2
        <5>2. unit[r].kind = "idr" /\ announced # 0 /\ unit[r].n > announced
              => params[r] = TRUE
          BY <2>6, <3>1 DEF InHand
        <5> QED
          BY <2>1, <5>1, <5>2, Zenon DEF Written
      <4> QED
        BY <3>2, <4>1, <4>2
    <3>5. FirstParams'
      BY <2>1, <2>4, <2>6, <3>1 DEF FirstParams
    <3>6. InHand'
      BY <3>3 DEF InHand
    <3> QED
      BY <3>4, <3>5, <3>6
  <2> QED
    BY <1>b, <2>7, <2>8, <2>9, <2>10, <2>11, <2>12, Zenon DEF ReaderStep
<1>c. CASE Produce
  <2>1. /\ produced' = produced + 1 /\ produced' \in 1..MaxAUs
        /\ UNCHANGED <<stop, readers, pc, unit, params, haveFormat, rtp>>
    BY <1>c, RTSPAssumption
       DEF Produce, readerVars, controlVars, streamVars, DataType,
           RTSPAssumption
  <2>2. FirstParams /\ InHand /\ Written
    BY <2>1 DEF DecodeInv, Alone
  <2>3. CASE UNCHANGED <<source, announced>>
    BY <2>1, <2>2, <2>3, Zenon DEF FirstParams, InHand, Written
  <2>4. ASSUME NEW k \in Kinds,
               source' = Append(source, [n |-> produced', kind |-> k]),
               announced' = IF announced = 0 /\ k = "params" THEN produced'
                                                             ELSE announced
        PROVE  FirstParams' /\ InHand' /\ Written'
    <3> DEFINE u == [n |-> produced', kind |-> k]
    <3>1. u \in Units /\ u.n = produced' /\ u.kind = k
      BY <2>1 DEF Units
    <3>2. source' = Append(source, u)
      BY <2>4
    <3> HIDE DEF u
    <3>3. /\ Len(source') = Len(source) + 1 /\ Len(source) \in Nat
          /\ \A i \in 1..Len(source) : source'[i] = source[i]
          /\ source'[Len(source) + 1] = u
      BY <3>1, <3>2, AppendProperties, LenProperties DEF DataType
    <3>4. \A i \in 1..Len(source) :
            i \in 1..Len(source') /\ source'[i] = source[i]
      BY <3>3
    <3>5. Len(source) + 1 \in 1..Len(source')
      BY <3>3
    <3>6. CASE announced' = announced
      <4>1. FirstParams'
        BY <2>1, <2>2, <3>4, <3>6 DEF FirstParams
      <4> QED
        BY <2>1, <2>2, <3>6, <4>1, Zenon DEF InHand, Written
    <3>7. CASE k = "params" /\ announced' = produced'
      <4>1. FirstParams'
        BY <3>1, <3>3, <3>5, <3>7 DEF FirstParams
      <4>2. /\ produced \in Nat /\ rtp.au.n \in Nat
            /\ \A r \in Readers : unit[r].n \in Nat
        BY RTSPAssumption DEF DataType, FlagType, Units, NoUnit, RTSPAssumption
      <4>3. /\ ~(rtp'.au.n > announced')
            /\ \A r \in Readers : ~(unit'[r].n > announced')
        BY <2>1, <3>7, <4>2 DEF Order
      <4>4. InHand' /\ Written'
        BY <2>1, <2>2, <4>3 DEF InHand, Written
      <4> QED
        BY <4>1, <4>4
    <3> QED
      BY <2>4, <3>6, <3>7
  <2> QED
    BY <1>c, <2>3, <2>4 DEF Produce
<1>d. CASE OnDescribe \/ SourceCloses \/ UNCHANGED vars
  <2>1. UNCHANGED <<stop, readers, pc, unit, params, haveFormat, source,
                    announced, rtp>>
    BY <1>d, Zenon DEF OnDescribe, SourceCloses, vars, readerVars, controlVars,
                streamVars, sourceVars
  <2>2. Alone
    BY <2>1 DEF Alone
  <2> QED
    BY <1>2, <2>1, <2>2
<1>e. ~StopCancel /\ ~StopStep
  BY DEF StopCancel, StopStep, StopJoin, StopStream, StopServer, Stopped, Alone
<1> QED
  BY <1>a, <1>b, <1>c, <1>d, <1>e, Zenon DEF Next

(* "Inject SPS+PPS before IDR frames": for any number of sessions, units   *)
(* and any capacity of the channel, and whatever the channel began with,   *)
(* while one reader does all the reading no IDR picture is written without *)
(* SPS and PPS that a unit before it in the channel carried.               *)
THEOREM DecodableUntilSecondReader == Spec => []IDRIsDecodable
<1>1. Init => Served /\ DecodeInv
  <2> SUFFICES ASSUME Init PROVE Served /\ DecodeInv
    OBVIOUS
  <2>1. Served
    BY DEF Init, Served
  <2>2. FirstParams /\ InHand
    BY DEF Init, FirstParams, InHand
  <2>3. Written
    BY DEF Init, Written, NoUnit
  <2> QED
    BY <2>1, <2>2, <2>3 DEF DecodeInv
<1>2. /\ IInv /\ DataType /\ FlagType /\ Order /\ Served /\ DecodeInv
      /\ [Next]_vars
      => Served' /\ DecodeInv'
  BY ServedStep, DecodeStep
<1>3. DecodeInv => IDRIsDecodable
  BY Zenon DEF DecodeInv, Alone, Written, IDRIsDecodable
<1> QED
  BY Invariance, DataInvariance, OrderInvariance, <1>1, <1>2, <1>3, PTL DEF Spec

\* While Stop was not called the count is positive exactly when there is a
\* reader to cancel; and it is at least the number of players until a session
\* ends that never played.
CountAtLeastPlaying == unplayed = FALSE => clientCount >= Cardinality(Playing)

CountHasReader == stop = "idle" /\ clientCount >= 1 => cancelStream # 0

\* The reader s.cancelStream stands for ends only with the hub's channel.
HeldRuns ==
  cancelStream # 0 =>
    /\ cancelStream \notin cancelled /\ pc[cancelStream] # "unused"
    /\ pc[cancelStream] = "done" => sourceClosed = TRUE

ServeInv == CountAtLeastPlaying /\ CountHasReader /\ HeldRuns

(* A PLAY adds one to the count and at most one to those playing, and      *)
(* starts a reader when the count was zero.                                *)
LEMMA PlayServes ==
  ASSUME IInv, ServeInv, NEW s \in Sessions, OnPlay(s)
  PROVE  ServeInv'
<1>1. /\ Playing' = Playing \union {s}
      /\ clientCount' = clientCount + 1 /\ UNCHANGED <<unplayed, sourceClosed>>
  BY DEF OnPlay, Playing, IInv, ControlType, sourceVars
<1>2. \/ Playing' = Playing
      \/ Cardinality(Playing') = Cardinality(Playing) + 1
  <2>1. s \in Playing => Playing' = Playing
    BY <1>1
  <2>2. s \notin Playing => Cardinality(Playing') = Cardinality(Playing) + 1
    BY <1>1, PlayingFinite, FS_AddElement
  <2> QED
    BY <2>1, <2>2
<1>3. CountAtLeastPlaying'
  <2>1. \/ Cardinality(Playing') = Cardinality(Playing)
        \/ Cardinality(Playing') = Cardinality(Playing) + 1
    BY <1>2
  <2> QED
    BY <1>1, <2>1, PlayingFinite
       DEF ServeInv, CountAtLeastPlaying, IInv, ControlType
<1>4. CASE clientCount + 1 = 1
  <2>1. /\ readers + 1 \in Readers /\ cancelStream' = readers + 1
        /\ cancelled' = cancelled /\ pc' = [pc EXCEPT ![readers + 1] = "select"]
    BY <1>4, RTSPAssumption DEF OnPlay, startFrameReader, IInv, ControlType,
                                Readers, RTSPAssumption
  <2>2. readers + 1 \notin cancelled /\ readers + 1 # 0
    BY <2>1 DEF IInv, ControlType, Numbered
  <2>3. pc'[readers + 1] = "select"
    BY <2>1 DEF IInv, ControlType
  <2> QED
    BY <1>3, <2>1, <2>2, <2>3 DEF ServeInv, CountHasReader, HeldRuns
<1>5. CASE clientCount + 1 # 1
  <2>1. UNCHANGED <<cancelStream, cancelled, pc, stop>>
    BY <1>5 DEF OnPlay
  <2>2. clientCount' >= 1 => clientCount >= 1
    BY <1>1, <1>5 DEF IInv, ControlType
  <2> QED
    BY <1>1, <1>3, <2>1, <2>2 DEF ServeInv, CountHasReader, HeldRuns
<1> QED
  BY <1>4, <1>5

(* A player that leaves takes one from both sides; at zero the reader is   *)
(* given up.                                                               *)
LEMMA CloseServes ==
  ASSUME IInv, HistoryType, ServeInv, NEW s \in Sessions, OnSessionClose(s)
  PROVE  ServeInv'
<1>1. /\ Playing' = Playing \ {s} /\ clientCount' = clientCount - 1
      /\ UNCHANGED <<stop, sourceClosed>>
  BY DEF OnSessionClose, Playing, IInv, ControlType, sourceVars
<1>2. CountAtLeastPlaying'
  <2>1. unplayed' = FALSE => unplayed = FALSE /\ session[s] = "play"
    BY Zenon DEF OnSessionClose, HistoryType
  <2>2. session[s] = "play" => s \in Playing
    BY DEF Playing
  <2>3. s \in Playing => Cardinality(Playing') = Cardinality(Playing) - 1
    BY <1>1, PlayingFinite, FS_RemoveElement
  <2> QED
    BY <1>1, <2>1, <2>2, <2>3, PlayingFinite
       DEF ServeInv, CountAtLeastPlaying, IInv, ControlType
<1>3. CASE clientCount - 1 = 0
  BY <1>1, <1>2, <1>3
  DEF OnSessionClose, stopFrameReader, ServeInv, CountHasReader, HeldRuns
<1>4. CASE clientCount - 1 # 0
  <2>1. UNCHANGED <<cancelStream, cancelled, pc>>
    BY <1>4 DEF OnSessionClose
  <2>2. clientCount' >= 1 => clientCount >= 1
    BY <1>1 DEF IInv, ControlType
  <2> QED
    BY <1>1, <1>2, <2>1, <2>2 DEF ServeInv, CountHasReader, HeldRuns
<1> QED
  BY <1>3, <1>4

(* A reader ends only when it is cancelled or the hub closed the channel.  *)
LEMMA ReaderServes ==
  ASSUME IInv, FlagType, ServeInv, NEW r \in Readers, ReaderStep(r)
  PROVE  ServeInv'
<1>1. /\ UNCHANGED <<session, unplayed, clientCount, cancelStream, cancelled,
                     stop, sourceClosed>>
      /\ \E v \in {"select", "capture", "format", "inject", "write", "done"} :
           /\ pc' = [pc EXCEPT ![r] = v]
           /\ v = "done" => r \in cancelled \/ sourceClosed
  BY DEF ReaderStep, ReaderDone, ReaderTakes, ReaderCaptures, updateFormat,
         ReaderInjects, ReaderWrites, sessionVars, controlVars, sourceVars
<1>2. sourceClosed => sourceClosed = TRUE
  BY Zenon DEF FlagType
<1>3. HeldRuns'
  <2>1. cancelStream # 0 => pc'[cancelStream] # "unused"
    BY <1>1 DEF ServeInv, HeldRuns, IInv, ControlType
  <2>2. cancelStream # 0 /\ pc'[cancelStream] = "done" => sourceClosed = TRUE
    BY <1>1, <1>2 DEF ServeInv, HeldRuns, IInv, ControlType
  <2> QED
    BY <1>1, <2>1, <2>2 DEF ServeInv, HeldRuns
<1>4. CountAtLeastPlaying' /\ CountHasReader'
  BY <1>1 DEF ServeInv, CountAtLeastPlaying, CountHasReader, Playing
<1> QED
  BY <1>3, <1>4 DEF ServeInv

(* Every other step leaves the players, their count and the readers alone, *)
(* but for Stop, which gives the reader up.                                *)
LEMMA ServeStep ==
  IInv /\ FlagType /\ HistoryType /\ ServeInv /\ [Next]_vars => ServeInv'
<1> SUFFICES ASSUME IInv, FlagType, HistoryType, ServeInv, [Next]_vars
             PROVE  ServeInv'
  OBVIOUS
<1>1. ASSUME UNCHANGED <<unplayed, clientCount, cancelStream, cancelled, pc>>,
             Playing' = Playing, stop' = "idle" => stop = "idle",
             sourceClosed' = sourceClosed \/ sourceClosed' = TRUE
      PROVE  ServeInv'
  BY <1>1 DEF ServeInv, CountAtLeastPlaying, CountHasReader, HeldRuns
<1>2. ASSUME NEW s \in Sessions, SessionOpen(s) \/ OnSetup(s) PROVE ServeInv'
  BY <1>1, <1>2 DEF SessionOpen, OnSetup, controlVars, readerVars, sourceVars,
     Playing, IInv, ControlType
<1>3. CASE StopCancel
  BY <1>3 DEF StopCancel, Stopped, stopFrameReader, sessionVars, ServeInv,
     CountAtLeastPlaying, CountHasReader, HeldRuns, Playing
<1>4. CASE OnDescribe \/ StopStep \/ Produce
  BY <1>1, <1>4 DEF OnDescribe, StopStep, StopJoin, StopStream, StopServer,
     Stopped, Produce, sessionVars, controlVars, readerVars, sourceVars, Playing
<1>5. CASE SourceCloses \/ UNCHANGED vars
  <2>1. UNCHANGED <<session, unplayed, clientCount, cancelStream, cancelled,
                    pc, stop>>
    BY <1>5 DEF SourceCloses, vars, sessionVars, controlVars, readerVars
  <2>2. sourceClosed' = sourceClosed \/ sourceClosed' = TRUE
    BY <1>5, Zenon DEF SourceCloses, vars, sourceVars
  <2> QED
    BY <1>1, <2>1, <2>2 DEF Playing
<1> QED
  BY <1>2, <1>3, <1>4, <1>5, PlayServes, CloseServes, ReaderServes DEF Next

(* "Starts frame consumption when the first client starts playing", for    *)
(* any number of sessions and readers, until a session ends that never     *)
(* played: no close of a player, no reader that is slow to end and no PLAY *)
(* that overlaps either or comes twice leaves a player without an          *)
(* uncancelled reader.                                                     *)
THEOREM ServedWhileCountIsTrue == Spec => []ServedUnlessUnplayed
<1>1. Init => ServeInv
  <2> SUFFICES ASSUME Init PROVE ServeInv
    OBVIOUS
  <2>1. Playing = {}
    BY DEF Init, Playing
  <2> QED
    BY <2>1, FS_EmptySet
    DEF Init, ServeInv, CountAtLeastPlaying, CountHasReader, HeldRuns
<1>2. IInv /\ FlagType /\ HistoryType /\ ServeInv => ServedUnlessUnplayed
  <2> SUFFICES ASSUME IInv, FlagType, HistoryType, ServeInv, ~unplayed,
                      stop = "idle", Playing # {}, ~sourceClosed
               PROVE  \E r \in Readers : Live(r)
    BY DEF ServedUnlessUnplayed, PlayingIsServed
  <2>1. unplayed = FALSE /\ sourceClosed = FALSE
    BY Zenon DEF FlagType, HistoryType
  <2>2. Cardinality(Playing) >= 1
    BY PlayingFinite, FS_EmptySet
  <2>3. cancelStream # 0
    BY <2>1, <2>2, PlayingFinite
       DEF ServeInv, CountAtLeastPlaying, CountHasReader, IInv, ControlType
  <2> QED
    BY <2>1, <2>3 DEF ServeInv, HeldRuns, Live, Running, IInv, ControlType
<1> QED
  BY Invariance, DataInvariance, HistoryInvariance, <1>1, <1>2, ServeStep, PTL
  DEF Spec

=============================================================================
