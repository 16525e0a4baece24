--------------------------- MODULE DeliveryProofs ---------------------------
(***************************************************************************)
(* Theorems about the hub for every capacity, every number of subscribers  *)
(* and units, and whichever ids collide, and about the way of a frame from *)
(* the camera to the hub's subscribers for any number of frames.  The      *)
(* steps of the pipeline are steps of the hub or leave it alone, so that   *)
(* the hub's invariant carries over.                                       *)
(***************************************************************************)
EXTENDS Delivery, SequenceTheorems, TLAPS

\* A subscriber is in the map under its own id only, and was subscribed.
FiledUnderOwnID ==
  \A id \in IDs : LET n == subscribers[id] IN
    n # 0 => n \in 1..nextID /\ ID(n) = id

\* Nobody is closed, received or sent anything before it subscribes; what it
\* was sent last is not newer than the last unit written.
Bounded ==
  /\ closed \subseteq 1..nextID
  /\ \A n \in Subscribers : /\ watcher[n] # "none" <=> n <= nextID
                            /\ LastSent(n) <= written
                            /\ n > nextID => channel[n] = <<>> /\ got[n] = 0

IInv == TypeOK /\ FiledUnderOwnID /\ Bounded /\ RegisteredAreOpen

(* The oldest item of a channel leaves: types are kept, and the item sent  *)
(* last is still the newest, or is the one just received.                  *)
LEMMA NewestAfterReceive ==
  ASSUME NEW S, NEW q \in Seq(S), q # <<>>
  PROVE  /\ Head(q) \in S /\ Tail(q) \in Seq(S) /\ Len(Tail(q)) = Len(q) - 1
         /\ q[Len(q)] = IF Tail(q) = <<>> THEN Head(q)
                                          ELSE Tail(q)[Len(Tail(q))]
<1>1. Len(q) \in Nat /\ Len(q) > 0
  OBVIOUS
<1>2. Len(Tail(q)) = Len(q) - 1
  BY HeadTailProperties
<1>3. Head(q) = q[1] /\ Head(q) \in S /\ Tail(q) \in Seq(S)
  BY HeadTailProperties
<1>4. CASE Tail(q) = <<>>
  <2>1. Len(Tail(q)) = 0
    BY <1>4, EmptySeq, Zenon
  <2>2. \A n \in Nat : 0 = n - 1 => n = 1
    OBVIOUS
  <2>3. Len(q) = 1
    BY <1>1, <1>2, <2>1, <2>2, Zenon
  <2> QED
    BY <1>2, <1>3, <1>4, <2>3
<1>5. CASE Tail(q) # <<>>
  <2>1. Len(q) - 1 \in 1 .. Len(Tail(q))
    BY <1>1, <1>2, <1>3, <1>5, EmptySeq
  <2>2. Tail(q)[Len(q) - 1] = q[(Len(q) - 1) + 1]
    BY <2>1, HeadTailProperties
  <2> QED
    BY <1>1, <1>2, <1>3, <1>5, <2>2
<1> QED
  BY <1>4, <1>5

(* A subscriber was sent a number, 0 if nothing yet.                       *)
LEMMA LastSentType ==
  ASSUME TypeOK, NEW n \in Subscribers
  PROVE  LastSent(n) \in 0..MaxUnits
<1>1. channel[n] \in Seq(1..MaxUnits) /\ got[n] \in 0..MaxUnits
  BY DEF TypeOK
<1>2. CASE channel[n] = <<>>
  BY <1>1, <1>2 DEF LastSent
<1>3. CASE channel[n] # <<>>
  <2>1. Len(channel[n]) \in 1..Len(channel[n])
    BY <1>1, <1>3
  <2>2. channel[n][Len(channel[n])] \in 1..MaxUnits
    BY <1>1, <2>1, ElementOfSeq
  <2> QED
    BY <1>3, <2>2 DEF LastSent
<1> QED
  BY <1>2, <1>3

(* Every initial state satisfies the inductive invariant.                  *)
LEMMA InitIInv == Init => IInv
<1> SUFFICES ASSUME Init PROVE IInv
  OBVIOUS
<1>1. <<>> \in Seq(1..MaxUnits) /\ Len(<<>>) = 0
  BY EmptySeq
<1>2. channel \in [Subscribers -> Seq(1..MaxUnits)]
      /\ \A n \in Subscribers : Len(channel[n]) <= Cap
  BY <1>1, AUHubAssumption DEF Init, AUHubAssumption
<1>3. TypeOK
  BY <1>2, AUHubAssumption DEF Init, TypeOK, IDs, AUHubAssumption
<1>4. Bounded /\ FiledUnderOwnID /\ RegisteredAreOpen
  BY DEF Init, Bounded, FiledUnderOwnID, RegisteredAreOpen, LastSent, Subscribers
<1> QED
  BY <1>3, <1>4 DEF IInv

(* Removing an entry closes a channel that is open and in nobody else's    *)
(* entry.                                                                  *)
LEMMA DeletePreserves ==
  ASSUME IInv, NEW n \in Subscribers, n <= nextID, DeleteAndClose(ID(n)),
         UNCHANGED <<nextID, channel, got, written>>,
         watcher' \in [Subscribers -> {"none", "waiting", "done"}],
         \A m \in Subscribers : watcher'[m] = "none" <=> watcher[m] = "none",
         UNCHANGED <<done, ended>>
  PROVE  IInv'
<1>1. ID(n) \in IDs
  BY AUHubAssumption DEF ID, IDs, Subscribers, AUHubAssumption
<1> DEFINE old == subscribers[ID(n)]
<1>2. old \in IDs /\ (old # 0 => old \in 1..nextID /\ old \in Subscribers)
  BY <1>1, AUHubAssumption
     DEF IInv, TypeOK, FiledUnderOwnID, AUHubAssumption, Subscribers, IDs
<1>3. /\ subscribers' = [subscribers EXCEPT ![ID(n)] = 0]
      /\ closed' \subseteq closed \union ({old} \ {0})
      /\ toCancel' \subseteq toCancel \union ({old} \ {0})
  BY DEF DeleteAndClose
<1>4. TypeOK'
  <2>1. subscribers' \in [IDs -> IDs]
    <3>1. 0 \in IDs
      BY AUHubAssumption DEF IDs, AUHubAssumption
    <3> QED
      BY <1>1, <1>3, <3>1 DEF IInv, TypeOK
  <2>2. closed' \subseteq Subscribers /\ toCancel' \subseteq Subscribers
    BY <1>2, <1>3 DEF IInv, TypeOK
  <2> QED
    BY <2>1, <2>2 DEF IInv, TypeOK
<1>5. FiledUnderOwnID'
  BY <1>1, <1>3 DEF IInv, FiledUnderOwnID, TypeOK
<1>6. Bounded'
  BY <1>2, <1>3 DEF IInv, Bounded, LastSent, TypeOK
<1>7. RegisteredAreOpen'
  BY <1>1, <1>2, <1>3 DEF IInv, RegisteredAreOpen, Registered,
                          FiledUnderOwnID, TypeOK
<1> QED
  BY <1>4, <1>5, <1>6, <1>7 DEF IInv

(* A new subscriber may take the place of another under a colliding id,    *)
(* never that of a closed one.                                             *)
LEMMA SubscribePreserves ==
  ASSUME IInv, Subscribe
  PROVE  IInv'
<1> DEFINE n == nextID'
<1>1. n \in Subscribers /\ n = nextID + 1 /\ nextID \in Nat /\ ID(n) \in IDs
  BY AUHubAssumption DEF IInv, TypeOK, Subscribe, Subscribers, ID, IDs,
                         AUHubAssumption
<1>2. /\ subscribers' = [subscribers EXCEPT ![ID(n)] = n]
      /\ watcher' = [watcher EXCEPT ![n] = "waiting"]
      /\ UNCHANGED <<channel, closed, done, toCancel, ended, got, written>>
  BY DEF Subscribe
<1>3. TypeOK'
  <2>1. n \in IDs /\ n \in 0..MaxSubs
    BY <1>1 DEF Subscribers, IDs
  <2>2. subscribers' \in [IDs -> IDs]
    BY <1>1, <1>2, <2>1 DEF IInv, TypeOK
  <2>3. watcher' \in [Subscribers -> {"none", "waiting", "done"}]
    BY <1>1, <1>2 DEF IInv, TypeOK
  <2> QED
    BY <1>2, <2>1, <2>2, <2>3 DEF IInv, TypeOK
<1>4. FiledUnderOwnID'
  BY <1>1, <1>2 DEF IInv, FiledUnderOwnID, TypeOK
<1>5. Bounded'
  BY <1>1, <1>2 DEF IInv, Bounded, LastSent, TypeOK
<1>6. RegisteredAreOpen'
  BY <1>1, <1>2 DEF IInv, RegisteredAreOpen, Registered, Bounded, TypeOK
<1> QED
  BY <1>3, <1>4, <1>5, <1>6 DEF IInv

(* A write goes to open channels with room only.                           *)
LEMMA WritePreserves ==
  ASSUME IInv, Write
  PROVE  IInv'
<1>1. /\ written' = written + 1 /\ written' \in 1..MaxUnits
      /\ UNCHANGED <<nextID, subscribers, closed, done, toCancel, watcher,
                     ended, got>>
  BY AUHubAssumption DEF IInv, TypeOK, Write, AUHubAssumption
<1>2. ASSUME NEW m \in Subscribers
      PROVE  /\ channel'[m] \in Seq(1..MaxUnits) /\ Len(channel'[m]) <= Cap
             /\ LastSent(m)' <= written'
             /\ m > nextID => channel'[m] = <<>>
  <2>1. CASE m \in Registered /\ Len(channel[m]) < Cap
    <3>1. channel'[m] = Append(channel[m], written')
      BY <2>1 DEF Write
    <3>2. /\ channel[m] \in Seq(1..MaxUnits)
          /\ Len(channel[m]) \in Nat
      BY DEF IInv, TypeOK
    <3>3. /\ channel'[m] \in Seq(1..MaxUnits) /\ channel'[m] # <<>>
          /\ Len(channel'[m]) = Len(channel[m]) + 1
          /\ channel'[m][Len(channel[m]) + 1] = written'
      BY <1>1, <3>1, <3>2, AppendProperties
    <3>4. m <= nextID
      BY <2>1 DEF IInv, FiledUnderOwnID, Registered, TypeOK
    <3>5. Len(channel'[m]) <= Cap
      BY <2>1, <3>2, <3>3, AUHubAssumption DEF AUHubAssumption
    <3>6. LastSent(m)' = written'
      BY <3>3 DEF LastSent
    <3> QED
      BY <1>1, <3>3, <3>4, <3>5, <3>6 DEF IInv, TypeOK, Subscribers
  <2>2. CASE ~(m \in Registered /\ Len(channel[m]) < Cap)
    <3>1. channel'[m] = channel[m]
      BY <2>2 DEF Write
    <3>2. LastSent(m)' = LastSent(m)
      BY <1>1, <3>1 DEF LastSent
    <3>3. LastSent(m) \in Nat /\ LastSent(m) <= written
      BY LastSentType DEF IInv, Bounded
    <3> QED
      BY <1>1, <3>1, <3>2, <3>3 DEF IInv, TypeOK, Bounded
  <2> QED
    BY <2>1, <2>2
<1>3. TypeOK'
  <2>1. channel' \in [Subscribers -> Seq(1..MaxUnits)]
    BY <1>2 DEF Write
  <2> QED
    BY <1>1, <1>2, <2>1 DEF IInv, TypeOK
<1>4. Bounded'
  BY <1>1, <1>2 DEF IInv, Bounded
<1>5. FiledUnderOwnID' /\ RegisteredAreOpen'
  BY <1>1 DEF IInv, FiledUnderOwnID, RegisteredAreOpen, Registered
<1> QED
  BY <1>3, <1>4, <1>5 DEF IInv

(* A receive takes the oldest unit; which one was sent last stays.         *)
LEMMA ReceivePreserves ==
  ASSUME IInv, NEW n \in Subscribers, Receive(n)
  PROVE  IInv' /\ \A m \in Subscribers : LastSent(m)' = LastSent(m)
<1>1. UNCHANGED <<nextID, subscribers, closed, done, toCancel, watcher, written>>
  BY DEF Receive
<1>2. FiledUnderOwnID' /\ RegisteredAreOpen'
  BY <1>1 DEF IInv, FiledUnderOwnID, RegisteredAreOpen, Registered
<1>3. CASE channel[n] = <<>>
  <2>1. UNCHANGED <<channel, got>> /\ ended' \subseteq Subscribers
    BY <1>3 DEF Receive, IInv, TypeOK
  <2>2. TypeOK' /\ Bounded'
    BY <1>1, <2>1 DEF IInv, TypeOK, Bounded, LastSent
  <2>3. \A m \in Subscribers : LastSent(m)' = LastSent(m)
    BY <2>1 DEF LastSent
  <2> QED
    BY <1>2, <2>2, <2>3 DEF IInv
<1>4. CASE channel[n] # <<>>
  <2>1. /\ got' = [got EXCEPT ![n] = Head(channel[n])]
        /\ channel' = [channel EXCEPT ![n] = Tail(channel[n])]
        /\ ended' = ended
    BY <1>4 DEF Receive
  <2>2. channel[n] \in Seq(1..MaxUnits)
    BY DEF IInv, TypeOK
  <2>3. /\ Head(channel[n]) \in 1..MaxUnits
        /\ Tail(channel[n]) \in Seq(1..MaxUnits)
        /\ Len(Tail(channel[n])) = Len(channel[n]) - 1
        /\ channel[n][Len(channel[n])]
             = IF Tail(channel[n]) = <<>> THEN Head(channel[n])
               ELSE Tail(channel[n])[Len(Tail(channel[n]))]
    BY <1>4, <2>2, NewestAfterReceive
  <2>4. /\ channel'[n] = Tail(channel[n]) /\ got'[n] = Head(channel[n])
        /\ \A m \in Subscribers \ {n} :
             channel'[m] = channel[m] /\ got'[m] = got[m]
    BY <2>1 DEF IInv, TypeOK
  <2>5. ASSUME NEW m \in Subscribers PROVE LastSent(m)' = LastSent(m)
    <3>1. CASE m = n
      BY <1>4, <2>3, <2>4, <3>1 DEF LastSent
    <3>2. CASE m # n
      BY <2>4, <3>2 DEF LastSent
    <3> QED
      BY <3>1, <3>2
  <2>6. \A m \in Subscribers : Len(channel'[m]) <= Cap
    <3> SUFFICES ASSUME NEW m \in Subscribers PROVE Len(channel'[m]) <= Cap
      OBVIOUS
    <3>1. Len(channel[n]) \in Nat /\ Len(channel[n]) <= Cap
      BY <2>2, LenProperties DEF IInv, TypeOK
    <3>2. Len(Tail(channel[n])) <= Cap
      BY <2>3, <3>1, AUHubAssumption DEF AUHubAssumption
    <3> QED
      BY <2>4, <3>2 DEF IInv, TypeOK
  <2>7. channel' \in [Subscribers -> Seq(1..MaxUnits)]
    BY <2>1, <2>3 DEF IInv, TypeOK
  <2>8. got' \in [Subscribers -> 0..MaxUnits]
    BY <2>1, <2>3 DEF IInv, TypeOK
  <2>9. TypeOK'
    BY <1>1, <2>1, <2>6, <2>7, <2>8 DEF IInv, TypeOK
  <2>10. n <= nextID
    <3>1. watcher[n] # "none"
      BY DEF Receive
    <3> QED
      BY <3>1 DEF IInv, Bounded
  <2>11. Bounded'
    BY <1>1, <2>4, <2>5, <2>10 DEF IInv, TypeOK, Bounded, Subscribers
  <2> QED
    BY <1>2, <2>5, <2>9, <2>11 DEF IInv
<1> QED
  BY <1>3, <1>4

(* The inductive invariant is preserved by every step.                     *)
LEMMA StepIInv == IInv /\ [Next]_vars => IInv'
<1> SUFFICES ASSUME IInv, [Next]_vars PROVE IInv'
  OBVIOUS
<1>1. ASSUME NEW n \in Subscribers, Unsubscribe(n) PROVE IInv'
  <2>1. n <= nextID
    BY <1>1 DEF Unsubscribe, IInv, Bounded
  <2> QED
    BY <1>1, <2>1, DeletePreserves DEF Unsubscribe, IInv, TypeOK
<1>2. ASSUME NEW n \in Subscribers, Watcher(n) PROVE IInv'
  <2>1. n <= nextID
    BY <1>2 DEF Watcher, IInv, Bounded
  <2> QED
    BY <1>2, <2>1, DeletePreserves DEF Watcher, IInv, TypeOK
<1>3. ASSUME NEW n \in Subscribers, UnsubscribeCancels(n) \/ ContextDone(n)
      PROVE  IInv'
  BY <1>3 DEF UnsubscribeCancels, ContextDone, IInv, TypeOK, FiledUnderOwnID,
              Bounded, LastSent, RegisteredAreOpen, Registered
<1>4. CASE UNCHANGED vars
  BY <1>4 DEF vars, IInv, TypeOK, FiledUnderOwnID, Bounded, LastSent,
              RegisteredAreOpen, Registered
<1> QED
  BY <1>1, <1>2, <1>3, <1>4, SubscribePreserves, WritePreserves,
     ReceivePreserves DEF Next

(* The inductive invariant holds in every reachable state.                 *)
THEOREM Invariance == Spec => []IInv
  BY InitIInv, StepIInv, PTL DEF Spec

(* Every variable keeps to its type, and the channels to their capacity.   *)
THEOREM TypeCorrect == Spec => []TypeOK
  BY Invariance, PTL DEF IInv

(* No write and no second close ever meets a closed channel, even when two *)
(* subscribers share an id.                                                *)
THEOREM NeverSendsOnClosed == Spec => []RegisteredAreOpen
  BY Invariance, PTL DEF IInv

(* Every subscriber's channel implements the abstract lossy channel.       *)
THEOREM ImplementsLossyChannel == Spec => EachIsLossyChannel
<1>1. Init => \A n \in Subscribers : Promise(n)!Init
  BY DEF Init, Promise!Init, LastSent
<1>2. IInv /\ IInv' /\ [Next]_vars =>
        [\A n \in Subscribers : [Promise(n)!Next]_(Promise(n)!channel)]_vars
  <2> SUFFICES ASSUME IInv, IInv', Next, NEW n \in Subscribers
               PROVE  [Promise(n)!Next]_(Promise(n)!channel)
    OBVIOUS
  <2>1. ASSUME LastSent(n)' = LastSent(n), channel'[n] = channel[n],
               (n \in closed') <=> (n \in closed)
        PROVE  UNCHANGED Promise(n)!channel
    BY <2>1 DEF Promise!channel
  <2>2. ASSUME channel' = channel, got' = got PROVE LastSent(n)' = LastSent(n)
    BY <2>2 DEF LastSent
  <2>3. CASE Write
    <3>1. CASE n \in Registered /\ Len(channel[n]) < Cap
      <4>1. channel'[n] = Append(channel[n], written') /\ written' = written + 1
        BY <2>3, <3>1 DEF Write, IInv, TypeOK
      <4>2. channel'[n] # <<>> /\ channel'[n][Len(channel'[n])] = written'
        BY <4>1, AppendProperties DEF IInv, TypeOK
      <4>3. LastSent(n)' = written'
        BY <4>2 DEF LastSent
      <4>4. LastSent(n)' > LastSent(n)
        BY <4>1, <4>3, LastSentType DEF IInv, TypeOK, Bounded
      <4>5. n \notin closed /\ closed' = closed
        BY <2>3, <3>1 DEF Write, IInv, RegisteredAreOpen
      <4>6. Promise(n)!Send
        BY <3>1, <4>1, <4>3, <4>4, <4>5 DEF Promise!Send
      <4> QED
        BY <4>6 DEF Promise!Next
    <3>2. CASE ~(n \in Registered /\ Len(channel[n]) < Cap)
      <4>1. channel'[n] = channel[n] /\ got' = got /\ closed' = closed
        BY <2>3, <3>2 DEF Write, IInv, TypeOK
      <4>2. LastSent(n)' = LastSent(n)
        BY <4>1 DEF LastSent
      <4> QED
        BY <2>1, <4>1, <4>2
    <3> QED
      BY <3>1, <3>2
  <2>4. ASSUME NEW m \in Subscribers, Receive(m)
        PROVE  [Promise(n)!Next]_(Promise(n)!channel)
    <3>1. LastSent(n)' = LastSent(n) /\ closed' = closed
      BY <2>4, ReceivePreserves DEF Receive
    <3>2. CASE m = n /\ channel[n] # <<>>
      <4>1. channel'[n] = Tail(channel[n])
        BY <2>4, <3>2 DEF Receive, IInv, TypeOK
      <4>2. Promise(n)!Receive
        BY <3>1, <3>2, <4>1 DEF Promise!Receive
      <4> QED
        BY <4>2 DEF Promise!Next
    <3>3. CASE ~(m = n /\ channel[n] # <<>>)
      <4>1. channel'[n] = channel[n]
        BY <2>4, <3>3 DEF Receive, IInv, TypeOK
      <4> QED
        BY <2>1, <3>1, <4>1
    <3> QED
      BY <3>2, <3>3
  <2>5. ASSUME NEW id \in IDs, DeleteAndClose(id), channel' = channel, got' = got
        PROVE  [Promise(n)!Next]_(Promise(n)!channel)
    <3>1. LastSent(n)' = LastSent(n)
      BY <2>2, <2>5
    <3>2. CASE n \notin closed /\ n \in closed'
      <4>1. Promise(n)!Close
        BY <2>5, <3>1, <3>2 DEF Promise!Close
      <4> QED
        BY <4>1 DEF Promise!Next
    <3>3. CASE ~(n \notin closed /\ n \in closed')
      <4>1. (n \in closed') <=> (n \in closed)
        BY <2>5, <3>3 DEF DeleteAndClose
      <4> QED
        BY <2>1, <2>5, <3>1, <4>1
    <3> QED
      BY <3>2, <3>3
  <2>6. ASSUME NEW m \in Subscribers, Unsubscribe(m) \/ Watcher(m)
        PROVE  [Promise(n)!Next]_(Promise(n)!channel)
    <3>1. /\ m <= nextID /\ ID(m) \in IDs /\ DeleteAndClose(ID(m))
          /\ channel' = channel /\ got' = got
      BY <2>6, AUHubAssumption
         DEF Unsubscribe, Watcher, IInv, Bounded, ID, IDs, Subscribers,
             AUHubAssumption
    <3> QED
      BY <2>5, <3>1
  <2>7. ASSUME channel' = channel, got' = got, closed' = closed
        PROVE  [Promise(n)!Next]_(Promise(n)!channel)
    BY <2>1, <2>2, <2>7
  <2>8. ASSUME NEW m \in Subscribers, UnsubscribeCancels(m) \/ ContextDone(m)
        PROVE  [Promise(n)!Next]_(Promise(n)!channel)
    BY <2>7, <2>8 DEF UnsubscribeCancels, ContextDone
  <2>9. CASE Subscribe
    BY <2>7, <2>9 DEF Subscribe
  <2> QED
    BY <2>3, <2>4, <2>6, <2>8, <2>9 DEF Next
<1> QED
  BY Invariance, <1>1, <1>2, PTL DEF Spec, EachIsLossyChannel

----------------------------------------------------------------------------
\* The snapshot buffer is subscribed before the parser runs.
Wired ==
  /\ parser # "none" => nextID >= SnapshotSub
  /\ main \in {"camera", "snapshot"} => parser = "none" /\ nextID = 0
  /\ main \in {"camera", "snapshot", "parser"} => parser = "none"
  /\ main \in {"parser", "rtsp", "up"} => nextID >= SnapshotSub
  /\ parser = "none" => written = 0

\* It is in the map under its own id until its context is done.
Filed ==
  nextID >= SnapshotSub =>
    subscribers[SnapshotSub] = SnapshotSub \/ SnapshotSub \in done

\* The first unit is in its channel or was received.
Kept ==
  LET queue == channel[SnapshotSub] IN
  IF written = 0 THEN queue = <<>>
  ELSE \/ got[SnapshotSub] > 0 \/ SnapshotSub \in done
       \/ queue # <<>> /\ Head(queue) = 1

DeliveryInv == IInv /\ Wired /\ Filed /\ Kept

(* A step of the pipeline is a step of the hub, or leaves it alone.        *)
LEMMA HubSteps == [DeliveryNext]_<<vars, deliveryVars>> => [Next]_vars
  BY DEF DeliveryNext, MainStep, StartCamera, SubscribeSnapshot, StartParser,
         SubscribeRTSP, Signal, CameraSends, CameraCloses, ParserStep,
         ParserTakes, Parsed, ParserEnds, ParserWrites, SubscriptionDone,
         HubStep, Next, Subscribers

(* The first subscriber's context, once done, stays done.                  *)
LEMMA DoneGrows == [Next]_vars => done \subseteq done'
  BY DEF Next, Subscribe, Write, Unsubscribe, UnsubscribeCancels, Watcher,
         ContextDone, Receive, vars

(* No other subscriber's end, and no later subscription, takes the first   *)
(* subscriber out of the map.                                              *)
LEMMA FiledStep ==
  ASSUME DeliveryInv, [DeliveryNext]_<<vars, deliveryVars>>
  PROVE  Filed'
<1>1. /\ nextID \in Nat /\ subscribers \in [IDs -> IDs] /\ MaxSubs \in Nat
      /\ SnapshotSub \in Subscribers /\ SnapshotSub \in IDs
      /\ ID(SnapshotSub) = SnapshotSub
      /\ \A n \in Subscribers : n # SnapshotSub =>
           ID(n) # SnapshotSub /\ ID(n) \in IDs
  BY AUHubAssumption, DeliveryAssumption
     DEF DeliveryInv, IInv, TypeOK, IDs, Subscribers, SnapshotSub, ID,
         AUHubAssumption, DeliveryAssumption
<1>2. done \subseteq done'
  BY HubSteps, DoneGrows
<1>3. CASE Subscribe
  <2>1. nextID' = nextID + 1 /\ nextID' \in Subscribers
    BY <1>1, <1>3 DEF Subscribe, Subscribers
  <2>2. subscribers' = [subscribers EXCEPT ![ID(nextID')] = nextID']
    BY <1>3 DEF Subscribe
  <2>3. CASE nextID' = SnapshotSub
    BY <1>1, <2>2, <2>3 DEF Filed
  <2>4. CASE nextID' # SnapshotSub
    <3>1. nextID >= SnapshotSub
      BY <1>1, <2>1, <2>4 DEF SnapshotSub, Subscribers
    <3>2. subscribers'[SnapshotSub] = subscribers[SnapshotSub]
      BY <1>1, <2>1, <2>2, <2>4
    <3> QED
      BY <1>2, <3>1, <3>2 DEF DeliveryInv, Filed
  <2> QED
    BY <2>3, <2>4
<1>4. ASSUME NEW n \in Subscribers, Watcher(n) PROVE Filed'
  <2>1. /\ nextID' = nextID /\ done' = done /\ n \in done
        /\ subscribers' = [subscribers EXCEPT ![ID(n)] = 0]
    BY <1>4 DEF Watcher, DeleteAndClose
  <2>2. CASE n = SnapshotSub
    BY <2>1, <2>2 DEF Filed
  <2>3. CASE n # SnapshotSub
    BY <1>1, <2>1, <2>3 DEF DeliveryInv, Filed
  <2> QED
    BY <2>2, <2>3
<1>5. ASSUME UNCHANGED <<nextID, subscribers>> PROVE Filed'
  BY <1>2, <1>5 DEF DeliveryInv, Filed
<1>6. CASE \/ MainStep \/ Signal \/ CameraSends \/ CameraCloses \/ ParserStep
           \/ UNCHANGED <<vars, deliveryVars>>
  <2>1. Subscribe \/ UNCHANGED <<nextID, subscribers>>
    BY <1>6 DEF MainStep, StartCamera, SubscribeSnapshot, StartParser,
       SubscribeRTSP, Signal, CameraSends, CameraCloses, ParserStep,
       ParserTakes, Parsed, ParserEnds, ParserWrites, Write, vars
  <2> QED
    BY <1>3, <1>5, <2>1
<1>7. ASSUME NEW n \in Subscribers, SubscriptionDone(n) \/ HubStep(n) PROVE Filed'
  <2>1. Watcher(n) \/ UNCHANGED <<nextID, subscribers>>
    BY <1>7 DEF SubscriptionDone, ContextDone, HubStep, UnsubscribeCancels,
                Receive
  <2> QED
    BY <1>4, <1>5, <2>1
<1> QED
  BY <1>6, <1>7 DEF DeliveryNext

(* The parser starts after the subscription, and only it writes.           *)
LEMMA WiredStep ==
  ASSUME DeliveryInv, [DeliveryNext]_<<vars, deliveryVars>>
  PROVE  Wired'
<1>1. nextID \in Nat
  BY AUHubAssumption DEF DeliveryInv, IInv, TypeOK, AUHubAssumption
<1> USE DEF DeliveryInv, Wired, SnapshotSub, parserVars
<1>2. CASE StartCamera \/ StartParser
  BY <1>2 DEF StartCamera, StartParser, vars
<1>3. CASE SubscribeSnapshot \/ SubscribeRTSP
  BY <1>1, <1>3 DEF SubscribeSnapshot, SubscribeRTSP, Subscribe
<1>4. CASE ParserStep
  BY <1>4 DEF ParserStep, ParserTakes, Parsed, ParserEnds, ParserWrites, Write,
     vars
<1>5. CASE \/ Signal \/ CameraSends \/ CameraCloses
           \/ UNCHANGED <<vars, deliveryVars>>
  <2>1. UNCHANGED <<main, parser, nextID, written>>
    BY <1>5, Zenon DEF Signal, CameraSends, CameraCloses, vars, deliveryVars
  <2> QED
    BY <2>1
<1>6. ASSUME NEW n \in Subscribers, SubscriptionDone(n) \/ HubStep(n) PROVE Wired'
  <2>1. UNCHANGED <<main, parser, nextID, written>>
    BY <1>6 DEF SubscriptionDone, ContextDone, HubStep, UnsubscribeCancels,
                Watcher, Receive, deliveryVars
  <2> QED
    BY <2>1
<1> QED
  BY <1>2, <1>3, <1>4, <1>5, <1>6 DEF DeliveryNext, MainStep

(* The first unit stays at the head of the channel until it is received.   *)
LEMMA KeptStep ==
  ASSUME DeliveryInv, [DeliveryNext]_<<vars, deliveryVars>>
  PROVE  Kept'
<1> DEFINE queue == channel[SnapshotSub]
<1>1. /\ SnapshotSub \in Subscribers /\ SnapshotSub \in IDs
      /\ queue \in Seq(1..MaxUnits) /\ Len(queue) \in Nat
      /\ got[SnapshotSub] \in Nat /\ written \in Nat
  <2>1. SnapshotSub \in Subscribers /\ SnapshotSub \in IDs
    BY AUHubAssumption, DeliveryAssumption
       DEF IDs, Subscribers, SnapshotSub, AUHubAssumption, DeliveryAssumption
  <2>2. queue \in Seq(1..MaxUnits)
    BY <2>1 DEF DeliveryInv, IInv, TypeOK
  <2>3. Len(queue) \in Nat
    BY <2>2, LenProperties
  <2>4. got[SnapshotSub] \in Nat /\ written \in Nat
    BY <2>1, AUHubAssumption DEF DeliveryInv, IInv, TypeOK, AUHubAssumption
  <2> QED
    BY <2>1, <2>2, <2>3, <2>4
<1>2. done \subseteq done'
  BY HubSteps, DoneGrows
<1>3. CASE ParserWrites
  <2>1. /\ written' = written + 1 /\ got' = got /\ done' = done
        /\ queue' = IF SnapshotSub \in Registered /\ Len(queue) < Cap
                      THEN Append(queue, written + 1) ELSE queue
    BY <1>1, <1>3 DEF ParserWrites, Write
  <2>2. written + 1 \in 1..MaxUnits /\ written' # 0
    <3>1. written < MaxUnits
      BY <1>3 DEF ParserWrites, Write
    <3> QED
      BY <1>1, <2>1, <3>1, AUHubAssumption DEF AUHubAssumption
  <2>3. /\ Append(queue, written + 1) # <<>>
        /\ Head(Append(queue, written + 1))
             = IF queue = <<>> THEN written + 1 ELSE Head(queue)
    BY <1>1, <2>2, AppendProperties, HeadTailAppend
  <2>4. CASE written = 0
    <3>1. queue = <<>> /\ Len(queue) = 0
      BY <2>4, EmptySeq DEF DeliveryInv, Kept
    <3>2. nextID >= SnapshotSub
      BY <1>3 DEF DeliveryInv, Wired, ParserWrites
    <3>3. SnapshotSub \in Registered \/ SnapshotSub \in done
      BY <1>1, <3>2 DEF DeliveryInv, Filed, Registered, SnapshotSub
    <3>4. Len(queue) < Cap
      BY <3>1, DeliveryAssumption DEF DeliveryAssumption
    <3>5. CASE SnapshotSub \in Registered
      <4>1. queue' = Append(queue, written + 1)
        BY <2>1, <3>4, <3>5
      <4>2. written + 1 = 1
        BY <2>4
      <4>3. queue' # <<>> /\ Head(queue') = 1
        BY <2>3, <3>1, <4>1, <4>2, Zenon
      <4> QED
        BY <2>2, <4>3, Zenon DEF Kept
    <3>6. CASE SnapshotSub \in done
      BY <2>1, <2>2, <3>6, Zenon DEF Kept
    <3> QED
      BY <3>3, <3>5, <3>6
  <2>5. CASE written # 0
    <3>1. \/ got[SnapshotSub] > 0 \/ SnapshotSub \in done
          \/ (queue # <<>> /\ Head(queue) = 1)
      BY <2>5, Zenon DEF DeliveryInv, Kept
    <3>2. queue # <<>> /\ Head(queue) = 1 => queue' # <<>> /\ Head(queue') = 1
      BY <2>1, <2>3, Zenon
    <3> QED
      BY <2>1, <2>2, <3>1, <3>2, Zenon DEF Kept
  <2> QED
    BY <2>4, <2>5
<1>4. ASSUME NEW n \in Subscribers, Receive(n) PROVE Kept'
  <2>1. written' = written /\ done' = done
    BY <1>4 DEF Receive
  <2>2. CASE n = SnapshotSub /\ queue # <<>>
    <3>1. written # 0
      BY <2>2 DEF DeliveryInv, Kept
    <3>2. got' = [got EXCEPT ![SnapshotSub] = Head(queue)]
      BY <1>4, <2>2 DEF Receive
    <3>3. Head(queue) \in 1..MaxUnits
      BY <1>1, <2>2, NewestAfterReceive
    <3>4. got'[SnapshotSub] = Head(queue)
      BY <1>1, <3>2 DEF DeliveryInv, IInv, TypeOK
    <3>5. got'[SnapshotSub] > 0
      BY <3>3, <3>4
    <3> QED
      BY <2>1, <3>1, <3>5, Zenon DEF Kept
  <2>3. CASE ~(n = SnapshotSub /\ queue # <<>>)
    <3>1. channel'[SnapshotSub] = queue /\ got'[SnapshotSub] = got[SnapshotSub]
      <4>1. CASE channel[n] # <<>>
        <5>1. n # SnapshotSub
          BY <2>3, <4>1
        <5>2. /\ got' = [got EXCEPT ![n] = Head(channel[n])]
              /\ channel' = [channel EXCEPT ![n] = Tail(channel[n])]
          BY <1>4, <4>1, Zenon DEF Receive
        <5> QED
          BY <1>1, <5>1, <5>2 DEF DeliveryInv, IInv, TypeOK
      <4>2. CASE channel[n] = <<>>
        BY <1>4, <4>2, Zenon DEF Receive
      <4> QED
        BY <4>1, <4>2
    <3> QED
      BY <2>1, <3>1, Zenon DEF DeliveryInv, Kept
  <2> QED
    BY <2>2, <2>3
<1>5. ASSUME UNCHANGED <<channel, got, written>> PROVE Kept'
  <2>1. SnapshotSub \in done => SnapshotSub \in done'
    BY <1>2
  <2> QED
    BY <1>5, <2>1, Zenon DEF DeliveryInv, Kept
<1>6. CASE \/ MainStep \/ Signal \/ CameraSends \/ CameraCloses
           \/ ParserTakes \/ ParserEnds \/ UNCHANGED <<vars, deliveryVars>>
  <2>1. UNCHANGED <<channel, got, written>>
    BY <1>6 DEF MainStep, StartCamera, SubscribeSnapshot, StartParser,
       SubscribeRTSP, Subscribe, Signal, CameraSends, CameraCloses,
       ParserTakes, Parsed, ParserEnds, vars
  <2> QED
    BY <1>5, <2>1
<1>7. ASSUME NEW n \in Subscribers, SubscriptionDone(n) \/ HubStep(n) PROVE Kept'
  <2>1. Receive(n) \/ UNCHANGED <<channel, got, written>>
    BY <1>7 DEF SubscriptionDone, ContextDone, HubStep, UnsubscribeCancels,
                Watcher
  <2> QED
    BY <1>4, <1>5, <2>1
<1> QED
  BY <1>3, <1>6, <1>7 DEF DeliveryNext, ParserStep

(* main starts before anything is subscribed, parsed or written.           *)
LEMMA InitDelivery == DeliveryInit => DeliveryInv
<1> SUFFICES ASSUME DeliveryInit PROVE DeliveryInv
  OBVIOUS
<1>1. IInv
  BY InitIInv DEF DeliveryInit
<1>2. Wired /\ Filed
  BY DEF DeliveryInit, Init, Wired, Filed, SnapshotSub
<1>3. SnapshotSub \in Subscribers
  BY AUHubAssumption, DeliveryAssumption
     DEF Subscribers, SnapshotSub, AUHubAssumption, DeliveryAssumption
<1>4. Kept
  BY <1>3 DEF DeliveryInit, Init, Kept
<1> QED
  BY <1>1, <1>2, <1>4 DEF DeliveryInv

(* Every step of the pipeline preserves its inductive invariant.           *)
LEMMA StepDelivery ==
  DeliveryInv /\ [DeliveryNext]_<<vars, deliveryVars>> => DeliveryInv'
  BY HubSteps, StepIInv, FiledStep, WiredStep, KeptStep DEF DeliveryInv

(* The first unit is where its statement says.                             *)
LEMMA KeptIsCaptured == DeliveryInv => FirstKeyFrameCaptured
<1> SUFFICES ASSUME DeliveryInv, written > 0 PROVE FirstKeyFrameCaptured
  BY DEF FirstKeyFrameCaptured
<1>1. written # 0
  BY AUHubAssumption DEF DeliveryInv, IInv, TypeOK, AUHubAssumption
<1> QED
  BY <1>1, Zenon DEF DeliveryInv, Kept, FirstKeyFrameCaptured

(* "Subscribe BEFORE parser goroutine": whatever the pace of the camera,   *)
(* the parser, main and the consumers, the first unit reaches the snapshot *)
(* buffer or waits for it, unless the process was told to end.             *)
THEOREM SnapshotSeesFirstUnit == DeliverySpec => []FirstKeyFrameCaptured
  BY InitDelivery, StepDelivery, KeptIsCaptured, PTL DEF DeliverySpec

----------------------------------------------------------------------------
(* The camera's channel.  A frame is sent into one with room, the oldest   *)
(* is received, and closing leaves the frames that wait.                   *)
LEMMA FramesStep ==
  ASSUME DeliveryTypeOK,
         \/ Frames!Send /\ lastFrame' \in 1..MaxFrames
         \/ Frames!Receive \/ Frames!Close \/ UNCHANGED Frames!channel
  PROVE  /\ frames' \in Seq(1..MaxFrames) /\ Len(frames') <= FrameCap
         /\ lastFrame' \in 0..MaxFrames /\ framesClosed' \in BOOLEAN
<1>1. /\ frames \in Seq(1..MaxFrames) /\ Len(frames) <= FrameCap
      /\ lastFrame \in 0..MaxFrames /\ framesClosed \in BOOLEAN
      /\ Len(frames) \in Nat /\ FrameCap \in Nat
  <2>1. frames \in Seq(1..MaxFrames)
    BY DEF DeliveryTypeOK
  <2>2. Len(frames) \in Nat
    BY <2>1, LenProperties
  <2> QED
    BY <2>1, <2>2, DeliveryAssumption DEF DeliveryTypeOK, DeliveryAssumption
<1>2. CASE Frames!Send /\ lastFrame' \in 1..MaxFrames
  <2>1. /\ frames' = Append(frames, lastFrame') /\ framesClosed' = framesClosed
        /\ Len(frames) < FrameCap
    BY <1>2 DEF Frames!Send
  <2>2. frames' \in Seq(1..MaxFrames) /\ Len(frames') = Len(frames) + 1
    BY <1>1, <1>2, <2>1, AppendProperties
  <2> QED
    BY <1>1, <1>2, <2>1, <2>2
<1>3. CASE Frames!Receive
  <2>1. /\ frames # <<>> /\ frames' = Tail(frames)
        /\ lastFrame' = lastFrame /\ framesClosed' = framesClosed
    BY <1>3 DEF Frames!Receive
  <2>2. frames' \in Seq(1..MaxFrames) /\ Len(frames') = Len(frames) - 1
    BY <1>1, <2>1, NewestAfterReceive
  <2> QED
    BY <1>1, <2>1, <2>2
<1>4. CASE Frames!Close
  <2>1. framesClosed' = TRUE /\ frames' = frames /\ lastFrame' = lastFrame
    BY <1>4 DEF Frames!Close
  <2>2. framesClosed' \in BOOLEAN
    BY <2>1, Zenon
  <2> QED
    BY <1>1, <2>1, <2>2
<1>5. CASE UNCHANGED Frames!channel
  BY <1>1, <1>5 DEF Frames!channel
<1> QED
  BY <1>2, <1>3, <1>4, <1>5

(* The variables of main, the signal, the camera and the parser start      *)
(* within their types.                                                     *)
LEMMA InitDeliveryType == DeliveryInit => DeliveryTypeOK
<1> SUFFICES ASSUME DeliveryInit PROVE DeliveryTypeOK
  OBVIOUS
<1>1. signalled \in BOOLEAN /\ framesClosed \in BOOLEAN
  BY Zenon DEF DeliveryInit, Frames!Init
<1>2. frames \in Seq(1..MaxFrames) /\ Len(frames) = 0
  BY EmptySeq DEF DeliveryInit, Frames!Init
<1> QED
  BY <1>1, <1>2, DeliveryAssumption
     DEF DeliveryInit, Frames!Init, DeliveryTypeOK, DeliveryAssumption

(* Only a frame that is taken adds to what was parsed.                     *)
LEMMA OriginGrows ==
  ASSUME [DeliveryNext]_<<vars, deliveryVars>>, ~ParserTakes
  PROVE  origin' = origin
  BY DEF DeliveryNext, MainStep, StartCamera, SubscribeSnapshot, StartParser,
         SubscribeRTSP, Signal, CameraSends, CameraCloses, ParserStep,
         ParserEnds, ParserWrites, SubscriptionDone, HubStep, deliveryVars,
         parserVars

(* And stay there.                                                         *)
LEMMA StepDeliveryType ==
  ASSUME DeliveryTypeOK, [DeliveryNext]_<<vars, deliveryVars>>
  PROVE  DeliveryTypeOK'
<1>1. \/ Frames!Send /\ lastFrame' \in 1..MaxFrames
      \/ Frames!Receive \/ Frames!Close \/ UNCHANGED Frames!channel
  BY DEF DeliveryNext, MainStep, StartCamera, SubscribeSnapshot, StartParser,
         SubscribeRTSP, Signal, CameraSends, CameraCloses, ParserStep,
         ParserTakes, Parsed, ParserEnds, ParserWrites, SubscriptionDone,
         HubStep, deliveryVars, cameraVars, Frames!channel
<1>2. /\ frames' \in Seq(1..MaxFrames) /\ Len(frames') <= FrameCap
      /\ lastFrame' \in 0..MaxFrames /\ framesClosed' \in BOOLEAN
  BY <1>1, FramesStep
<1>3. /\ main' \in {"camera", "snapshot", "parser", "rtsp", "up"}
      /\ parser' \in {"none", "take", "write", "done"}
  BY DEF DeliveryNext, MainStep, StartCamera, SubscribeSnapshot, StartParser,
         SubscribeRTSP, Signal, CameraSends, CameraCloses, ParserStep,
         ParserTakes, Parsed, ParserEnds, ParserWrites, SubscriptionDone,
         HubStep, deliveryVars, parserVars, DeliveryTypeOK
<1>4. signalled' = signalled \/ signalled' = TRUE
  BY Zenon
     DEF DeliveryNext, MainStep, StartCamera, SubscribeSnapshot, StartParser,
         SubscribeRTSP, Signal, CameraSends, CameraCloses, ParserStep,
         ParserTakes, Parsed, ParserEnds, ParserWrites, SubscriptionDone,
         HubStep, deliveryVars
<1>5. signalled' \in BOOLEAN
  BY <1>4, Zenon DEF DeliveryTypeOK
<1>6. origin' \in Seq(1..MaxFrames)
  <2>1. CASE ParserTakes
    <3>1. frames # <<>> /\ Head(frames) \in 1..MaxFrames
      BY <2>1, NewestAfterReceive DEF ParserTakes, Frames!Receive, DeliveryTypeOK
    <3> QED
      BY <2>1, <3>1, AppendProperties
      DEF ParserTakes, Parsed, parserVars, DeliveryTypeOK
  <2>2. CASE ~ParserTakes
    BY <2>2, OriginGrows DEF DeliveryTypeOK
  <2> QED
    BY <2>1, <2>2
<1> QED
  BY <1>2, <1>3, <1>5, <1>6 DEF DeliveryTypeOK
----------------------------------------------------------------------------
(* The way of the frames as one lossy pipe.  What waits anywhere on it is  *)
(* in order, and behind what has passed.                                   *)
Rising(q) == \A i, j \in 1..Len(q) : i < j => q[i] < q[j]

\* The units of a subscriber, on the hub's side.
UnitsInOrder ==
  \A n \in Subscribers :
    /\ got[n] <= written /\ Rising(channel[n])
    /\ \A i \in 1..Len(channel[n]) :
         got[n] < channel[n][i] /\ channel[n][i] <= written

\* The frames, on the camera's.  A unit that is being written has no number.
FramesInOrder ==
  /\ Len(origin) = IF parser = "write" THEN written + 1 ELSE written
  /\ Rising(origin) /\ Rising(frames)
  /\ \A k \in 1..Len(origin) : origin[k] <= lastFrame
  /\ \A i \in 1..Len(frames) : frames[i] <= lastFrame
  /\ \A k \in 1..Len(origin), i \in 1..Len(frames) : origin[k] < frames[i]

(* A later item is put at the end of a sequence in order.                  *)
LEMMA RisingAppend ==
  ASSUME NEW q \in Seq(Int), NEW e \in Int, Rising(q),
         \A i \in 1..Len(q) : q[i] < e
  PROVE  /\ Rising(Append(q, e)) /\ Len(Append(q, e)) = Len(q) + 1
         /\ \A i \in 1..Len(Append(q, e)) :
              Append(q, e)[i] = IF i = Len(q) + 1 THEN e ELSE q[i]
<1>1. Len(q) \in Nat
  BY LenProperties
<1>2. /\ Append(q, e) \in Seq(Int) /\ Len(Append(q, e)) = Len(q) + 1
      /\ \A i \in 1..Len(q) : Append(q, e)[i] = q[i]
      /\ Append(q, e)[Len(q) + 1] = e
  BY AppendProperties
<1>3. \A i \in 1..Len(Append(q, e)) :
        Append(q, e)[i] = IF i = Len(q) + 1 THEN e ELSE q[i]
  BY <1>1, <1>2
<1>4. ASSUME NEW i \in 1..Len(Append(q, e)),
             NEW j \in 1..Len(Append(q, e)), i < j
      PROVE  Append(q, e)[i] < Append(q, e)[j]
  <2>1. i \in 1..Len(q) /\ (j \in 1..Len(q) \/ j = Len(q) + 1)
    BY <1>1, <1>2, <1>4
  <2> QED
    BY <1>2, <1>4, <2>1 DEF Rising
<1> QED
  BY <1>2, <1>3, <1>4 DEF Rising

(* The oldest item leaves it before all others.                            *)
LEMMA RisingTail ==
  ASSUME NEW q \in Seq(Int), q # <<>>, Rising(q)
  PROVE  /\ Rising(Tail(q)) /\ Head(q) = q[1] /\ 1 \in 1..Len(q)
         /\ \A i \in 1..Len(Tail(q)) : /\ i + 1 \in 1..Len(q)
                                       /\ Tail(q)[i] = q[i + 1]
                                       /\ Head(q) < Tail(q)[i]
<1>1. /\ Len(q) \in Nat /\ Len(q) > 0 /\ Len(Tail(q)) = Len(q) - 1
      /\ Head(q) = q[1] /\ \A i \in 1..Len(Tail(q)) : Tail(q)[i] = q[i + 1]
  BY HeadTailProperties, LenProperties, EmptySeq
<1>2. ASSUME NEW i \in 1..Len(Tail(q))
      PROVE  /\ i + 1 \in 1..Len(q) /\ Tail(q)[i] = q[i + 1]
             /\ Head(q) < Tail(q)[i]
  <2>1. i + 1 \in 1..Len(q) /\ 1 \in 1..Len(q) /\ 1 < i + 1
    BY <1>1
  <2> QED
    BY <1>1, <2>1 DEF Rising
<1>3. Rising(Tail(q))
  BY <1>1, <1>2 DEF Rising
<1> QED
  BY <1>1, <1>2, <1>3

(* Units are written in the order of their numbers and received so.        *)
LEMMA UnitsStep ==
  ASSUME IInv, UnitsInOrder, [Next]_vars
  PROVE  UnitsInOrder'
<1>1. /\ written \in Nat
      /\ \A n \in Subscribers : channel[n] \in Seq(Int) /\ got[n] \in Nat
                                /\ Len(channel[n]) \in Nat
  BY AUHubAssumption, LenProperties DEF IInv, TypeOK, AUHubAssumption
<1>2. CASE Write
  <2> SUFFICES ASSUME NEW n \in Subscribers
               PROVE  /\ got'[n] <= written' /\ Rising(channel'[n])
                      /\ \A i \in 1..Len(channel'[n]) :
                           /\ got'[n] < channel'[n][i]
                           /\ channel'[n][i] <= written'
    BY DEF UnitsInOrder, Rising
  <2>1. written' = written + 1 /\ got' = got
    BY <1>2 DEF Write
  <2>2. CASE channel'[n] = Append(channel[n], written')
    <3>1. \A i \in 1..Len(channel[n]) : channel[n][i] \in Int
      BY <1>1
    <3>2. \A i \in 1..Len(channel[n]) : channel[n][i] < written'
      BY <1>1, <2>1, <3>1 DEF UnitsInOrder
    <3>3. /\ Rising(channel'[n]) /\ Len(channel'[n]) = Len(channel[n]) + 1
          /\ \A i \in 1..Len(channel'[n]) :
               channel'[n][i] = IF i = Len(channel[n]) + 1 THEN written'
                                                          ELSE channel[n][i]
      <4> DEFINE q == channel[n]
      <4>1. q \in Seq(Int) /\ Rising(q) /\ \A i \in 1..Len(q) : q[i] < written'
        BY <1>1, <3>2 DEF UnitsInOrder
      <4>2. written' \in Int
        BY <1>1, <2>1
      <4> HIDE DEF q
      <4>3. /\ Rising(Append(q, written'))
            /\ Len(Append(q, written')) = Len(q) + 1
            /\ \A i \in 1..Len(Append(q, written')) :
                 Append(q, written')[i] = IF i = Len(q) + 1 THEN written'
                                                            ELSE q[i]
        BY <4>1, <4>2, RisingAppend
      <4> QED
        BY <2>2, <4>3 DEF q
    <3>4. ASSUME NEW i \in 1..Len(channel'[n])
          PROVE  got'[n] < channel'[n][i] /\ channel'[n][i] <= written'
      <4>1. CASE i = Len(channel[n]) + 1
        BY <1>1, <2>1, <3>3, <4>1 DEF UnitsInOrder
      <4>2. CASE i # Len(channel[n]) + 1
        <5>1. i \in 1..Len(channel[n])
          BY <1>1, <3>3, <4>2
        <5> QED
          BY <1>1, <2>1, <3>1, <3>3, <4>2, <5>1 DEF UnitsInOrder
      <4> QED
        BY <4>1, <4>2
    <3> QED
      BY <1>1, <2>1, <3>3, <3>4 DEF UnitsInOrder
  <2>3. CASE channel'[n] = channel[n]
    <3>1. \A i \in 1..Len(channel[n]) : channel[n][i] \in Int
      BY <1>1
    <3> QED
      BY <1>1, <2>1, <2>3, <3>1 DEF UnitsInOrder
  <2> QED
    BY <1>2, <2>2, <2>3 DEF Write
<1>3. ASSUME NEW m \in Subscribers, Receive(m) PROVE UnitsInOrder'
  <2>1. written' = written
    BY <1>3 DEF Receive
  <2>2. CASE channel[m] # <<>>
    <3>1. /\ got' = [got EXCEPT ![m] = Head(channel[m])]
          /\ channel' = [channel EXCEPT ![m] = Tail(channel[m])]
      BY <1>3, <2>2 DEF Receive
    <3>2. /\ got'[m] = Head(channel[m]) /\ channel'[m] = Tail(channel[m])
          /\ \A n \in Subscribers \ {m} :
               got'[n] = got[n] /\ channel'[n] = channel[n]
      BY <3>1 DEF IInv, TypeOK
    <3>3. /\ Rising(Tail(channel[m])) /\ Head(channel[m]) = channel[m][1]
          /\ 1 \in 1..Len(channel[m])
          /\ \A i \in 1..Len(Tail(channel[m])) :
               /\ i + 1 \in 1..Len(channel[m])
               /\ Tail(channel[m])[i] = channel[m][i + 1]
               /\ Head(channel[m]) < Tail(channel[m])[i]
      BY <1>1, <2>2, RisingTail DEF UnitsInOrder
    <3>4. /\ got'[m] <= written
          /\ \A i \in 1..Len(channel'[m]) :
               got'[m] < channel'[m][i] /\ channel'[m][i] <= written
      BY <3>2, <3>3 DEF UnitsInOrder
    <3> QED
      BY <2>1, <3>2, <3>3, <3>4 DEF UnitsInOrder, Rising
  <2>3. CASE channel[m] = <<>>
    <3>1. UNCHANGED <<got, channel>>
      BY <1>3, <2>3 DEF Receive
    <3> QED
      BY <2>1, <3>1 DEF UnitsInOrder, Rising
  <2> QED
    BY <2>2, <2>3
<1>4. ASSUME UNCHANGED <<got, channel, written>> PROVE UnitsInOrder'
  BY <1>4 DEF UnitsInOrder, Rising
<1>5. ASSUME NEW m \in Subscribers,
             \/ Unsubscribe(m) \/ UnsubscribeCancels(m) \/ Watcher(m)
             \/ ContextDone(m)
      PROVE  UnitsInOrder'
  BY <1>4, <1>5 DEF Unsubscribe, UnsubscribeCancels, Watcher, ContextDone
<1>6. CASE Subscribe \/ UNCHANGED vars
  BY <1>4, <1>6 DEF Subscribe, vars
<1> QED
  BY <1>2, <1>3, <1>5, <1>6 DEF Next

(* The camera sends later frames, and the parser takes the oldest, after   *)
(* it wrote the unit of the one before.                                    *)
LEMMA FramesInOrderStep ==
  ASSUME DeliveryInv, DeliveryTypeOK, FramesInOrder,
         [DeliveryNext]_<<vars, deliveryVars>>
  PROVE  FramesInOrder'
<1>1. /\ origin \in Seq(Int) /\ frames \in Seq(Int) /\ lastFrame \in Int
      /\ written \in Nat
  BY DeliveryAssumption, AUHubAssumption
     DEF DeliveryTypeOK, DeliveryAssumption, DeliveryInv, IInv, TypeOK,
         AUHubAssumption
<1>2. /\ Len(origin) \in Nat /\ Len(frames) \in Nat
      /\ \A k \in 1..Len(origin) : origin[k] \in Int
      /\ \A i \in 1..Len(frames) : frames[i] \in Int
  BY <1>1, LenProperties
<1>3. CASE CameraSends
  <2>1. /\ lastFrame' \in 1..MaxFrames /\ lastFrame' > lastFrame
        /\ frames' = Append(frames, lastFrame')
        /\ UNCHANGED <<origin, parser, written>>
    BY <1>3 DEF CameraSends, Frames!Send, parserVars, vars
  <2>2. lastFrame' \in Int
    BY <2>1, DeliveryAssumption DEF DeliveryAssumption
  <2>3. \A i \in 1..Len(frames) : frames[i] < lastFrame'
    BY <1>1, <1>2, <2>1, <2>2 DEF FramesInOrder
  <2>4. /\ Rising(frames') /\ Len(frames') = Len(frames) + 1
        /\ \A i \in 1..Len(frames') :
             frames'[i] = IF i = Len(frames) + 1 THEN lastFrame' ELSE frames[i]
    BY <1>1, <2>1, <2>2, <2>3, RisingAppend DEF FramesInOrder
  <2>5. \A k \in 1..Len(origin) : origin[k] < lastFrame'
    BY <1>1, <1>2, <2>1, <2>2 DEF FramesInOrder
  <2>6. \A i \in 1..Len(frames') : i # Len(frames) + 1 => i \in 1..Len(frames)
    BY <1>2, <2>4
  <2>7. \A i \in 1..Len(frames') :
          /\ frames'[i] <= lastFrame'
          /\ \A k \in 1..Len(origin) : origin[k] < frames'[i]
    BY <1>2, <2>2, <2>3, <2>4, <2>5, <2>6 DEF FramesInOrder
  <2>8. \A k \in 1..Len(origin) : origin[k] <= lastFrame'
    BY <1>2, <2>2, <2>5
  <2> QED
    BY <2>1, <2>4, <2>7, <2>8 DEF FramesInOrder, Rising
<1>4. CASE ParserTakes
  <2>1. /\ parser = "take" /\ frames # <<>> /\ frames' = Tail(frames)
        /\ UNCHANGED <<lastFrame, written>>
    BY <1>4 DEF ParserTakes, Frames!Receive, vars
  <2>2. /\ Rising(Tail(frames)) /\ Head(frames) = frames[1]
        /\ 1 \in 1..Len(frames)
        /\ \A i \in 1..Len(Tail(frames)) : /\ i + 1 \in 1..Len(frames)
                                           /\ Tail(frames)[i] = frames[i + 1]
                                           /\ Head(frames) < Tail(frames)[i]
    BY <1>1, <2>1, RisingTail DEF FramesInOrder
  <2>3. \A i \in 1..Len(frames') :
          /\ frames'[i] <= lastFrame' /\ Head(frames) < frames'[i]
          /\ \A k \in 1..Len(origin) : origin[k] < frames'[i]
    BY <2>1, <2>2 DEF FramesInOrder
  <2>4. CASE UNCHANGED parserVars
    BY <2>1, <2>2, <2>3, <2>4 DEF FramesInOrder, parserVars, Rising
  <2>5. CASE parser' = "write" /\ origin' = Append(origin, Head(frames))
    <3>1. Head(frames) \in Int /\ Head(frames) <= lastFrame
      BY <1>2, <2>2 DEF FramesInOrder
    <3>2. \A k \in 1..Len(origin) : origin[k] < Head(frames)
      BY <2>2 DEF FramesInOrder
    <3>3. /\ Rising(origin') /\ Len(origin') = Len(origin) + 1
          /\ \A k \in 1..Len(origin') :
               origin'[k] = IF k = Len(origin) + 1 THEN Head(frames)
                                                   ELSE origin[k]
      BY <1>1, <2>5, <3>1, <3>2, RisingAppend DEF FramesInOrder
    <3>4. \A k \in 1..Len(origin') : k # Len(origin) + 1 => k \in 1..Len(origin)
      BY <1>2, <3>3
    <3>5. \A k \in 1..Len(origin') :
            /\ origin'[k] <= lastFrame'
            /\ \A i \in 1..Len(frames') : origin'[k] < frames'[i]
      BY <2>1, <2>3, <3>1, <3>3, <3>4 DEF FramesInOrder
    <3>6. Len(origin') = written' + 1
      BY <2>1, <3>3 DEF FramesInOrder
    <3> QED
      BY <2>1, <2>2, <2>3, <2>5, <3>3, <3>5, <3>6 DEF FramesInOrder, Rising
  <2> QED
    BY <1>4, <2>4, <2>5 DEF ParserTakes, Parsed
<1>5. CASE ParserWrites
  <2>1. /\ parser = "write" /\ parser' = "take" /\ written' = written + 1
        /\ UNCHANGED <<origin, frames, lastFrame>>
    BY <1>5 DEF ParserWrites, Write, cameraVars
  <2> QED
    BY <2>1 DEF FramesInOrder, Rising
<1>6. ASSUME UNCHANGED <<origin, frames, lastFrame, written>>,
             parser' = "write" <=> parser = "write"
      PROVE  FramesInOrder'
  BY <1>6 DEF FramesInOrder, Rising
<1>7. CASE \/ MainStep \/ Signal \/ CameraCloses \/ ParserEnds
           \/ UNCHANGED <<vars, deliveryVars>>
  <2>1. /\ UNCHANGED <<origin, frames, lastFrame, written>>
        /\ parser' = parser \/ parser' \in {"take", "done"}
        /\ parser' = parser \/ parser \in {"none", "take"}
    BY <1>7 DEF MainStep, StartCamera, SubscribeSnapshot, StartParser,
       SubscribeRTSP, Subscribe, Signal, CameraCloses, Frames!Close,
       ParserEnds, vars, deliveryVars, cameraVars, parserVars,
       DeliveryInv, Wired
  <2> QED
    BY <1>6, <2>1
<1>8. ASSUME NEW n \in Subscribers, SubscriptionDone(n) \/ HubStep(n)
      PROVE  FramesInOrder'
  BY <1>6, <1>8 DEF SubscriptionDone, ContextDone, HubStep, UnsubscribeCancels,
     Watcher, Receive, deliveryVars, cameraVars, parserVars
<1> QED
  BY <1>3, <1>4, <1>5, <1>7, <1>8 DEF DeliveryNext, ParserStep

(* Whatever the capacities, the pace of camera, parser and consumers and   *)
(* the number of subscribers: what a consumer receives are frames of the   *)
(* camera, each later than all it received before.                         *)
THEOREM WayIsOneLossyPipe == DeliverySpec => FramesReachConsumersInOrder
<1>1. DeliveryInit => /\ UnitsInOrder /\ FramesInOrder
                      /\ \A n \in Subscribers : Way(n)!Init
  <2> SUFFICES ASSUME DeliveryInit
               PROVE  /\ UnitsInOrder /\ FramesInOrder
                      /\ \A n \in Subscribers : Way(n)!Init
    OBVIOUS
  <2>1. /\ frames = <<>> /\ origin = <<>> /\ written = 0 /\ parser = "none"
        /\ lastFrame = 0 /\ got = [n \in Subscribers |-> 0]
        /\ channel = [n \in Subscribers |-> <<>>]
    BY DEF DeliveryInit, Init, Frames!Init
  <2>2. UnitsInOrder /\ FramesInOrder
    BY <2>1 DEF UnitsInOrder, FramesInOrder, Rising
  <2>3. \A n \in Subscribers : Way(n)!Init
    BY <2>1 DEF Way!Init, SeenBy
  <2> QED
    BY <2>2, <2>3
<1>2. /\ DeliveryInv /\ DeliveryTypeOK /\ UnitsInOrder /\ FramesInOrder
      /\ [DeliveryNext]_<<vars, deliveryVars>>
      => UnitsInOrder' /\ FramesInOrder'
  BY HubSteps, UnitsStep, FramesInOrderStep DEF DeliveryInv
<1>3. /\ DeliveryInv /\ DeliveryTypeOK /\ UnitsInOrder /\ FramesInOrder
      /\ FramesInOrder' /\ [DeliveryNext]_<<vars, deliveryVars>>
      => [\A n \in Subscribers :
            [Way(n)!Next]_(Way(n)!pipe)]_<<vars, deliveryVars>>
  <2> SUFFICES ASSUME DeliveryInv, DeliveryTypeOK, UnitsInOrder, FramesInOrder,
                      DeliveryNext, NEW n \in Subscribers
               PROVE  [Way(n)!Next]_(Way(n)!pipe)
    OBVIOUS
  <2>1. /\ origin \in Seq(Int) /\ Len(origin) \in Nat /\ written \in Nat
        /\ DOMAIN origin = 1..Len(origin)
        /\ \A k \in 1..Len(origin) : origin[k] \in 1..MaxFrames
        /\ lastFrame \in Nat /\ got \in [Subscribers -> Nat]
        /\ written <= Len(origin) /\ got[n] <= written
    <3>1. origin \in Seq(1..MaxFrames) /\ MaxFrames \in Nat
      BY DeliveryAssumption DEF DeliveryTypeOK, DeliveryAssumption
    <3>2. /\ origin \in Seq(Int) /\ Len(origin) \in Nat
          /\ DOMAIN origin = 1..Len(origin)
          /\ \A k \in 1..Len(origin) : origin[k] \in 1..MaxFrames
      BY <3>1, LenProperties
    <3>3. lastFrame \in Nat
      BY <3>1 DEF DeliveryTypeOK
    <3>4. written \in Nat /\ got \in [Subscribers -> Nat]
      BY AUHubAssumption DEF DeliveryInv, IInv, TypeOK, AUHubAssumption
    <3>5. written <= Len(origin) /\ got[n] <= written
      BY <3>2, <3>4 DEF FramesInOrder, UnitsInOrder
    <3> QED
      BY <3>2, <3>3, <3>4, <3>5
  <2>2. ASSUME UNCHANGED <<origin, got>>, lastFrame' = lastFrame
        PROVE  UNCHANGED Way(n)!pipe
    BY <2>2 DEF SeenBy, Way!pipe
  <2>3. CASE CameraSends
    <3>1. lastFrame' > lastFrame /\ UNCHANGED <<origin, got>>
      BY <2>3 DEF CameraSends, Frames!Send, parserVars, vars
    <3>2. Way(n)!Send
      BY <3>1 DEF Way!Send, SeenBy
    <3> QED
      BY <3>2 DEF Way!Next
  <2>4. CASE ParserTakes
    <3>1. /\ UNCHANGED <<got, lastFrame>> /\ frames # <<>>
          /\ origin' = origin \/ origin' = Append(origin, Head(frames))
      BY <2>4 DEF ParserTakes, Parsed, parserVars, Frames!Receive, vars
    <3>2. Head(frames) \in Int
      BY <3>1, NewestAfterReceive, DeliveryAssumption
         DEF DeliveryTypeOK, DeliveryAssumption
    <3>3. CASE origin' = Append(origin, Head(frames))
      <4>1. parser = "take" /\ Len(origin) = written
        BY <2>4 DEF ParserTakes, FramesInOrder
      <4>2. /\ origin' \in Seq(Int) /\ Len(origin') = Len(origin) + 1
            /\ \A k \in 1..Len(origin) : origin'[k] = origin[k]
        BY <2>1, <3>2, <3>3, AppendProperties
      <4>3. DOMAIN origin' = 1..(Len(origin) + 1)
        BY <4>2, LenProperties
      <4>4. got[n] \in DOMAIN origin' <=> got[n] \in DOMAIN origin
        BY <2>1, <4>1, <4>3
      <4>5. SeenBy(n)' = SeenBy(n)
        BY <2>1, <3>1, <4>2, <4>4 DEF SeenBy
      <4> QED
        BY <3>1, <4>5 DEF Way!pipe
    <3> QED
      BY <2>2, <3>1, <3>3
  <2>5. ASSUME NEW m \in Subscribers, Receive(m), UNCHANGED deliveryVars
        PROVE  [Way(n)!Next]_(Way(n)!pipe)
    <3>1. UNCHANGED <<origin, lastFrame>>
      BY <2>5 DEF deliveryVars, cameraVars, parserVars
    <3>2. CASE m = n /\ channel[n] # <<>>
      <4>1. got'[n] = Head(channel[n])
        BY <2>1, <2>5, <3>2 DEF Receive
      <4>2. /\ channel[n] \in Seq(Int) /\ Rising(channel[n])
            /\ got[n] \in Nat
        BY <2>1, AUHubAssumption
           DEF DeliveryInv, IInv, TypeOK, UnitsInOrder, AUHubAssumption
      <4>3. /\ Head(channel[n]) = channel[n][1] /\ 1 \in 1..Len(channel[n])
            /\ Head(channel[n]) \in Int
        BY <3>2, <4>2, RisingTail, NewestAfterReceive
      <4>4. got[n] < got'[n] /\ got'[n] <= written
        BY <4>1, <4>3 DEF UnitsInOrder
      <4>5. got'[n] \in 1..Len(origin)
        BY <2>1, <4>1, <4>2, <4>3, <4>4
      <4>6. SeenBy(n)' = origin[got'[n]]
        BY <2>1, <3>1, <4>5 DEF SeenBy
      <4>7. SeenBy(n) = 0 \/ (got[n] \in 1..Len(origin)
                              /\ SeenBy(n) = origin[got[n]])
        BY <2>1 DEF SeenBy
      <4>8. SeenBy(n)' > SeenBy(n) /\ SeenBy(n)' <= lastFrame
        BY <2>1, <4>4, <4>5, <4>6, <4>7 DEF FramesInOrder, Rising
      <4>9. Way(n)!Receive
        BY <3>1, <4>8 DEF Way!Receive
      <4> QED
        BY <4>9 DEF Way!Next
    <3>3. CASE ~(m = n /\ channel[n] # <<>>)
      <4>1. got'[n] = got[n]
        BY <2>1, <2>5, <3>3 DEF Receive
      <4> QED
        BY <3>1, <4>1 DEF SeenBy, Way!pipe
    <3> QED
      BY <3>2, <3>3
  <2>6. CASE \/ MainStep \/ Signal \/ CameraCloses \/ ParserEnds \/ ParserWrites
    <3>1. UNCHANGED <<origin, got, lastFrame>>
      BY <2>6 DEF MainStep, StartCamera, SubscribeSnapshot, StartParser,
         SubscribeRTSP, Subscribe, Signal, CameraCloses, Frames!Close,
         ParserEnds, ParserWrites, Write, vars, cameraVars, parserVars
    <3> QED
      BY <2>2, <3>1
  <2>7. ASSUME NEW m \in Subscribers, SubscriptionDone(m) \/ HubStep(m)
        PROVE  [Way(n)!Next]_(Way(n)!pipe)
    <3>1. CASE Receive(m) /\ UNCHANGED deliveryVars
      BY <2>5, <3>1
    <3>2. CASE ~(Receive(m) /\ UNCHANGED deliveryVars)
      <4>1. UNCHANGED <<origin, got, lastFrame>>
        BY <2>7, <3>2 DEF SubscriptionDone, ContextDone, HubStep,
           UnsubscribeCancels, Watcher, deliveryVars, cameraVars, parserVars
      <4> QED
        BY <2>2, <4>1
    <3> QED
      BY <3>1, <3>2
  <2> QED
    BY <2>3, <2>4, <2>5, <2>6, <2>7 DEF DeliveryNext, ParserStep
<1>4. DeliveryTypeOK /\ [DeliveryNext]_<<vars, deliveryVars>> => DeliveryTypeOK'
  BY StepDeliveryType
<1> QED
  BY InitDelivery, StepDelivery, InitDeliveryType, <1>1, <1>2, <1>3, <1>4, PTL
  DEF DeliverySpec, FramesReachConsumersInOrder
=============================================================================
