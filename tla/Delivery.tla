------------------------------ MODULE Delivery ------------------------------
(***************************************************************************)
(* The way of a frame through the process, as main wires it                *)
(* (src/cmd/server/main.go): the camera's channel, the parser goroutine    *)
(* and the hub with its two subscribers, the snapshot buffer and the RTSP  *)
(* server.  main starts them one after the other while the camera already  *)
(* sends.  The camera's channel is the abstract LossyChannel, which module *)
(* Camera implements.                                                      *)
(***************************************************************************)
EXTENDS AUHub

CONSTANTS
  FrameCap,   \* capacity of the camera's channel (30)
  MaxFrames   \* bound: frames the camera sends

\* Every frame may become a unit: the bound on units stops no writer.  The
\* first subscriber, the snapshot's, reads; the RTSP server, the second, reads
\* while somebody plays.  main subscribes both, and 1 is a code point.
ASSUME DeliveryAssumption ==
  /\ FrameCap \in Nat /\ MaxFrames \in Nat /\ MaxFrames <= MaxUnits
  /\ MaxSubs >= 2 /\ Cap > 0 /\ 1 \in Readers /\ 1 \notin NotRunes

VARIABLES
  main,         \* "camera", "snapshot", "parser", "rtsp", "up"
  signalled,    \* the context of main is done
  frames, lastFrame, framesClosed,   \* the camera's channel
  parser,       \* "none", "take", "write", "done"
  origin        \* history: the frame of each unit parsed so far

cameraVars   == <<frames, lastFrame, framesClosed>>
parserVars   == <<parser, origin>>
deliveryVars == <<main, signalled, cameraVars, parserVars>>

Frames == INSTANCE LossyChannel WITH Capacity <- FrameCap, buffer <- frames,
                                     last <- lastFrame, closed <- framesClosed

SnapshotSub == 1   \* the subscriptions, in the order main makes them
RTSPSub     == 2

DeliveryInit ==
  /\ Init /\ Frames!Init
  /\ main = "camera" /\ signalled = FALSE /\ parser = "none" /\ origin = <<>>

----------------------------------------------------------------------------
\* main: cam.Start, then the subscription for snapshots.
StartCamera ==
  /\ main = "camera" /\ main' = "snapshot"
  /\ UNCHANGED <<vars, signalled, cameraVars, parserVars>>

\* Mutant: the parser goroutine is started before the subscription.
SubscribeSnapshotLate ==
  /\ main = "snapshot"
  /\ \/ parser = "none" /\ parser' = "take" /\ UNCHANGED <<vars, main>>
     \/ parser # "none" /\ main' = "rtsp" /\ Subscribe /\ UNCHANGED parser
  /\ UNCHANGED <<signalled, cameraVars, origin>>

SubscribeSnapshot ==
  /\ main = "snapshot" /\ main' = "parser" /\ Subscribe
  /\ UNCHANGED <<signalled, cameraVars, parserVars>>

StartParser ==
  /\ main = "parser" /\ main' = "rtsp" /\ parser' = "take"
  /\ UNCHANGED <<vars, signalled, cameraVars, origin>>

SubscribeRTSP ==
  /\ main = "rtsp" /\ main' = "up" /\ Subscribe
  /\ UNCHANGED <<signalled, cameraVars, parserVars>>

MainStep == StartCamera \/ SubscribeSnapshot \/ StartParser \/ SubscribeRTSP

\* SIGTERM: the context of both subscriptions, now or once they exist.
Signal ==
  /\ ~signalled /\ signalled' = TRUE
  /\ UNCHANGED <<vars, main, cameraVars, parserVars>>

SubscriptionDone(n) ==
  /\ signalled /\ ContextDone(n) /\ UNCHANGED deliveryVars

----------------------------------------------------------------------------
\* The camera sends frames; one that finds the channel full is lost.
CameraSends ==
  /\ main # "camera" /\ \E f \in 1..MaxFrames : lastFrame' = f /\ Frames!Send
  /\ UNCHANGED <<vars, main, signalled, parserVars>>

\* The last step of the shutdown, which runs after the signal.
CameraCloses ==
  /\ main = "up" /\ signalled /\ Frames!Close
  /\ UNCHANGED <<vars, main, signalled, parserVars>>

\* What parsing a frame comes to: a unit to write, or nothing.
Parsed(f) ==
  \/ parser' = "write" /\ origin' = Append(origin, f)
  \/ UNCHANGED parserVars

\* Mutant: it catches up with the newest frame first.
ParserTakesNewest ==
  /\ parser = "take" /\ frames # <<>> /\ Parsed(frames[Len(frames)])
  /\ frames' = SubSeq(frames, 1, Len(frames) - 1)
  /\ UNCHANGED <<vars, main, signalled, lastFrame, framesClosed>>

\* for frame := range cam.Frames(): a frame without NAL units is skipped.
ParserTakes ==
  /\ parser = "take" /\ Frames!Receive /\ Parsed(Head(frames))
  /\ UNCHANGED <<vars, main, signalled>>

ParserEnds ==
  /\ parser = "take" /\ frames = <<>> /\ framesClosed /\ parser' = "done"
  /\ UNCHANGED <<vars, main, signalled, cameraVars, origin>>

ParserWrites ==
  /\ parser = "write" /\ parser' = "take" /\ Write
  /\ UNCHANGED <<main, signalled, cameraVars, origin>>

ParserStep == ParserTakes \/ ParserEnds \/ ParserWrites

HubStep(n) ==
  /\ \/ UnsubscribeCancels(n) \/ Watcher(n) \/ Receive(n)
  /\ UNCHANGED deliveryVars

DeliveryNext ==
  \/ MainStep \/ Signal \/ CameraSends \/ CameraCloses \/ ParserStep
  \/ \E n \in Subscribers : SubscriptionDone(n) \/ HubStep(n)

DeliverySpec == DeliveryInit /\ [][DeliveryNext]_<<vars, deliveryVars>>

(* Besides what AUHub assumes: main comes to the end of its starts, the    *)
(* parser goes on, and a context that is done is seen.                     *)
DeliveryFairness ==
  LET all == <<vars, deliveryVars>> IN
  /\ WF_all(MainStep) /\ WF_all(ParserStep)
  /\ \A n \in Subscribers : WF_all(SubscriptionDone(n))

----------------------------------------------------------------------------
DeliveryTypeOK ==
  /\ main \in {"camera", "snapshot", "parser", "rtsp", "up"}
  /\ {signalled, framesClosed} \subseteq BOOLEAN
  /\ frames \in Seq(1..MaxFrames) /\ Len(frames) <= FrameCap
  /\ lastFrame \in 0..MaxFrames
  /\ parser \in {"none", "take", "write", "done"}
  /\ origin \in Seq(1..MaxFrames)

(* "subscribe BEFORE parser goroutine to ensure the first SPS/PPS+IDR      *)
(* keyframe is captured" (main.go:160): the first unit that is ever        *)
(* written waits in the snapshot's channel or has been fed to the buffer,  *)
(* unless the process was told to end before.                              *)
FirstKeyFrameCaptured ==
  parser # "none" /\ written > 0 =>
    \/ got[SnapshotSub] > 0 \/ SnapshotSub \in done
    \/ channel[SnapshotSub] # <<>> /\ Head(channel[SnapshotSub]) = 1

\* The frame a subscriber received last, 0 if none.
SeenBy(n) == IF got[n] \in DOMAIN origin THEN origin[got[n]] ELSE 0

Way(n) == INSTANCE LossyPipe WITH last <- lastFrame, got <- SeenBy(n)

(* From the camera to each consumer there is one lossy pipe, although a    *)
(* frame is put in two channels, counted anew as a unit on its way, and    *)
(* may be lost in either or make no unit at all: whatever the pace of the  *)
(* camera, the parser and the consumers, nobody receives a frame twice or  *)
(* after a later one.                                                      *)
FramesReachConsumersInOrder ==
  /\ \A n \in Subscribers : Way(n)!Init
  /\ [][\A n \in Subscribers :
          [Way(n)!Next]_(Way(n)!pipe)]_<<vars, deliveryVars>>

(* Once the camera has closed its channel after the signal, the parser     *)
(* goroutine, the snapshot's consumer and both watchers end, also when     *)
(* nobody reads the RTSP server's channel.                                 *)
PipelineEnds ==
  framesClosed ~>
    /\ parser = "done" /\ SnapshotSub \in ended
    /\ \A n \in {SnapshotSub, RTSPSub} : watcher[n] = "done"
=============================================================================
