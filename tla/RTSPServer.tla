----------------------------- MODULE RTSPServer -----------------------------
(***************************************************************************)
(* The RTSP server (src/internal/rtsp/server.go): the callbacks gortsplib  *)
(* makes for its sessions, the goroutines readFrames that move access      *)
(* units from the hub's channel to the stream, and Stop.                   *)
(*                                                                         *)
(* mu protects short sections only, each of which is one action.  A stream *)
(* is known by the number of its creation; closing it does not wait for a  *)
(* reader that has captured it.  gortsplib (external) serves SETUP and     *)
(* PLAY of a session in that order, serves further PLAYs of a session that *)
(* plays, lets a session end at any time (also one whose SETUP was         *)
(* refused), and ends a session whose stream is closed.                    *)
(***************************************************************************)
EXTENDS Integers, Sequences, FiniteSets

CONSTANTS
  Sessions,     \* the sessions gortsplib can hold at the same time
  SourceCap,    \* capacity of the hub's channel (16)
  MaxAUs,       \* bound: access units produced
  MaxReaders,   \* bound: readers started
  MaxEvents,    \* bound: sessions opened and access units produced, together
  MaxCount      \* bound: clientCount

ASSUME RTSPAssumption ==
  /\ IsFiniteSet(Sessions) /\ SourceCap \in Nat /\ SourceCap > 0
  /\ MaxAUs \in Nat /\ MaxReaders \in Nat /\ MaxEvents \in Nat
  /\ MaxCount \in Nat

VARIABLES
  session,      \* state of each session: "none", "open", "setup", "play"
  attached,     \* the stream a session was set up with, 0 before
  opens,        \* sessions opened so far
  unplayed,     \* history: a session ended that never played
  replayed,     \* history: a session sent PLAY while it was playing
  clientCount,
  cancelStream, \* the reader that s.cancelStream would cancel, 0 if nil
  cancelled,    \* readers whose context is done
  pc,           \* where each reader is; "unused" before it is started
  unit,         \* the access unit each reader processes
  local,        \* the stream each reader captured
  params,       \* each reader's answer to "SPS and PPS travel with the unit"
  readers,      \* readers started so far
  stream,       \* s.stream, 0 if nil
  streams,      \* streams initialised so far
  haveFormat,   \* h264Format holds SPS and PPS
  source,       \* contents of the hub's channel
  produced, sourceClosed,
  announced,    \* history: number of the first unit with SPS and PPS that was
                \* put in the channel, 0 if there was none
  rtp,          \* the last access unit written to a stream
  stop          \* where Stop is

sessionVars == <<session, attached, opens, unplayed, replayed>>
readerVars  == <<pc, unit, local, params>>
controlVars == <<clientCount, cancelStream, cancelled, readers>>
streamVars  == <<stream, streams, haveFormat>>
sourceVars  == <<source, produced, sourceClosed, announced>>
vars == <<sessionVars, readerVars, controlVars, streamVars, sourceVars,
          rtp, stop>>

Readers == 1..MaxReaders

\* A unit has SPS, PPS and an IDR picture, an IDR picture only, or none.  The
\* channel may begin with any: main subscribes after the parser has started.
Kinds == {"params", "idr", "delta"}
Units == [n : 1..MaxAUs, kind : Kinds]
NoUnit == [n |-> 0, kind |-> "delta"]

Init ==
  /\ session = [s \in Sessions |-> "none"]
  /\ attached = [s \in Sessions |-> 0] /\ opens = 0
  /\ unplayed = FALSE /\ replayed = FALSE
  /\ clientCount = 0 /\ cancelStream = 0 /\ cancelled = {} /\ readers = 0
  /\ pc = [r \in Readers |-> "unused"]
  /\ unit = [r \in Readers |-> NoUnit]
  /\ local = [r \in Readers |-> 0]
  /\ params = [r \in Readers |-> FALSE]
  /\ stream = 0 /\ streams = 0 /\ haveFormat = FALSE
  /\ source = <<>> /\ produced = 0 /\ sourceClosed = FALSE /\ announced = 0
  /\ rtp = [au |-> NoUnit, params |-> FALSE] /\ stop = "idle"

----------------------------------------------------------------------------
(* Helpers called with mu held.                                            *)

initStream == streams' = streams + 1 /\ stream' = streams + 1

startFrameReader ==
  /\ readers < MaxReaders
  /\ readers' = readers + 1
  /\ cancelStream' = readers + 1
  /\ pc' = [pc EXCEPT ![readers + 1] = "select"]
  /\ UNCHANGED cancelled

stopFrameReader ==
  /\ cancelled' = cancelled \union ({cancelStream} \ {0})
  /\ cancelStream' = 0
  /\ UNCHANGED <<pc, readers>>

----------------------------------------------------------------------------
(* Callbacks of the sessions.                                              *)
Serving == stop # "returned"

SessionOpen(s) ==
  /\ Serving /\ session[s] = "none" /\ opens + produced < MaxEvents
  /\ opens' = opens + 1
  /\ session' = [session EXCEPT ![s] = "open"]
  /\ UNCHANGED <<attached, unplayed, replayed, readerVars, controlVars,
                 streamVars, sourceVars, rtp, stop>>

\* OnDescribe belongs to a connection, not to a session: it answers with
\* s.stream, which it initialises first if needed.
OnDescribe ==
  /\ Serving /\ stream = 0 /\ initStream
  /\ UNCHANGED <<sessionVars, readerVars, controlVars, haveFormat,
                 sourceVars, rtp, stop>>

OnSetup(s) ==
  /\ Serving /\ session[s] = "open"
  /\ IF stream = 0 THEN initStream ELSE UNCHANGED <<stream, streams>>
  /\ session' = [session EXCEPT ![s] = "setup"]
  /\ attached' = [attached EXCEPT ![s] = stream']
  /\ UNCHANGED <<opens, unplayed, replayed, readerVars, controlVars,
                 haveFormat, sourceVars, rtp, stop>>

\* Mutant: every PLAY starts a reader.
OnPlayAlways(s) ==
  /\ Serving /\ session[s] \in {"setup", "play"} /\ clientCount < MaxCount
  /\ session' = [session EXCEPT ![s] = "play"]
  /\ replayed' = (replayed \/ session[s] = "play")
  /\ clientCount' = clientCount + 1
  /\ startFrameReader
  /\ UNCHANGED <<attached, opens, unplayed, unit, local, params, streamVars,
                 sourceVars, rtp, stop>>

\* OnPlay counts every PLAY, also one of a session that is playing.
OnPlay(s) ==
  /\ Serving /\ session[s] \in {"setup", "play"} /\ clientCount < MaxCount
  /\ session' = [session EXCEPT ![s] = "play"]
  /\ replayed' = (replayed \/ session[s] = "play")
  /\ clientCount' = clientCount + 1
  /\ IF clientCount + 1 = 1 THEN startFrameReader
                            ELSE UNCHANGED <<cancelStream, cancelled, pc, readers>>
  /\ UNCHANGED <<attached, opens, unplayed, unit, local, params, streamVars,
                 sourceVars, rtp, stop>>

\* Mutant: the last client to leave does not stop the reader.
OnSessionCloseKeepsReader(s) ==
  /\ session[s] # "none"
  /\ session' = [session EXCEPT ![s] = "none"]
  /\ attached' = [attached EXCEPT ![s] = 0]
  /\ unplayed' = (unplayed \/ session[s] # "play")
  /\ clientCount' = clientCount - 1
  /\ UNCHANGED <<opens, replayed, cancelStream, cancelled, readers,
                 readerVars, streamVars, sourceVars, rtp, stop>>

\* Mutant: the reader stops when any client leaves.
OnSessionCloseStopsReader(s) ==
  /\ session[s] # "none"
  /\ session' = [session EXCEPT ![s] = "none"]
  /\ attached' = [attached EXCEPT ![s] = 0]
  /\ unplayed' = (unplayed \/ session[s] # "play")
  /\ clientCount' = clientCount - 1 /\ stopFrameReader
  /\ UNCHANGED <<opens, replayed, unit, local, params, streamVars,
                 sourceVars, rtp, stop>>

\* OnSessionClose counts down whether or not the session ever played.
OnSessionClose(s) ==
  /\ session[s] # "none"
  /\ session' = [session EXCEPT ![s] = "none"]
  /\ attached' = [attached EXCEPT ![s] = 0]
  /\ unplayed' = (unplayed \/ session[s] # "play")
  /\ clientCount' = clientCount - 1
  /\ IF clientCount - 1 = 0 THEN stopFrameReader
                            ELSE UNCHANGED <<cancelStream, cancelled, pc, readers>>
  /\ UNCHANGED <<opens, replayed, unit, local, params, streamVars,
                 sourceVars, rtp, stop>>

\* Sessions gortsplib ends by itself: their stream is closed, or the server.
MustEnd(s) ==
  /\ session[s] # "none"
  /\ stop = "returned" \/ attached[s] \notin {0, stream}

----------------------------------------------------------------------------
\* Mutant: `ok` is not looked at, a closed channel yields units for ever.
ReaderDoneIgnoringClose(r) ==
  /\ pc[r] = "select" /\ r \in cancelled
  /\ pc' = [pc EXCEPT ![r] = "done"]
  /\ UNCHANGED <<unit, local, params, sessionVars, controlVars, streamVars,
                 sourceVars, rtp, stop>>

(* readFrames: a select over ctx.Done and the frame source, which picks    *)
(* either when both are ready.                                             *)
ReaderDone(r) ==
  /\ pc[r] = "select"
  /\ r \in cancelled \/ (source = <<>> /\ sourceClosed)
  /\ pc' = [pc EXCEPT ![r] = "done"]
  /\ UNCHANGED <<unit, local, params, sessionVars, controlVars, streamVars,
                 sourceVars, rtp, stop>>

ReaderTakes(r) ==
  /\ pc[r] = "select" /\ source # <<>>
  /\ unit' = [unit EXCEPT ![r] = Head(source)] /\ source' = Tail(source)
  /\ pc' = [pc EXCEPT ![r] = "capture"]
  /\ UNCHANGED <<local, params, sessionVars, controlVars, streamVars,
                 produced, sourceClosed, announced, rtp, stop>>

\* processAccessUnit captures the stream; without one the unit is lost.
ReaderCaptures(r) ==
  /\ pc[r] = "capture"
  /\ local' = [local EXCEPT ![r] = stream]
  /\ params' = [params EXCEPT ![r] = unit[r].kind = "params"]
  /\ pc' = [pc EXCEPT ![r] = IF stream = 0 THEN "select"
                             ELSE IF unit[r].kind = "params" THEN "format"
                             ELSE IF unit[r].kind = "idr" THEN "inject"
                             ELSE "write"]
  /\ UNCHANGED <<unit, sessionVars, controlVars, streamVars, sourceVars,
                 rtp, stop>>

\* updateFormat: new SPS and PPS; the stream is replaced if nobody is counted.
updateFormat(r) ==
  /\ pc[r] = "format" /\ haveFormat' = TRUE
  /\ IF stream # 0 /\ clientCount = 0 THEN initStream
                                      ELSE UNCHANGED <<stream, streams>>
  /\ pc' = [pc EXCEPT ![r] = "write"]
  /\ UNCHANGED <<unit, local, params, sessionVars, controlVars, sourceVars,
                 rtp, stop>>

\* Mutant: the cached SPS and PPS are not put before an IDR picture.
ReaderInjectsNothing(r) ==
  /\ pc[r] = "inject" /\ pc' = [pc EXCEPT ![r] = "write"]
  /\ UNCHANGED <<unit, local, params, sessionVars, controlVars, streamVars,
                 sourceVars, rtp, stop>>

\* The cached SPS and PPS, if there are any, go before an IDR picture.
ReaderInjects(r) ==
  /\ pc[r] = "inject"
  /\ params' = [params EXCEPT ![r] = haveFormat]
  /\ pc' = [pc EXCEPT ![r] = "write"]
  /\ UNCHANGED <<unit, local, sessionVars, controlVars, streamVars,
                 sourceVars, rtp, stop>>

\* Packets go to the captured stream; a closed stream refuses them.  Then
\* processAccessUnit returns, and what it knew of the unit is gone.
ReaderWrites(r) ==
  /\ pc[r] = "write"
  /\ rtp' = IF local[r] = stream THEN [au |-> unit[r], params |-> params[r]]
                                 ELSE rtp
  /\ pc' = [pc EXCEPT ![r] = "select"]
  /\ unit' = [unit EXCEPT ![r] = NoUnit] /\ local' = [local EXCEPT ![r] = 0]
  /\ params' = [params EXCEPT ![r] = FALSE]
  /\ UNCHANGED <<sessionVars, controlVars, streamVars, sourceVars, stop>>

ReaderStep(r) ==
  \/ ReaderDone(r) \/ ReaderTakes(r) \/ ReaderCaptures(r) \/ updateFormat(r)
  \/ ReaderInjects(r) \/ ReaderWrites(r)

----------------------------------------------------------------------------
(* Stop: only its first step holds mu.                                     *)
Stopped(from, to) == stop = from /\ stop' = to

StopCancel ==
  /\ Stopped("idle", "wait") /\ stopFrameReader
  /\ UNCHANGED <<clientCount, unit, local, params, sessionVars, streamVars,
                 sourceVars, rtp>>

\* wg.Wait: a reader started after StopCancel is waited for as well.
StopJoin ==
  /\ Stopped("wait", "stream")
  /\ \A r \in Readers : pc[r] \in {"unused", "done"}
  /\ UNCHANGED <<sessionVars, readerVars, controlVars, streamVars,
                 sourceVars, rtp>>

StopStream ==
  /\ Stopped("stream", "server") /\ stream' = 0
  /\ UNCHANGED <<sessionVars, readerVars, controlVars, streams, haveFormat,
                 sourceVars, rtp>>

StopServer ==
  /\ Stopped("server", "returned")
  /\ UNCHANGED <<sessionVars, readerVars, controlVars, streamVars,
                 sourceVars, rtp>>

StopStep == StopJoin \/ StopStream \/ StopServer

----------------------------------------------------------------------------
(* The hub: it drops units that do not fit and closes the channel when its *)
(* context is cancelled.                                                   *)
Produce ==
  /\ ~sourceClosed /\ produced < MaxAUs /\ opens + produced < MaxEvents
  /\ produced' = produced + 1
  /\ \E k \in Kinds :
       IF Len(source) < SourceCap
         THEN /\ source' = Append(source, [n |-> produced', kind |-> k])
              /\ announced' = IF announced = 0 /\ k = "params" THEN produced'
                                                              ELSE announced
         ELSE UNCHANGED <<source, announced>>
  /\ UNCHANGED <<sourceClosed, sessionVars, readerVars, controlVars,
                 streamVars, rtp, stop>>

SourceCloses ==
  /\ ~sourceClosed /\ sourceClosed' = TRUE
  /\ UNCHANGED <<source, produced, announced, sessionVars, readerVars,
                 controlVars, streamVars, rtp, stop>>

----------------------------------------------------------------------------
Next ==
  \/ \E s \in Sessions : \/ SessionOpen(s) \/ OnSetup(s)
                         \/ OnPlay(s) \/ OnSessionClose(s)
  \/ OnDescribe
  \/ \E r \in Readers : ReaderStep(r)
  \/ StopCancel \/ StopStep \/ Produce \/ SourceCloses

Spec == Init /\ [][Next]_vars

(* Goroutines that can run do run, a select does not ignore ctx.Done for   *)
(* ever, and gortsplib ends the sessions it has to end.  No client needs   *)
(* to connect, play or leave; the hub need not produce nor close.          *)
Fairness ==
  /\ \A r \in Readers : WF_vars(ReaderStep(r)) /\ SF_vars(ReaderDone(r))
  /\ \A s \in Sessions : WF_vars(MustEnd(s) /\ OnSessionClose(s))
  /\ WF_vars(StopStep)

FairSpec == Spec /\ Fairness

----------------------------------------------------------------------------
TypeOK ==
  /\ session \in [Sessions -> {"none", "open", "setup", "play"}]
  /\ attached \in [Sessions -> Nat] /\ opens \in Nat
  /\ unplayed \in BOOLEAN /\ replayed \in BOOLEAN
  /\ clientCount \in Int /\ cancelStream \in Readers \union {0}
  /\ cancelled \subseteq Readers /\ readers \in 0..MaxReaders
  /\ pc \in [Readers -> {"unused", "select", "capture", "format", "inject",
                         "write", "done"}]
  /\ unit \in [Readers -> Units \union {NoUnit}]
  /\ local \in [Readers -> Nat] /\ params \in [Readers -> BOOLEAN]
  /\ stream \in Nat /\ streams \in Nat /\ haveFormat \in BOOLEAN
  /\ source \in Seq(Units) /\ Len(source) <= SourceCap
  /\ produced \in 0..MaxAUs /\ announced \in 0..MaxAUs
  /\ sourceClosed \in BOOLEAN
  /\ rtp \in [au : Units \union {NoUnit}, params : BOOLEAN]
  /\ stop \in {"idle", "wait", "stream", "server", "returned"}

Running(r) == pc[r] \notin {"unused", "done"}
Live(r)    == Running(r) /\ r \notin cancelled
Playing    == {s \in Sessions : session[s] = "play"}

(* However sessions come and go, there is never a reader that nobody can   *)
(* cancel: the uncancelled one is the one s.cancelStream stands for.       *)
NoStrayReader == \A r \in Readers : Live(r) => r = cancelStream

(* "The server starts consuming frames only when at least one client is    *)
(* connected": an uncancelled reader means that some session is playing,   *)
(* however sessions come and go and whether or not they ever played, until *)
(* one sends PLAY a second time.  That is counted as another client, whose *)
(* end never comes.                                                        *)
ConsumesUnlessReplayed ==
  ~replayed => ((\E r \in Readers : Live(r)) => Playing # {})

(* Stop returns once the hub has closed the channel, as it has when main   *)
(* gets to stop the server, and every reader ends, including one that a    *)
(* PLAY started while Stop was waiting.                                    *)
StopReturns ==
  stop = "wait" /\ sourceClosed
    ~> stop = "returned" /\ \A r \in Readers : ~Running(r)

(* "Inject SPS+PPS before IDR frames": until Stop, and as long as one      *)
(* reader did all the reading, every IDR picture that was put in the       *)
(* channel after a unit with SPS and PPS is written together with them,    *)
(* whatever the channel began with and whatever did not fit.  With a       *)
(* second reader the first may still hold the unit that carries them.      *)
IDRIsDecodable ==
  /\ stop = "idle" /\ readers <= 1
  /\ rtp.au.kind = "idr" /\ announced # 0 /\ rtp.au.n > announced
  => rtp.params

(* What the source says and the code does not do: "Starts frame            *)
(* consumption when the first client starts playing".  While somebody      *)
(* plays and Stop was not called there is a reader that nobody cancelled.  *)
PlayingIsServed ==
  stop = "idle" /\ Playing # {} /\ ~sourceClosed => \E r \in Readers : Live(r)

(* It holds until a session ends that never played, however players come   *)
(* and go, however often they send PLAY, and whatever cancelled readers    *)
(* are still inside a unit: nothing but such a session takes clientCount   *)
(* below the number of players.                                            *)
ServedUnlessUnplayed == ~unplayed => PlayingIsServed
=============================================================================
