----------------------------- MODULE MCServices -----------------------------
(***************************************************************************)
(* The components of the process that share no state with any other, each  *)
(* checked on its own in one run: part, which never changes, says which of *)
(* them moves in a behaviour.                                              *)
(***************************************************************************)
EXTENDS HLSServer, FiniteSets

CONSTANTS Clients, QueueCap,
          Requests, Tokens, MaxAttempts, Window, Block, TTL,
          MaxTime, MaxFailures, Updates, MaxUnits, Bytes, MaxBytes

VARIABLES
  part,
  queue, hub, failed, closing, registered, conn, writeErr, peer, reader, writer,
  writeLeft, readLeft, pingIn,
  now, entry, request, failures, wrong, issued, sessions, stale,
  file, synced, disk, tmp, update, answer, restart, up, override, using,
  replaced, undone,
  units, latest, lastSPS, lastPPS, handler, given,
  data, parse, scan, positions, split, nalus,
  socket, listener, readLoop, stopUDP, cancelled

\* 64 in the code.
ASSUME HubAssumption == QueueCap \in Nat

\* 10 attempts, a minute, 5 minutes and 24 hours in the code.
ASSUME LoginAssumption ==
  /\ IsFiniteSet(Requests) /\ MaxAttempts \in Nat /\ MaxAttempts > 1
  /\ Window \in Nat /\ Block \in Nat /\ Window < Block /\ TTL \in Nat
  /\ MaxTime \in Nat /\ MaxTime > 0 /\ MaxFailures \in Nat

\* A request is none of the other things the configuration file can hold.
ASSUME ConfigAssumption == Updates \intersect {"original", "torn", "env"} = {}

Hub    == INSTANCE WSHub
Login  == INSTANCE WebLogin
Config == INSTANCE ConfigUpdate
Snap   == INSTANCE Snapshot
Parser == INSTANCE H264Parser
Probes == INSTANCE Discovery

HubVars == <<queue, hub, failed, closing, registered, conn, writeErr, peer,
             reader, writer, readLeft, pingIn, writeLeft>>
LoginVars  == <<now, entry, request, failures, wrong, issued, sessions, stale>>
ConfigVars == <<file, synced, disk, replaced, undone, tmp, update, answer,
                restart, up, override, using>>
ProbeVars  == <<socket, listener, readLoop, stopUDP, cancelled>>
SnapVars   == <<units, latest, lastSPS, lastPPS, handler, given>>
ParserVars == <<data, parse, scan, positions, split, nalus>>
all == <<part, vars, HubVars, LoginVars, ConfigVars, SnapVars, ParserVars,
         ProbeVars>>

ServicesInit ==
  /\ part \in {"hls", "hub", "login", "config", "snapshot", "parser",
             "probes"}
  /\ Init /\ Hub!Init /\ Login!Init /\ Config!Init /\ Snap!Init /\ Parser!Init
  /\ Probes!Init /\ (part # "config" => ~override)

\* The part moves, or it is another one's turn for ever.
ServicesNext ==
  /\ UNCHANGED part
  /\ IF part = "hls" THEN Next ELSE UNCHANGED vars
  /\ IF part = "hub" THEN Hub!Next ELSE UNCHANGED HubVars
  /\ IF part = "login" THEN Login!Next ELSE UNCHANGED LoginVars
  /\ IF part = "config" THEN Config!Next ELSE UNCHANGED ConfigVars
  /\ IF part = "snapshot" THEN Snap!Next ELSE UNCHANGED SnapVars
  /\ IF part = "parser" THEN Parser!Next ELSE UNCHANGED ParserVars
  /\ IF part = "probes" THEN Probes!Next ELSE UNCHANGED ProbeVars

(* What HLSServer, WSHub and Discovery assume: none of their fair actions  *)
(* is enabled initially, so this asks nothing when another part moves.     *)
ServicesSpec ==
  ServicesInit /\ [][ServicesNext]_all /\ Fairness /\ Hub!Fairness
  /\ Probes!Fairness

----------------------------------------------------------------------------
(* The properties of the instances, under names of this module; those of   *)
(* HLSServer keep theirs.                                                  *)

\* Type correctness of the larger parts.
ServicesTypeOK == TypeOK /\ Hub!TypeOK /\ Login!TypeOK

\* A connection the hub forgot is closed or being closed (ws.go).
ForgottenIsClosed == Hub!ForgottenIsClosed

\* A connection that broke leaves the hub's map, its pumps end, and the hub
\* comes back for the next event (ws.go).
HubRecovers == Hub!HubRecovers

\* The login limiter refuses nobody without enough recent failures (auth.go).
RefusedForCause == Login!RefusedForCause

\* The login limiter is overshot only by requests in flight (auth.go).
AttemptsBounded == Login!AttemptsBounded

\* The configuration file is always whole, with the credentials that were
\* acknowledged last, unless the power went too soon, and none that were
\* refused (handlers.go).
AcceptedIsStored == Config!AcceptedIsStored

\* A key frame is converted with its parameter sets in front (snapshot.go).
Decodable == Snap!Decodable

\* The reader of probes ends (discovery.go).
ReaderEnds == Probes!ReaderEnds

\* Every byte is in one start code or one NAL unit (parser.go).
EveryByteOnce == Parser!EveryByteOnce
=============================================================================
