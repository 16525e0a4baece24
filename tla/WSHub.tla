------------------------------- MODULE WSHub -------------------------------
(***************************************************************************)
(* The WebSocket hub of the web server (src/internal/web/ws.go).  Hooks    *)
(* queue events; run broadcasts them to the registered connections and     *)
(* drops those it cannot write to; each connection has a read pump and a   *)
(* write pump; close ends everything.                                      *)
(*                                                                         *)
(* Time passes in units of 10 seconds, the write deadline; timers and      *)
(* deadlines are kept as the units they have left.  A WriteMessage is one  *)
(* step.  Which event it is, and what sendInitialState sends, is left out. *)
(***************************************************************************)
EXTENDS Integers, FiniteSets

CONSTANTS
  Clients,   \* the connections
  QueueCap   \* capacity of the events channel (64 in the code)

WriteWait  == 1   \* wsWriteWait, 10 s
PongWait   == 6   \* wsPongWait, 60 s
PingPeriod == 3   \* wsPingPeriod, 30 s
Unset      == -1  \* no deadline

VARIABLES
  queue,      \* number of events in the channel
  hub,        \* run: "run", "remove", "done"
  failed,     \* the connections run could not write to
  closing,    \* close: "no", "done" (channel closed), "closed"
  registered, \* h.clients
  conn,       \* "none", "open", "closed"
  writeErr,   \* a write failed: gorilla then fails every later one
  peer,       \* "up", "left" (closed its end), "silent" (unreachable)
  reader,     \* wsReadPump: "none", "reading", "failed", "closing", "done"
  writer,     \* wsWritePump: "none", "waiting", "closing", "done"
  writeLeft, readLeft, pingIn

hubVars  == <<queue, hub, failed, closing>>
pumpVars == <<reader, writer, readLeft, pingIn>>
vars == <<hubVars, registered, conn, writeErr, peer, pumpVars, writeLeft>>

Init ==
  /\ queue = 0 /\ hub = "run" /\ failed = {} /\ closing = "no"
  /\ registered = {} /\ conn = [c \in Clients |-> "none"]
  /\ writeErr = [c \in Clients |-> FALSE] /\ peer = [c \in Clients |-> "up"]
  /\ reader = [c \in Clients |-> "none"] /\ writer = [c \in Clients |-> "none"]
  /\ writeLeft = [c \in Clients |-> Unset]
  /\ readLeft = [c \in Clients |-> Unset] /\ pingIn = [c \in Clients |-> Unset]

\* What a write to c may return when its deadline has left units to go.
Writes(c, left) ==
  IF conn[c] # "open" \/ writeErr[c] \/ left = 0 THEN {FALSE}
  ELSE IF peer[c] = "up" THEN {TRUE} ELSE BOOLEAN

----------------------------------------------------------------------------
SendEvent ==
  /\ queue' = IF queue < QueueCap THEN queue + 1 ELSE queue
  /\ UNCHANGED <<hub, failed, closing, registered, conn, writeErr, peer,
                 pumpVars, writeLeft>>

\* One event to every registered connection, under the read lock.
Broadcast ==
  /\ hub = "run" /\ queue > 0 /\ queue' = queue - 1
  /\ \E ok \in {f \in [registered -> BOOLEAN] :
                  \A c \in registered : f[c] \in Writes(c, writeLeft[c])} :
       LET bad == {c \in registered : ~ok[c]} IN
       /\ failed' = bad /\ hub' = IF bad = {} THEN "run" ELSE "remove"
       /\ writeErr' = [c \in Clients |-> writeErr[c] \/ c \in bad]
  /\ UNCHANGED <<closing, registered, conn, peer, pumpVars, writeLeft>>

\* Mutant: the connection is forgotten, not closed.
HubRemoveOnlyDeletes ==
  /\ hub = "remove" /\ hub' = "run" /\ failed' = {}
  /\ registered' = registered \ failed
  /\ UNCHANGED <<queue, closing, conn, writeErr, peer, pumpVars, writeLeft>>

HubRemove ==
  /\ hub = "remove" /\ hub' = "run" /\ failed' = {}
  /\ registered' = registered \ failed
  /\ conn' = [c \in Clients |->
                IF c \in failed \cap registered THEN "closed" ELSE conn[c]]
  /\ UNCHANGED <<queue, closing, writeErr, peer, pumpVars, writeLeft>>

HubReturn ==
  /\ hub = "run" /\ closing # "no" /\ hub' = "done"
  /\ UNCHANGED <<queue, failed, closing, registered, conn, writeErr, peer,
                 pumpVars, writeLeft>>

\* close: the channel done (or the context of run) first, then the clients.
CloseDone ==
  /\ closing = "no" /\ closing' = "done"
  /\ UNCHANGED <<queue, hub, failed, registered, conn, writeErr, peer,
                 pumpVars, writeLeft>>

CloseClients ==
  /\ closing = "done" /\ closing' = "closed" /\ registered' = {}
  /\ conn' = [c \in Clients |-> IF c \in registered THEN "closed" ELSE conn[c]]
  /\ UNCHANGED <<queue, hub, failed, writeErr, peer, pumpVars, writeLeft>>

----------------------------------------------------------------------------
(* handleWS and the pumps.  A handler may still be running during close.   *)
Connect(c) ==
  /\ conn[c] = "none" /\ conn' = [conn EXCEPT ![c] = "open"]
  /\ registered' = registered \cup {c}
  /\ UNCHANGED <<hubVars, writeErr, peer, pumpVars, writeLeft>>

\* Mutant: no read deadline.
ReaderStartsForever(c) ==
  /\ conn[c] # "none" /\ reader[c] = "none"
  /\ reader' = [reader EXCEPT ![c] = "reading"]
  /\ UNCHANGED <<hubVars, registered, conn, writeErr, peer, writer, writeLeft,
                 readLeft, pingIn>>

\* Only a pong moves the read deadline, and a browser sends one only for a
\* ping frame: the pump's pings are text messages, so none ever comes.
ReaderStarts(c) ==
  /\ conn[c] # "none" /\ reader[c] = "none"
  /\ reader' = [reader EXCEPT ![c] = "reading"]
  /\ readLeft' = [readLeft EXCEPT ![c] = PongWait]
  /\ UNCHANGED <<hubVars, registered, conn, writeErr, peer, writer, writeLeft,
                 pingIn>>

ReaderFails(c) ==
  /\ reader[c] = "reading"
  /\ conn[c] = "closed" \/ peer[c] = "left" \/ readLeft[c] = 0
  /\ reader' = [reader EXCEPT ![c] = "failed"]
  /\ UNCHANGED <<hubVars, registered, conn, writeErr, peer, writer, writeLeft,
                 readLeft, pingIn>>

\* removeClient.
ReaderRemoves(c) ==
  /\ reader[c] = "failed" /\ reader' = [reader EXCEPT ![c] = "closing"]
  /\ registered' = registered \ {c}
  /\ UNCHANGED <<hubVars, conn, writeErr, peer, writer, writeLeft, readLeft,
                 pingIn>>

ReaderCloses(c) ==
  /\ reader[c] = "closing" /\ reader' = [reader EXCEPT ![c] = "done"]
  /\ conn' = [conn EXCEPT ![c] = "closed"]
  /\ UNCHANGED <<hubVars, registered, writeErr, peer, writer, writeLeft,
                 readLeft, pingIn>>

ReaderStep(c) ==
  ReaderStarts(c) \/ ReaderFails(c) \/ ReaderRemoves(c) \/ ReaderCloses(c)

\* The pump starts its ticker and sends the state, whatever the writes say.
WriterStarts(c) ==
  /\ conn[c] # "none" /\ writer[c] = "none"
  /\ writer' = [writer EXCEPT ![c] = "waiting"]
  /\ pingIn' = [pingIn EXCEPT ![c] = PingPeriod]
  /\ writeLeft' = [writeLeft EXCEPT ![c] = WriteWait]
  /\ \E ok \in Writes(c, WriteWait) : writeErr' = [writeErr EXCEPT ![c] = ~ok]
  /\ UNCHANGED <<hubVars, registered, conn, peer, reader, readLeft>>

AfterPing(ok) == IF ok THEN "waiting" ELSE "closing"

WriterPings(c) ==
  /\ writer[c] = "waiting" /\ pingIn[c] = 0
  /\ pingIn' = [pingIn EXCEPT ![c] = PingPeriod]
  /\ writeLeft' = [writeLeft EXCEPT ![c] = WriteWait]
  /\ \E ok \in Writes(c, WriteWait) :
       /\ writeErr' = [writeErr EXCEPT ![c] = ~ok]
       /\ writer' = [writer EXCEPT ![c] = AfterPing(ok)]
  /\ UNCHANGED <<hubVars, registered, conn, peer, reader, readLeft>>

WriterCloses(c) ==
  /\ writer[c] = "closing" /\ writer' = [writer EXCEPT ![c] = "done"]
  /\ conn' = [conn EXCEPT ![c] = "closed"]
  /\ UNCHANGED <<hubVars, registered, writeErr, peer, reader, writeLeft,
                 readLeft, pingIn>>

WriterStep(c) == WriterStarts(c) \/ WriterPings(c) \/ WriterCloses(c)

----------------------------------------------------------------------------
(* The browser, and time: what is due is done before more time passes.     *)
PeerGone(c) ==
  /\ conn[c] = "open" /\ peer[c] = "up"
  /\ \E how \in {"left", "silent"} : peer' = [peer EXCEPT ![c] = how]
  /\ UNCHANGED <<hubVars, registered, conn, writeErr, pumpVars, writeLeft>>

Less(left) ==
  [c \in Clients |-> IF left[c] > 0 THEN left[c] - 1 ELSE left[c]]

Tick ==
  /\ \A c \in Clients : ~(reader[c] = "reading" /\ readLeft[c] = 0)
  /\ \A c \in Clients : ~(writer[c] = "waiting" /\ pingIn[c] = 0)
  /\ writeLeft' = Less(writeLeft) /\ readLeft' = Less(readLeft)
  /\ pingIn' = Less(pingIn)
  /\ UNCHANGED <<hubVars, registered, conn, writeErr, peer, reader, writer>>

HubStep == Broadcast \/ HubRemove \/ HubReturn

Next ==
  \/ SendEvent \/ HubStep \/ CloseDone \/ CloseClients \/ Tick
  \/ \E c \in Clients :
       Connect(c) \/ ReaderStep(c) \/ WriterStep(c) \/ PeerGone(c)

Spec == Init /\ [][Next]_vars

(* Goroutines run and time passes; nobody need connect, send or close.     *)
Fairness ==
  /\ WF_vars(HubStep) /\ WF_vars(Tick)
  /\ \A c \in Clients : WF_vars(ReaderStep(c)) /\ WF_vars(WriterStep(c))

FairSpec == Spec /\ Fairness

----------------------------------------------------------------------------
TypeOK ==
  /\ queue \in 0..QueueCap /\ hub \in {"run", "remove", "done"}
  /\ failed \subseteq Clients /\ registered \subseteq Clients
  /\ closing \in {"no", "done", "closed"}
  /\ conn \in [Clients -> {"none", "open", "closed"}]
  /\ peer \in [Clients -> {"up", "left", "silent"}]
  /\ reader \in [Clients -> {"none", "reading", "failed", "closing", "done"}]
  /\ writer \in [Clients -> {"none", "waiting", "closing", "done"}]
  /\ writeErr \in [Clients -> BOOLEAN]
  /\ writeLeft \in [Clients -> Unset..WriteWait]
  /\ readLeft \in [Clients -> Unset..PongWait]
  /\ pingIn \in [Clients -> Unset..PingPeriod]

(* A connection the hub no longer knows is closed, or its reader is about  *)
(* to close it: it is removed in four places, by three goroutines.         *)
ForgottenIsClosed ==
  \A c \in Clients :
    conn[c] = "open" /\ c \notin registered => reader[c] = "closing"

(* A connection that broke, in whatever way, leaves the hub's map, even    *)
(* when nothing is ever broadcast to it, and both its pumps end; and no    *)
(* connection, failing or being removed, holds up the others: the hub      *)
(* always comes back for the next event.                                   *)
HubRecovers ==
  /\ queue = QueueCap ~> queue < QueueCap \/ hub = "done"
  /\ \A c \in Clients :
       conn[c] = "closed" \/ peer[c] # "up"
         ~> c \notin registered /\ {reader[c], writer[c]} \subseteq {"none", "done"}

(* ws.go:165: "wsWritePump sends server pings to keep the connection       *)
(* alive": while its browser is there and the hub is not closing, a        *)
(* connection stays open.                                                  *)
KeptAlive ==
  \A c \in Clients :
    conn[c] = "closed" => peer[c] # "up" \/ closing # "no"
=============================================================================
