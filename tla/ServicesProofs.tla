--------------------------- MODULE ServicesProofs ---------------------------
(***************************************************************************)
(* The components of MCServices, each for every value of its constants:    *)
(* the websocket hub, the configuration file, the login limiter, the       *)
(* snapshot handler, the H.264 parser and the HLS server.  Each has an     *)
(* inductive invariant, kept by its own steps and by those of the other    *)
(* parts, which leave its variables alone.                                 *)
(***************************************************************************)
EXTENDS MCServices, HLSServerProofs, FiniteSetTheorems, SequenceTheorems

----------------------------------------------------------------------------
(* WSHub.  That a forgotten connection is being closed is inductive: a     *)
(* connection leaves the map together with its close, except through       *)
(* removeClient, whose caller closes it next.                              *)
HubInv == Hub!TypeOK /\ ForgottenIsClosed

LEMMA HubStarts == ASSUME Hub!Init PROVE HubInv
<1>1. Hub!TypeOK
  BY HubAssumption DEF Hub!Init, Hub!TypeOK, Hub!Unset, Hub!WriteWait,
     Hub!PongWait, Hub!PingPeriod
<1> QED
  BY <1>1 DEF Hub!Init, HubInv, ForgottenIsClosed, Hub!ForgottenIsClosed

(* Every step of the hub, the pumps, the browsers and the clock is typed.  *)
LEMMA HubTyped == ASSUME Hub!TypeOK, Hub!Next PROVE Hub!TypeOK'
<1> USE HubAssumption
    DEF Hub!TypeOK, Hub!hubVars, Hub!pumpVars, Hub!Unset, Hub!WriteWait,
        Hub!PongWait, Hub!PingPeriod
<1>1. CASE Hub!SendEvent
  BY <1>1 DEF Hub!SendEvent
<1>2. CASE Hub!HubStep
  <2>1. CASE Hub!Broadcast
    <3>1. PICK bad \in SUBSET registered :
            /\ failed' = bad /\ hub' = IF bad = {} THEN "run" ELSE "remove"
            /\ writeErr' = [c \in Clients |-> writeErr[c] \/ c \in bad]
      BY <2>1 DEF Hub!Broadcast
    <3>2. writeErr' \in [Clients -> BOOLEAN]
      BY <3>1, Zenon
    <3> QED
      BY <2>1, <3>1, <3>2 DEF Hub!Broadcast
  <2>2. CASE Hub!HubRemove \/ Hub!HubReturn
    BY <2>2 DEF Hub!HubRemove, Hub!HubReturn
  <2> QED
    BY <1>2, <2>1, <2>2 DEF Hub!HubStep
<1>3. CASE Hub!CloseClients \/ Hub!CloseDone
  BY <1>3 DEF Hub!CloseClients, Hub!CloseDone
<1>4. ASSUME NEW c \in Clients, Hub!ReaderStep(c) PROVE Hub!TypeOK'
  BY <1>4 DEF Hub!ReaderStep, Hub!ReaderStarts, Hub!ReaderFails,
     Hub!ReaderRemoves, Hub!ReaderCloses
<1>5. ASSUME NEW c \in Clients, Hub!WriterStep(c) PROVE Hub!TypeOK'
  <2>1. ASSUME NEW ok \in BOOLEAN, writeErr' = [writeErr EXCEPT ![c] = ~ok]
        PROVE  writeErr' \in [Clients -> BOOLEAN]
    BY <2>1
  <2>2. \A left \in {1} : Hub!Writes(c, left) \subseteq BOOLEAN
    BY DEF Hub!Writes
  <2>3. CASE Hub!WriterStarts(c)
    BY <2>1, <2>2, <2>3 DEF Hub!WriterStarts
  <2>4. CASE Hub!WriterPings(c)
    BY <2>1, <2>2, <2>4 DEF Hub!WriterPings, Hub!AfterPing
  <2>5. CASE Hub!WriterCloses(c)
    BY <2>5 DEF Hub!WriterCloses
  <2> QED
    BY <1>5, <2>3, <2>4, <2>5 DEF Hub!WriterStep
<1>6. ASSUME NEW c \in Clients, Hub!Connect(c) \/ Hub!PeerGone(c)
      PROVE  Hub!TypeOK'
  BY <1>6 DEF Hub!Connect, Hub!PeerGone
<1>7. CASE Hub!Tick
  <2>1. ASSUME NEW top \in Nat, NEW left \in [Clients -> -1..top]
        PROVE  Hub!Less(left) \in [Clients -> -1..top]
    <3>1. ASSUME NEW c \in Clients
          PROVE  (IF left[c] > 0 THEN left[c] - 1 ELSE left[c]) \in -1..top
      <4>1. left[c] \in -1..top
        OBVIOUS
      <4> QED
        BY <4>1, SMT
    <3> QED
      BY <3>1 DEF Hub!Less
  <2>2. /\ writeLeft' = Hub!Less(writeLeft) /\ readLeft' = Hub!Less(readLeft)
        /\ pingIn' = Hub!Less(pingIn)
    BY <1>7 DEF Hub!Tick
  <2>3. /\ writeLeft' \in [Clients -> -1..1] /\ readLeft' \in [Clients -> -1..6]
        /\ pingIn' \in [Clients -> -1..3]
    BY <2>1, <2>2
  <2> QED
    BY <1>7, <2>3 DEF Hub!Tick
<1> QED
  BY <1>1, <1>2, <1>3, <1>4, <1>5, <1>6, <1>7 DEF Hub!Next

(* Who removes a connection from the map closes it, or is about to.        *)
LEMMA HubSteps == ASSUME HubInv, Hub!Next PROVE HubInv'
<1>0. Hub!TypeOK'
  BY HubTyped DEF HubInv
<1> USE <1>0
    DEF HubInv, ForgottenIsClosed, Hub!ForgottenIsClosed, Hub!TypeOK,
        Hub!hubVars, Hub!pumpVars
<1>1. CASE Hub!SendEvent \/ Hub!Broadcast \/ Hub!HubReturn \/ Hub!CloseDone
           \/ Hub!Tick
  BY <1>1 DEF Hub!SendEvent, Hub!Broadcast, Hub!HubReturn, Hub!CloseDone,
     Hub!Tick
<1>2. CASE Hub!HubRemove \/ Hub!CloseClients
  BY <1>2 DEF Hub!HubRemove, Hub!CloseClients
<1>3. ASSUME NEW c \in Clients, Hub!ReaderStep(c) PROVE HubInv'
  BY <1>3 DEF Hub!ReaderStep, Hub!ReaderStarts, Hub!ReaderFails,
     Hub!ReaderRemoves, Hub!ReaderCloses
<1>4. ASSUME NEW c \in Clients, Hub!WriterStep(c) PROVE HubInv'
  BY <1>4 DEF Hub!WriterStep, Hub!WriterStarts, Hub!WriterPings,
     Hub!WriterCloses
<1>5. ASSUME NEW c \in Clients, Hub!Connect(c) \/ Hub!PeerGone(c)
      PROVE  HubInv'
  BY <1>5 DEF Hub!Connect, Hub!PeerGone
<1> QED
  BY <1>1, <1>2, <1>3, <1>4, <1>5 DEF Hub!Next, Hub!HubStep

(* The invariant of the hub, whatever part moves.                          *)
LEMMA HubInvariant == ServicesSpec => []HubInv
<1>1. ServicesInit => HubInv
  BY HubStarts DEF ServicesInit
<1>2. HubInv /\ [ServicesNext]_all => HubInv'
  <2>1. ASSUME HubInv, UNCHANGED HubVars PROVE HubInv'
    BY <2>1 DEF HubInv, HubVars, Hub!TypeOK, ForgottenIsClosed,
       Hub!ForgottenIsClosed
  <2> QED
    BY <2>1, HubSteps DEF ServicesNext, all
<1> QED
  BY <1>1, <1>2, PTL DEF ServicesSpec

(* A connection the hub no longer knows is closed or its reader is about   *)
(* to close it, for any number of connections, whichever of hub, close and *)
(* the two pumps removes it (removeClient and close in ws.go).             *)
THEOREM ForgottenAreClosed == ServicesSpec => []ForgottenIsClosed
<1>1. HubInv => ForgottenIsClosed
  BY DEF HubInv
<1> QED
  BY <1>1, HubInvariant, PTL

----------------------------------------------------------------------------
(* ConfigUpdate.  What makes AcceptedIsStored inductive is where a request *)
(* can be: it renames a synced file only, is past the rename while the     *)
(* file or the disk has its credentials, and is refused or acknowledged at *)
(* its end only.  What a power cut leaves is as whole as the file.         *)
ConfigSteps ==
  {"read", "create", "write", "sync", "rename", "schedule", "reply", "done"}

ConfigTypeInv ==
  /\ tmp \in [Updates -> {"none", "torn", "written", "synced"}]
  /\ update \in [Updates -> ConfigSteps]
  /\ answer \in [Updates -> {"none", "ok", "error"}]

\* What a file that was renamed is, also on the disk.
ConfigWhole == synced = TRUE /\ disk # Config!Torn

\* Where a request can be, by what it has done to the files.
ConfigProgress ==
  \A r \in Updates :
    /\ update[r] = "rename" => tmp[r] = "synced"
    /\ answer[r] # "none" => update[r] = "done"
    /\ file = r \/ disk = r =>
         update[r] \in {"schedule", "reply", "done"} /\ answer[r] # "error"
    /\ update[r] \in {"schedule", "reply"}
         => file = r \/ r \in replaced \union undone

ConfigInv == ConfigTypeInv /\ ConfigWhole /\ ConfigProgress /\ AcceptedIsStored

(* A process starts with a whole file and uses what is in it.              *)
LEMMA ConfigStarts == ASSUME Config!Init PROVE ConfigInv
<1>1. ConfigTypeInv /\ ConfigProgress
  BY ConfigAssumption
     DEF Config!Init, ConfigTypeInv, ConfigSteps, ConfigProgress,
         Config!Original
<1>2. /\ file # Config!Torn /\ disk # Config!Torn
      /\ \A r \in Updates : answer[r] = "none" /\ file # r
  BY ConfigAssumption DEF Config!Init, Config!Original, Config!Torn
<1>3. override = FALSE => using = file
  BY DEF Config!Init
<1>4. override \in BOOLEAN /\ synced = TRUE
  BY Zenon DEF Config!Init
<1>5. AcceptedIsStored
  BY <1>2, <1>3, <1>4, Zenon DEF AcceptedIsStored, Config!AcceptedIsStored
<1> QED
  BY <1>1, <1>2, <1>4, <1>5 DEF ConfigInv, ConfigWhole

(* A request that goes on without a rename leaves the file and who uses it *)
(* alone; it may schedule the restart, be refused or be acknowledged.      *)
LEMMA ConfigQuiet ==
  ASSUME ConfigInv, NEW r \in Updates, update[r] # "done",
         UNCHANGED <<file, synced, disk, replaced, undone, up, override,
                     using>>,
         ConfigTypeInv',
         NEW to \in ConfigSteps, update' = [update EXCEPT ![r] = to],
         NEW a \in {"none", "ok", "error"}, answer' = [answer EXCEPT ![r] = a],
         to = "rename" => tmp'[r] = "synced",
         \A q \in Updates : q # r => tmp'[q] = tmp[q],
         a # "none" => to = "done",
         a = "error" => file # r /\ disk # r,
         file = r \/ disk = r => to \in {"schedule", "reply", "done"},
         to \in {"schedule", "reply"} \/ a = "ok"
           => file = r \/ r \in replaced \union undone,
         restart => restart' = TRUE,
         update[r] = "schedule" => restart' = TRUE
  PROVE  ConfigInv'
<1>1. /\ update'[r] = to /\ answer'[r] = a
      /\ \A q \in Updates : q # r => /\ update'[q] = update[q]
                                   /\ answer'[q] = answer[q]
  BY DEF ConfigInv, ConfigTypeInv
<1>2. ConfigProgress' /\ ConfigWhole'
  BY <1>1 DEF ConfigInv, ConfigProgress, ConfigWhole
<1>3. /\ file' # Config!Torn
      /\ \A q \in Updates :
           /\ answer'[q] = "ok" => file' = q \/ q \in replaced' \union undone'
           /\ file' = q => answer'[q] # "error"
  BY <1>1 DEF ConfigInv, AcceptedIsStored, Config!AcceptedIsStored
<1>4. up' /\ ~override' =>
        using' = file' \/ restart' \/ \E q \in Updates : update'[q] = "schedule"
  <2>1. up /\ ~override =>
          using = file \/ restart \/ \E q \in Updates : update[q] = "schedule"
    BY Zenon DEF ConfigInv, AcceptedIsStored, Config!AcceptedIsStored
  <2>2. ASSUME NEW q \in Updates, update[q] = "schedule"
        PROVE  restart' \/ update'[q] = "schedule"
    BY <1>1, <2>2
  <2> QED
    BY <2>1, <2>2, Zenon
<1>5. AcceptedIsStored'
  BY <1>3, <1>4, Zenon DEF AcceptedIsStored, Config!AcceptedIsStored
<1> QED
  BY <1>2, <1>5 DEF ConfigInv

(* Each step of a request.                                                 *)
LEMMA ConfigRequest ==
  ASSUME ConfigInv, NEW r \in Updates, Config!handlePostConfigOnvif(r)
  PROVE  ConfigInv'
<1> USE DEF Config!diskVars
<1>1. UNCHANGED <<up, override, using>>
  BY Zenon DEF Config!handlePostConfigOnvif
<1>2. ConfigTypeInv'
  BY DEF Config!handlePostConfigOnvif, Config!Read, Config!CreateTemp,
         Config!Write, Config!Sync, Config!Rename, Config!Schedule,
         Config!Reply, Config!Proceed, Config!Fail, ConfigInv, ConfigTypeInv,
         ConfigSteps
<1>3. ASSUME update[r] \notin {"schedule", "reply", "done"}, Config!Fail(r),
             UNCHANGED <<file, synced, disk, replaced, undone, restart>>
      PROVE  ConfigInv'
  <2>1. file # r /\ disk # r
    BY <1>3 DEF ConfigInv, ConfigProgress
  <2>2. \A q \in Updates : q # r => tmp'[q] = tmp[q]
    BY <1>3 DEF Config!Fail, ConfigInv, ConfigTypeInv
  <2> QED
    BY <1>1, <1>2, <1>3, <2>1, <2>2, ConfigQuiet DEF Config!Fail, ConfigSteps
<1>4. answer = [answer EXCEPT ![r] = answer[r]]
      /\ answer[r] \in {"none", "ok", "error"}
  BY DEF ConfigInv, ConfigTypeInv
<1>5. ASSUME update[r] \in {"read", "create", "write", "sync"},
             NEW to \in {"create", "write", "sync", "rename"},
             Config!Proceed(r, to),
             to = "rename" => tmp'[r] = "synced",
             \A q \in Updates : q # r => tmp'[q] = tmp[q],
             UNCHANGED <<file, synced, disk, replaced, undone, restart>>
      PROVE  ConfigInv'
  <2>1. answer[r] = "none" /\ file # r /\ disk # r
    BY <1>5 DEF ConfigInv, ConfigProgress
  <2> QED
    BY <1>1, <1>2, <1>4, <1>5, <2>1, ConfigQuiet DEF Config!Proceed, ConfigSteps
<1>6. CASE Config!Read(r)
  <2>1. tmp' = tmp => \A q \in Updates : q # r => tmp'[q] = tmp[q]
    OBVIOUS
  <2> QED
    BY <1>3, <1>5, <1>6, <2>1 DEF Config!Read
<1>7. ASSUME NEW v \in {"torn", "written", "synced"},
             tmp' = [tmp EXCEPT ![r] = v]
      PROVE  tmp'[r] = v /\ \A q \in Updates : q # r => tmp'[q] = tmp[q]
  BY <1>7 DEF ConfigInv, ConfigTypeInv
<1>8. CASE Config!CreateTemp(r)
  BY <1>3, <1>5, <1>7, <1>8 DEF Config!CreateTemp
<1>9. CASE Config!Write(r)
  BY <1>3, <1>5, <1>7, <1>9 DEF Config!Write
<1>10. CASE Config!Sync(r)
  BY <1>3, <1>5, <1>7, <1>10 DEF Config!Sync
<1>11. CASE Config!Rename(r)
  <2>1. CASE Config!Fail(r) /\ UNCHANGED Config!diskVars
    BY <1>3, <1>11, <2>1 DEF Config!Rename
  <2>2. CASE Config!Proceed(r, "schedule")
    <3>1. /\ update[r] = "rename" /\ tmp[r] = "synced" /\ answer[r] = "none"
          /\ file # r
      BY <1>11 DEF Config!Rename, ConfigInv, ConfigProgress
    <3>2. /\ answer' = answer /\ UNCHANGED <<disk, undone>>
          /\ update' = [update EXCEPT ![r] = "schedule"]
          /\ file' = IF tmp[r] = "torn" THEN Config!Torn ELSE r
          /\ replaced' = replaced \union ({file} \intersect Updates)
      BY <1>11, <2>2
         DEF Config!Rename, Config!Proceed, Config!Fail, ConfigInv,
             ConfigTypeInv
    <3>3. synced' = TRUE
      <4>1. synced' = (tmp[r] = "synced")
        BY <1>11, <2>2, <3>2
           DEF Config!Rename, Config!Proceed, Config!Fail, ConfigInv,
               ConfigTypeInv
      <4> QED
        BY <3>1, <4>1, Zenon
    <3>4. file' = r
      BY <3>1, <3>2
    <3>5. update'[r] = "schedule" /\ \A q \in Updates : q # r =>
            update'[q] = update[q] /\ tmp'[q] = tmp[q]
      BY <1>11, <2>2, <3>2
         DEF Config!Rename, Config!Proceed, Config!Fail, ConfigInv,
             ConfigTypeInv
    <3>6. \A q \in Updates : file = q => q \in replaced'
      BY <3>2
    <3>7. \A q \in replaced \union undone : q \in replaced' \union undone'
      BY <3>2
    <3>8. ConfigProgress' /\ ConfigWhole'
      BY <3>1, <3>2, <3>3, <3>4, <3>5, <3>6, <3>7
         DEF ConfigInv, ConfigProgress, ConfigWhole
    <3>9. r # Config!Torn
      BY ConfigAssumption DEF Config!Torn
    <3>10. \A q \in Updates :
             /\ answer'[q] = "ok" => file' = q \/ q \in replaced' \union undone'
             /\ file' = q => answer'[q] # "error"
      BY <3>1, <3>2, <3>4, <3>6, <3>7
         DEF ConfigInv, AcceptedIsStored, Config!AcceptedIsStored
    <3>11. AcceptedIsStored'
      BY <3>4, <3>5, <3>9, <3>10, Zenon
         DEF AcceptedIsStored, Config!AcceptedIsStored
    <3> QED
      BY <1>2, <3>8, <3>11 DEF ConfigInv
  <2> QED
    BY <1>11, <2>1, <2>2 DEF Config!Rename
<1>12. CASE Config!Schedule(r)
  <2>1. /\ update[r] = "schedule" /\ update' = [update EXCEPT ![r] = "reply"]
        /\ answer' = answer /\ restart' = TRUE
        /\ UNCHANGED <<file, synced, disk, replaced, undone, tmp>>
    BY <1>12 DEF Config!Schedule, Config!Proceed
  <2>2. answer[r] = "none" /\ (file = r \/ r \in replaced \union undone)
    BY <2>1 DEF ConfigInv, ConfigProgress
  <2> QED
    BY <1>1, <1>2, <1>4, <2>1, <2>2, ConfigQuiet DEF ConfigSteps
<1>13. CASE Config!Reply(r)
  <2>1. update[r] = "reply" /\ (file = r \/ r \in replaced \union undone)
    BY <1>13 DEF Config!Reply, ConfigInv, ConfigProgress
  <2> QED
    BY <1>1, <1>2, <1>13, <2>1, ConfigQuiet DEF Config!Reply, ConfigSteps
<1> QED
  BY <1>6, <1>8, <1>9, <1>10, <1>11, <1>12, <1>13, Zenon
     DEF Config!handlePostConfigOnvif

(* The process ends wherever its requests are, with the file as it is or   *)
(* as the disk has it, and starts with that.                               *)
LEMMA ConfigProcess ==
  ASSUME ConfigInv,
         Config!End \/ Config!PowerCut \/ Config!WriteBack \/ Config!Boot
  PROVE  ConfigInv'
<1> USE DEF Config!diskVars
<1>1. CASE Config!End \/ Config!PowerCut
  <2>1. /\ UNCHANGED <<tmp, answer, disk, replaced>> /\ up' = FALSE
        /\ file' \in {file, disk}
        /\ \A r \in Updates : file = r => file' = r \/ r \in undone'
        /\ \A r \in undone : r \in undone'
    BY <1>1 DEF Config!End, Config!PowerCut, Config!ProcessEnds
  <2>2. synced' = TRUE
    BY <1>1, Zenon DEF Config!End, Config!PowerCut, ConfigInv, ConfigWhole
  <2>3. \A r \in Updates : /\ update'[r] = "read" \/ update'[r] = "done"
                           /\ update'[r] = "read" => update[r] = "read"
    BY <1>1 DEF Config!End, Config!PowerCut, Config!ProcessEnds
  <2>4. ConfigTypeInv'
    BY <1>1, <2>1
       DEF Config!End, Config!PowerCut, Config!ProcessEnds, ConfigInv,
           ConfigTypeInv, ConfigSteps
  <2>5. ConfigProgress' /\ ConfigWhole'
    BY <2>1, <2>2, <2>3 DEF ConfigInv, ConfigProgress, ConfigWhole
  <2>6. /\ file' # Config!Torn
        /\ \A r \in Updates :
             /\ answer'[r] = "ok" => file' = r \/ r \in replaced' \union undone'
             /\ file' = r => answer'[r] # "error"
    BY <2>1
       DEF ConfigInv, ConfigProgress, ConfigWhole, AcceptedIsStored,
           Config!AcceptedIsStored
  <2>7. AcceptedIsStored'
    BY <2>1, <2>6, Zenon DEF AcceptedIsStored, Config!AcceptedIsStored
  <2> QED
    BY <2>4, <2>5, <2>7 DEF ConfigInv
<1>2. CASE Config!WriteBack
  <2>1. /\ UNCHANGED <<file, synced, replaced, undone, tmp, update, answer,
                       restart, up, override, using>>
        /\ disk' = file
    BY <1>2 DEF Config!WriteBack, ConfigInv, ConfigWhole
  <2>2. ConfigTypeInv' /\ ConfigProgress' /\ ConfigWhole'
    BY <2>1
       DEF ConfigInv, ConfigTypeInv, ConfigProgress, ConfigWhole,
           AcceptedIsStored, Config!AcceptedIsStored
  <2>3. AcceptedIsStored'
    BY <2>1, Zenon DEF ConfigInv, AcceptedIsStored, Config!AcceptedIsStored
  <2> QED
    BY <2>2, <2>3 DEF ConfigInv
<1>3. CASE Config!Boot
  <2>1. UNCHANGED <<file, synced, disk, replaced, undone, tmp, update, answer,
                    restart, override>>
    BY <1>3 DEF Config!Boot
  <2>2. ConfigTypeInv' /\ ConfigProgress' /\ ConfigWhole'
    BY <2>1 DEF ConfigInv, ConfigTypeInv, ConfigProgress, ConfigWhole
  <2>3. ~override => using' = file
    BY <1>3 DEF Config!Boot
  <2>4. AcceptedIsStored'
    BY <2>1, <2>3, Zenon
       DEF ConfigInv, AcceptedIsStored, Config!AcceptedIsStored
  <2> QED
    BY <2>2, <2>4 DEF ConfigInv
<1> QED
  BY <1>1, <1>2, <1>3

(* The invariant of the configuration, whatever part moves.                *)
LEMMA ConfigInvariant == ServicesSpec => []ConfigInv
<1>1. ServicesInit => ConfigInv
  BY ConfigStarts DEF ServicesInit
<1>2. ConfigInv /\ [ServicesNext]_all => ConfigInv'
  <2>1. ASSUME ConfigInv, UNCHANGED ConfigVars PROVE ConfigInv'
    <3>1. UNCHANGED <<file, synced, disk, replaced, undone, tmp, update, answer,
                      restart, up, override, using>>
      BY <2>1 DEF ConfigVars
    <3>2. ConfigTypeInv' /\ ConfigProgress' /\ ConfigWhole'
      BY <2>1, <3>1 DEF ConfigInv, ConfigTypeInv, ConfigProgress, ConfigWhole
    <3>3. AcceptedIsStored'
      BY <2>1, <3>1, Zenon
         DEF ConfigInv, AcceptedIsStored, Config!AcceptedIsStored
    <3> QED
      BY <3>2, <3>3 DEF ConfigInv
  <2>2. ASSUME ConfigInv, Config!Next PROVE ConfigInv'
    BY <2>2, ConfigRequest, ConfigProcess DEF Config!Next
  <2> QED
    BY <2>1, <2>2 DEF ServicesNext, all
<1> QED
  BY <1>1, <1>2, PTL DEF ServicesSpec

(* Whatever file operations fail, wherever the process ends and whenever   *)
(* the power goes, the next process starts from a whole file, never with   *)
(* credentials that were refused; those of an acknowledged request are in  *)
(* it until a later one replaces them, unless a power cut came before      *)
(* their rename was written back (handlePostConfigOnvif), for any number   *)
(* of requests.                                                            *)
THEOREM ConfigurationSurvives == ServicesSpec => []AcceptedIsStored
<1>1. ConfigInv => AcceptedIsStored
  BY DEF ConfigInv
<1> QED
  BY <1>1, ConfigInvariant, PTL

----------------------------------------------------------------------------
(* WebLogin.  The limiter keeps a count, the time it started and the end   *)
(* of a block; what they say of the failures recorded makes the bound and  *)
(* the cause of a block inductive.                                         *)
Since    == {i \in 1..Len(failures) : failures[i] >= entry.start}
InFlight == {r \in Requests : request[r] \in {"login", "failed"}}
Failing  == {r \in Requests : request[r] = "failed"}

\* The failures recorded and about to be are those of wrong passwords.
FailuresCounted == Len(failures) + Cardinality(Failing) <= wrong

EntryOK ==
  /\ entry # Login!NoEntry =>
       entry.count \in 1..MaxAttempts /\ entry.start \in 1..now
  /\ entry.until = 0 => entry.count < MaxAttempts
  /\ entry.until # 0 => entry.start + Block <= entry.until

\* No failure is later than now, nor at this time when there is no entry.
FailuresPast ==
  \A i \in 1..Len(failures) :
    /\ failures[i] <= now
    /\ entry = Login!NoEntry => failures[i] < now

\* While nobody is blocked the last count failures are those of the entry.
CountingOK ==
  entry # Login!NoEntry /\ entry.until = 0 =>
    /\ entry.count <= Len(failures)
    /\ \A i \in 1..Len(failures) :
         /\ failures[i] <= entry.start + Window
         /\ failures[i] >= entry.start <=> i > Len(failures) - entry.count

\* A block has its cause, and only requests in flight overshoot it.
Cause(until, last) ==
  /\ until = failures[last] + Block
  /\ failures[last] - failures[last - MaxAttempts + 1] <= Window

BlockOK ==
  entry.until # 0 =>
    /\ \A i \in 1..Len(failures) : failures[i] < entry.until
    /\ \E last \in MaxAttempts..Len(failures) : Cause(entry.until, last)

Overshoot ==
  entry.until # 0 =>
    Cardinality(Since) + Cardinality(InFlight)
      < MaxAttempts + Cardinality(Requests)

LimiterOK == EntryOK /\ FailuresPast /\ CountingOK /\ BlockOK
LoginInv == Login!TypeOK /\ FailuresCounted /\ LimiterOK /\ Overshoot

(* Sets of requests, and of places in failures, are finite.                *)
LEMMA LoginFinite ==
  /\ IsFiniteSet(Requests) /\ Cardinality(Requests) \in Nat
  /\ \A R \in SUBSET Requests :
       IsFiniteSet(R) /\ Cardinality(R) \in Nat
         /\ Cardinality(R) <= Cardinality(Requests)
  /\ \A n \in Nat : \A I \in SUBSET (1..n) :
       IsFiniteSet(I) /\ Cardinality(I) \in Nat
<1>1. IsFiniteSet(Requests)
  BY LoginAssumption
<1>2. \A R \in SUBSET Requests : IsFiniteSet(R) /\ Cardinality(R) \in Nat
                                   /\ Cardinality(R) <= Cardinality(Requests)
  BY <1>1, FS_Subset, FS_CardinalityType
<1>3. \A n \in Nat : \A I \in SUBSET (1..n) : IsFiniteSet(I)
  <2> TAKE n \in Nat
  <2>1. IsFiniteSet(1..n)
    BY FS_Interval
  <2> QED
    BY <2>1, FS_Subset
<1> QED
  BY <1>1, <1>2, <1>3, FS_CardinalityType

LEMMA LoginStarts == ASSUME Login!Init PROVE LoginInv
<1>1. failures = <<>> /\ Len(failures) = 0
  BY DEF Login!Init
<1>2. Login!TypeOK
  BY <1>1, LoginAssumption
     DEF Login!Init, Login!TypeOK, Login!NoEntry, Login!None
<1>3. Failing = {}
  BY DEF Login!Init, Failing
<1>4. FailuresCounted
  BY <1>1, <1>3, FS_EmptySet DEF Login!Init, FailuresCounted
<1>5. LimiterOK /\ Overshoot
  BY <1>1, LoginAssumption
     DEF Login!Init, LimiterOK, EntryOK, FailuresPast, CountingOK, BlockOK,
         Overshoot, Login!NoEntry
<1> QED
  BY <1>2, <1>4, <1>5 DEF LoginInv

(* A failure recorded is one more, and one that is no longer in flight.    *)
LEMMA LoginFailureAdds ==
  ASSUME LoginInv, NEW r \in Requests, Login!RecordFailure(r)
  PROVE  /\ failures' \in Seq(1..MaxTime) /\ Len(failures) \in Nat
         /\ Len(failures') = Len(failures) + 1
         /\ failures'[Len(failures) + 1] = now
         /\ \A i \in 1..Len(failures) : failures'[i] = failures[i]
         /\ Cardinality(Failing') = Cardinality(Failing) - 1
         /\ Cardinality(InFlight') = Cardinality(InFlight) - 1
         /\ Cardinality(InFlight') < Cardinality(Requests)
         /\ request' \in [Requests ->
                {"idle", "login", "failed", "succeeded", "refused"}]
<1>1. failures \in Seq(1..MaxTime) /\ now \in 1..MaxTime
  BY DEF LoginInv, Login!TypeOK
<1>2. failures' = Append(failures, now) /\ request[r] = "failed"
      /\ request' = [request EXCEPT ![r] = "idle"]
  BY DEF Login!RecordFailure
<1>3. /\ failures' \in Seq(1..MaxTime) /\ Len(failures) \in Nat
      /\ Len(failures') = Len(failures) + 1
      /\ failures'[Len(failures) + 1] = now
      /\ \A i \in 1..Len(failures) : failures'[i] = failures[i]
  BY <1>1, <1>2, AppendProperties, LenProperties
<1>4. request \in [Requests ->
                     {"idle", "login", "failed", "succeeded", "refused"}]
  BY DEF LoginInv, Login!TypeOK
<1>5. /\ Failing' = Failing \ {r} /\ r \in Failing
      /\ InFlight' = InFlight \ {r} /\ r \in InFlight
  BY <1>2, <1>4 DEF Failing, InFlight
<1>6. Failing \in SUBSET Requests /\ InFlight \in SUBSET Requests
  BY DEF Failing, InFlight
<1>7. /\ IsFiniteSet(Failing) /\ IsFiniteSet(InFlight)
      /\ Cardinality(InFlight) \in Nat /\ Cardinality(Requests) \in Nat
      /\ Cardinality(InFlight) <= Cardinality(Requests)
  BY <1>6, LoginFinite
<1>8. /\ Cardinality(Failing') = Cardinality(Failing) - 1
      /\ Cardinality(InFlight') = Cardinality(InFlight) - 1
  BY <1>5, <1>7, FS_RemoveElement
<1> QED
  BY <1>2, <1>3, <1>4, <1>7, <1>8

(* An entry started now counts the one failure recorded now.               *)
LEMMA LoginFresh ==
  ASSUME LoginInv, NEW r \in Requests, Login!RecordFailure(r),
         entry' = [count |-> 1, start |-> now, until |-> 0],
         \A i \in 1..Len(failures) : failures[i] < now
  PROVE  LimiterOK' /\ Overshoot'
<1>1. /\ now' = now /\ now \in 1..MaxTime
      /\ \A i \in 1..Len(failures) : failures[i] \in Int
  <2>1. failures \in Seq(1..MaxTime) /\ now \in 1..MaxTime
    BY DEF LoginInv, Login!TypeOK
  <2> QED
    BY <2>1, LoginAssumption, ElementOfSeq DEF Login!RecordFailure
<1>2. entry'.count = 1 /\ entry'.start = now /\ entry'.until = 0
  OBVIOUS
<1>3. EntryOK'
  BY <1>1, <1>2, LoginAssumption DEF EntryOK
<1>4. FailuresPast' /\ CountingOK'
  <2>1. entry' # Login!NoEntry
    BY <1>2 DEF Login!NoEntry
  <2>2. ASSUME NEW i \in 1..Len(failures')
        PROVE  /\ failures'[i] <= now
               /\ failures'[i] >= now <=> i > Len(failures') - 1
    <3>1. CASE i = Len(failures) + 1
      BY <1>1, <3>1, LoginFailureAdds
    <3>2. CASE i \in 1..Len(failures)
      BY <1>1, <3>2, LoginFailureAdds
    <3> QED
      BY <2>2, <3>1, <3>2, LoginFailureAdds
  <2>3. ASSUME NEW i \in 1..Len(failures')
        PROVE  failures'[i] \in Int
    <3> QED
      BY <1>1, <2>3, LoginFailureAdds
  <2>4. Len(failures') >= 1
    BY LoginFailureAdds
  <2> QED
    BY <1>1, <1>2, <2>1, <2>2, <2>3, <2>4, LoginAssumption
       DEF FailuresPast, CountingOK
<1>5. BlockOK' /\ Overshoot'
  BY <1>2 DEF BlockOK, Overshoot
<1> QED
  BY <1>3, <1>4, <1>5 DEF LimiterOK

(* A failure of a request in flight does not lengthen the block.           *)
LEMMA LoginWhileBlocked ==
  ASSUME LoginInv, NEW r \in Requests, Login!RecordFailure(r),
         entry' = entry, now < entry.until, entry # Login!NoEntry
  PROVE  LimiterOK' /\ Overshoot'
<1>1. /\ now' = now /\ now \in Nat /\ Len(failures) \in Nat
      /\ \A i \in 1..Len(failures) : failures[i] \in Int
      /\ entry.until \in Nat /\ entry.start \in Nat /\ entry.count \in Nat
  <2>1. failures \in Seq(1..MaxTime) /\ now \in 1..MaxTime
    BY DEF LoginInv, Login!TypeOK
  <2> QED
    BY <2>1, LoginAssumption, ElementOfSeq
       DEF Login!RecordFailure, LoginInv, Login!TypeOK
<1>2. entry.until # 0
  BY <1>1
<1>3. EntryOK'
  BY <1>1 DEF LoginInv, LimiterOK, EntryOK
<1>4. FailuresPast' /\ CountingOK'
  <2>1. ASSUME NEW i \in 1..Len(failures') PROVE failures'[i] <= now
    BY <1>1, LoginFailureAdds DEF LoginInv, LimiterOK, FailuresPast
  <2> QED
    BY <1>1, <1>2, <2>1 DEF FailuresPast, CountingOK
<1>5. BlockOK'
  <2>1. ASSUME NEW i \in 1..Len(failures') PROVE failures'[i] < entry.until
    BY <1>1, <1>2, LoginFailureAdds DEF LoginInv, LimiterOK, BlockOK
  <2>2. PICK last \in MaxAttempts..Len(failures) : Cause(entry.until, last)
    BY <1>2 DEF LoginInv, LimiterOK, BlockOK
  <2>3. last \in 1..Len(failures) /\ last - MaxAttempts + 1 \in 1..Len(failures)
    BY <1>1, <2>2, LoginAssumption
  <2>4. last \in MaxAttempts..Len(failures') /\ Cause(entry.until, last)'
    BY <1>1, <2>2, <2>3, LoginFailureAdds DEF Cause
  <2>5. \E at \in MaxAttempts..Len(failures') : Cause(entry.until, at)'
    BY <2>4
  <2> QED
    BY <2>1, <2>5 DEF BlockOK
<1>6. Overshoot'
  <2>1. Since \in SUBSET (1..Len(failures)) /\ InFlight \in SUBSET Requests
    BY DEF Since, InFlight
  <2>2. /\ IsFiniteSet(Since) /\ Cardinality(Since) \in Nat
        /\ Cardinality(InFlight) \in Nat /\ Cardinality(Requests) \in Nat
    BY <1>1, <2>1, LoginFinite
  <2>3. Since' \subseteq Since \union {Len(failures) + 1}
    BY <1>1, LoginFailureAdds DEF Since
  <2>4. Len(failures) + 1 \notin Since
    BY <1>1 DEF Since
  <2>5. /\ IsFiniteSet(Since \union {Len(failures) + 1})
        /\ Cardinality(Since \union {Len(failures) + 1})
             = Cardinality(Since) + 1
    BY <2>2, <2>4, FS_AddElement
  <2>6. Cardinality(Since') <= Cardinality(Since) + 1
        /\ Cardinality(Since') \in Nat
    BY <2>3, <2>5, FS_Subset, FS_CardinalityType
  <2>7. Cardinality(Since) + Cardinality(InFlight)
          < MaxAttempts + Cardinality(Requests)
    BY <1>2 DEF LoginInv, Overshoot
  <2>8. Cardinality(InFlight') = Cardinality(InFlight) - 1
    BY LoginFailureAdds
  <2> QED
    BY <2>2, <2>6, <2>7, <2>8, LoginAssumption DEF Overshoot
<1> QED
  BY <1>3, <1>4, <1>5, <1>6 DEF LimiterOK

(* One more failure in the window; the last one allowed starts the block.  *)
LEMMA LoginCounts ==
  ASSUME LoginInv, NEW r \in Requests, Login!RecordFailure(r),
         entry # Login!NoEntry, ~(now < entry.until),
         now - entry.start <= Window, entry' = Login!OneMore(entry)
  PROVE  LimiterOK' /\ Overshoot'
<1>1. /\ now' = now /\ now \in Nat /\ now > 0 /\ Len(failures) \in Nat
      /\ \A i \in 1..Len(failures) : failures[i] \in Int
      /\ entry.until \in Nat /\ entry.start \in Nat /\ entry.count \in Nat
  <2>1. failures \in Seq(1..MaxTime) /\ now \in 1..MaxTime
    BY DEF LoginInv, Login!TypeOK
  <2> QED
    BY <2>1, LoginAssumption, ElementOfSeq
       DEF Login!RecordFailure, LoginInv, Login!TypeOK
<1>2. /\ entry.until = 0 /\ entry.count < MaxAttempts
      /\ entry.count >= 1 /\ entry.start <= now /\ entry.start >= 1
  BY <1>1, LoginAssumption DEF LoginInv, LimiterOK, EntryOK
<1>3. /\ entry'.count = entry.count + 1 /\ entry'.start = entry.start
      /\ entry'.until =
           IF entry.count + 1 >= MaxAttempts THEN now + Block ELSE 0
  <2>1. entry \in [count : Nat, start : Nat, until : Nat]
    BY LoginAssumption DEF LoginInv, Login!TypeOK
  <2> QED
    BY <1>2, <2>1 DEF Login!OneMore
<1>4. /\ entry.count <= Len(failures)
      /\ \A i \in 1..Len(failures) :
           /\ failures[i] <= entry.start + Window
           /\ failures[i] >= entry.start <=> i > Len(failures) - entry.count
  BY <1>2 DEF LoginInv, LimiterOK, CountingOK
<1>5. ASSUME NEW i \in 1..Len(failures')
      PROVE  /\ failures'[i] <= now /\ failures'[i] \in Int
             /\ failures'[i] >= entry.start
                  <=> i > Len(failures') - entry'.count
  <2>1. CASE i = Len(failures) + 1
    BY <1>1, <1>2, <1>3, <2>1, LoginFailureAdds
  <2>2. CASE i \in 1..Len(failures)
    BY <1>1, <1>2, <1>3, <1>4, <2>2, LoginFailureAdds
       DEF LoginInv, LimiterOK, FailuresPast
  <2> QED
    BY <1>1, <2>1, <2>2, LoginFailureAdds
<1>6. entry' # Login!NoEntry
  BY <1>1, <1>3 DEF Login!NoEntry
<1>7. EntryOK'
  BY <1>1, <1>2, <1>3, LoginAssumption DEF EntryOK
<1>8. FailuresPast'
  BY <1>1, <1>5, <1>6 DEF FailuresPast
<1>9. CASE entry.count + 1 < MaxAttempts
  <2>1. entry'.until = 0
    BY <1>1, <1>3, <1>9, LoginAssumption
  <2>2. entry'.count <= Len(failures')
    BY <1>1, <1>3, <1>4, LoginFailureAdds
  <2>3. ASSUME NEW i \in 1..Len(failures')
        PROVE  failures'[i] <= entry'.start + Window
    BY <1>1, <1>3, <1>5, LoginAssumption
  <2>4. CountingOK'
    BY <1>3, <1>5, <2>2, <2>3 DEF CountingOK
  <2> QED
    BY <1>7, <1>8, <2>1, <2>4 DEF LimiterOK, BlockOK, Overshoot
<1>10. CASE entry.count + 1 >= MaxAttempts
  <2>1. entry'.until = now + Block /\ entry'.until # 0
        /\ entry.count + 1 = MaxAttempts
    BY <1>1, <1>2, <1>3, <1>10, LoginAssumption
  <2>2. CountingOK'
    BY <2>1 DEF CountingOK
  <2>3. ASSUME NEW i \in 1..Len(failures') PROVE failures'[i] < entry'.until
    BY <1>1, <1>5, <2>1, LoginAssumption
  <2>4. Len(failures') \in MaxAttempts..Len(failures')
    BY <1>1, <1>4, <2>1, LoginFailureAdds, LoginAssumption
  <2>5. Cause(entry.until, Len(failures))'
    <3>1. DEFINE first == Len(failures') - MaxAttempts + 1
    <3>2. first \in 1..Len(failures') /\ first > Len(failures') - entry'.count
      BY <1>1, <1>3, <1>4, <2>1, LoginFailureAdds, LoginAssumption
    <3>3. failures'[first] >= entry.start /\ failures'[first] \in Int
      BY <1>5, <3>2
    <3>4. failures'[Len(failures')] = now
      BY LoginFailureAdds
    <3>5. failures'[Len(failures')] - failures'[first] <= Window
      BY <1>1, <3>3, <3>4, LoginAssumption
    <3> QED
      BY <2>1, <3>4, <3>5 DEF Cause
  <2>6. BlockOK'
    BY <2>3, <2>4, <2>5 DEF BlockOK
  <2>7. Overshoot'
    <3>1. Since' = (Len(failures') - entry'.count + 1)..Len(failures')
      BY <1>1, <1>2, <1>3, <1>4, <1>5, LoginFailureAdds DEF Since
    <3>2. Cardinality(Since') = MaxAttempts
      <4>1. /\ Len(failures') \in Int
            /\ Len(failures') - entry'.count + 1 \in Int
            /\ Len(failures') - entry'.count + 1 <= Len(failures')
            /\ entry'.count = MaxAttempts
        BY <1>1, <1>2, <1>3, <2>1, LoginFailureAdds
      <4>2. Cardinality(Since') =
              Len(failures') - (Len(failures') - entry'.count + 1) + 1
        BY <3>1, <4>1, FS_Interval
      <4> QED
        BY <4>1, <4>2, LoginAssumption
    <3>3. Cardinality(InFlight') < Cardinality(Requests)
      BY LoginFailureAdds
    <3>4. InFlight' \in SUBSET Requests
      BY DEF InFlight
    <3>5. Cardinality(InFlight') \in Nat /\ Cardinality(Requests) \in Nat
      BY <3>4, LoginFinite
    <3> QED
      BY <3>2, <3>3, <3>5, LoginAssumption DEF Overshoot
  <2> QED
    BY <1>7, <1>8, <2>2, <2>6, <2>7 DEF LimiterOK
<1> QED
  BY <1>1, <1>9, <1>10, LoginAssumption

(* recordFailure, whatever the entry is.                                   *)
LEMMA LoginRecordsFailure ==
  ASSUME LoginInv, NEW r \in Requests, Login!RecordFailure(r)
  PROVE  LimiterOK' /\ Overshoot'
<1>1. entry' = Login!Counted(entry)
  BY DEF Login!RecordFailure
<1>2. /\ entry.until \in Nat /\ entry.start \in Nat /\ now \in Nat
      /\ Len(failures) \in Nat
      /\ \A i \in 1..Len(failures) : failures[i] \in Int
  <2>1. failures \in Seq(1..MaxTime) /\ now \in 1..MaxTime
    BY DEF LoginInv, Login!TypeOK
  <2> QED
    BY <2>1, LoginAssumption, ElementOfSeq DEF LoginInv, Login!TypeOK
<1>3. CASE entry = Login!NoEntry
  <2>1. \A i \in 1..Len(failures) : failures[i] < now
    BY <1>3 DEF LoginInv, LimiterOK, FailuresPast
  <2> QED
    BY <1>1, <1>3, <2>1, LoginFresh DEF Login!Counted
<1>4. CASE entry # Login!NoEntry /\ now < entry.until
  BY <1>1, <1>4, LoginWhileBlocked DEF Login!Counted, Login!Blocked
<1>5. CASE /\ entry # Login!NoEntry /\ ~(now < entry.until)
           /\ now - entry.start > Window
  <2>1. \A i \in 1..Len(failures) : failures[i] < now
    <3>1. CASE entry.until = 0
      BY <1>2, <1>5, <3>1, LoginAssumption
         DEF LoginInv, LimiterOK, CountingOK
    <3>2. CASE entry.until # 0
      BY <1>2, <1>5, <3>2 DEF LoginInv, LimiterOK, BlockOK
    <3> QED
      BY <3>1, <3>2
  <2> QED
    BY <1>1, <1>5, <2>1, LoginFresh DEF Login!Counted, Login!Blocked
<1>6. CASE /\ entry # Login!NoEntry /\ ~(now < entry.until)
           /\ ~(now - entry.start > Window)
  <2>1. now - entry.start <= Window
    BY <1>2, <1>6, LoginAssumption
  <2> QED
    BY <1>1, <1>6, <2>1, LoginCounts DEF Login!Counted, Login!Blocked
<1> QED
  BY <1>3, <1>4, <1>5, <1>6

(* Nothing that was recorded is of this time once the entry is over.       *)
LEMMA LoginForgets ==
  ASSUME LoginInv, entry' = Login!NoEntry, UNCHANGED <<now, failures>>,
         \/ entry = Login!NoEntry
         \/ ~Login!Blocked(entry) /\ Login!Over(entry)
  PROVE  LimiterOK' /\ Overshoot'
<1>1. /\ entry.until \in Nat /\ entry.start \in Nat /\ now \in Nat
      /\ Len(failures) \in Nat
      /\ \A i \in 1..Len(failures) : failures[i] \in Int
  <2>1. failures \in Seq(1..MaxTime) /\ now \in 1..MaxTime
    BY DEF LoginInv, Login!TypeOK
  <2> QED
    BY <2>1, LoginAssumption, ElementOfSeq DEF LoginInv, Login!TypeOK
<1>2. \A i \in 1..Len(failures) : failures[i] < now
  <2>1. CASE entry = Login!NoEntry
    BY <2>1 DEF LoginInv, LimiterOK, FailuresPast
  <2>2. CASE entry # Login!NoEntry /\ entry.until = 0
    BY <1>1, <2>2, LoginAssumption
       DEF LoginInv, LimiterOK, CountingOK, Login!Over, Login!NoEntry
  <2>3. CASE entry.until # 0
    BY <1>1, <2>3
       DEF LoginInv, LimiterOK, BlockOK, Login!Blocked, Login!NoEntry
  <2> QED
    BY <2>1, <2>2, <2>3
<1> QED
  BY <1>1, <1>2, LoginAssumption
     DEF LimiterOK, EntryOK, FailuresPast, CountingOK, BlockOK, Overshoot,
         Login!NoEntry

(* A step that leaves the limiter alone, and lets nobody past it while the *)
(* address is blocked.                                                     *)
LEMMA LoginQuiet ==
  ASSUME LoginInv, UNCHANGED <<entry, failures>>, now' \in Nat, now <= now',
         entry.until # 0 => InFlight' \subseteq InFlight
  PROVE  LimiterOK' /\ Overshoot'
<1>1. /\ now \in Nat /\ entry.start \in Nat /\ Len(failures) \in Nat
      /\ \A i \in 1..Len(failures) : failures[i] \in Int
  <2>1. failures \in Seq(1..MaxTime) /\ now \in 1..MaxTime
    BY DEF LoginInv, Login!TypeOK
  <2> QED
    BY <2>1, LoginAssumption, ElementOfSeq DEF LoginInv, Login!TypeOK
<1>2. EntryOK' /\ FailuresPast'
  BY <1>1 DEF LoginInv, LimiterOK, EntryOK, FailuresPast
<1>3. CountingOK' /\ BlockOK'
  BY DEF LoginInv, LimiterOK, CountingOK, BlockOK, Cause
<1>4. ASSUME entry.until # 0
      PROVE  Cardinality(Since') + Cardinality(InFlight')
               < MaxAttempts + Cardinality(Requests)
  <2>1. Since' = Since
    BY DEF Since
  <2>2. Since \in SUBSET (1..Len(failures)) /\ InFlight \in SUBSET Requests
    BY DEF Since, InFlight
  <2>3. /\ Cardinality(Since) \in Nat /\ IsFiniteSet(InFlight)
        /\ Cardinality(InFlight) \in Nat /\ Cardinality(Requests) \in Nat
    BY <1>1, <2>2, LoginFinite
  <2>4. Cardinality(InFlight') <= Cardinality(InFlight)
        /\ Cardinality(InFlight') \in Nat
    BY <1>4, <2>3, FS_Subset, FS_CardinalityType
  <2>5. Cardinality(Since) + Cardinality(InFlight)
          < MaxAttempts + Cardinality(Requests)
    BY <1>4 DEF LoginInv, Overshoot
  <2> QED
    BY <2>1, <2>3, <2>4, <2>5, LoginAssumption
<1>5. Overshoot'
  BY <1>4 DEF Overshoot
<1> QED
  BY <1>2, <1>3, <1>5 DEF LimiterOK

(* Types: the count stays within MaxAttempts since the entry of a block is *)
(* over before it could be counted in.                                     *)
LEMMA LoginTyped ==
  ASSUME LoginInv, Login!Next PROVE Login!TypeOK' /\ FailuresCounted'
<1>0. Login!TypeOK /\ FailuresCounted
  BY DEF LoginInv
<1>1. /\ failures \in Seq(1..MaxTime) /\ Len(failures) \in Nat
      /\ now \in 1..MaxTime /\ wrong \in Nat
  BY <1>0, LenProperties DEF Login!TypeOK
<1>2. Failing \in SUBSET Requests /\ IsFiniteSet(Failing)
        /\ Cardinality(Failing) \in Nat
  <2>1. Failing \in SUBSET Requests
    BY DEF Failing
  <2> QED
    BY <2>1, LoginFinite
<1>3. ASSUME NEW r \in Requests, Login!Allow(r) \/ Login!TurnAway(r)
      PROVE  Login!TypeOK' /\ FailuresCounted'
  <2>1. Login!TypeOK'
    BY <1>0, <1>3, LoginAssumption
       DEF Login!Allow, Login!TurnAway, Login!TypeOK, Login!NoEntry
  <2>2. Failing' = Failing
    BY <1>0, <1>3, LoginAssumption
       DEF Login!Allow, Login!TurnAway, Login!TypeOK, Failing
  <2> QED
    BY <1>0, <1>3, <2>1, <2>2
       DEF Login!Allow, Login!TurnAway, FailuresCounted
<1>4. ASSUME NEW r \in Requests, Login!LoginFails(r)
      PROVE  Login!TypeOK' /\ FailuresCounted'
  <2>1. Len(failures) <= wrong /\ wrong' = wrong + 1 /\ wrong < MaxFailures
        /\ UNCHANGED <<now, entry, failures, issued, sessions, stale>>
    BY <1>0, <1>4 DEF Login!LoginFails, Login!TypeOK
  <2>2. request' \in [Requests ->
                       {"idle", "login", "failed", "succeeded", "refused"}]
    BY <1>0, <1>4 DEF Login!LoginFails, Login!TypeOK
  <2>3. Login!TypeOK'
    BY <1>0, <1>1, <2>1, <2>2, LoginAssumption DEF Login!TypeOK
  <2>4. Failing' = Failing \union {r} /\ r \notin Failing
    BY <1>0, <1>4 DEF Login!LoginFails, Login!TypeOK, Failing
  <2>5. Cardinality(Failing') = Cardinality(Failing) + 1
    BY <1>2, <2>4, FS_AddElement
  <2> QED
    BY <1>0, <1>1, <1>2, <2>1, <2>3, <2>5 DEF FailuresCounted
<1>5. ASSUME NEW r \in Requests, Login!LoginSucceeds(r)
      PROVE  Login!TypeOK' /\ FailuresCounted'
  <2>1. Login!TypeOK'
    BY <1>0, <1>5, LoginAssumption DEF Login!LoginSucceeds, Login!TypeOK
  <2>2. Failing' = Failing
    BY <1>0, <1>5 DEF Login!LoginSucceeds, Login!TypeOK, Failing
  <2> QED
    BY <1>0, <1>5, <2>1, <2>2 DEF Login!LoginSucceeds, FailuresCounted
<1>6. ASSUME NEW r \in Requests, Login!RecordFailure(r)
      PROVE  Login!TypeOK' /\ FailuresCounted'
  <2>1. FailuresCounted'
    <3>1. /\ Len(failures') = Len(failures) + 1
          /\ Cardinality(Failing') = Cardinality(Failing) - 1
      BY <1>6, LoginFailureAdds
    <3>2. wrong' = wrong
      BY <1>6 DEF Login!RecordFailure
    <3> QED
      BY <1>0, <1>1, <1>2, <3>1, <3>2 DEF FailuresCounted
  <2>2. Cardinality(Failing') \in Nat /\ wrong' = wrong
    <3>1. Failing' \in SUBSET Requests
      BY DEF Failing
    <3> QED
      BY <1>6, <3>1, LoginFinite DEF Login!RecordFailure
  <2>3. Len(failures') <= wrong'
    BY <1>1, <1>6, <2>1, <2>2, LoginFailureAdds DEF FailuresCounted
  <2>4. entry' = Login!Counted(entry)
    BY <1>6 DEF Login!RecordFailure
  <2>5. entry' \in [count : 0..MaxAttempts, start : 0..MaxTime,
                    until : 0..(MaxTime + Block)]
    <3>1. entry \in [count : 0..MaxAttempts, start : 0..MaxTime,
                     until : 0..(MaxTime + Block)]
      BY <1>0 DEF Login!TypeOK
    <3>2. [count |-> 1, start |-> now, until |-> 0] \in
            [count : 0..MaxAttempts, start : 0..MaxTime,
             until : 0..(MaxTime + Block)]
      BY <1>1, LoginAssumption
    <3>3. CASE \/ entry = Login!NoEntry \/ Login!Blocked(entry)
               \/ now - entry.start > Window
      BY <2>4, <3>1, <3>2, <3>3 DEF Login!Counted
    <3>4. CASE /\ entry # Login!NoEntry /\ ~Login!Blocked(entry)
               /\ ~(now - entry.start > Window)
      <4>1. entry' = Login!OneMore(entry)
        BY <2>4, <3>4 DEF Login!Counted
      <4>2. entry.until = 0 /\ entry.count < MaxAttempts
        <5>1. entry.until # 0 => entry.start + Block <= entry.until
          BY DEF LoginInv, LimiterOK, EntryOK
        <5>2. entry.until \in Nat /\ entry.start \in Nat
          BY <3>1, LoginAssumption
        <5>3. entry.until = 0
          BY <1>1, <3>4, <5>1, <5>2, LoginAssumption DEF Login!Blocked
        <5> QED
          BY <5>3 DEF LoginInv, LimiterOK, EntryOK
      <4>3. entry.count + 1 \in 0..MaxAttempts
            /\ now + Block \in 0..(MaxTime + Block)
        BY <1>1, <3>1, <4>2, LoginAssumption
      <4> QED
        BY <3>1, <4>1, <4>3 DEF Login!OneMore
    <3> QED
      BY <3>3, <3>4
  <2>6. UNCHANGED <<now, wrong, issued, sessions, stale>>
    BY <1>6 DEF Login!RecordFailure
  <2>7. Login!TypeOK'
    BY <1>0, <1>6, <2>3, <2>5, <2>6, LoginFailureAdds DEF Login!TypeOK
  <2> QED
    BY <2>1, <2>7
<1>7. ASSUME NEW r \in Requests, Login!RecordSuccess(r)
      PROVE  Login!TypeOK' /\ FailuresCounted'
  <2>1. failures' = <<>> /\ Len(failures') = 0 /\ Len(failures') <= wrong
    BY <1>1, <1>7 DEF Login!RecordSuccess
  <2>2. Login!TypeOK'
    BY <1>0, <1>7, <2>1, LoginAssumption
       DEF Login!RecordSuccess, Login!TypeOK, Login!NoEntry
  <2>3. Failing' = Failing
    BY <1>0, <1>7 DEF Login!RecordSuccess, Login!TypeOK, Failing
  <2> QED
    BY <1>0, <1>1, <1>2, <1>7, <2>1, <2>2, <2>3
       DEF Login!RecordSuccess, FailuresCounted
<1>8. ASSUME \/ \E t \in Tokens : Login!ValidateExpired(t) \/ Login!Logout(t)
             \/ Login!ValidateDeletes \/ Login!cleanup \/ Login!Tick
      PROVE  Login!TypeOK' /\ FailuresCounted'
  <2>1. UNCHANGED <<entry, request, failures, wrong>>
    BY <1>8 DEF Login!ValidateExpired, Login!Logout, Login!ValidateDeletes,
                Login!cleanup, Login!Tick
  <2>2. /\ now' \in 1..MaxTime /\ stale' \in Tokens \union {-1}
        /\ issued' \in Tokens \union {0}
    BY <1>0, <1>8, LoginAssumption
       DEF Login!ValidateExpired, Login!Logout, Login!ValidateDeletes,
           Login!cleanup, Login!Tick, Login!TypeOK, Login!None
  <2>3. sessions' \in [Tokens -> {-1} \union 1..(MaxTime + TTL)]
    <3>1. sessions \in [Tokens -> {-1} \union 1..(MaxTime + TTL)]
      BY <1>0 DEF Login!TypeOK, Login!None
    <3> QED
      BY <1>0, <1>8, <3>1, LoginAssumption
         DEF Login!ValidateExpired, Login!Logout, Login!ValidateDeletes,
             Login!cleanup, Login!Tick, Login!None
  <2>4. Login!TypeOK'
    BY <1>0, <2>1, <2>2, <2>3 DEF Login!TypeOK, Login!None
  <2> QED
    BY <1>0, <2>1, <2>4 DEF FailuresCounted, Failing
<1> QED
  BY <1>3, <1>4, <1>5, <1>6, <1>7, <1>8 DEF Login!Next, Login!handleLogin

LEMMA LoginSteps == ASSUME LoginInv, Login!Next PROVE LoginInv'
<1>1. /\ request \in [Requests ->
                       {"idle", "login", "failed", "succeeded", "refused"}]
      /\ now \in Nat
  BY LoginAssumption DEF LoginInv, Login!TypeOK
<1>2. ASSUME NEW r \in Requests, Login!Allow(r)
      PROVE  LimiterOK' /\ Overshoot'
  <2>1. UNCHANGED <<now, failures>>
    BY <1>2 DEF Login!Allow
  <2>2. CASE /\ entry' = Login!NoEntry
             /\ \/ entry = Login!NoEntry
                \/ ~Login!Blocked(entry) /\ Login!Over(entry)
    BY <2>1, <2>2, LoginForgets
  <2>3. CASE /\ entry # Login!NoEntry /\ ~Login!Blocked(entry)
             /\ ~Login!Over(entry) /\ UNCHANGED entry
    BY <1>1, <2>1, <2>3, LoginQuiet DEF Login!Over
  <2>4. CASE /\ request' = [request EXCEPT ![r] = "refused"]
             /\ UNCHANGED entry
    <3>1. InFlight' \subseteq InFlight
      BY <1>1, <2>4 DEF InFlight
    <3> QED
      BY <1>1, <2>1, <2>4, <3>1, LoginQuiet
  <2> QED
    BY <1>2, <2>2, <2>3, <2>4 DEF Login!Allow
<1>3. ASSUME NEW r \in Requests,
             Login!TurnAway(r) \/ Login!LoginFails(r) \/ Login!LoginSucceeds(r)
      PROVE  LimiterOK' /\ Overshoot'
  <2>1. UNCHANGED <<now, entry, failures>>
    BY <1>3 DEF Login!TurnAway, Login!LoginFails, Login!LoginSucceeds
  <2>2. InFlight' \subseteq InFlight
    BY <1>1, <1>3
       DEF Login!TurnAway, Login!LoginFails, Login!LoginSucceeds, InFlight
  <2> QED
    BY <1>1, <2>1, <2>2, LoginQuiet
<1>4. ASSUME NEW r \in Requests, Login!RecordSuccess(r)
      PROVE  LimiterOK' /\ Overshoot'
  <2>1. failures' = <<>> /\ Len(failures') = 0 /\ entry' = Login!NoEntry
    BY <1>4 DEF Login!RecordSuccess
  <2> QED
    BY <2>1, LoginAssumption
       DEF LimiterOK, EntryOK, FailuresPast, CountingOK, BlockOK, Overshoot,
           Login!NoEntry
<1>5. ASSUME \/ \E t \in Tokens : Login!ValidateExpired(t) \/ Login!Logout(t)
             \/ Login!ValidateDeletes \/ Login!cleanup \/ Login!Tick
      PROVE  LimiterOK' /\ Overshoot'
  <2>1. UNCHANGED <<entry, failures, request>> /\ (now' = now \/ now' = now + 1)
    BY <1>5 DEF Login!ValidateExpired, Login!Logout, Login!ValidateDeletes,
                Login!cleanup, Login!Tick
  <2> QED
    BY <1>1, <2>1, LoginQuiet DEF InFlight
<1>6. LimiterOK' /\ Overshoot'
  BY <1>2, <1>3, <1>4, <1>5, LoginRecordsFailure
     DEF Login!Next, Login!handleLogin
<1> QED
  BY <1>6, LoginTyped DEF LoginInv

(* The invariant of the limiter, whatever part moves.                      *)
LEMMA LoginInvariant == ServicesSpec => []LoginInv
<1>1. ServicesInit => LoginInv
  BY LoginStarts DEF ServicesInit
<1>2. LoginInv /\ [ServicesNext]_all => LoginInv'
  <2>1. ASSUME LoginInv, UNCHANGED LoginVars PROVE LoginInv'
    BY <2>1
       DEF LoginInv, LoginVars, Login!TypeOK, FailuresCounted, Failing,
           LimiterOK, EntryOK, FailuresPast, CountingOK, BlockOK, Cause,
           Overshoot, Since, InFlight
  <2> QED
    BY <2>1, LoginSteps DEF ServicesNext, all
<1> QED
  BY <1>1, <1>2, PTL DEF ServicesSpec

(* However requests interleave, an address gets no more attempts per       *)
(* window and block than MaxAttempts and one for each request that was     *)
(* past allow when the block began (loginRateLimiter in auth.go).          *)
THEOREM LoginAttemptsBounded == ServicesSpec => []AttemptsBounded
<1>1. LoginInv => AttemptsBounded
  <2> SUFFICES ASSUME LoginInv, entry # Login!NoEntry
               PROVE  Cardinality(Since) < MaxAttempts + Cardinality(Requests)
    BY DEF AttemptsBounded, Login!AttemptsBounded, Since,
           Login!Cardinality, Cardinality
  <2>1. /\ Len(failures) \in Nat /\ entry.count \in Nat
        /\ \A i \in 1..Len(failures) : failures[i] \in Int
    <3>1. failures \in Seq(1..MaxTime)
      BY DEF LoginInv, Login!TypeOK
    <3> QED
      BY <3>1, LoginAssumption, ElementOfSeq DEF LoginInv, Login!TypeOK
  <2>2. Since \in SUBSET (1..Len(failures)) /\ InFlight \in SUBSET Requests
    BY DEF Since, InFlight
  <2>3. /\ Cardinality(Since) \in Nat /\ Cardinality(InFlight) \in Nat
        /\ Cardinality(Requests) \in Nat
    BY <2>1, <2>2, LoginFinite
  <2>4. CASE entry.until # 0
    BY <2>3, <2>4, LoginAssumption DEF LoginInv, Overshoot
  <2>5. CASE entry.until = 0
    <3>1. /\ entry.count \in 1..(MaxAttempts - 1)
          /\ entry.count <= Len(failures)
          /\ \A i \in 1..Len(failures) :
               failures[i] >= entry.start <=> i > Len(failures) - entry.count
      BY <2>1, <2>5, LoginAssumption
         DEF LoginInv, LimiterOK, EntryOK, CountingOK
    <3>2. Since = (Len(failures) - entry.count + 1)..Len(failures)
      BY <2>1, <3>1 DEF Since
    <3>3. /\ Len(failures) \in Int /\ Len(failures) - entry.count + 1 \in Int
          /\ Len(failures) - entry.count + 1 <= Len(failures)
      BY <2>1, <3>1
    <3>4. Cardinality(Since) =
            Len(failures) - (Len(failures) - entry.count + 1) + 1
      BY <3>2, <3>3, FS_Interval
    <3> QED
      BY <2>1, <2>3, <3>1, <3>4, LoginAssumption
  <2> QED
    BY <2>4, <2>5
<1> QED
  BY <1>1, LoginInvariant, PTL

(* A request is refused only after MaxAttempts failures in a row within    *)
(* one window, the last of them less than a block ago: neither a failure   *)
(* of an earlier window nor one recorded during the block lengthens it     *)
(* (allow and recordFailure in auth.go).                                   *)
THEOREM LoginRefusedForCause == ServicesSpec => RefusedForCause
<1>1. ASSUME LoginInv, Login!Next, NEW r \in Requests,
             request[r] = "idle", request'[r] = "refused"
      PROVE  \E last \in MaxAttempts..Len(failures) :
               /\ now < failures[last] + Block
               /\ failures[last] - failures[last - MaxAttempts + 1] <= Window
  <2>1. request \in [Requests ->
                      {"idle", "login", "failed", "succeeded", "refused"}]
    BY <1>1 DEF LoginInv, Login!TypeOK
  <2>2. \E q \in Requests : Login!Allow(q) /\ request'[q] = "refused"
    <3>1. ASSUME NEW q \in Requests, Login!handleLogin(q), ~Login!Allow(q)
          PROVE  FALSE
      BY <1>1, <2>1, <3>1
         DEF Login!handleLogin, Login!TurnAway, Login!LoginFails,
             Login!LoginSucceeds, Login!RecordFailure, Login!RecordSuccess
    <3>2. ASSUME \/ \E t \in Tokens :
                      Login!ValidateExpired(t) \/ Login!Logout(t)
                 \/ Login!ValidateDeletes \/ Login!cleanup \/ Login!Tick
          PROVE  FALSE
      BY <1>1, <3>2
         DEF Login!ValidateExpired, Login!Logout, Login!ValidateDeletes,
             Login!cleanup, Login!Tick
    <3>3. PICK q \in Requests : Login!Allow(q)
      BY <1>1, <3>1, <3>2 DEF Login!Next
    <3>4. q = r
      BY <1>1, <2>1, <3>3 DEF Login!Allow
    <3> QED
      BY <1>1, <3>3, <3>4
  <2>3. now < entry.until /\ entry.until # 0
    <3>1. PICK q \in Requests : Login!Allow(q) /\ request'[q] = "refused"
      BY <2>2
    <3>2. /\ entry.until \in Nat /\ now \in Nat /\ entry.count \in Nat
      BY <1>1, LoginAssumption DEF LoginInv, Login!TypeOK
    <3>3. entry.until = 0 => entry.count < MaxAttempts
      BY <1>1 DEF LoginInv, LimiterOK, EntryOK
    <3> QED
      BY <2>1, <3>1, <3>2, <3>3
         DEF Login!Allow, Login!Blocked, Login!Over
  <2>4. PICK last \in MaxAttempts..Len(failures) : Cause(entry.until, last)
    BY <1>1, <2>3 DEF LoginInv, LimiterOK, BlockOK
  <2> QED
    BY <2>3, <2>4 DEF Cause
<1>2. LoginInv /\ [ServicesNext]_all =>
        [\A r \in Requests :
           request[r] = "idle" /\ request'[r] = "refused" =>
             \E last \in MaxAttempts..Len(failures) :
               /\ now < failures[last] + Block
               /\ failures[last] - failures[last - MaxAttempts + 1]
                    <= Window]_Login!vars
  BY <1>1 DEF ServicesNext, all, LoginVars, Login!vars
<1> QED
  BY <1>2, LoginInvariant, PTL
     DEF ServicesSpec, RefusedForCause, Login!RefusedForCause

----------------------------------------------------------------------------
(* Snapshot.  The parameter set held is no older than any that was fed, so *)
(* it is not older than those in force when the key frame was taken.       *)
KindsOfUnit == {"sps", "pps", "idr", "other"}
NALs        == [kind : KindsOfUnit, age : Nat]

HeldOK(kind, held) ==
  /\ held = <<>> \/ \E n \in NALs : held = <<n>> /\ n.kind = kind
  /\ \A age \in 1..Len(units) :
       Snap!Fed(kind, age) => held # <<>> /\ held[1].age >= age

\* The NAL units of the key frame are of one and the same unit that was fed.
LatestOK ==
  latest # <<>> =>
    /\ latest \in Seq(NALs) /\ Len(latest) > 0
    /\ \E age \in 1..Len(units) :
         \A i \in 1..Len(latest) : latest[i].age = age

GivenOK ==
  /\ given \in Seq(NALs)
  /\ \A i \in 1..Len(given) :
       given[i].kind = "idr" => given[i].age \in 1..Len(units)

SnapInv ==
  /\ units \in Seq(Snap!Units) /\ LatestOK /\ GivenOK /\ Decodable
  /\ HeldOK("sps", lastSPS) /\ HeldOK("pps", lastPPS)

(* Every unit that is fed is a sequence of kinds.                          *)
LEMMA SnapUnits ==
  ASSUME NEW kinds \in Snap!Units
  PROVE  kinds \in Seq(KindsOfUnit) /\ Len(kinds) \in 1..3
<1>1. /\ <<"sps", "pps", "idr">> \in Seq(KindsOfUnit)
      /\ Len(<<"sps", "pps", "idr">>) \in 1..3
  BY DEF KindsOfUnit
<1>2. /\ <<"sps", "pps">> \in Seq(KindsOfUnit)
      /\ <<"other", "idr">> \in Seq(KindsOfUnit)
      /\ Len(<<"sps", "pps">>) \in 1..3 /\ Len(<<"other", "idr">>) \in 1..3
  BY DEF KindsOfUnit
<1>3. \A k \in KindsOfUnit : <<k>> \in Seq(KindsOfUnit) /\ Len(<<k>>) \in 1..3
  OBVIOUS
<1>4. \A k \in {"sps", "pps", "idr", "other"} :
        <<k>> \in Seq(KindsOfUnit) /\ Len(<<k>>) \in 1..3
  BY <1>3, Zenon DEF KindsOfUnit
<1>5. \/ kinds = <<"sps", "pps", "idr">> \/ kinds = <<"sps", "pps">>
      \/ kinds = <<"other", "idr">>
      \/ \E k \in {"sps", "pps", "idr", "other"} : kinds = <<k>>
  BY Zenon DEF Snap!Units
<1> QED
  BY <1>1, <1>2, <1>4, <1>5, Zenon

(* The access unit Feed makes of them.                                     *)
LEMMA SnapFed ==
  ASSUME NEW kinds \in Snap!Units, NEW age \in Nat, NEW au,
         au = [i \in 1..Len(kinds) |-> [kind |-> kinds[i], age |-> age]]
  PROVE  /\ au \in Seq(NALs) /\ Len(au) = Len(kinds) /\ Len(au) > 0
         /\ \A i \in 1..Len(au) : au[i].kind = kinds[i] /\ au[i].age = age
<1>1. kinds \in Seq(KindsOfUnit) /\ Len(kinds) \in 1..3
  BY SnapUnits
<1>2. \A i \in 1..Len(kinds) : [kind |-> kinds[i], age |-> age] \in NALs
  BY <1>1, ElementOfSeq DEF NALs
<1>3. au \in [1..Len(kinds) -> NALs] /\ Len(kinds) \in Nat
  BY <1>1, <1>2
<1>4. au \in Seq(NALs) /\ Len(au) = Len(kinds)
  BY <1>3, SeqDef, LenProperties
<1> QED
  BY <1>1, <1>4

(* Only picks a NAL unit of the kind it was asked for.                     *)
LEMMA SnapOnly ==
  ASSUME NEW au \in Seq(NALs), NEW kind
  PROVE  /\ Snap!Has(au, kind) =>
              \E i \in 1..Len(au) :
                Snap!Only(au, kind) = <<au[i]>> /\ au[i].kind = kind
         /\ ~Snap!Has(au, kind) => Snap!Only(au, kind) = <<>>
<1>1. ASSUME Snap!Has(au, kind)
      PROVE  \E i \in 1..Len(au) :
               Snap!Only(au, kind) = <<au[i]>> /\ au[i].kind = kind
  <2>1. \E i \in 1..Len(au) : au[i].kind = kind
    BY <1>1 DEF Snap!Has
  <2>2. (CHOOSE i \in 1..Len(au) : au[i].kind = kind) \in 1..Len(au)
        /\ au[CHOOSE i \in 1..Len(au) : au[i].kind = kind].kind = kind
    BY <2>1, Zenon
  <2> QED
    BY <1>1, <2>2, Zenon DEF Snap!Only
<1> QED
  BY <1>1, Zenon DEF Snap!Only

(* So it is the empty sequence or has one element.                         *)
LEMMA SnapOnlyType ==
  ASSUME NEW au \in Seq(NALs), NEW kind
  PROVE  /\ Snap!Only(au, kind) \in Seq(NALs)
         /\ Len(Snap!Only(au, kind)) \in {0, 1}
         /\ Len(Snap!Only(au, kind)) = 1 => Snap!Only(au, kind)[1].kind = kind
<1>1. CASE Snap!Has(au, kind)
  <2>1. PICK i \in 1..Len(au) :
               Snap!Only(au, kind) = <<au[i]>> /\ au[i].kind = kind
    BY <1>1, SnapOnly
  <2>2. au[i] \in NALs
    BY ElementOfSeq
  <2> QED
    BY <2>1, <2>2
<1>2. CASE ~Snap!Has(au, kind)
  <2>1. Snap!Only(au, kind) = <<>>
    BY <1>2, SnapOnly
  <2> QED
    BY <2>1
<1> QED
  BY <1>1, <1>2

(* Feed.  The numbers of the units already fed do not change.              *)
LEMMA SnapFeedHolds ==
  ASSUME SnapInv, NEW kinds \in Snap!Units, units' = Append(units, kinds),
         NEW kind, NEW held, HeldOK(kind, held),
         NEW au \in Seq(NALs), Len(au) = Len(kinds),
         \A i \in 1..Len(au) :
           au[i].kind = kinds[i] /\ au[i].age = Len(units) + 1
  PROVE  LET next == Snap!LastOf(au, kind, held) IN
         /\ next = <<>> \/ \E n \in NALs : next = <<n>> /\ n.kind = kind
         /\ \A age \in 1..Len(units') :
              (\E k \in 1..Len(units'[age]) : units'[age][k] = kind) =>
                next # <<>> /\ next[1].age >= age
<1> DEFINE next == Snap!LastOf(au, kind, held)
<1>1. units \in Seq(Snap!Units) /\ Len(units) \in Nat
  BY LenProperties DEF SnapInv
<1>2. /\ Len(units') = Len(units) + 1 /\ units'[Len(units) + 1] = kinds
      /\ \A i \in 1..Len(units) : units'[i] = units[i]
  BY <1>1, AppendProperties
<1>3. CASE Snap!Has(au, kind)
  <2>1. PICK i \in 1..Len(au) : next = <<au[i]>> /\ au[i].kind = kind
    BY <1>3, SnapOnly DEF Snap!LastOf
  <2>2. au[i] \in NALs /\ au[i].age = Len(units) + 1
    BY ElementOfSeq
  <2> HIDE DEF next
  <2>3. next # <<>> /\ next[1] = au[i]
    BY <2>1
  <2>4. \A age \in 1..Len(units') : next[1].age >= age
    BY <1>1, <1>2, <2>2, <2>3
  <2>5. next = <<>> \/ \E n \in NALs : next = <<n>> /\ n.kind = kind
    BY <2>1, <2>2
  <2> QED
    BY <2>3, <2>4, <2>5 DEF next
<1>4. CASE ~Snap!Has(au, kind)
  <2>1. next = held
    BY <1>4 DEF Snap!LastOf
  <2>2. \A k \in 1..Len(kinds) : kinds[k] # kind
    BY <1>4 DEF Snap!Has
  <2>3. ASSUME NEW age \in 1..Len(units'),
               \E k \in 1..Len(units'[age]) : units'[age][k] = kind
        PROVE  age \in 1..Len(units) /\ Snap!Fed(kind, age)
    BY <1>1, <1>2, <2>2, <2>3 DEF Snap!Fed
  <2> HIDE DEF next
  <2>4. /\ next = <<>> \/ \E n \in NALs : next = <<n>> /\ n.kind = kind
        /\ \A age \in 1..Len(units') :
             (\E k \in 1..Len(units'[age]) : units'[age][k] = kind) =>
               next # <<>> /\ next[1].age >= age
    BY <2>1, <2>3 DEF HeldOK
  <2> QED
    BY <2>4 DEF next
<1> QED
  BY <1>3, <1>4

(* What Latest gives: the key frame, the parameter sets in force in front. *)
LEMMA SnapLatest ==
  ASSUME SnapInv, latest # <<>>
  PROVE  /\ Snap!Latest \in Seq(NALs)
         /\ \A i \in 1..Len(Snap!Latest) : Snap!Latest[i].kind = "idr" =>
              /\ Snap!Latest[i].age \in 1..Len(units)
              /\ \A kind \in {"sps", "pps"}, age \in 1..Snap!Latest[i].age :
                   Snap!Fed(kind, age) =>
                     /\ Snap!Has(Snap!Latest, kind)
                     /\ \A k \in 1..Len(Snap!Latest) :
                          Snap!Latest[k].kind = kind =>
                            Snap!Latest[k].age >= age
<1> DEFINE S == IF Snap!Has(latest, "sps") THEN <<>> ELSE lastSPS
           P == IF Snap!Has(latest, "pps") THEN <<>> ELSE lastPPS
           L == Snap!Latest
<1>1. L = S \o P \o latest
  BY DEF Snap!Latest, Snap!NoUnit
<1>2. PICK born \in 1..Len(units) :
             \A i \in 1..Len(latest) : latest[i].age = born
  BY DEF SnapInv, LatestOK
<1>3. latest \in Seq(NALs) /\ Len(units) \in Nat
  BY LenProperties DEF SnapInv, LatestOK
<1>4. /\ S = <<>> \/ \E n \in NALs : S = <<n>> /\ n.kind = "sps"
      /\ P = <<>> \/ \E n \in NALs : P = <<n>> /\ n.kind = "pps"
  BY DEF SnapInv, HeldOK
<1>5. /\ S \in Seq(NALs) /\ Len(S) \in {0, 1}
      /\ P \in Seq(NALs) /\ Len(P) \in {0, 1}
      /\ S # <<>> => Len(S) = 1 /\ S[1].kind = "sps"
      /\ P # <<>> => Len(P) = 1 /\ P[1].kind = "pps"
      /\ S = <<>> => Len(S) = 0
      /\ P = <<>> => Len(P) = 0
  <2>1. ASSUME NEW n \in NALs PROVE /\ <<n>> \in Seq(NALs) /\ Len(<<n>>) = 1
                                    /\ <<n>>[1] = n
    OBVIOUS
  <2>2. <<>> \in Seq(NALs) /\ Len(<<>>) = 0
    OBVIOUS
  <2> HIDE DEF S, P
  <2> QED
    BY <1>4, <2>1, <2>2
<1> HIDE DEF S, P, L
<1>6. /\ S \o P \in Seq(NALs) /\ Len(S \o P) = Len(S) + Len(P)
      /\ \A i \in 1..(Len(S) + Len(P)) :
           (S \o P)[i] = IF i <= Len(S) THEN S[i] ELSE P[i - Len(S)]
  BY <1>5, ConcatProperties
<1>7. /\ L \in Seq(NALs) /\ Len(L) = Len(S) + Len(P) + Len(latest)
      /\ \A i \in 1..Len(L) :
           L[i] = IF i <= Len(S) THEN S[i]
                  ELSE IF i <= Len(S) + Len(P) THEN P[i - Len(S)]
                  ELSE latest[i - (Len(S) + Len(P))]
  <2>1. /\ L \in Seq(NALs) /\ Len(L) = Len(S \o P) + Len(latest)
        /\ \A i \in 1..(Len(S \o P) + Len(latest)) :
             L[i] = IF i <= Len(S \o P) THEN (S \o P)[i]
                    ELSE latest[i - Len(S \o P)]
    BY <1>1, <1>3, <1>6, ConcatProperties
  <2>2. Len(S) \in Nat /\ Len(P) \in Nat /\ Len(latest) \in Nat
    BY <1>3, <1>5, LenProperties
  <2> QED
    BY <1>6, <2>1, <2>2
<1>8. Len(S) \in Nat /\ Len(P) \in Nat /\ Len(latest) \in Nat
  BY <1>3, <1>5, LenProperties
<1>9. ASSUME NEW i \in 1..Len(latest)
      PROVE  /\ i + (Len(S) + Len(P)) \in 1..Len(L)
             /\ L[i + (Len(S) + Len(P))] = latest[i]
  BY <1>7, <1>8
<1>10. ASSUME NEW k \in 1..Len(L)
       PROVE  \/ \E j \in 1..Len(latest) : L[k] = latest[j]
              \/ S # <<>> /\ L[k] = S[1]
              \/ P # <<>> /\ L[k] = P[1]
  <2>1. CASE k <= Len(S)
    BY <1>5, <1>7, <1>8, <2>1
  <2>2. CASE ~(k <= Len(S)) /\ k <= Len(S) + Len(P)
    BY <1>5, <1>7, <1>8, <2>2
  <2>3. CASE ~(k <= Len(S)) /\ ~(k <= Len(S) + Len(P))
    BY <1>7, <1>8, <2>3
  <2> QED
    BY <2>1, <2>2, <2>3
<1>11. /\ S # <<>> => 1 \in 1..Len(L) /\ L[1] = S[1]
       /\ P # <<>> => Len(S) + 1 \in 1..Len(L) /\ L[Len(S) + 1] = P[1]
  BY <1>5, <1>7, <1>8
<1>12. ASSUME NEW k \in 1..Len(L), L[k].kind = "idr" PROVE L[k].age = born
  BY <1>2, <1>5, <1>10, <1>12
<1>13. ASSUME NEW age \in 1..born, Snap!Fed("sps", age)
       PROVE  /\ Snap!Has(L, "sps")
              /\ \A k \in 1..Len(L) : L[k].kind = "sps" => L[k].age >= age
  <2>1. CASE Snap!Has(latest, "sps")
    <3>1. S = <<>>
      BY <2>1 DEF S
    <3>2. Snap!Has(L, "sps")
      BY <1>9, <2>1 DEF Snap!Has
    <3>3. \A k \in 1..Len(L) : L[k].kind = "sps" => L[k].age = born
      BY <1>2, <1>5, <1>10, <3>1
    <3> QED
      BY <3>2, <3>3
  <2>2. CASE ~Snap!Has(latest, "sps")
    <3>1. S = lastSPS /\ age \in 1..Len(units)
      BY <1>3, <2>2 DEF S
    <3>2. S # <<>> /\ S[1].age >= age
      BY <1>13, <3>1 DEF SnapInv, HeldOK
    <3>3. \A j \in 1..Len(latest) : latest[j].kind # "sps"
      BY <2>2 DEF Snap!Has
    <3>4. Snap!Has(L, "sps")
      BY <1>5, <1>11, <3>2 DEF Snap!Has
    <3>5. \A k \in 1..Len(L) : L[k].kind = "sps" => L[k] = S[1]
      BY <1>5, <1>10, <3>3
    <3> QED
      BY <3>2, <3>4, <3>5
  <2> QED
    BY <2>1, <2>2
<1>14. ASSUME NEW age \in 1..born, Snap!Fed("pps", age)
       PROVE  /\ Snap!Has(L, "pps")
              /\ \A k \in 1..Len(L) : L[k].kind = "pps" => L[k].age >= age
  <2>1. CASE Snap!Has(latest, "pps")
    <3>1. P = <<>>
      BY <2>1 DEF P
    <3>2. Snap!Has(L, "pps")
      BY <1>9, <2>1 DEF Snap!Has
    <3>3. \A k \in 1..Len(L) : L[k].kind = "pps" => L[k].age = born
      BY <1>2, <1>5, <1>10, <3>1
    <3> QED
      BY <3>2, <3>3
  <2>2. CASE ~Snap!Has(latest, "pps")
    <3>1. P = lastPPS /\ age \in 1..Len(units)
      BY <1>3, <2>2 DEF P
    <3>2. P # <<>> /\ P[1].age >= age
      BY <1>14, <3>1 DEF SnapInv, HeldOK
    <3>3. \A j \in 1..Len(latest) : latest[j].kind # "pps"
      BY <2>2 DEF Snap!Has
    <3>4. Snap!Has(L, "pps")
      BY <1>5, <1>11, <3>2 DEF Snap!Has
    <3>5. \A k \in 1..Len(L) : L[k].kind = "pps" => L[k] = P[1]
      BY <1>5, <1>10, <3>3
    <3> QED
      BY <3>2, <3>4, <3>5
  <2> QED
    BY <2>1, <2>2
<1>15. ASSUME NEW i \in 1..Len(L), L[i].kind = "idr",
              NEW kind \in {"sps", "pps"}, NEW age \in 1..L[i].age,
              Snap!Fed(kind, age)
       PROVE  /\ Snap!Has(L, kind)
              /\ \A k \in 1..Len(L) : L[k].kind = kind => L[k].age >= age
  <2>1. age \in 1..born
    BY <1>12, <1>15
  <2> QED
    BY <1>13, <1>14, <1>15, <2>1
<1>16. L \in Seq(NALs)
  BY <1>7
<1> QED
  BY <1>12, <1>15, <1>16 DEF L

(* What buildAnnexB gives, section by section.                             *)
LEMMA SnapSections ==
  ASSUME NEW au \in Seq(NALs), NEW A, NEW B, NEW C, NEW D,
         A = Snap!Only(au, "sps"), B = Snap!Only(au, "pps"),
         C = Snap!Only(au, "other"), D = Snap!Only(au, "idr"),
         NEW G, G = Snap!buildAnnexB(au)
  PROVE  /\ G \in Seq(NALs) /\ Len(G) = Len(A) + Len(B) + Len(C) + Len(D)
         /\ \A i \in 1..Len(G) :
              G[i] = IF i <= Len(A) THEN A[i]
                     ELSE IF i <= Len(A) + Len(B) THEN B[i - Len(A)]
                     ELSE IF i <= Len(A) + Len(B) + Len(C)
                            THEN C[i - (Len(A) + Len(B))]
                     ELSE D[i - (Len(A) + Len(B) + Len(C))]
<1>1. /\ A \in Seq(NALs) /\ B \in Seq(NALs)
      /\ C \in Seq(NALs) /\ D \in Seq(NALs)
  BY SnapOnlyType
<1>2. Len(A) \in Nat /\ Len(B) \in Nat /\ Len(C) \in Nat /\ Len(D) \in Nat
  BY <1>1, LenProperties
<1>3. G = ((A \o B) \o C) \o D
  BY DEF Snap!buildAnnexB
<1> DEFINE X == A \o B
           Y == X \o C
<1>4. /\ X \in Seq(NALs) /\ Len(X) = Len(A) + Len(B)
      /\ \A i \in 1..(Len(A) + Len(B)) :
           X[i] = IF i <= Len(A) THEN A[i] ELSE B[i - Len(A)]
  BY <1>1, ConcatProperties
<1> HIDE DEF X
<1>5. X \in Seq(NALs) /\ C \in Seq(NALs) /\ Y = X \o C
  BY <1>1, <1>4
<1>6. /\ Y \in Seq(NALs) /\ Len(Y) = Len(X) + Len(C)
      /\ \A i \in 1..(Len(X) + Len(C)) :
           Y[i] = IF i <= Len(X) THEN X[i] ELSE C[i - Len(X)]
  <2> HIDE DEF Y
  <2> QED
    BY <1>5, ConcatProperties
<1> HIDE DEF Y
<1>7. /\ G \in Seq(NALs) /\ Len(G) = Len(Y) + Len(D)
      /\ \A i \in 1..(Len(Y) + Len(D)) :
           G[i] = IF i <= Len(Y) THEN Y[i] ELSE D[i - Len(Y)]
  BY <1>1, <1>3, <1>6, ConcatProperties DEF X, Y
<1> QED
  BY <1>2, <1>4, <1>6, <1>7

(* buildAnnexB gives NAL units of the access unit, and puts a parameter    *)
(* set, if there is one, before a key frame.                               *)
LEMMA SnapBuilds ==
  ASSUME NEW au \in Seq(NALs), NEW G, G = Snap!buildAnnexB(au)
  PROVE  /\ G \in Seq(NALs)
         /\ \A i \in 1..Len(G) : \E j \in 1..Len(au) : G[i] = au[j]
         /\ \A i \in 1..Len(G), kind \in {"sps", "pps"} :
              G[i].kind = "idr" /\ Snap!Has(au, kind) =>
                \E k \in 1..(i - 1) : G[k].kind = kind
<1> DEFINE A == Snap!Only(au, "sps")
           B == Snap!Only(au, "pps")
           C == Snap!Only(au, "other")
           D == Snap!Only(au, "idr")
<1>1. /\ Len(A) \in {0, 1} /\ (Len(A) = 1 => A[1].kind = "sps")
      /\ Len(B) \in {0, 1} /\ (Len(B) = 1 => B[1].kind = "pps")
      /\ Len(C) \in {0, 1} /\ (Len(C) = 1 => C[1].kind = "other")
      /\ Len(D) \in {0, 1}
  BY SnapOnlyType
<1>2. ASSUME NEW kind
      PROVE  /\ Len(Snap!Only(au, kind)) = 1 =>
                  \E j \in 1..Len(au) : Snap!Only(au, kind)[1] = au[j]
             /\ Snap!Has(au, kind) => Len(Snap!Only(au, kind)) = 1
  <2>1. CASE Snap!Has(au, kind)
    <3>1. PICK j \in 1..Len(au) : Snap!Only(au, kind) = <<au[j]>>
      BY <2>1, SnapOnly
    <3> QED
      BY <3>1
  <2>2. CASE ~Snap!Has(au, kind)
    <3>1. Snap!Only(au, kind) = <<>>
      BY <2>2, SnapOnly
    <3> QED
      BY <2>2, <3>1
  <2> QED
    BY <2>1, <2>2
<1>3. /\ G \in Seq(NALs) /\ Len(G) = Len(A) + Len(B) + Len(C) + Len(D)
      /\ \A i \in 1..Len(G) :
           G[i] = IF i <= Len(A) THEN A[i]
                  ELSE IF i <= Len(A) + Len(B) THEN B[i - Len(A)]
                  ELSE IF i <= Len(A) + Len(B) + Len(C)
                         THEN C[i - (Len(A) + Len(B))]
                  ELSE D[i - (Len(A) + Len(B) + Len(C))]
  BY SnapSections
<1>4. /\ Len(A) = 1 => \E j \in 1..Len(au) : A[1] = au[j]
      /\ Len(B) = 1 => \E j \in 1..Len(au) : B[1] = au[j]
      /\ Len(C) = 1 => \E j \in 1..Len(au) : C[1] = au[j]
      /\ Len(D) = 1 => \E j \in 1..Len(au) : D[1] = au[j]
      /\ Snap!Has(au, "sps") => Len(A) = 1
      /\ Snap!Has(au, "pps") => Len(B) = 1
  BY <1>2
<1> HIDE DEF A, B, C, D
<1>5. ASSUME NEW i \in 1..Len(G)
      PROVE  \/ Len(A) = 1 /\ G[i] = A[1]
             \/ Len(B) = 1 /\ G[i] = B[1]
             \/ Len(C) = 1 /\ G[i] = C[1]
             \/ Len(D) = 1 /\ G[i] = D[1]
  <2> DEFINE a == Len(A)  b == Len(B)  c == Len(C)  d == Len(D)
  <2>1. a \in {0, 1} /\ b \in {0, 1} /\ c \in {0, 1} /\ d \in {0, 1}
        /\ i \in 1..(a + b + c + d)
    BY <1>1, <1>3
  <2>2. G[i] = IF i <= a THEN A[i] ELSE IF i <= a + b THEN B[i - a]
               ELSE IF i <= a + b + c THEN C[i - (a + b)]
               ELSE D[i - (a + b + c)]
    BY <1>3
  <2> HIDE DEF a, b, c, d
  <2>3. CASE i <= a
    <3>1. a = 1 /\ i = 1
      BY <2>1, <2>3
    <3>2. G[i] = A[1]
      BY <2>2, <2>3, <3>1
    <3> QED
      BY <3>1, <3>2 DEF a
  <2>4. CASE ~(i <= a) /\ i <= a + b
    <3>1. b = 1 /\ i - a = 1
      BY <2>1, <2>4
    <3> QED
      BY <2>2, <2>4, <3>1 DEF b
  <2>5. CASE ~(i <= a + b) /\ i <= a + b + c
    <3>1. c = 1 /\ i - (a + b) = 1 /\ ~(i <= a)
      BY <2>1, <2>5
    <3>2. G[i] = C[1]
      BY <2>2, <2>5, <3>1
    <3> QED
      BY <3>1, <3>2 DEF c
  <2>6. CASE ~(i <= a + b + c)
    <3>1. d = 1 /\ i - (a + b + c) = 1 /\ ~(i <= a) /\ ~(i <= a + b)
      BY <2>1, <2>6
    <3> QED
      BY <2>2, <2>6, <3>1 DEF d
  <2> QED
    BY <2>1, <2>3, <2>4, <2>5, <2>6
<1>6. ASSUME NEW i \in 1..Len(G) PROVE \E j \in 1..Len(au) : G[i] = au[j]
  BY <1>4, <1>5
<1>7. ASSUME NEW i \in 1..Len(G), G[i].kind = "idr",
             NEW kind \in {"sps", "pps"}, Snap!Has(au, kind)
      PROVE  \E k \in 1..(i - 1) : G[k].kind = kind
  <2>1. i > Len(A) + Len(B) + Len(C)
    <3>1. ~(i <= Len(A))
      BY <1>1, <1>3, <1>7
    <3>2. ~(i <= Len(A) + Len(B))
      BY <1>1, <1>3, <1>7, <3>1
    <3>3. ~(i <= Len(A) + Len(B) + Len(C))
      BY <1>1, <1>3, <1>7, <3>1, <3>2
    <3> QED
      BY <1>1, <3>3
  <2>2. CASE kind = "sps"
    <3>1. Len(A) = 1 /\ A[1].kind = "sps"
      BY <1>1, <1>4, <1>7, <2>2
    <3>2. 1 \in 1..(i - 1) /\ G[1] = A[1]
      BY <1>1, <1>3, <2>1, <3>1
    <3> QED
      BY <2>2, <3>1, <3>2
  <2>3. CASE kind = "pps"
    <3>1. Len(B) = 1 /\ B[1].kind = "pps"
      BY <1>1, <1>4, <1>7, <2>3
    <3>2. Len(A) + 1 \in 1..(i - 1) /\ G[Len(A) + 1] = B[1]
      BY <1>1, <1>3, <2>1, <3>1
    <3> QED
      BY <2>3, <3>1, <3>2
  <2> QED
    BY <2>2, <2>3
<1> QED
  BY <1>3, <1>6, <1>7

(* A request for a snapshot.                                               *)
LEMMA SnapRequest ==
  ASSUME SnapInv, given' = Snap!buildAnnexB(Snap!Latest),
         UNCHANGED <<units, latest, lastSPS, lastPPS>>
  PROVE  SnapInv'
<1>1. CASE latest # <<>>
  <2>1. /\ Snap!Latest \in Seq(NALs)
        /\ \A i \in 1..Len(Snap!Latest) : Snap!Latest[i].kind = "idr" =>
             /\ Snap!Latest[i].age \in 1..Len(units)
             /\ \A kind \in {"sps", "pps"}, age \in 1..Snap!Latest[i].age :
                  Snap!Fed(kind, age) =>
                    /\ Snap!Has(Snap!Latest, kind)
                    /\ \A k \in 1..Len(Snap!Latest) :
                         Snap!Latest[k].kind = kind => Snap!Latest[k].age >= age
    BY <1>1, SnapLatest
  <2>2. /\ given' \in Seq(NALs)
        /\ \A i \in 1..Len(given') :
             \E j \in 1..Len(Snap!Latest) : given'[i] = Snap!Latest[j]
        /\ \A i \in 1..Len(given'), kind \in {"sps", "pps"} :
             given'[i].kind = "idr" /\ Snap!Has(Snap!Latest, kind) =>
               \E k \in 1..(i - 1) : given'[k].kind = kind
    <3> DEFINE L == Snap!Latest
    <3>1. L \in Seq(NALs) /\ given' = Snap!buildAnnexB(L)
      BY <2>1
    <3> HIDE DEF L
    <3>2. /\ given' \in Seq(NALs)
          /\ \A i \in 1..Len(given') : \E j \in 1..Len(L) : given'[i] = L[j]
          /\ \A i \in 1..Len(given'), kind \in {"sps", "pps"} :
               given'[i].kind = "idr" /\ Snap!Has(L, kind) =>
                 \E k \in 1..(i - 1) : given'[k].kind = kind
      BY <3>1, SnapBuilds
    <3> QED
      BY <3>2 DEF L
  <2>3. ASSUME NEW i \in 1..Len(given'), given'[i].kind = "idr"
        PROVE  /\ given'[i].age \in 1..Len(units)
               /\ \A kind \in {"sps", "pps"}, age \in 1..given'[i].age :
                    Snap!Fed(kind, age) => \E k \in 1..(i - 1) :
                      given'[k].kind = kind /\ given'[k].age >= age
    <3>1. PICK j \in 1..Len(Snap!Latest) : given'[i] = Snap!Latest[j]
      BY <2>2
    <3>2. ASSUME NEW kind \in {"sps", "pps"}, NEW age \in 1..given'[i].age,
                 Snap!Fed(kind, age)
          PROVE  \E k \in 1..(i - 1) :
                   given'[k].kind = kind /\ given'[k].age >= age
      <4>1. /\ Snap!Has(Snap!Latest, kind)
            /\ \A k \in 1..Len(Snap!Latest) :
                 Snap!Latest[k].kind = kind => Snap!Latest[k].age >= age
        BY <2>1, <2>3, <3>1, <3>2
      <4>2. PICK k \in 1..(i - 1) : given'[k].kind = kind
        BY <2>2, <2>3, <4>1
      <4>3. k \in 1..Len(given')
        BY <2>2, LenProperties
      <4> QED
        BY <2>2, <4>1, <4>2, <4>3
    <3> QED
      BY <2>1, <2>3, <3>1, <3>2
  <2>4. \A kind, age : Snap!Fed(kind, age)' <=> Snap!Fed(kind, age)
    BY DEF Snap!Fed
  <2>5. GivenOK'
    BY <2>2, <2>3 DEF GivenOK
  <2>6. Decodable'
    BY <2>3, <2>4 DEF Decodable, Snap!Decodable
  <2> QED
    BY <2>4, <2>5, <2>6 DEF SnapInv, LatestOK, HeldOK
<1>2. CASE latest = <<>>
  <2>1. Snap!Latest = <<>>
    BY <1>2 DEF Snap!Latest, Snap!NoUnit
  <2>2. <<>> \in Seq(NALs) /\ Len(<<>>) = 0
    OBVIOUS
  <2>3. given' \in Seq(NALs) /\ \A i \in 1..Len(given') : FALSE
    <3> DEFINE L == Snap!Latest
    <3>0. Len(L) = 0
      BY <2>1, <2>2
    <3>1. L \in Seq(NALs) /\ given' = Snap!buildAnnexB(L)
      BY <2>1, <2>2
    <3> HIDE DEF L
    <3>2. /\ given' \in Seq(NALs)
          /\ \A i \in 1..Len(given') : \E j \in 1..Len(L) : given'[i] = L[j]
          /\ \A i \in 1..Len(given'), kind \in {"sps", "pps"} :
               given'[i].kind = "idr" /\ Snap!Has(L, kind) =>
                 \E k \in 1..(i - 1) : given'[k].kind = kind
      BY <3>1, SnapBuilds
    <3> QED
      BY <3>0, <3>2
  <2>4. GivenOK' /\ Decodable'
    BY <2>3 DEF GivenOK, Decodable, Snap!Decodable
  <2> QED
    BY <2>4 DEF SnapInv, LatestOK, HeldOK, Snap!Fed
<1> QED
  BY <1>1, <1>2

LEMMA SnapStarts == ASSUME Snap!Init PROVE SnapInv
<1>1. /\ units = <<>> /\ Len(units) = 0 /\ units \in Seq(Snap!Units)
      /\ given = <<>> /\ Len(given) = 0 /\ given \in Seq(NALs)
      /\ latest = <<>> /\ lastSPS = <<>> /\ lastPPS = <<>>
  BY DEF Snap!Init, Snap!NoUnit
<1>2. LatestOK /\ GivenOK /\ Decodable
  BY <1>1 DEF LatestOK, GivenOK, Decodable, Snap!Decodable
<1>3. HeldOK("sps", lastSPS) /\ HeldOK("pps", lastPPS)
  BY <1>1 DEF HeldOK
<1> QED
  BY <1>1, <1>2, <1>3 DEF SnapInv

(* Feed: what was given is as decodable as before, and what is held is     *)
(* that of the unit fed, or as it was.                                     *)
LEMMA SnapFeed ==
  ASSUME SnapInv, NEW kinds \in Snap!Units, Snap!Feed(kinds)
  PROVE  SnapInv'
<1> DEFINE au == [i \in 1..Len(kinds) |->
                    [kind |-> kinds[i], age |-> Len(units) + 1]]
<1>1. /\ units' = Append(units, kinds) /\ given' = given
      /\ lastSPS' = Snap!LastOf(au, "sps", lastSPS)
      /\ lastPPS' = Snap!LastOf(au, "pps", lastPPS)
      /\ latest' = Snap!KeyFrame(au)
  BY DEF Snap!Feed
<1>2. units \in Seq(Snap!Units) /\ Len(units) \in Nat
  BY LenProperties DEF SnapInv
<1>3. /\ units' \in Seq(Snap!Units) /\ Len(units') = Len(units) + 1
      /\ units'[Len(units) + 1] = kinds
      /\ \A i \in 1..Len(units) : units'[i] = units[i]
  BY <1>1, <1>2, AppendProperties
<1>4. /\ au \in Seq(NALs) /\ Len(au) = Len(kinds) /\ Len(au) > 0
      /\ \A i \in 1..Len(au) :
           au[i].kind = kinds[i] /\ au[i].age = Len(units) + 1
  <2>1. Len(units) + 1 \in Nat
    BY <1>2
  <2>2. au = [i \in 1..Len(kinds) |->
                [kind |-> kinds[i], age |-> Len(units) + 1]]
    OBVIOUS
  <2> HIDE DEF au
  <2> QED
    BY <2>1, <2>2, SnapFed
<1>5. \A kind : \A age \in 1..Len(units) :
        Snap!Fed(kind, age)' <=> Snap!Fed(kind, age)
  BY <1>3 DEF Snap!Fed
<1> HIDE DEF au
<1>6. LatestOK'
  <2>1. CASE latest' = au
    <3>1. Len(units) + 1 \in 1..Len(units')
      BY <1>2, <1>3
    <3>2. /\ latest' \in Seq(NALs) /\ Len(latest') > 0
          /\ \A i \in 1..Len(latest') : latest'[i].age = Len(units) + 1
      BY <1>4, <2>1
    <3> QED
      BY <3>1, <3>2, Zenon DEF LatestOK
  <2>2. CASE latest' = latest
    <3>1. \A age \in 1..Len(units) : age \in 1..Len(units')
      BY <1>2, <1>3
    <3> QED
      BY <2>2, <3>1 DEF SnapInv, LatestOK
  <2> QED
    BY <1>1, <2>1, <2>2 DEF Snap!KeyFrame
<1>7. GivenOK'
  BY <1>1, <1>2, <1>3 DEF SnapInv, GivenOK
<1>8. Decodable'
  <2>1. ASSUME NEW i \in 1..Len(given), given[i].kind = "idr",
               NEW kind \in {"sps", "pps"}, NEW age \in 1..given[i].age,
               Snap!Fed(kind, age)'
        PROVE  \E k \in 1..(i - 1) : given[k].kind = kind /\ given[k].age >= age
    <3>1. given[i].age \in 1..Len(units)
      BY <2>1 DEF SnapInv, GivenOK
    <3>2. age \in 1..Len(units)
      BY <1>2, <2>1, <3>1
    <3>3. Snap!Fed(kind, age)
      BY <1>5, <2>1, <3>2
    <3> QED
      BY <2>1, <3>3 DEF SnapInv, Decodable, Snap!Decodable
  <2> QED
    BY <1>1, <2>1 DEF Decodable, Snap!Decodable
<1>9. HeldOK("sps", lastSPS) /\ HeldOK("pps", lastPPS)
  BY DEF SnapInv
<1>10. HeldOK("sps", lastSPS)'
  <2>1. /\ units' = Append(units, kinds)
        /\ lastSPS' = Snap!LastOf(au, "sps", lastSPS)
    BY <1>1
  <2>2. /\ lastSPS' = <<>> \/ \E n \in NALs : lastSPS' = <<n>> /\ n.kind = "sps"
        /\ \A age \in 1..Len(units') :
             (\E k \in 1..Len(units'[age]) : units'[age][k] = "sps") =>
               lastSPS' # <<>> /\ lastSPS'[1].age >= age
    BY <1>4, <1>9, <2>1, SnapFeedHolds
  <2> QED
    BY <2>2 DEF HeldOK, Snap!Fed
<1>11. HeldOK("pps", lastPPS)'
  <2>1. /\ units' = Append(units, kinds)
        /\ lastPPS' = Snap!LastOf(au, "pps", lastPPS)
    BY <1>1
  <2>2. /\ lastPPS' = <<>> \/ \E n \in NALs : lastPPS' = <<n>> /\ n.kind = "pps"
        /\ \A age \in 1..Len(units') :
             (\E k \in 1..Len(units'[age]) : units'[age][k] = "pps") =>
               lastPPS' # <<>> /\ lastPPS'[1].age >= age
    BY <1>4, <1>9, <2>1, SnapFeedHolds
  <2> QED
    BY <2>2 DEF HeldOK, Snap!Fed
<1> QED
  BY <1>3, <1>6, <1>7, <1>8, <1>10, <1>11 DEF SnapInv

(* What the handler is at says nothing of the buffer.                      *)
LEMMA SnapSame ==
  ASSUME SnapInv, UNCHANGED <<units, latest, lastSPS, lastPPS>>,
         GivenOK', Decodable'
  PROVE  SnapInv'
<1>1. LatestOK'
  BY DEF SnapInv, LatestOK
<1>2. \A kind, age : Snap!Fed(kind, age)' <=> Snap!Fed(kind, age)
  BY DEF Snap!Fed
<1>3. HeldOK("sps", lastSPS)' /\ HeldOK("pps", lastPPS)'
  BY <1>2 DEF SnapInv, HeldOK
<1> QED
  BY <1>1, <1>3 DEF SnapInv

LEMMA SnapGivenSame ==
  ASSUME SnapInv, UNCHANGED <<units, given>> PROVE GivenOK' /\ Decodable'
<1>1. GivenOK'
  BY DEF SnapInv, GivenOK
<1>2. \A kind, age : Snap!Fed(kind, age)' <=> Snap!Fed(kind, age)
  BY DEF Snap!Fed
<1>3. Decodable'
  BY <1>2 DEF SnapInv, Decodable, Snap!Decodable
<1> QED
  BY <1>1, <1>3

LEMMA SnapSteps == ASSUME SnapInv, Snap!Next PROVE SnapInv'
<1>1. CASE Snap!Request \/ Snap!WebRequest
  BY <1>1, SnapRequest DEF Snap!Request, Snap!WebRequest
<1>2. CASE Snap!Converted
  BY <1>2, SnapSame, SnapGivenSame DEF Snap!Converted
<1>3. CASE Snap!Answered \/ Snap!WebAnswered
  <2>1. given' = <<>> /\ UNCHANGED <<units, latest, lastSPS, lastPPS>>
    BY <1>3 DEF Snap!Answered, Snap!WebAnswered, Snap!NoUnit
  <2>2. Len(given') = 0 /\ given' \in Seq(NALs)
    BY <2>1
  <2>3. GivenOK' /\ Decodable'
    BY <2>2 DEF GivenOK, Decodable, Snap!Decodable
  <2> QED
    BY <2>1, <2>3, SnapSame
<1> QED
  BY <1>1, <1>2, <1>3, SnapFeed DEF Snap!Next

(* The invariant of the snapshots, whatever part moves.                    *)
LEMMA SnapInvariant == ServicesSpec => []SnapInv
<1>1. ServicesInit => SnapInv
  BY SnapStarts DEF ServicesInit
<1>2. SnapInv /\ [ServicesNext]_all => SnapInv'
  <2>1. ASSUME SnapInv, UNCHANGED SnapVars PROVE SnapInv'
    BY <2>1, SnapSame, SnapGivenSame DEF SnapVars
  <2> QED
    BY <2>1, SnapSteps DEF ServicesNext, all
<1> QED
  BY <1>1, <1>2, PTL DEF ServicesSpec

(* Whatever units arrive while handlers read the buffer, the key frame     *)
(* ffmpeg gets comes after both parameter sets, once they were fed, and    *)
(* after none older than those in force (snapshot.go).                     *)
THEOREM SnapshotsDecodable == ServicesSpec => []Decodable
<1>1. SnapInv => Decodable
  BY DEF SnapInv
<1> QED
  BY <1>1, SnapInvariant, PTL

----------------------------------------------------------------------------
(* H264Parser.  FindStartCodes has found the cores it has passed, in       *)
(* order; behind the first one every byte it has passed has a core that is *)
(* nearest, and the unit behind that core is the one the byte is in.       *)
Cores      == Parser!Cores
CodeAt(i)  == Parser!CodeAt(i)
Slice(k)   == Parser!Slice(k)
Units      == [from : Nat, to : Nat]

ParserTypes ==
  /\ data \in Seq(Bytes) /\ scan \in Nat \ {0} /\ split \in Nat \ {0}
  /\ positions \in Seq(Nat) /\ nalus \in Seq(Units)

FoundOK ==
  /\ \A p \in 1..Len(positions) :
       \E i \in Cores : i + 3 <= scan /\ positions[p] = CodeAt(i)
  /\ \A i \in Cores : i < scan =>
       \E p \in 1..Len(positions) : positions[p] = CodeAt(i)
  /\ \A p, q \in 1..Len(positions) : p < q => positions[p] < positions[q]

HasNearest(b) ==
  \/ \A i \in Cores : b < i
  \/ \E i \in Cores : i <= b /\ \A j \in Cores : j <= b => j <= i

NearestOK == \A b \in 1..Len(data) : b < scan => HasNearest(b)

SplitOK ==
  /\ \A k \in 1..Len(nalus) : \E q \in 1..Len(positions) :
       q < split /\ nalus[k] = Slice(q)
  /\ \A q \in 1..Len(positions) : q < split /\ Slice(q).from <= Slice(q).to =>
       \E k \in 1..Len(nalus) : nalus[k] = Slice(q)
  /\ \A k, l \in 1..Len(nalus) : k < l => nalus[k].to < nalus[l].from

PhaseOK ==
  /\ parse \in {"none", "find", "split", "done"}
  /\ parse = "none" => scan = 1
  /\ parse \in {"none", "find"} => nalus = <<>> /\ split = 1
  /\ parse \in {"split", "done"} => scan > Len(data) - 2
  /\ parse = "done" => \A q \in 1..Len(positions) :
       q >= split => Slice(q).from > Len(data)

ParserInv == ParserTypes /\ FoundOK /\ NearestOK /\ SplitOK /\ PhaseOK

(* A start code is its core or begins at the zero before it, and ends with *)
(* it; two of them do not overlap.                                         *)
LEMMA CodesApart ==
  ASSUME data \in Seq(Bytes)
  PROVE  /\ \A i \in Cores : /\ i \in 1..(Len(data) - 2)
                             /\ CodeAt(i) \in {i - 1, i} /\ CodeAt(i) > 0
                             /\ CodeAt(i) = i - 1 <=> i > 1 /\ data[i - 1] = 0
                             /\ Parser!NaluStart(CodeAt(i)) = i + 3
         /\ \A i, j \in Cores : i < j => i + 3 <= CodeAt(j)
<1>1. Len(data) \in Nat
  BY LenProperties
<1>2. ASSUME NEW i \in Cores
      PROVE  /\ i \in 1..(Len(data) - 2)
             /\ data[i] = 0 /\ data[i + 1] = 0 /\ data[i + 2] = 1
  BY DEF Cores, Parser!Cores, Parser!Core
<1>3. ASSUME NEW i \in Cores
      PROVE  /\ CodeAt(i) \in {i - 1, i} /\ CodeAt(i) > 0
             /\ CodeAt(i) = i - 1 <=> i > 1 /\ data[i - 1] = 0
             /\ Parser!NaluStart(CodeAt(i)) = i + 3
  <2>1. CASE i > 1 /\ data[i - 1] = 0
    <3>1. CodeAt(i) = i - 1
      BY <2>1 DEF CodeAt, Parser!CodeAt
    <3>2. /\ (i - 1) + 3 <= Len(data) /\ (i - 1) + 1 = i
          /\ (i - 1) + 2 = i + 1 /\ (i - 1) + 3 = i + 2 /\ (i - 1) + 4 = i + 3
      BY <1>1, <1>2
    <3>3. Parser!NaluStart(i - 1) = i + 3
      BY <1>2, <2>1, <3>2 DEF Parser!NaluStart
    <3> QED
      BY <1>1, <1>2, <2>1, <3>1, <3>3
  <2>2. CASE ~(i > 1 /\ data[i - 1] = 0)
    <3>1. CodeAt(i) = i
      BY <2>2 DEF CodeAt, Parser!CodeAt
    <3>2. Parser!NaluStart(i) = i + 3
      BY <1>2 DEF Parser!NaluStart
    <3> QED
      BY <1>1, <1>2, <2>2, <3>1, <3>2
  <2> QED
    BY <2>1, <2>2
<1>4. ASSUME NEW i \in Cores, NEW j \in Cores, i < j PROVE i + 3 <= CodeAt(j)
  <2>1. i \in Int /\ j \in Int /\ j # i + 1 /\ j # i + 2
    BY <1>1, <1>2, <1>4
  <2>2. CASE j = i + 3
    <3>1. j - 1 = i + 2 /\ data[j - 1] = 1
      BY <1>2, <2>1, <2>2
    <3> QED
      BY <1>3, <2>1, <2>2, <3>1
  <2> QED
    BY <1>3, <1>4, <2>1, <2>2
<1> QED
  BY <1>2, <1>3, <1>4

LEMMA ParserStarts == ASSUME Parser!Init PROVE ParserInv
<1>1. /\ data = <<>> /\ positions = <<>> /\ nalus = <<>> /\ scan = 1
      /\ split = 1 /\ parse = "none"
  BY DEF Parser!Init
<1>2. ParserTypes
  BY <1>1 DEF ParserTypes
<1>3. FoundOK
  <2>1. \A i \in Cores : ~(i < scan)
    BY <1>1 DEF Cores, Parser!Cores
  <2> QED
    BY <1>1, <2>1 DEF FoundOK
<1> QED
  BY <1>1, <1>2, <1>3 DEF ParserInv, NearestOK, SplitOK, PhaseOK

(* While the camera's bytes arrive nothing has been looked at.             *)
LEMMA ParserReceives == ASSUME ParserInv, Parser!Receive PROVE ParserInv'
<1>1. /\ data' \in Seq(Bytes) /\ scan = 1 /\ nalus = <<>> /\ split = 1
      /\ parse = "none" /\ UNCHANGED <<parse, scan, positions, split, nalus>>
  BY DEF ParserInv, ParserTypes, PhaseOK, Parser!Receive
<1>2. positions = <<>>
  <2>1. \A i \in Cores : ~(i + 3 <= scan)
    BY <1>1, LenProperties DEF ParserInv, ParserTypes, Cores, Parser!Cores
  <2>2. \A p \in 1..Len(positions) : FALSE
    BY <2>1 DEF ParserInv, FoundOK
  <2>3. Len(positions) = 0
    BY <2>2, LenProperties DEF ParserInv, ParserTypes
  <2> QED
    BY <2>3, EmptySeq DEF ParserInv, ParserTypes
<1>3. \A i \in Cores' : ~(i < scan)
  BY <1>1, LenProperties DEF Cores, Parser!Cores
<1>4. ParserTypes'
  BY <1>1 DEF ParserInv, ParserTypes
<1>5. FoundOK'
  BY <1>1, <1>2, <1>3 DEF FoundOK
<1>6. NearestOK'
  BY <1>1, LenProperties DEF NearestOK
<1>7. SplitOK'
  BY <1>1, <1>2 DEF SplitOK
<1>8. PhaseOK'
  BY <1>1 DEF PhaseOK
<1> QED
  BY <1>4, <1>5, <1>6, <1>7, <1>8 DEF ParserInv
(* What the loop found stays where it is while it goes on.                 *)
LEMMA DataSame ==
  ASSUME UNCHANGED data
  PROVE  /\ Cores' = Cores /\ \A i : CodeAt(i)' = CodeAt(i)
         /\ \A b : HasNearest(b)' <=> HasNearest(b)
         /\ UNCHANGED positions => \A k : Slice(k)' = Slice(k)
<1>1. Cores' = Cores
  BY DEF Cores, Parser!Cores, Parser!Core
<1>2. \A i : CodeAt(i)' = CodeAt(i)
  BY DEF CodeAt, Parser!CodeAt
<1>3. \A b : HasNearest(b)' <=> HasNearest(b)
  BY <1>1 DEF HasNearest
<1>4. UNCHANGED positions => \A k : Slice(k)' = Slice(k)
  BY DEF Slice, Parser!Slice, Parser!NaluStart
<1> QED
  BY <1>1, <1>2, <1>3, <1>4

(* An iteration that finds a core: no other begins before its end.         *)
LEMMA FindsCore ==
  ASSUME ParserInv, Parser!FindStep, Parser!Core(scan)
  PROVE  FoundOK' /\ NearestOK'
<1>1. /\ data \in Seq(Bytes) /\ Len(data) \in Nat /\ scan \in Nat \ {0}
      /\ positions \in Seq(Nat) /\ Len(positions) \in Nat
  BY LenProperties DEF ParserInv, ParserTypes
<1>2. /\ scan <= Len(data) - 2 /\ scan' = scan + 3
      /\ positions' = Append(positions, CodeAt(scan)) /\ UNCHANGED data
  BY DEF Parser!FindStep, CodeAt
<1>3. scan \in Cores
  BY <1>1, <1>2 DEF Cores, Parser!Cores
<1>4. /\ \A i \in Cores : i \in Nat
      /\ \A i, j \in Cores : i < j => i + 3 <= CodeAt(j) /\ i + 3 <= j
      /\ \A i \in Cores : CodeAt(i) \in Nat /\ CodeAt(i) <= i
  <2>1. \A i \in Cores : /\ i \in 1..(Len(data) - 2)
                         /\ CodeAt(i) \in {i - 1, i} /\ CodeAt(i) > 0
    BY <1>1, CodesApart
  <2>2. \A i \in Cores : i \in Nat /\ CodeAt(i) \in Nat /\ CodeAt(i) <= i
    BY <1>1, <2>1
  <2>3. \A i, j \in Cores : i < j => i + 3 <= CodeAt(j)
    BY <1>1, CodesApart
  <2> QED
    BY <2>2, <2>3
<1>5. /\ Len(positions') = Len(positions) + 1
      /\ \A p \in 1..Len(positions) : positions'[p] = positions[p]
      /\ positions'[Len(positions) + 1] = CodeAt(scan)
  BY <1>1, <1>2, <1>3, <1>4, AppendProperties
<1>6. /\ \A p \in 1..Len(positions) :
           \E i \in Cores : i + 3 <= scan /\ positions[p] = CodeAt(i)
      /\ \A i \in Cores : i < scan =>
           \E p \in 1..Len(positions) : positions[p] = CodeAt(i)
      /\ \A p, q \in 1..Len(positions) : p < q => positions[p] < positions[q]
  BY DEF ParserInv, FoundOK
<1>7. ASSUME NEW p \in 1..Len(positions')
      PROVE  \E i \in Cores : i + 3 <= scan' /\ positions'[p] = CodeAt(i)
  <2>1. CASE p = Len(positions) + 1
    BY <1>2, <1>3, <1>4, <1>5, <2>1
  <2>2. CASE p \in 1..Len(positions)
    BY <1>1, <1>2, <1>4, <1>5, <1>6, <2>2
  <2> QED
    BY <1>1, <1>5, <2>1, <2>2
<1>8. ASSUME NEW i \in Cores, i < scan'
      PROVE  \E p \in 1..Len(positions') : positions'[p] = CodeAt(i)
  <2>1. i <= scan
    BY <1>1, <1>2, <1>3, <1>4, <1>8
  <2>2. CASE i = scan
    BY <1>1, <1>5, <2>2
  <2>3. CASE i < scan
    <3>1. PICK p \in 1..Len(positions) : positions[p] = CodeAt(i)
      BY <1>6, <2>3
    <3> QED
      BY <1>1, <1>5, <3>1
  <2> QED
    BY <1>1, <1>4, <2>1, <2>2, <2>3
<1>9. ASSUME NEW p \in 1..Len(positions'), NEW q \in 1..Len(positions'), p < q
      PROVE  positions'[p] < positions'[q]
  <2>1. p \in 1..Len(positions)
    BY <1>1, <1>5, <1>9
  <2>2. CASE q \in 1..Len(positions)
    BY <1>5, <1>6, <1>9, <2>1, <2>2
  <2>3. CASE q = Len(positions) + 1
    <3>1. PICK i \in Cores : i + 3 <= scan /\ positions[p] = CodeAt(i)
      BY <1>6, <2>1
    <3>2. CodeAt(i) < CodeAt(scan)
      BY <1>1, <1>3, <1>4, <3>1
    <3> QED
      BY <1>5, <2>1, <2>3, <3>1, <3>2
  <2> QED
    BY <1>1, <1>5, <2>2, <2>3
<1>10. ASSUME NEW b \in 1..Len(data), b < scan' PROVE HasNearest(b)
  <2>1. CASE b < scan
    BY <2>1 DEF ParserInv, NearestOK
  <2>2. CASE b >= scan
    <3>1. \A j \in Cores : j <= b => j <= scan
      BY <1>1, <1>2, <1>3, <1>4, <1>10
    <3> QED
      BY <1>1, <1>3, <2>2, <3>1 DEF HasNearest
  <2> QED
    BY <1>1, <2>1, <2>2
<1>11. FoundOK'
  BY <1>2, <1>7, <1>8, <1>9, DataSame DEF FoundOK
<1>12. NearestOK'
  BY <1>2, <1>10, DataSame DEF NearestOK
<1> QED
  BY <1>11, <1>12

(* An iteration that finds none: the nearest core is that of the byte      *)
(* before.                                                                 *)
LEMMA FindsNone ==
  ASSUME ParserInv, Parser!FindStep, ~Parser!Core(scan)
  PROVE  FoundOK' /\ NearestOK'
<1>1. /\ data \in Seq(Bytes) /\ Len(data) \in Nat /\ scan \in Nat \ {0}
  BY LenProperties DEF ParserInv, ParserTypes
<1>2. scan' = scan + 1 /\ UNCHANGED <<data, positions>>
  BY DEF Parser!FindStep
<1>3. scan \notin Cores /\ \A i \in Cores : i \in Nat \ {0}
  BY <1>1 DEF Cores, Parser!Cores
<1>4. FoundOK'
  <2>1. \A i \in Cores : i < scan' => i < scan
    BY <1>1, <1>2, <1>3
  <2>2. \A i \in Cores : i + 3 <= scan => i + 3 <= scan'
    BY <1>1, <1>2, <1>3
  <2> QED
    BY <1>2, <2>1, <2>2, DataSame DEF ParserInv, FoundOK
<1>5. ASSUME NEW b \in 1..Len(data), b < scan' PROVE HasNearest(b)
  <2>1. CASE b < scan
    BY <2>1 DEF ParserInv, NearestOK
  <2>2. CASE b = scan /\ scan > 1
    <3>1. b - 1 \in 1..Len(data) /\ b - 1 < scan
      BY <1>1, <2>2
    <3>2. HasNearest(b - 1)
      BY <3>1 DEF ParserInv, NearestOK
    <3>3. \A i \in Cores : (i <= b <=> i <= b - 1) /\ (b < i <=> b - 1 < i)
      BY <1>1, <1>3, <2>2
    <3> QED
      BY <3>2, <3>3 DEF HasNearest
  <2>3. CASE b = scan /\ scan = 1
    <3>1. \A i \in Cores : b < i
      BY <1>3, <2>3
    <3> QED
      BY <3>1 DEF HasNearest
  <2> QED
    BY <1>1, <1>2, <1>5, <2>1, <2>2, <2>3
<1>6. NearestOK'
  BY <1>2, <1>5, DataSame DEF NearestOK
<1> QED
  BY <1>4, <1>6

LEMMA ParserFinds ==
  ASSUME ParserInv, Parser!FindStep PROVE ParserInv'
<1>1. /\ data \in Seq(Bytes) /\ scan \in Nat \ {0} /\ positions \in Seq(Nat)
      /\ split = 1 /\ nalus = <<>> /\ parse = "find"
      /\ UNCHANGED <<data, parse, split, nalus>>
  BY DEF ParserInv, ParserTypes, PhaseOK, Parser!FindStep
<1>2. ParserTypes'
  <2>1. CASE Parser!Core(scan)
    <3>1. scan \in Cores
      BY <1>1, <2>1, LenProperties DEF Parser!FindStep, Cores, Parser!Cores
    <3>2. CodeAt(scan) \in Nat
      BY <1>1, <3>1, CodesApart
    <3>3. positions' = Append(positions, CodeAt(scan)) /\ scan' = scan + 3
      BY <2>1 DEF Parser!FindStep, CodeAt
    <3>4. positions' \in Seq(Nat)
      BY <1>1, <3>2, <3>3, AppendProperties
    <3> QED
      BY <1>1, <3>3, <3>4 DEF ParserInv, ParserTypes
  <2>2. CASE ~Parser!Core(scan)
    BY <1>1, <2>2 DEF ParserInv, ParserTypes, Parser!FindStep
  <2> QED
    BY <2>1, <2>2
<1>3. FoundOK' /\ NearestOK'
  BY FindsCore, FindsNone
<1>4. SplitOK'
  <2>1. \A q \in Nat \ {0} : ~(q < split')
    BY <1>1
  <2>2. Len(positions') \in Nat
    BY <1>2, LenProperties DEF ParserTypes
  <2> QED
    BY <1>1, <2>1, <2>2 DEF SplitOK
<1>5. PhaseOK'
  BY <1>1 DEF PhaseOK
<1> QED
  BY <1>2, <1>3, <1>4, <1>5 DEF ParserInv
(* The unit behind a start code begins with the byte after its core and    *)
(* ends before the next start code: nothing is sliced from behind its end. *)
LEMMA SliceOfCore ==
  ASSUME ParserTypes, FoundOK, NEW q \in 1..Len(positions)
  PROVE  /\ Slice(q) \in Units /\ positions[q] < Slice(q).from
         /\ \E i \in Cores : positions[q] = CodeAt(i) /\ Slice(q).from = i + 3
         /\ q < Len(positions) =>
              /\ Slice(q).to = positions[q + 1] - 1
              /\ Slice(q).from <= Slice(q).to + 1
         /\ q = Len(positions) => Slice(q).to = Len(data)
<1>1. /\ data \in Seq(Bytes) /\ Len(data) \in Nat
      /\ positions \in Seq(Nat) /\ Len(positions) \in Nat
  BY LenProperties DEF ParserTypes
<1>2. PICK i \in Cores : positions[q] = CodeAt(i)
  BY DEF FoundOK
<1>3. /\ i \in 1..(Len(data) - 2) /\ CodeAt(i) \in {i - 1, i}
      /\ Parser!NaluStart(CodeAt(i)) = i + 3
  BY <1>1, CodesApart
<1>4. Slice(q).from = i + 3
  BY <1>2, <1>3 DEF Slice, Parser!Slice
<1>5. CASE q < Len(positions)
  <2>1. q + 1 \in 1..Len(positions) /\ q < q + 1
    BY <1>1, <1>5
  <2>2. PICK j \in Cores : positions[q + 1] = CodeAt(j)
    BY <2>1 DEF FoundOK
  <2>3. CodeAt(i) < CodeAt(j)
    BY <1>2, <2>1, <2>2 DEF FoundOK
  <2>4. j \in 1..(Len(data) - 2) /\ CodeAt(j) \in {j - 1, j} /\ CodeAt(j) > 0
    BY <1>1, CodesApart
  <2>5. ~(j < i)
    <3>1. j < i => j + 3 <= CodeAt(i)
      BY <1>1, CodesApart
    <3> QED
      BY <1>1, <1>3, <2>3, <2>4, <3>1
  <2>6. i < j
    BY <1>1, <1>3, <2>3, <2>4, <2>5
  <2>7. i + 3 <= CodeAt(j)
    BY <1>1, <2>6, CodesApart
  <2>8. Slice(q).to = CodeAt(j) - 1
    BY <1>5, <2>2 DEF Slice, Parser!Slice
  <2>9. Slice(q) = [from |-> Slice(q).from, to |-> Slice(q).to]
    BY DEF Slice, Parser!Slice
  <2> QED
    BY <1>1, <1>2, <1>3, <1>4, <1>5, <2>2, <2>4, <2>7, <2>8, <2>9 DEF Units
<1>6. CASE q = Len(positions)
  <2>1. Slice(q).to = Len(data)
    BY <1>1, <1>6 DEF Slice, Parser!Slice
  <2>2. Slice(q) = [from |-> Slice(q).from, to |-> Slice(q).to]
    BY DEF Slice, Parser!Slice
  <2> QED
    BY <1>1, <1>2, <1>3, <1>4, <1>6, <2>1, <2>2 DEF Units
<1> QED
  BY <1>1, <1>5, <1>6

(* An iteration of Parse: the unit comes after those before it.            *)
LEMMA SplitsOne ==
  ASSUME ParserInv, Parser!SplitStep, Slice(split).from <= Len(data)
  PROVE  ParserInv'
<1>1. /\ data \in Seq(Bytes) /\ Len(data) \in Nat
      /\ positions \in Seq(Nat) /\ Len(positions) \in Nat
      /\ nalus \in Seq(Units) /\ Len(nalus) \in Nat
      /\ split \in 1..Len(positions) /\ parse = "split"
  BY LenProperties DEF ParserInv, ParserTypes, Parser!SplitStep
<1> DEFINE unit == Slice(split)
<1>2. /\ unit \in Units /\ positions[split] < unit.from
      /\ split < Len(positions) => unit.from <= unit.to + 1
      /\ split = Len(positions) => unit.to = Len(data)
  BY <1>1, SliceOfCore DEF ParserInv
<1>3. /\ split' = split + 1
      /\ parse' = IF unit.from > unit.to + 1 THEN "panic" ELSE parse
      /\ nalus' = IF unit.from > unit.to THEN nalus ELSE Append(nalus, unit)
      /\ UNCHANGED <<data, scan, positions>>
  BY <1>1, <1>2 DEF Parser!SplitStep, Slice, Units
<1>4. parse' = parse
  BY <1>1, <1>2, <1>3 DEF Units
<1>5. ASSUME NEW k \in 1..Len(nalus) PROVE nalus[k].to < unit.from
  <2>1. PICK q \in 1..Len(positions) : q < split /\ nalus[k] = Slice(q)
    BY DEF ParserInv, SplitOK
  <2>2. q < Len(positions) /\ q + 1 \in 1..Len(positions)
    BY <1>1, <2>1
  <2>3. Slice(q).to = positions[q + 1] - 1
    BY <2>2, SliceOfCore DEF ParserInv
  <2>4. q + 1 = split \/ q + 1 < split
    BY <1>1, <2>1
  <2>5. q + 1 < split => positions[q + 1] < positions[split]
    BY <1>1, <2>2 DEF ParserInv, FoundOK
  <2>6. positions[q + 1] \in Nat /\ positions[split] \in Nat
    BY <1>1, <2>2, ElementOfSeq
  <2> QED
    BY <1>2, <2>1, <2>3, <2>4, <2>5, <2>6 DEF Units
<1>6. ParserTypes'
  BY <1>1, <1>2, <1>3, AppendProperties DEF ParserInv, ParserTypes
<1>7. FoundOK' /\ NearestOK'
  BY <1>3, DataSame DEF ParserInv, FoundOK, NearestOK
<1>8. \A q : Slice(q)' = Slice(q)
  BY <1>3, DataSame
<1>9. SplitOK'
  <2>1. CASE unit.from > unit.to
    <3>1. \A q \in 1..Len(positions) :
            q < split' /\ Slice(q).from <= Slice(q).to => q < split
      BY <1>1, <1>2, <1>3, <2>1 DEF Units
    <3>2. \A q \in 1..Len(positions) : q < split => q < split'
      BY <1>1, <1>3
    <3> QED
      BY <1>3, <1>8, <2>1, <3>1, <3>2 DEF ParserInv, SplitOK
  <2>2. CASE ~(unit.from > unit.to)
    <3>1. /\ Len(nalus') = Len(nalus) + 1
          /\ \A k \in 1..Len(nalus) : nalus'[k] = nalus[k]
          /\ nalus'[Len(nalus) + 1] = unit
      BY <1>1, <1>2, <1>3, <2>2, AppendProperties
    <3>2. ASSUME NEW k \in 1..Len(nalus')
          PROVE  \E q \in 1..Len(positions) :
                   q < split' /\ nalus'[k] = Slice(q)
      <4>1. CASE k \in 1..Len(nalus)
        <5>1. PICK q \in 1..Len(positions) : q < split /\ nalus[k] = Slice(q)
          BY <4>1 DEF ParserInv, SplitOK
        <5> QED
          BY <1>1, <1>3, <3>1, <4>1, <5>1
      <4>2. CASE k = Len(nalus) + 1
        BY <1>1, <1>3, <3>1, <4>2
      <4> QED
        BY <1>1, <3>1, <4>1, <4>2
    <3>3. ASSUME NEW q \in 1..Len(positions), q < split',
                 Slice(q).from <= Slice(q).to
          PROVE  \E k \in 1..Len(nalus') : nalus'[k] = Slice(q)
      <4>1. CASE q < split
        <5>1. PICK k \in 1..Len(nalus) : nalus[k] = Slice(q)
          BY <3>3, <4>1 DEF ParserInv, SplitOK
        <5> QED
          BY <1>1, <3>1, <5>1
      <4>2. CASE q = split
        BY <1>1, <3>1, <4>2
      <4> QED
        BY <1>1, <1>3, <3>3, <4>1, <4>2
    <3>4. ASSUME NEW k \in 1..Len(nalus'), NEW l \in 1..Len(nalus'), k < l
          PROVE  nalus'[k].to < nalus'[l].from
      <4>1. k \in 1..Len(nalus)
        BY <1>1, <3>1, <3>4
      <4>2. CASE l \in 1..Len(nalus)
        BY <3>1, <3>4, <4>1, <4>2 DEF ParserInv, SplitOK
      <4>3. CASE l = Len(nalus) + 1
        BY <1>5, <3>1, <4>1, <4>3
      <4>4. l \in 1..Len(nalus) \/ l = Len(nalus) + 1
        BY <1>1, <3>1
      <4> QED
        BY <4>2, <4>3, <4>4
    <3> QED
      BY <1>3, <1>8, <3>2, <3>3, <3>4 DEF SplitOK
  <2> QED
    BY <2>1, <2>2
<1>10. PhaseOK'
  BY <1>1, <1>3, <1>4 DEF ParserInv, PhaseOK
<1> QED
  BY <1>6, <1>7, <1>9, <1>10 DEF ParserInv

(* A start code at the end of the data is the last one.                    *)
LEMMA SplitsLast ==
  ASSUME ParserInv, Parser!SplitStep, ~(Slice(split).from <= Len(data))
  PROVE  ParserInv'
<1>1. /\ data \in Seq(Bytes) /\ Len(data) \in Nat
      /\ positions \in Seq(Nat) /\ Len(positions) \in Nat
      /\ split \in 1..Len(positions) /\ parse = "split"
  BY LenProperties DEF ParserInv, ParserTypes, Parser!SplitStep
<1>2. Slice(split).from > Len(data)
  BY <1>1, SliceOfCore DEF ParserInv, Units
<1>3. /\ parse' = "done"
      /\ UNCHANGED <<data, scan, positions, split, nalus>>
  BY <1>2 DEF Parser!SplitStep, Slice
<1>4. split = Len(positions)
  <2>1. PICK i \in Cores : Slice(split).from = i + 3
    BY <1>1, SliceOfCore DEF ParserInv
  <2>2. i \in 1..(Len(data) - 2)
    BY <1>1, CodesApart
  <2>3. CASE split < Len(positions)
    <3>1. /\ Slice(split).to = positions[split + 1] - 1
          /\ Slice(split).from <= Slice(split).to + 1
      BY <1>1, <2>3, SliceOfCore DEF ParserInv
    <3>2. split + 1 \in 1..Len(positions)
      BY <1>1, <2>3
    <3>3. PICK j \in Cores : positions[split + 1] = CodeAt(j)
      BY <3>2 DEF ParserInv, FoundOK
    <3>4. j \in 1..(Len(data) - 2) /\ CodeAt(j) \in {j - 1, j}
      BY <1>1, CodesApart
    <3> QED
      BY <1>1, <1>2, <3>1, <3>3, <3>4, <2>1, <2>2
  <2> QED
    BY <1>1, <2>3
<1>5. PhaseOK'
  <2>1. \A q \in 1..Len(positions) : q >= split => Slice(q).from > Len(data)
    BY <1>1, <1>2, <1>4
  <2> QED
    BY <1>1, <1>3, <2>1, DataSame DEF ParserInv, PhaseOK
<1>6. FoundOK' /\ NearestOK' /\ ParserTypes'
  BY <1>3, DataSame DEF ParserInv, FoundOK, NearestOK, ParserTypes
<1>7. SplitOK'
  BY <1>3, DataSame DEF ParserInv, SplitOK
<1> QED
  BY <1>5, <1>6, <1>7 DEF ParserInv

(* The steps between the loops.                                            *)
LEMMA ParserPhases ==
  ASSUME ParserInv,
         Parser!ParseBegins \/ Parser!FindEnds \/ Parser!SplitEnds
  PROVE  ParserInv'
<1>1. UNCHANGED <<data, scan, positions, split, nalus>>
  BY DEF Parser!ParseBegins, Parser!FindEnds, Parser!SplitEnds
<1>2. FoundOK' /\ NearestOK' /\ ParserTypes'
  BY <1>1, DataSame DEF ParserInv, FoundOK, NearestOK, ParserTypes
<1>3. SplitOK'
  BY <1>1, DataSame DEF ParserInv, SplitOK
<1>4. /\ Len(data) \in Nat /\ Len(positions) \in Nat /\ split \in Nat \ {0}
      /\ scan \in Nat \ {0}
  BY LenProperties DEF ParserInv, ParserTypes
<1>5. PhaseOK'
  <2>1. CASE Parser!ParseBegins
    <3>1. data = <<>> => scan > Len(data) - 2
      BY <1>4
    <3>2. data = <<>> => \A q \in 1..Len(positions) : Slice(q).from > Len(data)
      <4>1. ASSUME data = <<>>, NEW q \in 1..Len(positions) PROVE FALSE
        <5>1. PICK i \in Cores : positions[q] = CodeAt(i)
          BY DEF ParserInv, FoundOK
        <5> QED
          BY <4>1, <5>1 DEF Cores, Parser!Cores
      <4> QED
        BY <4>1
    <3> QED
      BY <1>1, <2>1, <3>1, <3>2, DataSame
      DEF ParserInv, PhaseOK, Parser!ParseBegins
  <2>2. CASE Parser!FindEnds
    <3>1. \A q \in 1..Len(positions) : positions # <<>>
      BY <1>4
    <3> QED
      BY <1>1, <2>2, <3>1, DataSame DEF ParserInv, PhaseOK, Parser!FindEnds
  <2>3. CASE Parser!SplitEnds
    <3>1. \A q \in 1..Len(positions) : ~(q >= split)
      BY <1>4, <2>3 DEF Parser!SplitEnds
    <3> QED
      BY <1>1, <2>3, <3>1, DataSame DEF ParserInv, PhaseOK, Parser!SplitEnds
  <2> QED
    BY <2>1, <2>2, <2>3
<1> QED
  BY <1>2, <1>3, <1>5 DEF ParserInv

LEMMA ParserSteps == ASSUME ParserInv, Parser!Next PROVE ParserInv'
BY ParserReceives, ParserFinds, SplitsOne, SplitsLast, ParserPhases
DEF Parser!Next

LEMMA ParserInvariant == ServicesSpec => []ParserInv
<1>1. ServicesInit => ParserInv
  BY ParserStarts DEF ServicesInit
<1>2. ParserInv /\ [ServicesNext]_all => ParserInv'
  <2>1. ASSUME ParserInv, UNCHANGED ParserVars PROVE ParserInv'
    <3>1. FoundOK' /\ NearestOK' /\ ParserTypes'
      BY <2>1, DataSame
      DEF ParserVars, ParserInv, FoundOK, NearestOK, ParserTypes
    <3>2. SplitOK' /\ PhaseOK'
      BY <2>1, DataSame DEF ParserVars, ParserInv, SplitOK, PhaseOK
    <3> QED
      BY <3>1, <3>2 DEF ParserInv
  <2> QED
    BY <2>1, ParserSteps DEF ServicesNext, all
<1> QED
  BY <1>1, <1>2, PTL DEF ServicesSpec

(* A byte of a unit is behind the first start code and in none.            *)
LEMMA UnitHasNoCode ==
  ASSUME ParserInv, NEW b \in 1..Len(data), NEW k \in 1..Len(nalus),
         b \in nalus[k].from..nalus[k].to, scan > Len(data) - 2
  PROVE  ~Parser!InCode(b) /\ ~\A i \in Cores : b < i
<1>1. /\ data \in Seq(Bytes) /\ Len(data) \in Nat /\ scan \in Nat
      /\ positions \in Seq(Nat) /\ Len(positions) \in Nat
  BY LenProperties DEF ParserInv, ParserTypes
<1>2. PICK q \in 1..Len(positions) : nalus[k] = Slice(q)
  BY DEF ParserInv, SplitOK
<1>3. PICK i \in Cores : positions[q] = CodeAt(i) /\ Slice(q).from = i + 3
  BY SliceOfCore DEF ParserInv
<1>4. Slice(q) \in Units
  BY SliceOfCore DEF ParserInv
<1>5. i \in 1..(Len(data) - 2) /\ CodeAt(i) \in {i - 1, i}
  BY <1>1, CodesApart
<1>6. b >= i + 3 /\ b <= Slice(q).to
  BY <1>2, <1>3, <1>4 DEF Units
<1>7. ASSUME NEW j \in Cores, b \in j..(j + 2) \/ (b = j - 1 /\ data[b] = 0)
      PROVE  FALSE
  <2>1. /\ j \in 1..(Len(data) - 2) /\ CodeAt(j) \in {j - 1, j}
        /\ CodeAt(j) = j - 1 <=> j > 1 /\ data[j - 1] = 0
    BY <1>1, CodesApart
  <2>2. i < j
    BY <1>5, <1>6, <1>7, <2>1
  <2>3. i + 3 <= CodeAt(j)
    BY <1>1, <2>2, CodesApart
  <2>4. PICK r \in 1..Len(positions) : positions[r] = CodeAt(j)
    <3>1. j < scan
      BY <1>1, <2>1
    <3> QED
      BY <3>1 DEF ParserInv, FoundOK
  <2>5. q < r
    <3>1. r < q => positions[r] < positions[q]
      BY DEF ParserInv, FoundOK
    <3>2. positions[q] < positions[r]
      BY <1>3, <1>5, <2>1, <2>3, <2>4
    <3>3. positions[q] \in Nat /\ positions[r] \in Nat
      BY <1>1, ElementOfSeq
    <3> QED
      BY <1>1, <3>1, <3>2, <3>3
  <2>6. q < Len(positions) /\ q + 1 \in 1..Len(positions)
    BY <1>1, <2>5
  <2>7. Slice(q).to = positions[q + 1] - 1
    BY <2>6, SliceOfCore DEF ParserInv
  <2>8. positions[q + 1] <= positions[r]
    <3>1. positions[q + 1] \in Nat /\ positions[r] \in Nat
      BY <1>1, <2>6, ElementOfSeq
    <3>2. q + 1 < r => positions[q + 1] < positions[r]
      BY <2>6 DEF ParserInv, FoundOK
    <3> QED
      BY <1>1, <2>5, <3>1, <3>2
  <2>9. b < CodeAt(j)
    <3>1. positions[q + 1] \in Nat
      BY <1>1, <2>6, ElementOfSeq
    <3> QED
      BY <1>6, <2>1, <2>4, <2>7, <2>8, <3>1
  <2>10. b = j - 1 /\ data[j - 1] = 0 /\ j > 1
    BY <1>1, <1>7, <2>1, <2>9
  <2> QED
    BY <2>1, <2>9, <2>10
<1>8. ~Parser!InCode(b)
  BY <1>7 DEF Parser!InCode, Cores
<1>9. ~(b < i)
  BY <1>1, <1>5, <1>6
<1> QED
  BY <1>8, <1>9

(* A byte behind a start code and in none is in the unit behind its        *)
(* nearest one.                                                            *)
LEMMA ByteHasUnit ==
  ASSUME ParserInv, parse = "done", NEW b \in 1..Len(data),
         ~Parser!InCode(b), ~\A i \in Cores : b < i
  PROVE  \E k \in 1..Len(nalus) : b \in nalus[k].from..nalus[k].to
<1>1. /\ data \in Seq(Bytes) /\ Len(data) \in Nat /\ scan \in Nat \ {0}
      /\ positions \in Seq(Nat) /\ Len(positions) \in Nat
      /\ scan > Len(data) - 2 /\ split \in Nat
  BY LenProperties DEF ParserInv, ParserTypes, PhaseOK
<1>2. \A i \in Cores : /\ i \in 1..(Len(data) - 2) /\ i < scan
                       /\ CodeAt(i) \in {i - 1, i}
                       /\ CodeAt(i) = i - 1 <=> i > 1 /\ data[i - 1] = 0
  BY <1>1, CodesApart
<1>3. PICK i \in Cores : i <= b /\ \A j \in Cores : j <= b => j <= i
  <2>1. CASE b < scan
    BY <2>1 DEF ParserInv, NearestOK, HasNearest
  <2>2. CASE b >= scan
    <3>1. scan > 1
      BY <1>1, <1>2, <2>2
    <3>2. scan - 1 \in 1..Len(data) /\ scan - 1 < scan
      BY <1>1, <2>2, <3>1
    <3>3. HasNearest(scan - 1)
      BY <3>2 DEF ParserInv, NearestOK
    <3>4. \A i \in Cores : i <= scan - 1 /\ ~(scan - 1 < i) /\ i <= b
      BY <1>1, <1>2, <2>2
    <3> QED
      BY <3>3, <3>4 DEF HasNearest
  <2> QED
    BY <1>1, <2>1, <2>2
<1>4. b >= i + 3
  <2>1. b \notin i..(i + 2)
    BY DEF Parser!InCode, Cores
  <2> QED
    BY <1>1, <1>2, <1>3, <2>1
<1>5. PICK q \in 1..Len(positions) : positions[q] = CodeAt(i)
  BY <1>2 DEF ParserInv, FoundOK
<1>6. Slice(q).from = i + 3 /\ Slice(q) \in Units
  <2>1. Slice(q).from = i + 3
    BY <1>1, <1>5, CodesApart DEF Slice, Parser!Slice
  <2> QED
    BY <2>1, SliceOfCore DEF ParserInv
<1>7. b <= Slice(q).to
  <2>1. CASE q = Len(positions)
    <3>1. Slice(q).to = Len(data)
      BY <2>1, SliceOfCore DEF ParserInv
    <3> QED
      BY <3>1
  <2>2. CASE q < Len(positions)
    <3>1. q + 1 \in 1..Len(positions)
      BY <1>1, <2>2
    <3>2. PICK j \in Cores : positions[q + 1] = CodeAt(j)
      BY <3>1 DEF ParserInv, FoundOK
    <3>3. Slice(q).to = CodeAt(j) - 1 /\ Slice(q).from <= Slice(q).to + 1
      BY <2>2, <3>2, SliceOfCore DEF ParserInv
    <3>4. j > b
      <4>1. i < j
        BY <1>2, <1>6, <3>3
      <4> QED
        BY <1>2, <1>3, <4>1
    <3>5. ~(b = j - 1 /\ data[b] = 0)
      BY DEF Parser!InCode, Cores
    <3>6. j > 1 /\ (CodeAt(j) = j - 1 => b # j - 1)
      BY <1>2, <3>4, <3>5
    <3> QED
      BY <1>2, <3>3, <3>4, <3>6
  <2> QED
    BY <1>1, <2>1, <2>2
<1>8. q < split
  BY <1>1, <1>4, <1>6 DEF ParserInv, PhaseOK, Units
<1>9. Slice(q).from <= Slice(q).to
  BY <1>4, <1>6, <1>7 DEF Units
<1>10. PICK k \in 1..Len(nalus) : nalus[k] = Slice(q)
  BY <1>8, <1>9 DEF ParserInv, SplitOK
<1> QED
  BY <1>4, <1>6, <1>7, <1>10 DEF Units

(* For every string of bytes, of any length: Parse does not slice beyond   *)
(* the data, and behind the first start code every byte is in exactly one  *)
(* NAL unit or in a start code (FindStartCodes and Parse in parser.go).    *)
THEOREM EveryByteIsParsedOnce == ServicesSpec => []EveryByteOnce
<1>1. ASSUME ParserInv, parse = "done", NEW b \in 1..Len(data)
      PROVE  LET in == {k \in 1..Len(nalus) :
                          b \in nalus[k].from..nalus[k].to} IN
             IF Parser!InCode(b) \/ \A i \in Cores : b < i
               THEN in = {} ELSE \E k \in in : in = {k}
  <2> DEFINE in == {k \in 1..Len(nalus) : b \in nalus[k].from..nalus[k].to}
  <2>1. scan > Len(data) - 2
    BY <1>1 DEF ParserInv, PhaseOK
  <2>2. Parser!InCode(b) \/ (\A i \in Cores : b < i) => in = {}
    BY <1>1, <2>1, UnitHasNoCode
  <2>3. ~(Parser!InCode(b) \/ \A i \in Cores : b < i) => in # {}
    BY <1>1, ByteHasUnit
  <2>4. ASSUME NEW k \in in, NEW l \in in PROVE k = l
    <3>1. /\ \A m, n \in 1..Len(nalus) : m < n => nalus[m].to < nalus[n].from
          /\ nalus \in Seq(Units) /\ Len(nalus) \in Nat
      BY <1>1, LenProperties DEF ParserInv, SplitOK, ParserTypes
    <3>2. nalus[k] \in Units /\ nalus[l] \in Units
      BY <3>1, ElementOfSeq
    <3> QED
      BY <3>1, <3>2 DEF Units
  <2> QED
    BY <2>2, <2>3, <2>4
<1>2. ParserInv => EveryByteOnce
  BY <1>1 DEF EveryByteOnce, Parser!EveryByteOnce, Cores, ParserInv, PhaseOK
<1> QED
  BY <1>2, ParserInvariant, PTL

----------------------------------------------------------------------------
(* HLSServer.  Its module's proofs are of its own specification; here its  *)
(* steps are those of the whole, which may also be another part's.         *)

(* The inductive invariant of the HLS server, whatever part moves.         *)
LEMMA HLSInvariant == ServicesSpec => []IInv
<1>1. ServicesInit => IInv
  BY InitIInv DEF ServicesInit
<1>2. IInv /\ [ServicesNext]_all => IInv'
  <2>1. ASSUME IInv, UNCHANGED vars PROVE IInv'
    BY <2>1 DEF vars, IInv, TypeOK, Control, ProcOwner, Budget, StopCancels,
       ReadyCounted, Returned, stopVars, loopVars, procVars, readyVars
  <2>2. ASSUME IInv, Next PROVE IInv'
    BY <2>2, StartPreserves, LoopPreserves, WatcherPreserves, StopPreserves,
       FfmpegPreserves DEF Next
  <2> QED
    BY <2>1, <2>2 DEF ServicesNext, all
<1> QED
  BY <1>1, <1>2, PTL DEF ServicesSpec

(* Every variable of the parts with a type invariant keeps its type, and   *)
(* with it the bounds in them: the hub's queue holds no more than          *)
(* QueueCap events, ffmpeg is started no more than MaxExits + 1 times.     *)
THEOREM ServicesTyped == ServicesSpec => []ServicesTypeOK
<1>1. IInv /\ HubInv /\ LoginInv => ServicesTypeOK
  BY DEF IInv, HubInv, LoginInv, ServicesTypeOK
<1> QED
  BY <1>1, HLSInvariant, HubInvariant, LoginInvariant, PTL

=============================================================================
