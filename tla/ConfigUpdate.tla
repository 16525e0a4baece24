---------------------------- MODULE ConfigUpdate ----------------------------
(***************************************************************************)
(* POST /api/config/onvif (handlePostConfigOnvif in                        *)
(* src/internal/web/handlers.go): read the configuration file, replace one *)
(* section, write a temporary file and rename it over the old one; then    *)
(* restart the process, which loads the file (src/internal/config).        *)
(* Requests run concurrently, every file operation may fail, and between   *)
(* any two the process may end, because it crashes or an earlier request   *)
(* asked for it, or the power may go.  systemd starts it again.            *)
(*                                                                         *)
(* The handler makes what it wrote durable, but not the rename: it does    *)
(* not sync the directory.  disk is what a power cut leaves.               *)
(***************************************************************************)
CONSTANT Updates   \* the requests; each writes its own credentials

Original == "original"   \* the credentials before the first request
Torn     == "torn"       \* a file not, or not wholly, written
FromEnv  == "env"        \* those of MIBEE_EYE_ONVIF_USERNAME and _PASSWORD

VARIABLES
  file,     \* whose credentials the configuration file has
  synced,   \* what is in the file was synced before it was renamed
  disk,     \* whose credentials the file has after a power cut
  tmp,      \* the temporary file of each request: "none", "torn", "written",
            \* "synced"
  update,   \* what each request does next, or "done"
  answer,   \* "none", "ok", "error"
  restart,  \* a restart is scheduled
  up,       \* the process runs
  override, \* its environment has credentials, which go before the file's
  using,    \* the credentials it serves with
  replaced, \* history: requests whose file a later request replaced
  undone    \* history: requests whose rename a power cut undid

diskVars == <<file, synced, disk, replaced, undone>>
vars == <<diskVars, tmp, update, answer, restart, up, override, using>>

Init ==
  /\ file = Original /\ synced = TRUE /\ disk = Original
  /\ replaced = {} /\ undone = {} /\ restart = FALSE /\ up = TRUE
  /\ tmp = [r \in Updates |-> "none"] /\ update = [r \in Updates |-> "read"]
  /\ answer = [r \in Updates |-> "none"]
  /\ override \in BOOLEAN /\ using = IF override THEN FromEnv ELSE Original

Proceed(r, next) ==
  update' = [update EXCEPT ![r] = next] /\ UNCHANGED answer

Fail(r) ==
  /\ update' = [update EXCEPT ![r] = "done"]
  /\ answer' = [answer EXCEPT ![r] = "error"]
  /\ tmp' = [tmp EXCEPT ![r] = "none"]

----------------------------------------------------------------------------
\* A malformed request ends here too.
Read(r) ==
  /\ update[r] = "read"
  /\ Fail(r) \/ (Proceed(r, "create") /\ UNCHANGED tmp)
  /\ UNCHANGED <<diskVars, restart>>

CreateTemp(r) ==
  /\ update[r] = "create"
  /\ \/ Fail(r)
     \/ Proceed(r, "write") /\ tmp' = [tmp EXCEPT ![r] = "torn"]
  /\ UNCHANGED <<diskVars, restart>>

Write(r) ==
  /\ update[r] = "write"
  /\ \/ Fail(r)
     \/ Proceed(r, "sync") /\ tmp' = [tmp EXCEPT ![r] = "written"]
  /\ UNCHANGED <<diskVars, restart>>

\* Mutant: the file is renamed without having been synced.
SyncSkipped(r) ==
  /\ update[r] = "sync" /\ Proceed(r, "rename")
  /\ UNCHANGED <<diskVars, tmp, restart>>

\* Sync and Close: the handler goes on only when both went well.
Sync(r) ==
  /\ update[r] = "sync"
  /\ \/ Fail(r)
     \/ Proceed(r, "rename") /\ tmp' = [tmp EXCEPT ![r] = "synced"]
  /\ UNCHANGED <<diskVars, restart>>

Rename(r) ==
  /\ update[r] = "rename"
  /\ \/ Fail(r) /\ UNCHANGED diskVars
     \/ /\ Proceed(r, "schedule") /\ tmp' = [tmp EXCEPT ![r] = "none"]
        /\ file' = IF tmp[r] = "torn" THEN Torn ELSE r
        /\ synced' = (tmp[r] = "synced")
        /\ replaced' = replaced \union ({file} \intersect Updates)
        /\ UNCHANGED <<disk, undone>>
  /\ UNCHANGED restart

Schedule(r) ==
  /\ update[r] = "schedule" /\ Proceed(r, "reply") /\ restart' = TRUE
  /\ UNCHANGED <<diskVars, tmp>>

Reply(r) ==
  /\ update[r] = "reply" /\ update' = [update EXCEPT ![r] = "done"]
  /\ answer' = [answer EXCEPT ![r] = "ok"]
  /\ UNCHANGED <<diskVars, tmp, restart>>

handlePostConfigOnvif(r) ==
  /\ up /\ UNCHANGED <<up, override, using>>
  /\ \/ Read(r) \/ CreateTemp(r) \/ Write(r) \/ Sync(r) \/ Rename(r)
     \/ Schedule(r) \/ Reply(r)

\* The kernel writes the directory back, at a time of its own; of a file that
\* was not synced the contents may come later.
WriteBack ==
  /\ disk # file
  /\ disk' \in IF synced THEN {file} ELSE {file, Torn}
  /\ UNCHANGED <<file, synced, replaced, undone, tmp, update, answer, restart,
                 up, override, using>>

\* No request goes on in the next process.
ProcessEnds ==
  /\ up' = FALSE /\ restart' = FALSE
  /\ update' = [r \in Updates |->
                  IF update[r] = "read" THEN "read" ELSE "done"]
  /\ UNCHANGED <<tmp, answer, override, using>>

\* The process ends, whatever its requests are at: SIGTERM to itself 500 ms
\* after Schedule, or a crash.
End == up /\ ProcessEnds /\ UNCHANGED diskVars

\* The power goes: what was not written back is as before.
PowerCut ==
  /\ ProcessEnds /\ file' = disk /\ synced' = TRUE
  /\ undone' = IF disk # file THEN undone \union ({file} \intersect Updates)
                              ELSE undone
  /\ UNCHANGED <<disk, replaced>>

\* Load: the file, then the environment; a file that is no YAML ends main.
Boot ==
  /\ ~up /\ file # Torn /\ up' = TRUE
  /\ using' = IF override THEN FromEnv ELSE file
  /\ UNCHANGED <<diskVars, tmp, update, answer, restart, override>>

Next ==
  \/ End \/ PowerCut \/ WriteBack \/ Boot
  \/ \E r \in Updates : handlePostConfigOnvif(r)

Spec == Init /\ [][Next]_vars

----------------------------------------------------------------------------
(* Wherever the process ends or the power goes, the next process finds a   *)
(* whole configuration.  Credentials that were acknowledged are in it,     *)
(* unless a later request replaced them or the power went before their     *)
(* rename was written back; those of a request that was refused never are. *)
(* A process serves with what the file has, or is about to restart, also   *)
(* when it ended between the rename and the restart it scheduled.          *)
AcceptedIsStored ==
  /\ file # Torn
  /\ \A r \in Updates :
       /\ answer[r] = "ok" => file = r \/ r \in replaced \union undone
       /\ file = r => answer[r] # "error"
  /\ up /\ ~override =>
       using = file \/ restart \/ \E r \in Updates : update[r] = "schedule"
=============================================================================
