------------------------------ MODULE WebLogin ------------------------------
(***************************************************************************)
(* Logging in to the web server (src/internal/web/auth.go): the limiter of *)
(* failed attempts, for one address (entries of two addresses never meet), *)
(* and the store of sessions.  Requests run concurrently; each calls the   *)
(* limiter and the store one after the other, each under its own lock.     *)
(***************************************************************************)
EXTENDS Integers, Sequences, FiniteSets

CONSTANTS
  Requests,      \* handlers of handleLogin that may run at a time
  Tokens,        \* bound: tokens issued
  MaxAttempts,   \* maxLoginAttempts, 10 in the code
  Window,        \* loginWindow, 1 minute in the code
  Block,         \* loginBlockDuration, 5 minutes in the code
  TTL,           \* sessionTTL, 24 hours in the code
  MaxTime, MaxFailures   \* bounds: time, attempts with a wrong password

VARIABLES
  now,
  entry,     \* the address's entry in attempts, or NoEntry
  request,   \* "idle", "login", "failed", "succeeded", "refused"
  failures,  \* history: times of the failures recorded since a success
  wrong,     \* wrong passwords so far
  issued,    \* tokens so far
  sessions,  \* token -> expiry, None if not in the map
  stale      \* the token Validate found expired and is about to delete

vars == <<now, entry, request, failures, wrong, issued, sessions, stale>>

NoEntry == [count |-> 0, start |-> 0, until |-> 0]
None == -1

Init ==
  /\ now = 1 /\ entry = NoEntry /\ request = [r \in Requests |-> "idle"]
  /\ failures = <<>> /\ wrong = 0 /\ issued = 0
  /\ sessions = [t \in Tokens |-> None] /\ stale = None

----------------------------------------------------------------------------
(* loginRateLimiter.  until = 0 is the zero time.                          *)
Blocked(e) == now < e.until
Over(e)    == e.until # 0 \/ now - e.start > Window

\* Mutant: an address is never refused.
AllowAll(r) ==
  /\ request[r] = "idle" /\ request' = [request EXCEPT ![r] = "login"]
  /\ entry' = IF entry # NoEntry /\ Over(entry) THEN NoEntry ELSE entry
  /\ UNCHANGED <<now, failures, wrong, issued, sessions, stale>>

Allow(r) ==
  /\ request[r] = "idle"
  /\ \/ /\ entry = NoEntry \/ (~Blocked(entry) /\ Over(entry))
        /\ entry' = NoEntry /\ request' = [request EXCEPT ![r] = "login"]
     \/ /\ entry # NoEntry /\ ~Blocked(entry) /\ ~Over(entry)
        /\ request' = [request EXCEPT ![r] =
             IF entry.count < MaxAttempts THEN "login" ELSE "refused"]
        /\ UNCHANGED entry
     \/ /\ entry # NoEntry /\ Blocked(entry)
        /\ request' = [request EXCEPT ![r] = "refused"] /\ UNCHANGED entry
  /\ UNCHANGED <<now, failures, wrong, issued, sessions, stale>>

OneMore(e) ==
  [e EXCEPT !.count = @ + 1,
            !.until = IF e.count + 1 >= MaxAttempts THEN now + Block ELSE @]

\* Mutant: an old entry goes on being counted in.
CountedForEver(e) ==
  IF e = NoEntry THEN [count |-> 1, start |-> now, until |-> 0]
  ELSE IF Blocked(e) THEN e
  ELSE OneMore(e)

Counted(e) ==
  IF e = NoEntry THEN [count |-> 1, start |-> now, until |-> 0]
  ELSE IF Blocked(e) THEN e
  ELSE IF now - e.start > Window THEN [count |-> 1, start |-> now, until |-> 0]
  ELSE OneMore(e)

RecordFailure(r) ==
  /\ request[r] = "failed" /\ request' = [request EXCEPT ![r] = "idle"]
  /\ entry' = Counted(entry) /\ failures' = Append(failures, now)
  /\ UNCHANGED <<now, wrong, issued, sessions, stale>>

RecordSuccess(r) ==
  /\ request[r] = "succeeded" /\ request' = [request EXCEPT ![r] = "idle"]
  /\ entry' = NoEntry /\ failures' = <<>>
  /\ UNCHANGED <<now, wrong, issued, sessions, stale>>

TurnAway(r) ==
  /\ request[r] = "refused" /\ request' = [request EXCEPT ![r] = "idle"]
  /\ UNCHANGED <<now, entry, failures, wrong, issued, sessions, stale>>

----------------------------------------------------------------------------
(* SessionStore.                                                           *)
LoginFails(r) ==
  /\ request[r] = "login" /\ wrong < MaxFailures /\ wrong' = wrong + 1
  /\ request' = [request EXCEPT ![r] = "failed"]
  /\ UNCHANGED <<now, entry, failures, issued, sessions, stale>>

LoginSucceeds(r) ==
  /\ request[r] = "login" /\ issued + 1 \in Tokens /\ issued' = issued + 1
  /\ sessions' = [sessions EXCEPT ![issued'] = now + TTL]
  /\ request' = [request EXCEPT ![r] = "succeeded"]
  /\ UNCHANGED <<now, entry, failures, wrong, stale>>

\* Validate reads the session, then deletes it under the other lock.
ValidateExpired(t) ==
  /\ sessions[t] # None /\ now > sessions[t] /\ stale = None /\ stale' = t
  /\ UNCHANGED <<now, entry, request, failures, wrong, issued, sessions>>

ValidateDeletes ==
  /\ stale # None /\ stale' = None
  /\ sessions' = [sessions EXCEPT ![stale] = None]
  /\ UNCHANGED <<now, entry, request, failures, wrong, issued>>

Logout(t) ==
  /\ sessions[t] # None /\ now <= sessions[t]
  /\ sessions' = [sessions EXCEPT ![t] = None]
  /\ UNCHANGED <<now, entry, request, failures, wrong, issued, stale>>

cleanup ==
  /\ sessions' = [t \in Tokens |->
                    IF now > sessions[t] THEN None ELSE sessions[t]]
  /\ UNCHANGED <<now, entry, request, failures, wrong, issued, stale>>

Tick ==
  /\ now < MaxTime /\ now' = now + 1
  /\ UNCHANGED <<entry, request, failures, wrong, issued, sessions, stale>>

handleLogin(r) ==
  \/ Allow(r) \/ TurnAway(r) \/ LoginFails(r) \/ LoginSucceeds(r)
  \/ RecordFailure(r) \/ RecordSuccess(r)

Next ==
  \/ \E r \in Requests : handleLogin(r)
  \/ \E t \in Tokens : ValidateExpired(t) \/ Logout(t)
  \/ ValidateDeletes \/ cleanup \/ Tick

Spec == Init /\ [][Next]_vars

----------------------------------------------------------------------------
TypeOK ==
  /\ now \in 1..MaxTime /\ wrong \in 0..MaxFailures
  /\ entry \in [count : 0..MaxAttempts, start : 0..MaxTime,
                until : 0..(MaxTime + Block)]
  /\ request \in [Requests ->
                   {"idle", "login", "failed", "succeeded", "refused"}]
  /\ failures \in Seq(1..MaxTime) /\ Len(failures) <= wrong
  /\ issued \in Tokens \cup {0}
  /\ sessions \in [Tokens -> {None} \cup 1..(MaxTime + TTL)]
  /\ stale \in Tokens \cup {None}

(* A request is refused only after MaxAttempts failures in a row, within   *)
(* one window, the last of them less than a block ago: failures counted    *)
(* for an earlier window, or recorded by requests that were in flight      *)
(* when the block began, never lengthen it.                                *)
RefusedForCause ==
  [][\A r \in Requests :
       request[r] = "idle" /\ request'[r] = "refused" =>
         \E last \in MaxAttempts..Len(failures) :
           /\ now < failures[last] + Block
           /\ failures[last] - failures[last - MaxAttempts + 1] <= Window]_vars

(* However requests interleave, an address gets no more attempts per       *)
(* window and block than MaxAttempts and one for each request that was     *)
(* past allow when the block began.                                        *)
AttemptsBounded ==
  entry # NoEntry =>
    Cardinality({i \in 1..Len(failures) : failures[i] >= entry.start})
      < MaxAttempts + Cardinality(Requests)
=============================================================================
