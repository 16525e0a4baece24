------------------------------ MODULE Presets ------------------------------
(***************************************************************************)
(* The presets of the PTZ state (src/internal/ptz/state.go), the handlers  *)
(* of the web server and of the ONVIF service that store, remove, list and *)
(* go to them, and a browser that reloads the list when it is told to and  *)
(* when it likes.  Each section of the state's mutex is a step, and so is  *)
(* each callback, whose event the hub may drop.                            *)
(***************************************************************************)
EXTENDS Naturals, FiniteSets

CONSTANTS
  Auto,       \* Auto[n] is the token "preset-<n>", for n presets at most
  Named,      \* other tokens
  Places, Home,   \* positions of the camera, where it starts
  Callers     \* HTTP requests that are served at the same time

Tokens  == Named \union {Auto[n] : n \in DOMAIN Auto}
Absent  == "absent"   \* what the map has for a token it does not hold
NoToken == "no token"

VARIABLES
  position, presets,
  request,    \* what each caller does next, for which token
  told,       \* the browser was told that the list changed
  listed,     \* the list the server last gave it
  lost        \* history: an event to it was dropped since then

vars == <<position, presets, request, told, listed, lost>>

Idle == [step |-> "idle", token |-> NoToken]

Init ==
  /\ position = Home /\ presets = [t \in Tokens |-> Absent]
  /\ request = [c \in Callers |-> Idle]
  /\ told = FALSE /\ listed = presets /\ lost = FALSE

At(c, step) == request[c].step = step
Go(c, step, t) == request' = [request EXCEPT ![c] = [step |-> step, token |-> t]]
Known == {t \in Tokens : presets[t] # Absent}

----------------------------------------------------------------------------
\* A request arrives: handlePostPTZPreset, handleSetPreset (with or without a
\* token), handleDeletePTZPreset or handleRemovePreset, and the two Gotos.
Receive(c) ==
  /\ At(c, "idle")
  /\ \/ \E t \in Tokens, step \in {"check", "set", "remove", "find"} :
          Go(c, step, t)
     \/ Go(c, "count", NoToken)
  /\ UNCHANGED <<position, presets, told, listed, lost>>

\* The web server answers 409 when the preset exists.
CheckAbsent(c) ==
  /\ At(c, "check")
  /\ LET t == request[c].token IN
     IF t \in Known THEN Go(c, "idle", NoToken) ELSE Go(c, "set", t)
  /\ UNCHANGED <<position, presets, told, listed, lost>>

\* ONVIF makes the token of a preset without one from their number (bound:
\* the numbers Auto has).
CountPresets(c) ==
  /\ At(c, "count") /\ Cardinality(Known) + 1 \in DOMAIN Auto
  /\ Go(c, "set", Auto[Cardinality(Known) + 1])
  /\ UNCHANGED <<position, presets, told, listed, lost>>

\* Mutant: replacing a preset is no change to tell of.
SetPresetTellsOfNew(c) ==
  /\ At(c, "set")
  /\ Go(c, IF request[c].token \in Known THEN "idle" ELSE "tell",
        request[c].token)
  /\ presets' = [presets EXCEPT ![request[c].token] = position]
  /\ UNCHANGED <<position, told, listed, lost>>

\* The section of SetPreset; the callback comes after it.
SetPreset(c) ==
  /\ At(c, "set") /\ Go(c, "tell", request[c].token)
  /\ presets' = [presets EXCEPT ![request[c].token] = position]
  /\ UNCHANGED <<position, told, listed, lost>>

\* The section of RemovePreset; the callback comes after it.
RemovePreset(c) ==
  /\ At(c, "remove")
  /\ LET t == request[c].token IN
     IF t \notin Known THEN Go(c, "idle", NoToken) /\ UNCHANGED presets
       ELSE Go(c, "tell", t) /\ presets' = [presets EXCEPT ![t] = Absent]
  /\ UNCHANGED <<position, told, listed, lost>>

\* The callback: sendEvent of the hub, which drops the event when its queue is
\* full.  The request goes on either way.
Tell(c) ==
  /\ At(c, "tell") /\ Go(c, "idle", NoToken)
  /\ \/ told' = TRUE /\ UNCHANGED lost
     \/ lost' = TRUE /\ UNCHANGED told
  /\ UNCHANGED <<position, presets, listed>>

\* GotoPreset looks the preset up, then moves there, whatever happens to it.
GotoPreset(c) ==
  /\ At(c, "find")
  /\ LET t == request[c].token IN
     \/ t \notin Known /\ UNCHANGED position
     \/ t \in Known /\ position' = presets[t]
  /\ Go(c, "idle", NoToken)
  /\ UNCHANGED <<presets, told, listed, lost>>

\* The camera is moved, also by a GotoPreset that found its preset earlier.
Move ==
  /\ \E p \in Places : position' = p
  /\ UNCHANGED <<presets, request, told, listed, lost>>

\* The browser asks for the list (ListPresets): it was told to, or it opens
\* the page or has itself changed a preset.
Reload ==
  /\ listed' = presets /\ told' = FALSE /\ lost' = FALSE
  /\ UNCHANGED <<position, presets, request>>

Next ==
  \/ \E c \in Callers :
       \/ Receive(c) \/ CheckAbsent(c) \/ CountPresets(c) \/ SetPreset(c)
       \/ RemovePreset(c) \/ Tell(c) \/ GotoPreset(c)
  \/ Move \/ Reload

Spec == Init /\ [][Next]_vars

----------------------------------------------------------------------------
TypeOK ==
  /\ position \in Places /\ presets \in [Tokens -> Places \union {Absent}]
  /\ request \in [Callers -> [step : {"idle", "check", "count", "set", "remove",
                                      "tell", "find"},
                              token : Tokens \union {NoToken}]]
  /\ told \in BOOLEAN /\ lost \in BOOLEAN
  /\ listed \in [Tokens -> Places \union {Absent}]

(* "a callback invoked when a preset is added or removed" (state.go:351):  *)
(* whichever requests overlap and whatever list was loaded while they did, *)
(* every change of the presets is followed by a callback.  The list the    *)
(* browser got last is out of date only while a callback is due, the       *)
(* browser was told and has not asked yet, or an event since it last asked *)
(* was dropped: the code sends no event a second time.                     *)
ListIsCurrent ==
  \/ told \/ lost \/ listed = presets
  \/ \E c \in Callers : At(c, "tell")
=============================================================================
