----------------------------- MODULE Discovery -----------------------------
(***************************************************************************)
(* The WS-Discovery responder (src/internal/onvif/discovery.go): a         *)
(* goroutine that reads probes from a UDP socket, which StopUDP closes     *)
(* under it.  What a probe says and what is answered is left out.          *)
(***************************************************************************)
VARIABLES
  socket,     \* "none", "open", "closed"
  listener,   \* d.listener is set
  readLoop,   \* "none", "top", "take", "read", "answer", "done"
  stopUDP,    \* "idle", "close", "returned"
  cancelled   \* the context is done

vars == <<socket, listener, readLoop, stopUDP, cancelled>>

Init ==
  /\ socket = "none" /\ listener = FALSE /\ readLoop = "none"
  /\ stopUDP = "idle" /\ cancelled = FALSE

StartUDP ==
  /\ readLoop = "none" /\ stopUDP = "idle" /\ socket = "none"
  /\ \/ socket' = "closed" /\ UNCHANGED <<listener, readLoop>>   \* it failed
     \/ socket' = "open" /\ listener' = TRUE /\ readLoop' = "top"
  /\ UNCHANGED <<stopUDP, cancelled>>

Cancel ==
  /\ ~cancelled /\ cancelled' = TRUE
  /\ UNCHANGED <<socket, listener, readLoop, stopUDP>>

\* Mutant: the listener is left in place.
StopTakesNothing ==
  /\ stopUDP = "idle" /\ socket # "none"
  /\ stopUDP' = IF listener THEN "close" ELSE "returned"
  /\ UNCHANGED <<socket, listener, readLoop, cancelled>>

\* StopUDP, after StartUDP: take the listener under mu, then close it.
StopTakes ==
  /\ stopUDP = "idle" /\ socket # "none" /\ listener' = FALSE
  /\ stopUDP' = IF listener THEN "close" ELSE "returned"
  /\ UNCHANGED <<socket, readLoop, cancelled>>

StopCloses ==
  /\ stopUDP = "close" /\ stopUDP' = "returned" /\ socket' = "closed"
  /\ UNCHANGED <<listener, readLoop, cancelled>>

LoopTop ==
  /\ readLoop = "top" /\ readLoop' = IF cancelled THEN "done" ELSE "take"
  /\ UNCHANGED <<socket, listener, stopUDP, cancelled>>

LoopTake ==
  /\ readLoop = "take" /\ readLoop' = IF listener THEN "read" ELSE "done"
  /\ UNCHANGED <<socket, listener, stopUDP, cancelled>>

\* A datagram, if the socket is open; an error, if it is closed or a second
\* goes by.
LoopRead ==
  /\ readLoop = "read"
  /\ \/ socket = "open" /\ readLoop' \in {"answer", "top"}
     \/ readLoop' = IF cancelled THEN "done" ELSE "top"
  /\ UNCHANGED <<socket, listener, stopUDP, cancelled>>

LoopAnswer ==
  /\ readLoop = "answer" /\ readLoop' = "top"
  /\ UNCHANGED <<socket, listener, stopUDP, cancelled>>

LoopStep == LoopTop \/ LoopTake \/ LoopRead \/ LoopAnswer

Next == StartUDP \/ Cancel \/ StopTakes \/ StopCloses \/ LoopStep

Fairness == WF_vars(LoopStep) /\ WF_vars(StopCloses)

----------------------------------------------------------------------------
(* The reader ends when it is stopped, also without a cancelled context,   *)
(* and when it is cancelled, also without StopUDP; it never spins on the   *)
(* closed socket.                                                          *)
ReaderEnds ==
  stopUDP = "returned" \/ cancelled ~> readLoop \in {"none", "done"}
=============================================================================
