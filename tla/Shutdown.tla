------------------------------ MODULE Shutdown ------------------------------
(***************************************************************************)
(* The life of the process: main starts the components, waits for a        *)
(* signal and stops them (src/cmd/server/main.go), while the two HTTP      *)
(* servers (Start and Stop in src/internal/web/web.go and                  *)
(* src/internal/onvif/server.go) run in goroutines of their own.  Every    *)
(* component has the context that the signal cancels, so that a server is  *)
(* stopped by main and by its own Start, in either order, and the signal   *)
(* may come while main is still starting.                                  *)
(***************************************************************************)
EXTENDS Integers

Servers == {"web", "onvif"}
Last    == 7                  \* the shutdown steps of main:
StopOf  == [k \in 1..Last |-> <<"rtmp", "discovery", "onvif", "web", "hls",
                               "rtsp", "camera">>[k]]

VARIABLES
  main,       \* what main does next; "stop" and "wait" belong to a step
  step,       \* the shutdown step it is at
  signalled,  \* the context is done
  stops,      \* the goroutine of each shutdown step: "none", "running", "done"
  serve,      \* Start of each server
  assigned,   \* servers whose s.server is set
  closing,    \* servers that were closed: http.Server listens no more
  listener    \* the goroutine of each that listens

vars == <<main, step, signalled, stops, serve, assigned, closing, listener>>

Init ==
  /\ main = "camera" /\ step = 1 /\ signalled = FALSE
  /\ stops = [k \in 1..Last |-> "none"]
  /\ serve = [s \in Servers |-> "none"] /\ assigned = {} /\ closing = {}
  /\ listener = [s \in Servers |-> "none"]

----------------------------------------------------------------------------
(* main starts everything.  The camera and the RTSP server must start, or  *)
(* the process exits; the RTSP server seldom does when the context is done *)
(* (Start looks between two attempts to connect).                          *)
Starting(now, next) ==
  /\ main = now /\ main' = next
  /\ UNCHANGED <<step, signalled, stops, assigned, closing, listener>>

StartCamera == Starting("camera", "rtsp") /\ UNCHANGED serve
StartRTSP   == Starting("rtsp", "hls") /\ UNCHANGED serve
Fatal       == \E now \in {"camera", "rtsp"} :
                 Starting(now, "exited") /\ UNCHANGED serve

\* The HLS bridge is optional: Start returns with a segment, on its own
\* timeout, or because the context is done.
StartHLS       == Starting("hls", "web") /\ UNCHANGED serve
StartWeb       == Starting("web", "discovery")
                    /\ serve' = [serve EXCEPT !["web"] = "begin"]
StartDiscovery == Starting("discovery", "onvif") /\ UNCHANGED serve
StartOnvif     == Starting("onvif", "rtmp")
                    /\ serve' = [serve EXCEPT !["onvif"] = "begin"]
StartRTMP      == Starting("rtmp", "signal") /\ UNCHANGED serve
AwaitSignal    == signalled /\ Starting("signal", "stop") /\ UNCHANGED serve

Signal ==
  /\ ~signalled /\ signalled' = TRUE
  /\ UNCHANGED <<main, step, stops, serve, assigned, closing, listener>>

----------------------------------------------------------------------------
\* shutdownStep starts a goroutine and waits for it, 5 seconds at most.
StepBegins ==
  /\ main = "stop" /\ main' = "wait"
  /\ stops' = [stops EXCEPT ![step] = "running"]
  /\ UNCHANGED <<step, signalled, serve, assigned, closing, listener>>

\* Mutant: main waits for the step without a timer.
StepEndsWhenDone ==
  /\ main = "wait" /\ stops[step] = "done"
  /\ IF step = Last THEN main' = "exited" /\ UNCHANGED step
                    ELSE main' = "stop" /\ step' = step + 1
  /\ UNCHANGED <<signalled, stops, serve, assigned, closing, listener>>

\* The goroutine is done, or the timer fires first; it may fire at any time.
StepEnds ==
  /\ main = "wait"
  /\ IF step = Last THEN main' = "exited" /\ UNCHANGED step
                    ELSE main' = "stop" /\ step' = step + 1
  /\ UNCHANGED <<signalled, stops, serve, assigned, closing, listener>>

MainStep ==
  \/ StartCamera \/ StartRTSP \/ Fatal \/ StartHLS \/ StartWeb
  \/ StartDiscovery \/ StartOnvif \/ StartRTMP \/ AwaitSignal
  \/ StepBegins \/ StepEnds

\* http.Server.Close: the listener is closed, none is accepted any more.
Close(s) ==
  /\ closing' = closing \union {s}
  /\ listener' = IF listener[s] = "serving" THEN [listener EXCEPT ![s] = "ended"]
                                            ELSE listener

\* Stop of a server: nothing to do before Start has made it.
StopServer(s) ==
  IF s \in assigned THEN Close(s) ELSE UNCHANGED <<closing, listener>>

\* The function of a step, which need not come to its end.
StopReturns(k) ==
  /\ stops[k] = "running" /\ stops' = [stops EXCEPT ![k] = "done"]
  /\ IF StopOf[k] \in Servers THEN StopServer(StopOf[k])
                              ELSE UNCHANGED <<closing, listener>>
  /\ UNCHANGED <<main, step, signalled, serve, assigned>>

----------------------------------------------------------------------------
\* Start of a server: it is made, a goroutine listens, Start waits.
Serving(s, now, next) ==
  /\ serve[s] = now /\ serve' = [serve EXCEPT ![s] = next]
  /\ UNCHANGED <<main, step, signalled, stops>>

Make(s) ==
  /\ Serving(s, "begin", "listen") /\ assigned' = assigned \union {s}
  /\ UNCHANGED <<closing, listener>>

Listen(s) ==
  /\ Serving(s, "listen", "select")
  /\ listener' = [listener EXCEPT ![s] = "begin"]
  /\ UNCHANGED <<assigned, closing>>

\* Mutant: Start returns when the context is done and leaves Stop to main.
SeesDoneReturns(s) ==
  /\ signalled /\ Serving(s, "select", "returned")
  /\ UNCHANGED <<assigned, closing, listener>>

\* The context is done: return s.Stop().
SeesDone(s) ==
  /\ signalled /\ Serving(s, "select", "returned") /\ StopServer(s)
  /\ UNCHANGED assigned

\* errCh has an error or is closed.
SeesEnd(s) ==
  /\ listener[s] = "ended" /\ Serving(s, "select", "returned")
  /\ UNCHANGED <<assigned, closing, listener>>

ServeStep(s) == Make(s) \/ Listen(s) \/ SeesDone(s) \/ SeesEnd(s)

\* ListenAndServe: bind, unless closed, then serve, unless closed; the port
\* may be taken.
ListenerStep(s) ==
  /\ \/ /\ listener[s] = "begin"
        /\ \/ s \notin closing /\ listener' = [listener EXCEPT ![s] = "bound"]
           \/ listener' = [listener EXCEPT ![s] = "ended"]
     \/ /\ listener[s] = "bound"
        /\ listener' = [listener EXCEPT ![s] =
                          IF s \in closing THEN "ended" ELSE "serving"]
  /\ UNCHANGED <<main, step, signalled, stops, serve, assigned, closing>>

Running == main # "exited"   \* os.Exit ends every goroutine

Next ==
  /\ Running
  /\ \/ MainStep \/ Signal \/ \E k \in 1..Last : StopReturns(k)
     \/ \E s \in Servers : ServeStep(s) \/ ListenerStep(s)

Spec == Init /\ [][Next]_vars

(* main and the goroutines of the servers run, and timers fire.  The       *)
(* function of a shutdown step need not return.                            *)
Fairness ==
  /\ WF_vars(MainStep)
  /\ \A s \in Servers : /\ WF_vars(Running /\ ServeStep(s))
                        /\ WF_vars(Running /\ ListenerStep(s))

FairSpec == Spec /\ Fairness

----------------------------------------------------------------------------
TypeOK ==
  /\ main \in {"camera", "rtsp", "hls", "web", "discovery", "onvif", "rtmp",
               "signal", "stop", "wait", "exited"}
  /\ step \in 1..Last /\ signalled \in BOOLEAN
  /\ stops \in [1..Last -> {"none", "running", "done"}]
  /\ serve \in [Servers -> {"none", "begin", "listen", "select", "returned"}]
  /\ assigned \subseteq Servers /\ closing \subseteq Servers
  /\ listener \in [Servers -> {"none", "begin", "bound", "serving", "ended"}]

(* A server whose Start has returned serves nobody, then or later: not     *)
(* when main's Stop came before the server was made, nor when either Stop  *)
(* came between its Start and the goroutine that listens.                  *)
ReturnedServesNobody ==
  \A s \in Servers : serve[s] = "returned" => listener[s] # "serving"

(* The signal ends the process, whichever Stop hangs and wherever main was *)
(* when it came.                                                           *)
ProcessEnds == signalled ~> main = "exited"
=============================================================================
