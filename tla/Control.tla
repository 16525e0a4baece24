------------------------------ MODULE Control ------------------------------
(***************************************************************************)
(* What main wires together, in one specification: the hub with callers of *)
(* every kind, the hub as main uses it between the camera and its          *)
(* consumers, the parameters and presets with their callers and a browser, *)
(* and the life of the process.  part, which never changes, says which of  *)
(* them moves in a behaviour.                                              *)
(***************************************************************************)
EXTENDS Delivery

CONSTANTS
  Names, Kind, Lowest, Highest, Imaging, FromJSON, FromXML,   \* of Params
  Numbered, Named, Places, Home,                              \* of Presets
  WebCallers, OnvifCallers,
  Tuned      \* bound: the parameters of the requests of a behaviour are these
             \* or the others

VARIABLES
  part,
  started, inForce, calls, pending, shown, initial, overtaken,
  position, presets, request, told, listed, lost,
  stage, step, terminated, stops, serve, assigned, closing, listener

Callers == WebCallers \union OnvifCallers

Settings == INSTANCE Params
PTZ      == INSTANCE Presets WITH Auto <- Numbered
Process  == INSTANCE Shutdown WITH main <- stage, signalled <- terminated

\* A value of a request: a NaN has no number.
Value ==
  {v \in [type : {"number", "NaN", "bool", "string"}, n : Int] :
     v.type = "NaN" => v.n = 0}

\* The tables of manager.go: ranges and enumerations are not empty, and those
\* of integers are bounded by integers.
ParamsAssumption ==
  /\ Kind \in [Names -> {"float", "uint", "bool", "enum"}]
  /\ Lowest \in [Names -> Int] /\ Highest \in [Names -> Int]
  /\ \A p \in Names : Lowest[p] <= Highest[p]
  /\ \A p \in Names : Kind[p] = "uint" => Lowest[p] % 2 = 0
  /\ DOMAIN Imaging \subseteq Nat
  /\ \A i \in DOMAIN Imaging : Imaging[i] \in Names

\* Whatever a request carries is a value.
RequestAssumption ==
  /\ FromJSON \in [Names -> SUBSET Value] /\ FromXML \in [Names -> SUBSET Value]

ASSUME ControlAssumption ==
  ParamsAssumption /\ RequestAssumption /\ Home \in Places

SettingVars == <<started, inForce, calls, pending, shown, initial, overtaken>>
PTZVars     == <<position, presets, request, told, listed, lost>>
ProcessVars == <<stage, step, terminated, stops, serve, assigned, closing,
                 listener>>
all == <<part, vars, deliveryVars, SettingVars, PTZVars, ProcessVars>>

Parts == {"hub", "delivery", "settings", "switches", "presets", "process"}

ControlInit ==
  part \in Parts /\ DeliveryInit /\ Settings!Init /\ PTZ!Init /\ Process!Init

\* The requests of a behaviour are about one of two groups of parameters.
OneGroup ==
  LET group == IF part = "settings" THEN Tuned ELSE Names \ Tuned IN
  /\ \A c \in Callers : \A call \in calls'[c] : call.name \in group
  /\ \A r \in initial' : r.name \in group

ControlNext ==
  /\ UNCHANGED part
  /\ CASE part = "hub" -> Next /\ UNCHANGED deliveryVars
       [] part = "delivery" -> DeliveryNext
       [] OTHER -> UNCHANGED <<vars, deliveryVars>>
  /\ IF part \in {"settings", "switches"} THEN Settings!Next /\ OneGroup
                                          ELSE UNCHANGED SettingVars
  /\ IF part = "presets" THEN PTZ!Next ELSE UNCHANGED PTZVars
  /\ IF part = "process" THEN Process!Next ELSE UNCHANGED ProcessVars

\* What AUHub, Delivery and Shutdown assume, each of the part that moves.
ControlFairness ==
  /\ Fairness
  /\ \A n \in Subscribers :
       WF_vars(part = "delivery" /\ signalled /\ ContextDone(n))
  /\ WF_deliveryVars(part = "delivery" /\ MainStep)
  /\ WF_deliveryVars(part = "delivery" /\ ParserStep)
  /\ WF_ProcessVars(part = "process" /\ Process!MainStep)
  /\ \A s \in Process!Servers :
       /\ WF_ProcessVars(part = "process" /\ Process!Running /\ Process!ServeStep(s))
       /\ WF_ProcessVars(part = "process" /\ Process!Running /\ Process!ListenerStep(s))

ControlSpec == ControlInit /\ [][ControlNext]_all /\ ControlFairness

----------------------------------------------------------------------------
(* The properties of the instances, under names of this module; those of   *)
(* AUHub and Delivery keep theirs.                                         *)

\* Type correctness of every part.
ControlTypeOK ==
  /\ TypeOK /\ DeliveryTypeOK /\ Settings!InForceOK /\ PTZ!TypeOK
  /\ Process!TypeOK

\* The browser shows the parameters in force (manager.go, imaging.go).
ShownIsInForce == Settings!ShownIsInForce

\* Every change of the presets is told to the browser, unless its event is
\* dropped (state.go, ws.go).
ListIsCurrent == PTZ!ListIsCurrent

\* A server whose Start returned serves nobody (web.go, server.go).
ReturnedServesNobody == Process!ReturnedServesNobody

\* The signal ends the process, whichever Stop hangs, and the goroutines
\* between camera and consumers end once the camera has closed (main.go).
ShutdownCompletes == Process!ProcessEnds /\ PipelineEnds
=============================================================================
