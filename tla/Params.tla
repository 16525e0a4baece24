------------------------------- MODULE Params -------------------------------
(***************************************************************************)
(* Camera parameters: the manager that checks, sets and announces them     *)
(* (src/internal/camera/manager.go, params_reflect.go), the handlers of    *)
(* the web server and of the ONVIF imaging service that call it, and what  *)
(* one browser shows of them.  A call of Set is two steps: Apply is the    *)
(* section of the manager's mutex, Announce the callback after it.         *)
(*                                                                         *)
(* A value is a record of its Go type and twice its number, so that halves *)
(* can be told from whole numbers.                                         *)
(***************************************************************************)
EXTENDS Integers

CONSTANTS
  Names, Kind,     \* parameters, and for each "float", "uint", "bool", "enum"
  Lowest, Highest, \* ParamRanges; ParamEnums as the numbers of the strings
  Imaging,         \* parameters of SetImagingSettings, in its order
  WebCallers,      \* HTTP requests that are served at the same time
  OnvifCallers,
  FromJSON, FromXML   \* for each, the values that requests may carry for it

VARIABLES
  started,   \* the camera takes parameters
  inForce,   \* the camera's params
  calls,     \* each caller's calls of Set to come, numbered in their order
  pending,   \* the call, if any, each caller has applied and not announced
  shown,     \* the browser's value of each parameter
  initial,   \* what, if anything, sendInitialState has read and not sent
  overtaken  \* history: parameters whose last call was not alone or unheard

vars == <<started, inForce, calls, pending, shown, initial, overtaken>>

Number(n) == [type |-> "number", n |-> n]
NaN       == [type |-> "NaN", n |-> 0]
Bool(n)   == [type |-> "bool", n |-> n]
String(n) == [type |-> "string", n |-> n]

Callers == WebCallers \union OnvifCallers

Between(p, n) == Lowest[p] <= n /\ n <= Highest[p]

\* Mutant: the maximum is left out.
ValidateMinimum(p, v) ==
  IF Kind[p] = "enum" THEN v.type = "string" /\ Between(p, v.n)
                      ELSE v.type # "string" /\ Lowest[p] <= v.n

\* Both comparisons with NaN are false: it is within every range.
Validate(p, v) ==
  IF Kind[p] = "enum" THEN v.type = "string" /\ Between(p, v.n)
                      ELSE v.type # "string" /\ (v = NaN \/ Between(p, v.n))

\* setParamValue takes no bool for a number.
Settable(p, v) == Kind[p] \in {"float", "uint"} => v.type # "bool"

\* What it makes of the value: uint64(v) cuts off, and is 0 for NaN once it
\* is a uint32; v # 0 holds for NaN.
Stored(p, v) ==
  CASE Kind[p] = "uint" -> Number(2 * (v.n \div 2))
    [] Kind[p] = "bool" -> Bool(IF v.type # "NaN" /\ v.n = 0 THEN 0 ELSE 2)
    [] OTHER -> v

Init ==
  /\ started = TRUE
  /\ inForce = [p \in Names |-> Stored(p,
                  IF Kind[p] = "enum" THEN String(Lowest[p])
                                      ELSE Number(Lowest[p]))]
  /\ calls = [c \in Callers |-> {}] /\ pending = [c \in Callers |-> {}]
  /\ shown = inForce /\ initial = {} /\ overtaken = {}

Call(i, p, v) == [at |-> i, name |-> p, value |-> v]
Idle(c) == calls[c] = {} /\ pending[c] = {}
IsPending(p) == \E c \in Callers : \E k \in pending[c] : k.name = p

\* Another call has yet to announce p, or a browser is about to be sent it.
Contended(p) == IsPending(p) \/ \E r \in initial : r.name = p

----------------------------------------------------------------------------
\* handlePostCameraParam: one call.
PostParam(c, p, v) ==
  /\ Idle(c) /\ calls' = [calls EXCEPT ![c] = {Call(1, p, v)}]
  /\ UNCHANGED <<started, inForce, pending, shown, initial, overtaken>>

\* handleSetImagingSettings: a call for each setting that is given.
SetImagingSettings(c, given, value) ==
  /\ Idle(c)
  /\ calls' = [calls EXCEPT ![c] =
       {Call(i, Imaging[i], value[Imaging[i]]) :
          i \in {j \in DOMAIN Imaging : Imaging[j] \in given}}]
  /\ UNCHANGED <<started, inForce, pending, shown, initial, overtaken>>

\* A call of Set that went well, up to the unlock.
Applied(c, call) ==
  /\ pending' = [pending EXCEPT ![c] = {call}]
  /\ calls' = [calls EXCEPT ![c] = @ \ {call}]
  /\ overtaken' = IF Contended(call.name) THEN overtaken \union {call.name}
                                          ELSE overtaken \ {call.name}

\* A call that fails ends the request.
Failed(c) ==
  calls' = [calls EXCEPT ![c] = {}] /\ UNCHANGED <<inForce, pending, overtaken>>

Due(c, call) ==
  call \in calls[c] /\ pending[c] = {} /\ \A k \in calls[c] : call.at <= k.at

\* Mutant: the answer of the camera is not looked at.
ApplyUnchecked(c) ==
  /\ \E call \in calls[c] : LET p == call.name  v == call.value IN
     /\ Due(c, call)
     /\ IF Validate(p, v)
          THEN /\ inForce' = IF started /\ Settable(p, v)
                               THEN [inForce EXCEPT ![p] = Stored(p, v)]
                               ELSE inForce
               /\ Applied(c, call)
          ELSE Failed(c)
  /\ UNCHANGED <<started, shown, initial>>

\* Set, up to the unlock.
Apply(c) ==
  /\ \E call \in calls[c] : LET p == call.name  v == call.value IN
     /\ Due(c, call)
     /\ IF Validate(p, v) /\ started /\ Settable(p, v)
          THEN inForce' = [inForce EXCEPT ![p] = Stored(p, v)] /\ Applied(c, call)
          ELSE Failed(c)
  /\ UNCHANGED <<started, shown, initial>>

\* The callback: the event carries the value that was asked for.  It is lost
\* when the hub's queue is full, and a NaN has no JSON.
Announce(c) ==
  /\ pending' = [pending EXCEPT ![c] = {}]
  /\ \E k \in pending[c] :
       \/ /\ k.value # NaN /\ shown' = [shown EXCEPT ![k.name] = k.value]
          /\ UNCHANGED overtaken
       \/ overtaken' = overtaken \union {k.name} /\ UNCHANGED shown
  /\ UNCHANGED <<started, inForce, calls, initial>>

\* sendInitialState, when a browser connects (again): reads one parameter
\* after the other and sends each; a NaN makes an empty message.
ReadInitial(p) ==
  /\ initial = {} /\ initial' = {[name |-> p, value |-> inForce[p]]}
  /\ UNCHANGED <<started, inForce, calls, pending, shown, overtaken>>

SendInitial ==
  /\ initial' = {}
  /\ \E r \in initial :
       shown' = IF r.value = NaN THEN shown ELSE [shown EXCEPT ![r.name] = r.value]
  /\ UNCHANGED <<started, inForce, calls, pending, overtaken>>

\* After its Stop the camera takes no parameter.
CameraStops ==
  /\ started /\ started' = FALSE
  /\ UNCHANGED <<inForce, calls, pending, shown, initial, overtaken>>

Next ==
  \/ \E c \in WebCallers, p \in Names : \E v \in FromJSON[p] : PostParam(c, p, v)
  \/ \E c \in OnvifCallers, given \in SUBSET {Imaging[i] : i \in DOMAIN Imaging} :
       \E value \in [given -> UNION {FromXML[p] : p \in given}] :
         /\ \A p \in given : value[p] \in FromXML[p]
         /\ SetImagingSettings(c, given, value)
  \/ \E c \in Callers : Apply(c) \/ Announce(c)
  \/ \E p \in Names : ReadInitial(p)
  \/ SendInitial \/ CameraStops

Spec == Init /\ [][Next]_vars

----------------------------------------------------------------------------
(* What is in force is of the parameter's type and in its range, or the    *)
(* NaN that the range check lets through.                                  *)
InForceOK ==
  \A p \in Names : LET v == inForce[p] IN
    CASE Kind[p] = "float" -> v = NaN \/ (v.type = "number" /\ Between(p, v.n))
      [] Kind[p] = "uint" -> /\ v.type = "number" /\ v.n % 2 = 0
                             /\ v.n = 0 \/ Between(p, v.n)
      [] Kind[p] = "bool" -> v \in {Bool(0), Bool(2)}
      [] Kind[p] = "enum" -> v.type = "string" /\ Between(p, v.n)

(* "Real-time parameter ... updates without polling" (README.md:95): the   *)
(* browser shows what is in force, except while an event is on its way,    *)
(* and for a parameter two calls or a call and a browser that connects     *)
(* raced for, or whose last event was lost.  Requests that fail half way   *)
(* are no exception.                                                       *)
ShownIsInForce ==
  \A p \in Names :
    p \in overtaken \/ IsPending(p) \/ Stored(p, shown[p]) = inForce[p]
=============================================================================
