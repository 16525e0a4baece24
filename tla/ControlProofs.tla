--------------------------- MODULE ControlProofs ---------------------------
(***************************************************************************)
(* What the run of Control checks, for any parameters, presets, callers    *)
(* and values, and any number of them.  Each part has an inductive         *)
(* invariant of its own, and the steps of the others leave it alone.       *)
(***************************************************************************)
EXTENDS Control, DeliveryProofs

Calls  == [at : Nat, name : Names, value : Value]
Shown  == [name : Names, value : Value]

SettingsType ==
  /\ inForce \in [Names -> Value] /\ shown \in [Names -> Value]
  /\ calls \in [Callers -> SUBSET Calls]
  /\ pending \in [Callers -> SUBSET Calls]
  /\ initial \in SUBSET Shown

\* A caller announces a call before it makes the next.
OnePending == \A c \in Callers : \A k, l \in pending[c] : k = l

\* What is stored would be stored as it is.
StoredOnce == \A p \in Names : Settings!Stored(p, inForce[p]) = inForce[p]

\* A parameter nothing raced for has one pending call, whose value is in force.
PendingInForce ==
  \A c \in Callers : \A k \in pending[c] :
    k.name \notin overtaken =>
      /\ Settings!Stored(k.name, k.value) = inForce[k.name]
      /\ \A d \in Callers : \A l \in pending[d] :
           l.name = k.name => d = c /\ l = k

InitialInForce ==
  \A r \in initial : r.name \notin overtaken => r.value = inForce[r.name]

SettingsInv ==
  /\ SettingsType /\ OnePending /\ StoredOnce /\ PendingInForce
  /\ InitialInForce /\ Settings!ShownIsInForce

(* A value that was stored is stored unchanged: cutting off, and making a  *)
(* bool of a number, are idempotent.                                       *)
LEMMA StoredTwice ==
  ASSUME NEW p \in Names, NEW v \in Value
  PROVE  /\ Settings!Stored(p, v) \in Value
         /\ Settings!Stored(p, Settings!Stored(p, v)) = Settings!Stored(p, v)
<1>1. v.n \in Int
  BY DEF Value
<1>2. CASE Kind[p] = "uint"
  <2>1. Settings!Stored(p, v) = Settings!Number(2 * (v.n \div 2))
    BY <1>2 DEF Settings!Stored
  <2>2. 2 * (v.n \div 2) \in Int /\ (2 * (v.n \div 2)) \div 2 = v.n \div 2
    BY <1>1
  <2>3. Settings!Stored(p, Settings!Number(2 * (v.n \div 2)))
          = Settings!Number(2 * ((2 * (v.n \div 2)) \div 2))
    BY <1>2 DEF Settings!Stored, Settings!Number
  <2>4. Settings!Number(2 * (v.n \div 2)) \in Value
    BY <2>2 DEF Settings!Number, Value
  <2> QED
    BY <2>1, <2>2, <2>3, <2>4
<1>3. CASE Kind[p] = "bool"
  <2>1. Settings!Stored(p, v) \in {Settings!Bool(0), Settings!Bool(2)}
    BY <1>3 DEF Settings!Stored
  <2>2. /\ Settings!Stored(p, Settings!Bool(0)) = Settings!Bool(0)
        /\ Settings!Stored(p, Settings!Bool(2)) = Settings!Bool(2)
    BY <1>3 DEF Settings!Stored, Settings!Bool
  <2>3. Settings!Bool(0) \in Value /\ Settings!Bool(2) \in Value
    BY DEF Settings!Bool, Value
  <2> QED
    BY <2>1, <2>2, <2>3
<1>4. CASE Kind[p] \notin {"uint", "bool"}
  <2>1. \A w : Settings!Stored(p, w) = w
    BY <1>4 DEF Settings!Stored
  <2> QED
    BY <2>1
<1> QED
  BY <1>2, <1>3, <1>4

(* At the start everything is in force that is shown.                      *)
LEMMA InitSettings == ASSUME Settings!Init PROVE SettingsInv
<1>1. \A p \in Names :
        (IF Kind[p] = "enum" THEN Settings!String(Lowest[p])
                            ELSE Settings!Number(Lowest[p])) \in Value
  BY ControlAssumption
     DEF ControlAssumption, ParamsAssumption, Settings!String,
         Settings!Number, Value
<1>2. SettingsType /\ StoredOnce
  BY <1>1, StoredTwice DEF Settings!Init, SettingsType, StoredOnce,
                           Settings!Callers, Callers
<1>3. shown = inForce /\ initial = {} /\ \A c \in Callers : pending[c] = {}
  BY DEF Settings!Init, Settings!Callers, Callers
<1> QED
  BY <1>2, <1>3 DEF SettingsInv, OnePending, StoredOnce, PendingInForce,
                    InitialInForce, Settings!ShownIsInForce

(* A call that is applied is either raced for, or the only one that has    *)
(* yet to be announced.                                                    *)
LEMMA ApplyPreserves ==
  ASSUME SettingsInv, NEW c \in Callers, Settings!Apply(c)
  PROVE  SettingsInv'
<1> USE DEF SettingsInv
<1>1. PICK call \in calls[c] :
        /\ Settings!Due(c, call)
        /\ \/ /\ Settings!Validate(call.name, call.value)
              /\ Settings!Settable(call.name, call.value)
              /\ inForce' = [inForce EXCEPT ![call.name] =
                               Settings!Stored(call.name, call.value)]
              /\ Settings!Applied(c, call)
           \/ Settings!Failed(c)
  BY DEF Settings!Apply
<1>2. shown' = shown /\ initial' = initial
  BY DEF Settings!Apply
<1>3. call \in Calls /\ call.name \in Names /\ call.value \in Value
  BY <1>1 DEF SettingsType, Calls
<1>4. CASE Settings!Failed(c)
  <2>1. UNCHANGED <<inForce, pending, overtaken>>
    BY <1>4 DEF Settings!Failed
  <2>2. calls' \in [Callers -> SUBSET Calls]
    BY <1>4 DEF Settings!Failed, SettingsType
  <2> QED
    BY <1>2, <2>1, <2>2
       DEF SettingsType, OnePending, StoredOnce, PendingInForce,
           InitialInForce, Settings!ShownIsInForce, Settings!IsPending,
           Settings!Callers, Callers
<1>5. CASE /\ inForce' = [inForce EXCEPT ![call.name] =
                              Settings!Stored(call.name, call.value)]
           /\ Settings!Applied(c, call)
  <2> DEFINE p == call.name
  <2>1. /\ inForce'[p] = Settings!Stored(p, call.value)
        /\ \A q \in Names : q # p => inForce'[q] = inForce[q]
    BY <1>3, <1>5 DEF SettingsType
  <2>2. /\ pending'[c] = {call} /\ pending[c] = {}
        /\ \A d \in Callers : d # c => pending'[d] = pending[d]
    BY <1>1, <1>5 DEF SettingsType, Settings!Applied, Settings!Due
  <2>3. SettingsType'
    <3>1. inForce' \in [Names -> Value]
      BY <1>3, <1>5, StoredTwice DEF SettingsType
    <3>2. /\ calls' \in [Callers -> SUBSET Calls]
          /\ pending' \in [Callers -> SUBSET Calls]
      BY <1>3, <1>5 DEF SettingsType, Settings!Applied
    <3> QED
      BY <1>2, <3>1, <3>2 DEF SettingsType
  <2>4. StoredOnce'
    BY <1>3, <2>1, StoredTwice DEF StoredOnce
  <2>5. \A q \in Names : q # p => (q \in overtaken' <=> q \in overtaken)
    BY <1>5 DEF Settings!Applied
  <2>6. p \notin overtaken' => ~Settings!Contended(p)
    BY <1>5 DEF Settings!Applied
  <2>7. PendingInForce'
    <3> SUFFICES ASSUME NEW d \in Callers, NEW k \in pending'[d],
                        k.name \notin overtaken'
                 PROVE  /\ Settings!Stored(k.name, k.value) = inForce'[k.name]
                        /\ \A e \in Callers : \A l \in pending'[e] :
                             l.name = k.name => e = d /\ l = k
      BY DEF PendingInForce
    <3>0. k.name \in Names
      BY <2>3 DEF SettingsType, Calls
    <3>1. CASE k.name = p
      <4>1. \A e \in Callers : \A l \in pending[e] : l.name # p
        BY <2>6, <3>1 DEF Settings!Contended, Settings!IsPending,
                          Settings!Callers, Callers
      <4>2. \A e \in Callers : \A l \in pending'[e] :
              l.name = p => e = c /\ l = call
        BY <2>2, <4>1
      <4>3. d = c /\ k = call
        BY <3>1, <4>2
      <4> QED
        BY <2>1, <4>2, <4>3
    <3>2. CASE k.name # p
      <4>1. d # c /\ k \in pending[d]
        BY <2>2, <3>2
      <4>2. k.name \notin overtaken
        BY <2>5, <3>0, <3>2
      <4>3. \A e \in Callers : \A l \in pending'[e] :
              l.name = k.name => l \in pending[e]
        BY <2>2, <3>2
      <4> QED
        BY <2>1, <3>0, <3>2, <4>1, <4>2, <4>3 DEF PendingInForce
    <3> QED
      BY <3>1, <3>2
  <2>8. InitialInForce'
    <3> SUFFICES ASSUME NEW r \in initial', r.name \notin overtaken'
                 PROVE  r.value = inForce'[r.name]
      BY DEF InitialInForce
    <3>1. r \in initial /\ r.name \in Names
      BY <1>2 DEF SettingsType, Shown
    <3>2. r.name # p
      BY <2>6, <3>1 DEF Settings!Contended
    <3> QED
      BY <2>1, <2>5, <3>1, <3>2 DEF InitialInForce
  <2>9. Settings!ShownIsInForce'
    <3> SUFFICES ASSUME NEW q \in Names, q \notin overtaken',
                        ~Settings!IsPending(q)'
                 PROVE  Settings!Stored(q, shown'[q]) = inForce'[q]
      BY DEF Settings!ShownIsInForce
    <3>1. q # p
      BY <2>2 DEF Settings!IsPending,
                  Settings!Callers, Callers
    <3>2. ~Settings!IsPending(q)
      BY <2>2 DEF Settings!IsPending,
                  Settings!Callers, Callers
    <3> QED
      BY <1>2, <2>1, <2>5, <3>1, <3>2 DEF Settings!ShownIsInForce
  <2>10. OnePending'
    BY <2>2 DEF OnePending
  <2> QED
    BY <2>3, <2>4, <2>7, <2>8, <2>9, <2>10
<1> QED
  BY <1>1, <1>4, <1>5

(* An event that is sent shows what is in force, one that is lost shows    *)
(* that the parameter may be out of date.                                  *)
LEMMA AnnouncePreserves ==
  ASSUME SettingsInv, NEW c \in Callers, Settings!Announce(c)
  PROVE  SettingsInv'
<1> USE DEF SettingsInv
<1>1. PICK k \in pending[c] :
        \/ /\ k.value # Settings!NaN
           /\ shown' = [shown EXCEPT ![k.name] = k.value]
           /\ UNCHANGED overtaken
        \/ overtaken' = overtaken \union {k.name} /\ UNCHANGED shown
  BY DEF Settings!Announce
<1>2. /\ pending' = [pending EXCEPT ![c] = {}]
      /\ UNCHANGED <<inForce, calls, initial>>
  BY DEF Settings!Announce
<1>3. k.name \in Names /\ k.value \in Value
  BY DEF SettingsType, Calls
<1>4. pending'[c] = {} /\ \A d \in Callers : d # c => pending'[d] = pending[d]
  BY <1>2 DEF SettingsType
<1>5. \A d \in Callers : pending'[d] \subseteq pending[d]
  BY <1>4
<1>6. overtaken \subseteq overtaken'
  BY <1>1
<1>7. SettingsType'
  BY <1>1, <1>2, <1>3 DEF SettingsType
<1>8. StoredOnce' /\ InitialInForce'
  BY <1>2, <1>6 DEF StoredOnce, InitialInForce
<1>9. PendingInForce'
  BY <1>2, <1>5, <1>6 DEF PendingInForce
<1>10. Settings!ShownIsInForce'
  <2> SUFFICES ASSUME NEW q \in Names, q \notin overtaken',
                      ~Settings!IsPending(q)'
               PROVE  Settings!Stored(q, shown'[q]) = inForce'[q]
    BY DEF Settings!ShownIsInForce
  <2>1. q \notin overtaken
    BY <1>6
  <2>2. CASE q = k.name
    <3>1. shown'[q] = k.value
      BY <1>1, <1>3, <2>2 DEF SettingsType
    <3>2. Settings!Stored(q, k.value) = inForce[q]
      BY <2>1, <2>2 DEF PendingInForce
    <3> QED
      BY <1>2, <3>1, <3>2
  <2>3. CASE q # k.name
    <3>1. shown'[q] = shown[q]
      BY <1>1, <2>3 DEF SettingsType
    <3>2. ~Settings!IsPending(q)
      <4> SUFFICES ASSUME NEW d \in Callers, NEW l \in pending[d], l.name = q
                   PROVE  FALSE
        BY DEF Settings!IsPending,
               Settings!Callers, Callers
      <4>1. d = c
        BY <1>4 DEF Settings!IsPending,
                    Settings!Callers, Callers
      <4>2. l = k
        BY <4>1 DEF OnePending
      <4> QED
        BY <2>3, <4>2
    <3> QED
      BY <1>2, <2>1, <3>1, <3>2 DEF Settings!ShownIsInForce
  <2> QED
    BY <2>2, <2>3
<1>11. OnePending'
  BY <1>5 DEF OnePending
<1> QED
  BY <1>7, <1>8, <1>9, <1>10, <1>11

(* A browser that connects is sent what is in force, unless a call of Set  *)
(* came between the reading and the sending.                               *)
LEMMA InitialPreserves ==
  ASSUME SettingsInv,
         Settings!SendInitial \/ \E p \in Names : Settings!ReadInitial(p)
  PROVE  SettingsInv'
<1> USE DEF SettingsInv
<1>1. UNCHANGED <<inForce, calls, pending, overtaken>>
  BY DEF Settings!ReadInitial, Settings!SendInitial
<1>2. OnePending' /\ StoredOnce' /\ PendingInForce'
  BY <1>1 DEF OnePending, StoredOnce, PendingInForce
<1>3. CASE Settings!SendInitial
  <2>1. PICK r \in initial :
          shown' = IF r.value = Settings!NaN THEN shown
                                    ELSE [shown EXCEPT ![r.name] = r.value]
    BY <1>3 DEF Settings!SendInitial
  <2>2. initial' = {} /\ r.name \in Names /\ r.value \in Value
    BY <1>3 DEF Settings!SendInitial, SettingsType, Shown
  <2>3. SettingsType' /\ InitialInForce'
    BY <1>1, <2>1, <2>2 DEF SettingsType, InitialInForce
  <2>4. Settings!ShownIsInForce'
    <3> SUFFICES ASSUME NEW q \in Names, q \notin overtaken,
                        ~Settings!IsPending(q)
                 PROVE  Settings!Stored(q, shown'[q]) = inForce[q]
      BY <1>1 DEF Settings!ShownIsInForce, Settings!IsPending,
                  Settings!Callers, Callers
    <3>1. shown'[q] = shown[q] \/ (q = r.name /\ shown'[q] = r.value)
      BY <2>1, <2>2 DEF SettingsType
    <3>2. q = r.name => Settings!Stored(q, r.value) = inForce[q]
      BY DEF InitialInForce, StoredOnce
    <3> QED
      BY <3>1, <3>2 DEF Settings!ShownIsInForce
  <2> QED
    BY <1>2, <2>3, <2>4
<1>4. ASSUME NEW p \in Names, Settings!ReadInitial(p) PROVE SettingsInv'
  <2>1. /\ initial' = {[name |-> p, value |-> inForce[p]]}
        /\ shown' = shown
    BY <1>4 DEF Settings!ReadInitial
  <2>2. SettingsType' /\ InitialInForce'
    BY <1>1, <2>1 DEF SettingsType, Shown, InitialInForce
  <2>3. Settings!ShownIsInForce'
    BY <1>1, <2>1 DEF Settings!ShownIsInForce, Settings!IsPending,
                      Settings!Callers, Callers
  <2> QED
    BY <1>2, <2>2, <2>3
<1> QED
  BY <1>3, <1>4

(* A request that arrives, and a camera that stops, change none of it.     *)
LEMMA RequestPreserves ==
  ASSUME SettingsInv, calls' \in [Callers -> SUBSET Calls],
         UNCHANGED <<inForce, pending, shown, initial, overtaken>>
  PROVE  SettingsInv'
BY DEF SettingsInv, SettingsType, OnePending, StoredOnce, PendingInForce,
       InitialInForce, Settings!ShownIsInForce, Settings!IsPending,
       Settings!Callers, Callers

(* Every step of the callers, the camera and the browser preserves it.     *)
LEMMA StepSettings ==
  ASSUME SettingsInv, [Settings!Next]_Settings!vars
  PROVE  SettingsInv'
<1>1. ASSUME NEW c \in WebCallers, NEW p \in Names, NEW v \in FromJSON[p],
             Settings!PostParam(c, p, v)
      PROVE  SettingsInv'
  <2>1. v \in Value /\ c \in Callers
    BY <1>1, ControlAssumption
       DEF ControlAssumption, RequestAssumption, Callers
  <2>2. Settings!Call(1, p, v) \in Calls
    BY <2>1 DEF Settings!Call, Calls
  <2>3. calls' \in [Callers -> SUBSET Calls]
    BY <1>1, <2>2 DEF Settings!PostParam, SettingsInv, SettingsType
  <2> QED
    BY <1>1, <2>3, RequestPreserves DEF Settings!PostParam
<1>2. ASSUME NEW c \in OnvifCallers,
             NEW given \in SUBSET {Imaging[i] : i \in DOMAIN Imaging},
             NEW value \in [given -> UNION {FromXML[p] : p \in given}],
             \A p \in given : value[p] \in FromXML[p],
             Settings!SetImagingSettings(c, given, value)
      PROVE  SettingsInv'
  <2>1. \A p \in given : value[p] \in Value
    BY <1>2, ControlAssumption
       DEF ControlAssumption, ParamsAssumption, RequestAssumption
  <2>2. \A i \in DOMAIN Imaging : Imaging[i] \in given =>
          Settings!Call(i, Imaging[i], value[Imaging[i]]) \in Calls
    BY <2>1, ControlAssumption
       DEF ControlAssumption, ParamsAssumption, Settings!Call, Calls
  <2>3. calls' \in [Callers -> SUBSET Calls]
    BY <1>2, <2>2 DEF Settings!SetImagingSettings, SettingsInv, SettingsType
  <2> QED
    BY <1>2, <2>3, RequestPreserves DEF Settings!SetImagingSettings
<1>3. CASE Settings!CameraStops \/ UNCHANGED Settings!vars
  BY <1>3, RequestPreserves
     DEF Settings!CameraStops, Settings!vars, SettingsInv, SettingsType
<1>4. ASSUME NEW c \in Callers, Settings!Apply(c) \/ Settings!Announce(c)
      PROVE  SettingsInv'
  BY <1>4, ApplyPreserves, AnnouncePreserves
<1> QED
  BY <1>1, <1>2, <1>3, <1>4, InitialPreserves
     DEF Settings!Next, Settings!Callers, Callers

\* What a parameter may have in force.
Fits(p, v) ==
  CASE Kind[p] = "float" ->
         v = Settings!NaN \/ (v.type = "number" /\ Settings!Between(p, v.n))
    [] Kind[p] = "uint" -> /\ v.type = "number" /\ v.n % 2 = 0
                           /\ v.n = 0 \/ Settings!Between(p, v.n)
    [] Kind[p] = "bool" -> v \in {Settings!Bool(0), Settings!Bool(2)}
    [] Kind[p] = "enum" -> v.type = "string" /\ Settings!Between(p, v.n)

(* What passes both checks is in range after the conversion: cutting off   *)
(* does not go below a whole minimum.                                      *)
LEMMA StoredFits ==
  ASSUME NEW p \in Names, NEW v \in Value,
         Settings!Validate(p, v), Settings!Settable(p, v)
  PROVE  Fits(p, Settings!Stored(p, v))
<1>1. /\ Kind[p] \in {"float", "uint", "bool", "enum"}
      /\ Lowest[p] \in Int /\ Highest[p] \in Int
      /\ Kind[p] = "uint" => Lowest[p] % 2 = 0
  BY ControlAssumption DEF ControlAssumption, ParamsAssumption
<1>2. /\ v.n \in Int /\ v.type \in {"number", "NaN", "bool", "string"}
      /\ v.type = "NaN" => v = Settings!NaN
  BY DEF Value, Settings!NaN
<1>3. CASE Kind[p] = "float"
  BY <1>2, <1>3
     DEF Fits, Settings!Stored, Settings!Validate, Settings!Settable
<1>4. CASE Kind[p] = "uint"
  <2> DEFINE even == 2 * (v.n \div 2)
  <2>1. Settings!Stored(p, v) = Settings!Number(even)
    BY <1>4 DEF Settings!Stored
  <2>2. even \in Int /\ even % 2 = 0 /\ even <= v.n /\ v.n - 1 <= even
    BY <1>2
  <2>3. v = Settings!NaN \/ Settings!Between(p, v.n)
    BY <1>4 DEF Settings!Validate
  <2>4. v = Settings!NaN => even = 0
    BY <2>2 DEF Settings!NaN
  <2>5. Settings!Between(p, v.n) => Settings!Between(p, even)
    BY <1>1, <1>2, <1>4, <2>2 DEF Settings!Between
  <2> HIDE DEF even
  <2>6. /\ Settings!Number(even).type = "number"
        /\ Settings!Number(even).n = even
    BY DEF Settings!Number
  <2> QED
    BY <1>4, <2>1, <2>2, <2>3, <2>4, <2>5, <2>6 DEF Fits
<1>5. CASE Kind[p] = "bool"
  BY <1>5 DEF Fits, Settings!Stored
<1>6. CASE Kind[p] = "enum"
  BY <1>6 DEF Fits, Settings!Stored, Settings!Validate
<1> QED
  BY <1>1, <1>3, <1>4, <1>5, <1>6

(* The lowest value of each parameter is one it may have.                  *)
LEMMA InitInForce == Settings!Init => Settings!InForceOK
<1> SUFFICES ASSUME Settings!Init, NEW p \in Names PROVE Fits(p, inForce[p])
  BY DEF Settings!InForceOK, Fits
<1> DEFINE v == IF Kind[p] = "enum" THEN Settings!String(Lowest[p])
                                    ELSE Settings!Number(Lowest[p])
<1>1. inForce[p] = Settings!Stored(p, v)
  BY DEF Settings!Init
<1>2. v \in Value
  BY ControlAssumption
     DEF ControlAssumption, ParamsAssumption, Value, Settings!String,
         Settings!Number
<1>3. Settings!Validate(p, v) /\ Settings!Settable(p, v)
  BY ControlAssumption
     DEF ControlAssumption, ParamsAssumption, Settings!Validate,
         Settings!Settable, Settings!Between, Settings!String, Settings!Number
<1> QED
  BY <1>1, <1>2, <1>3, StoredFits

(* Only Apply sets a parameter.                                            *)
LEMMA StepInForce ==
  ASSUME SettingsInv, Settings!InForceOK, [Settings!Next]_Settings!vars
  PROVE  Settings!InForceOK'
<1>1. ASSUME NEW c \in Callers, Settings!Apply(c) PROVE Settings!InForceOK'
  <2> SUFFICES ASSUME NEW p \in Names PROVE Fits(p, inForce'[p])
    BY DEF Settings!InForceOK, Fits, Settings!Between
  <2>1. Fits(p, inForce[p])
    BY DEF Settings!InForceOK, Fits
  <2>2. PICK call \in calls[c] :
          \/ /\ Settings!Validate(call.name, call.value)
             /\ Settings!Settable(call.name, call.value)
             /\ inForce' = [inForce EXCEPT ![call.name] =
                              Settings!Stored(call.name, call.value)]
          \/ inForce' = inForce
    BY <1>1 DEF Settings!Apply, Settings!Failed
  <2>3. call.name \in Names /\ call.value \in Value
    BY <1>1 DEF SettingsInv, SettingsType, Calls
  <2>4. \/ inForce'[p] = inForce[p]
        \/ /\ p = call.name
           /\ Settings!Validate(p, call.value)
           /\ Settings!Settable(p, call.value)
           /\ inForce'[p] = Settings!Stored(p, call.value)
    BY <2>2, <2>3 DEF SettingsInv, SettingsType
  <2> QED
    BY <2>1, <2>3, <2>4, StoredFits
<1>2. ASSUME inForce' = inForce PROVE Settings!InForceOK'
  BY <1>2 DEF Settings!InForceOK
<1>3. (\E c \in Callers : Settings!Apply(c)) \/ inForce' = inForce
  BY DEF Settings!Next, Settings!vars, Settings!PostParam,
         Settings!SetImagingSettings, Settings!Announce, Settings!ReadInitial,
         Settings!SendInitial, Settings!CameraStops, Settings!Callers, Callers
<1> QED
  BY <1>1, <1>2, <1>3

----------------------------------------------------------------------------
(* Presets.  A request that changed the list is at its callback until it   *)
(* has made it, whatever the others do.                                    *)
PresetsInv == PTZ!TypeOK /\ PTZ!ListIsCurrent

(* The browser starts with the list as it is.                              *)
LEMMA InitPresets == PTZ!Init => PresetsInv
<1> SUFFICES ASSUME PTZ!Init PROVE PresetsInv
  OBVIOUS
<1>1. Home \in Places
  BY ControlAssumption DEF ControlAssumption
<1>2. told \in BOOLEAN /\ lost \in BOOLEAN
  BY Zenon DEF PTZ!Init
<1> QED
  BY <1>1, <1>2 DEF PTZ!Init, PTZ!Idle, PresetsInv, PTZ!TypeOK,
                    PTZ!ListIsCurrent

\* The steps of a request, for what comes after them.
PTZSteps ==
  {"idle", "check", "count", "set", "remove", "tell", "find"}

(* A request goes on to a step for a token; the others stay where they are.*)
LEMMA RequestGoesOn ==
  ASSUME PTZ!TypeOK, NEW c \in Callers, NEW s \in PTZSteps,
         NEW t \in PTZ!Tokens \union {PTZ!NoToken}, PTZ!Go(c, s, t)
  PROVE  /\ request' \in [Callers -> [step : PTZSteps,
                                      token : PTZ!Tokens \union {PTZ!NoToken}]]
         /\ request'[c].step = s
         /\ \A d \in Callers : d # c => request'[d] = request[d]
BY DEF PTZ!TypeOK, PTZ!Go, PTZSteps

(* A section that changes the list leaves its request at the callback.     *)
LEMMA ChangePreserves ==
  ASSUME PresetsInv, NEW c \in Callers, PTZ!SetPreset(c) \/ PTZ!RemovePreset(c)
  PROVE  PresetsInv'
<1> DEFINE t == request[c].token
<1>1. /\ t \in PTZ!Tokens \union {PTZ!NoToken} /\ position \in Places
      /\ presets \in [PTZ!Tokens -> Places \union {PTZ!Absent}]
      /\ "tell" \in PTZSteps /\ "idle" \in PTZSteps
  BY DEF PresetsInv, PTZ!TypeOK, PTZSteps
<1>2. UNCHANGED <<position, told, listed, lost>>
  BY DEF PTZ!SetPreset, PTZ!RemovePreset
<1>3. CASE /\ PTZ!Go(c, "tell", t)
           /\ \E p \in Places \union {PTZ!Absent} :
                presets' = [presets EXCEPT ![t] = p]
  <2>1. /\ request' \in [Callers -> [step : PTZSteps,
                                     token : PTZ!Tokens \union {PTZ!NoToken}]]
        /\ request'[c].step = "tell"
    BY <1>1, <1>3, RequestGoesOn DEF PresetsInv
  <2>2. presets' \in [PTZ!Tokens -> Places \union {PTZ!Absent}]
    BY <1>1, <1>3
  <2>3. PTZ!TypeOK'
    BY <1>2, <2>1, <2>2 DEF PresetsInv, PTZ!TypeOK, PTZSteps
  <2> QED
    BY <2>1, <2>3 DEF PresetsInv, PTZ!ListIsCurrent, PTZ!At
<1>4. CASE /\ request[c].step = "remove" /\ PTZ!Go(c, "idle", PTZ!NoToken)
           /\ presets' = presets
  <2>1. /\ request' \in [Callers -> [step : PTZSteps,
                                     token : PTZ!Tokens \union {PTZ!NoToken}]]
        /\ \A d \in Callers : d # c => request'[d] = request[d]
    BY <1>1, <1>4, RequestGoesOn DEF PresetsInv
  <2>2. PTZ!TypeOK'
    BY <1>2, <1>4, <2>1 DEF PresetsInv, PTZ!TypeOK, PTZSteps
  <2>3. \A d \in Callers : PTZ!At(d, "tell") => request'[d].step = "tell"
    BY <1>4, <2>1 DEF PTZ!At
  <2> QED
    BY <1>2, <1>4, <2>2, <2>3 DEF PresetsInv, PTZ!ListIsCurrent, PTZ!At
<1>5. PTZ!SetPreset(c) => PTZ!Go(c, "tell", t)
                          /\ presets' = [presets EXCEPT ![t] = position]
  BY DEF PTZ!SetPreset
<1>6. PTZ!RemovePreset(c) =>
        \/ /\ PTZ!Go(c, "tell", t)
           /\ presets' = [presets EXCEPT ![t] = PTZ!Absent]
        \/ /\ request[c].step = "remove" /\ PTZ!Go(c, "idle", PTZ!NoToken)
           /\ presets' = presets
  BY DEF PTZ!RemovePreset, PTZ!At
<1> QED
  BY <1>1, <1>3, <1>4, <1>5, <1>6

(* A step that leaves the list alone takes no request away from its        *)
(* callback, other than by making it.                                      *)
LEMMA RequestKeepsList ==
  ASSUME PresetsInv, NEW c \in Callers,
         \/ PTZ!Receive(c) \/ PTZ!CheckAbsent(c) \/ PTZ!CountPresets(c)
         \/ PTZ!Tell(c) \/ PTZ!GotoPreset(c)
  PROVE  PresetsInv'
<1>1. /\ PTZ!TypeOK /\ PTZ!NoToken \in PTZ!Tokens \union {PTZ!NoToken}
      /\ request[c].token \in PTZ!Tokens \union {PTZ!NoToken}
  BY DEF PresetsInv, PTZ!TypeOK
<1>2. presets' = presets /\ listed' = listed
  BY DEF PTZ!Receive, PTZ!CheckAbsent, PTZ!CountPresets, PTZ!Tell,
         PTZ!GotoPreset
<1>3. \E s \in PTZSteps : \E t \in PTZ!Tokens \union {PTZ!NoToken} :
        PTZ!Go(c, s, t)
  <2>1. CASE PTZ!Receive(c)
    BY <1>1, <2>1 DEF PTZ!Receive, PTZSteps
  <2>2. CASE PTZ!CheckAbsent(c)
    BY <1>1, <2>2 DEF PTZ!CheckAbsent, PTZSteps
  <2>3. CASE PTZ!CountPresets(c)
    <3> DEFINE n == PTZ!Cardinality(PTZ!Known) + 1
    <3>1. n \in DOMAIN Numbered /\ PTZ!Go(c, "set", Numbered[n])
      BY <2>3 DEF PTZ!CountPresets
    <3> HIDE DEF n
    <3>2. Numbered[n] \in PTZ!Tokens
      BY <3>1 DEF PTZ!Tokens
    <3> QED
      BY <3>1, <3>2 DEF PTZSteps
  <2>4. CASE PTZ!Tell(c) \/ PTZ!GotoPreset(c)
    BY <1>1, <2>4 DEF PTZ!Tell, PTZ!GotoPreset, PTZSteps
  <2> QED
    BY <2>1, <2>2, <2>3, <2>4
<1>4. /\ request' \in [Callers -> [step : PTZSteps,
                                   token : PTZ!Tokens \union {PTZ!NoToken}]]
      /\ \A d \in Callers : d # c => request'[d] = request[d]
  BY <1>1, <1>3, RequestGoesOn
<1>5. position' \in Places
  <2>1. CASE PTZ!GotoPreset(c)
    <3>1. \/ position' = position
          \/ /\ request[c].token \in PTZ!Known
             /\ position' = presets[request[c].token]
      BY <2>1 DEF PTZ!GotoPreset
    <3> QED
      BY <1>1, <3>1 DEF PTZ!TypeOK, PTZ!Known
  <2>2. CASE ~PTZ!GotoPreset(c)
    BY <1>1, <2>2 DEF PTZ!Receive, PTZ!CheckAbsent, PTZ!CountPresets,
                      PTZ!Tell, PTZ!TypeOK
  <2> QED
    BY <2>1, <2>2
<1>6. CASE PTZ!Tell(c)
  <2>1. \/ told' = TRUE /\ lost' = lost
        \/ lost' = TRUE /\ told' = told
    BY <1>6 DEF PTZ!Tell
  <2>2. told' \in BOOLEAN /\ lost' \in BOOLEAN
    BY <1>1, <2>1, Zenon DEF PTZ!TypeOK
  <2> QED
    BY <1>1, <1>2, <1>4, <1>5, <2>1, <2>2
       DEF PresetsInv, PTZ!TypeOK, PTZ!ListIsCurrent, PTZSteps
<1>7. CASE ~PTZ!Tell(c)
  <2>1. told' = told /\ lost' = lost /\ request[c].step # "tell"
    BY <1>7 DEF PTZ!Receive, PTZ!CheckAbsent, PTZ!CountPresets,
                PTZ!GotoPreset, PTZ!At
  <2>2. \A d \in Callers : PTZ!At(d, "tell") => request'[d].step = "tell"
    BY <1>4, <2>1 DEF PTZ!At
  <2> QED
    BY <1>1, <1>2, <1>4, <1>5, <2>1, <2>2
       DEF PresetsInv, PTZ!TypeOK, PTZ!ListIsCurrent, PTZSteps, PTZ!At
<1> QED
  BY <1>6, <1>7

(* Every step of the requests, the camera and the browser preserves it.    *)
LEMMA StepPresets ==
  ASSUME PresetsInv, [PTZ!Next]_PTZ!vars
  PROVE  PresetsInv'
<1>1. CASE PTZ!Move \/ UNCHANGED PTZ!vars
  BY <1>1 DEF PTZ!Move, PTZ!vars, PresetsInv, PTZ!TypeOK, PTZ!ListIsCurrent,
              PTZ!At
<1>2. CASE PTZ!Reload
  <2>1. told' \in BOOLEAN /\ lost' \in BOOLEAN
    BY <1>2, Zenon DEF PTZ!Reload
  <2> QED
    BY <1>2, <2>1
       DEF PTZ!Reload, PresetsInv, PTZ!TypeOK, PTZ!ListIsCurrent, PTZ!At
<1> QED
  BY <1>1, <1>2, ChangePreserves, RequestKeepsList DEF PTZ!Next

----------------------------------------------------------------------------
(* The life of the process.  A server whose Start waits or has returned is *)
(* one that Stop closes; one that is closed serves no more.                *)
ProcessInv ==
  /\ Process!TypeOK
  /\ \A s \in Process!Servers :
       /\ serve[s] \in {"listen", "select", "returned"} => s \in assigned
       /\ listener[s] = "serving" => s \notin closing
       /\ serve[s] = "returned" => s \in closing \/ listener[s] = "ended"

(* At the start no server is made.                                         *)
LEMMA InitProcess == Process!Init => ProcessInv
<1> SUFFICES ASSUME Process!Init PROVE ProcessInv
  OBVIOUS
<1>1. terminated \in BOOLEAN
  BY Zenon DEF Process!Init
<1> QED
  BY <1>1 DEF Process!Init, ProcessInv, Process!TypeOK, Process!Last

(* Stop, by main or by Start, closes the server if it was made.            *)
LEMMA StopKeepsServed ==
  ASSUME ProcessInv, NEW s \in Process!Servers, Process!StopServer(s),
         assigned' = assigned,
         \/ serve' = serve
         \/ /\ serve[s] = "select" /\ serve' = [serve EXCEPT ![s] = "returned"],
         UNCHANGED <<stage, step, terminated>>,
         stops' \in [1..Process!Last -> {"none", "running", "done"}]
  PROVE  ProcessInv'
<1>1. /\ closing \subseteq closing' /\ closing' \subseteq closing \union {s}
      /\ s \in assigned => s \in closing' /\ listener'[s] # "serving"
      /\ \A r \in Process!Servers :
           \/ listener'[r] = listener[r]
           \/ r = s /\ listener[s] = "serving" /\ listener'[s] = "ended"
      /\ listener' \in [Process!Servers ->
                          {"none", "begin", "bound", "serving", "ended"}]
  BY DEF ProcessInv, Process!TypeOK, Process!StopServer, Process!Close
<1>2. /\ serve' \in [Process!Servers ->
                       {"none", "begin", "listen", "select", "returned"}]
      /\ \A r \in Process!Servers :
           serve'[r] = serve[r]
             \/ (r = s /\ serve[s] = "select" /\ serve'[s] = "returned")
  BY DEF ProcessInv, Process!TypeOK
<1>3. Process!TypeOK'
  BY <1>1, <1>2 DEF ProcessInv, Process!TypeOK
<1>4. ASSUME NEW r \in Process!Servers
      PROVE  /\ serve'[r] \in {"listen", "select", "returned"}
                  => r \in assigned'
             /\ listener'[r] = "serving" => r \notin closing'
             /\ serve'[r] = "returned"
                  => r \in closing' \/ listener'[r] = "ended"
  BY <1>1, <1>2 DEF ProcessInv, Process!StopServer
<1> QED
  BY <1>3, <1>4 DEF ProcessInv

(* Start of a server, but for its Stop, and the goroutine that listens.    *)
LEMMA ServePreserves ==
  ASSUME ProcessInv, NEW s \in Process!Servers,
         Process!ServeStep(s) \/ Process!ListenerStep(s)
  PROVE  ProcessInv'
<1>1. CASE Process!SeesDone(s)
  BY <1>1, StopKeepsServed
     DEF Process!SeesDone, Process!Serving, ProcessInv, Process!TypeOK
<1>2. CASE Process!Make(s)
  BY <1>2 DEF Process!Make, Process!Serving, ProcessInv, Process!TypeOK
<1>3. CASE Process!Listen(s)
  BY <1>3 DEF Process!Listen, Process!Serving, ProcessInv, Process!TypeOK
<1>4. CASE Process!SeesEnd(s)
  BY <1>4 DEF Process!SeesEnd, Process!Serving, ProcessInv, Process!TypeOK
<1>5. CASE Process!ListenerStep(s)
  BY <1>5 DEF Process!ListenerStep, ProcessInv, Process!TypeOK
<1> QED
  BY <1>1, <1>2, <1>3, <1>4, <1>5 DEF Process!ServeStep

(* main, the signal and the functions of the shutdown steps.               *)
LEMMA MainPreserves ==
  ASSUME ProcessInv,
         \/ Process!MainStep \/ Process!Signal
         \/ \E k \in 1..Process!Last : Process!StopReturns(k)
  PROVE  ProcessInv'
<1>1. CASE Process!StartWeb \/ Process!StartOnvif
  BY <1>1 DEF Process!StartWeb, Process!StartOnvif, Process!Starting,
              ProcessInv, Process!TypeOK, Process!Servers
<1>2. CASE \/ Process!StartCamera \/ Process!StartRTSP \/ Process!Fatal
           \/ Process!StartHLS \/ Process!StartDiscovery \/ Process!StartRTMP
           \/ Process!AwaitSignal \/ Process!Signal \/ Process!StepBegins
           \/ Process!StepEnds
  <2>1. UNCHANGED <<serve, assigned, closing, listener>>
    BY <1>2 DEF Process!StartCamera, Process!StartRTSP, Process!Fatal,
       Process!StartHLS, Process!StartDiscovery, Process!StartRTMP,
       Process!AwaitSignal, Process!Signal, Process!StepBegins,
       Process!StepEnds, Process!Starting
  <2>2. stage' \in {"camera", "rtsp", "hls", "web", "discovery", "onvif",
                    "rtmp", "signal", "stop", "wait", "exited"}
    BY <1>2 DEF Process!StartCamera, Process!StartRTSP, Process!Fatal,
       Process!StartHLS, Process!StartDiscovery, Process!StartRTMP,
       Process!AwaitSignal, Process!Signal, Process!StepBegins,
       Process!StepEnds, Process!Starting, ProcessInv, Process!TypeOK
  <2>3. terminated' = terminated \/ terminated' = TRUE
    BY <1>2, Zenon DEF Process!StartCamera, Process!StartRTSP, Process!Fatal,
       Process!StartHLS, Process!StartDiscovery, Process!StartRTMP,
       Process!AwaitSignal, Process!Signal, Process!StepBegins,
       Process!StepEnds, Process!Starting
  <2>4. terminated' \in BOOLEAN
    BY <2>3, Zenon DEF ProcessInv, Process!TypeOK
  <2>5. /\ step' \in 1..Process!Last
        /\ stops' \in [1..Process!Last -> {"none", "running", "done"}]
    BY <1>2 DEF Process!StartCamera, Process!StartRTSP, Process!Fatal,
       Process!StartHLS, Process!StartDiscovery, Process!StartRTMP,
       Process!AwaitSignal, Process!Signal, Process!StepBegins,
       Process!StepEnds, Process!Starting, ProcessInv, Process!TypeOK,
       Process!Last
  <2> QED
    BY <2>1, <2>2, <2>4, <2>5 DEF ProcessInv, Process!TypeOK
<1>3. ASSUME NEW k \in 1..Process!Last, Process!StopReturns(k)
      PROVE  ProcessInv'
  <2>1. /\ stops' \in [1..Process!Last -> {"none", "running", "done"}]
        /\ UNCHANGED <<stage, step, terminated, serve, assigned>>
    BY <1>3 DEF Process!StopReturns, ProcessInv, Process!TypeOK
  <2>2. CASE Process!StopOf[k] \in Process!Servers
    BY <1>3, <2>1, <2>2, StopKeepsServed DEF Process!StopReturns
  <2>3. CASE Process!StopOf[k] \notin Process!Servers
    BY <1>3, <2>1, <2>3
       DEF Process!StopReturns, ProcessInv, Process!TypeOK
  <2> QED
    BY <2>2, <2>3
<1> QED
  BY <1>1, <1>2, <1>3 DEF Process!MainStep

(* Every step of the process preserves its invariant.                      *)
LEMMA StepProcess ==
  ASSUME ProcessInv, [Process!Next]_Process!vars
  PROVE  ProcessInv'
<1>1. CASE UNCHANGED Process!vars
  BY <1>1 DEF Process!vars, ProcessInv, Process!TypeOK
<1> QED
  BY <1>1, ServePreserves, MainPreserves DEF Process!Next

----------------------------------------------------------------------------
(* All parts together.  Only where the hub moves alone, with callers of    *)
(* every kind, may somebody write before main has subscribed anything.     *)
ControlInv ==
  /\ IInv /\ DeliveryTypeOK
  /\ IF part = "hub" THEN parser = "none" ELSE DeliveryInv
  /\ SettingsInv /\ Settings!InForceOK
  /\ PresetsInv /\ ProcessInv

(* Every part starts within its invariant.                                 *)
LEMMA InitControl == ControlInit => ControlInv
<1> SUFFICES ASSUME ControlInit PROVE ControlInv
  OBVIOUS
<1>1. DeliveryInv /\ DeliveryTypeOK /\ parser = "none"
  BY InitDelivery, InitDeliveryType DEF ControlInit, DeliveryInit
<1>2. SettingsInv /\ Settings!InForceOK /\ PresetsInv /\ ProcessInv
  BY InitSettings, InitInForce, InitPresets, InitProcess DEF ControlInit
<1> QED
  BY <1>1, <1>2 DEF ControlInv, DeliveryInv

(* A step is one of a part, and leaves the variables of the others alone.  *)
LEMMA ControlParts ==
  ASSUME [ControlNext]_all
  PROVE  /\ part' = part
         /\ \/ part = "hub" /\ [Next]_vars /\ UNCHANGED deliveryVars
            \/ part # "hub" /\ [DeliveryNext]_<<vars, deliveryVars>>
         /\ [Settings!Next]_Settings!vars
         /\ [PTZ!Next]_PTZ!vars
         /\ [Process!Next]_Process!vars
<1>1. UNCHANGED SettingVars => UNCHANGED Settings!vars
  BY DEF SettingVars, Settings!vars
<1>2. UNCHANGED PTZVars => UNCHANGED PTZ!vars
  BY DEF PTZVars, PTZ!vars
<1>3. UNCHANGED ProcessVars => UNCHANGED Process!vars
  BY DEF ProcessVars, Process!vars
<1>4. CASE ControlNext
  <2>1. part' = part
    BY <1>4 DEF ControlNext
  <2>2. [Settings!Next]_Settings!vars
    BY <1>1, <1>4 DEF ControlNext
  <2>3. [PTZ!Next]_PTZ!vars
    BY <1>2, <1>4 DEF ControlNext
  <2>4. [Process!Next]_Process!vars
    BY <1>3, <1>4 DEF ControlNext
  <2>5. \/ part = "hub" /\ [Next]_vars /\ UNCHANGED deliveryVars
        \/ part # "hub" /\ [DeliveryNext]_<<vars, deliveryVars>>
    <3>1. CASE part = "hub"
      BY <1>4, <3>1 DEF ControlNext
    <3>2. CASE part = "delivery"
      BY <1>4, <3>2 DEF ControlNext
    <3>3. CASE part \notin {"hub", "delivery"}
      BY <1>4, <3>3 DEF ControlNext
    <3> QED
      BY <3>1, <3>2, <3>3
  <2> QED
    BY <2>1, <2>2, <2>3, <2>4, <2>5
<1>5. CASE UNCHANGED all
  BY <1>1, <1>2, <1>3, <1>5 DEF all
<1> QED
  BY <1>4, <1>5

(* Every step preserves the invariants of all parts.                       *)
LEMMA StepControl == ControlInv /\ [ControlNext]_all => ControlInv'
<1> SUFFICES ASSUME ControlInv, [ControlNext]_all PROVE ControlInv'
  OBVIOUS
<1>1. /\ [Settings!Next]_Settings!vars /\ [PTZ!Next]_PTZ!vars
      /\ [Process!Next]_Process!vars
  BY ControlParts
<1>2. SettingsInv' /\ Settings!InForceOK'
  BY <1>1, StepSettings, StepInForce DEF ControlInv
<1>3. PresetsInv' /\ ProcessInv'
  BY <1>1, StepPresets, StepProcess DEF ControlInv
<1>4. CASE part = "hub" /\ [Next]_vars /\ UNCHANGED deliveryVars
  <2>1. IInv' /\ part' = part
    BY <1>4, ControlParts, StepIInv DEF ControlInv
  <2>2. UNCHANGED <<main, signalled, frames, lastFrame, framesClosed, parser,
                    origin>>
    BY <1>4 DEF deliveryVars, cameraVars, parserVars
  <2>3. DeliveryTypeOK'
    BY <2>2 DEF ControlInv, DeliveryTypeOK
  <2>4. parser' = "none"
    BY <1>4, <2>2 DEF ControlInv
  <2> QED
    BY <1>2, <1>3, <1>4, <2>1, <2>3, <2>4 DEF ControlInv
<1>5. CASE part # "hub" /\ [DeliveryNext]_<<vars, deliveryVars>>
  <2>1. DeliveryInv' /\ part' = part
    BY <1>5, ControlParts, StepDelivery DEF ControlInv
  <2>2. DeliveryTypeOK'
    BY <1>5, StepDeliveryType DEF ControlInv
  <2> QED
    BY <1>2, <1>3, <1>5, <2>1, <2>2 DEF ControlInv, DeliveryInv
<1> QED
  BY <1>4, <1>5, ControlParts

(* The inductive invariant of every part holds in every reachable state.   *)
THEOREM ControlInvariance == ControlSpec => []ControlInv
  BY InitControl, StepControl, PTL DEF ControlSpec

(* Every part keeps to its types; of what is in force this says that it is *)
(* of the parameter's type and within its range, whatever was asked for.   *)
THEOREM ControlTyped == ControlSpec => []ControlTypeOK
<1>1. ControlInv => ControlTypeOK
  BY DEF ControlInv, ControlTypeOK, IInv, PresetsInv, ProcessInv
<1> QED
  BY <1>1, ControlInvariance, PTL

(* A browser that is connected shows the parameters in force, but for the  *)
(* races and losses the statement names, for any number of clients.        *)
THEOREM BrowserIsUpToDate == ControlSpec => []ShownIsInForce
<1>1. ControlInv => ShownIsInForce
  BY DEF ControlInv, SettingsInv, ShownIsInForce
<1> QED
  BY <1>1, ControlInvariance, PTL

(* Every change of the presets is followed by a callback, whichever        *)
(* requests overlap, though the section that changes the list and the      *)
(* callback after it are two steps: the browser's list is out of date only *)
(* while one is due, heard and not yet followed, or dropped by the hub.    *)
THEOREM PresetChangesAreTold == ControlSpec => []ListIsCurrent
<1>1. ControlInv => ListIsCurrent
  BY DEF ControlInv, PresetsInv, ListIsCurrent
<1> QED
  BY <1>1, ControlInvariance, PTL

(* Wherever main is when the signal comes, and however the two Stops of a  *)
(* server fall, a Start that has returned leaves nobody served.            *)
THEOREM ServersStop == ControlSpec => []ReturnedServesNobody
<1>1. ControlInv => ReturnedServesNobody
  BY DEF ControlInv, ProcessInv, ReturnedServesNobody,
         Process!ReturnedServesNobody
<1> QED
  BY <1>1, ControlInvariance, PTL
=============================================================================
