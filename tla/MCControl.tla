----------------------------- MODULE MCControl -----------------------------
(***************************************************************************)
(* An instance of Control: a web and an ONVIF caller, a parameter of every *)
(* kind, two presets and two places.                                       *)
(***************************************************************************)
EXTENDS Control

CONSTANTS Web1, Onvif1, Gain, Shutter, Flip, Mode, Token1, Token2, Place1, Place2

MCNames    == {Gain, Shutter, Flip, Mode}
MCKind     == [p \in MCNames |-> CASE p = Gain -> "float" [] p = Shutter -> "uint"
                                 [] p = Flip -> "bool" [] p = Mode -> "enum"]
MCLowest   == [p \in MCNames |-> 0]
MCHighest  == [p \in MCNames |-> IF p = Shutter THEN 4 ELSE 2]
MCImaging  == <<Gain, Shutter>>
\* Values in range and not, of the type the parameter has and of another.
MCNumber(n) == [type |-> "number", n |-> n]
MCJSON == [p \in MCNames |->
             CASE p = Gain -> {MCNumber(2), MCNumber(5)}
               [] p = Shutter -> {MCNumber(3), [type |-> "bool", n |-> 2]}
               [] p = Flip -> {MCNumber(2), [type |-> "bool", n |-> 0]}
               [] p = Mode -> {MCNumber(2), [type |-> "string", n |-> 2]}]
MCXML  == [p \in MCNames |->
             IF p = Gain THEN {MCNumber(2), [type |-> "NaN", n |-> 0]}
                         ELSE {MCNumber(3), MCNumber(-1)}]
MCNumbered == <<Token1, Token2>>
MCPlaces   == {Place1, Place2}
MCWeb      == {Web1}
MCOnvif    == {Onvif1}
MCTuned    == {Gain, Shutter}
=============================================================================
