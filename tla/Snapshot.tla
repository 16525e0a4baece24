------------------------------ MODULE Snapshot ------------------------------
(***************************************************************************)
(* JPEG snapshots (src/internal/onvif/snapshot.go and                      *)
(* src/internal/web/snapshot.go): a buffer keeps the last key frame and    *)
(* the last parameter sets; handlers give them to an ffmpeg, reading the   *)
(* buffer again after the conversion, while frames keep arriving.          *)
(*                                                                         *)
(* A NAL unit is its kind and the age of its access unit.                  *)
(***************************************************************************)
EXTENDS Integers, Sequences

CONSTANT MaxUnits   \* bound: access units fed

\* What arrives: mtxrpicam sends the parameter sets in front of a key frame
\* or in a unit of their own, and does not repeat them.
Units ==
  {<<"sps", "pps", "idr">>, <<"sps", "pps">>, <<"sps">>, <<"pps">>,
   <<"idr">>, <<"other", "idr">>, <<"other">>}

VARIABLES
  units,     \* history: the kinds of NAL units of each access unit fed
  latest,    \* latestAU, or NoUnit
  lastSPS, lastPPS,   \* as a sequence of one NAL unit, or NoUnit
  handler,   \* one request: "idle", "convert", "failed", "stamp", "web"
  given      \* the bytestream it gave ffmpeg

vars == <<units, latest, lastSPS, lastPPS, handler, given>>

NoUnit == <<>>
Has(au, kind) == \E i \in 1..Len(au) : au[i].kind = kind

\* The NAL units of a kind: an access unit has one at most.
Only(au, kind) ==
  IF Has(au, kind) THEN <<au[CHOOSE i \in 1..Len(au) : au[i].kind = kind]>>
                   ELSE <<>>

Init ==
  /\ units = <<>> /\ latest = NoUnit /\ lastSPS = NoUnit /\ lastPPS = NoUnit
  /\ handler = "idle" /\ given = NoUnit

----------------------------------------------------------------------------
\* Mutant: parameter sets are kept only from key frames.
LastOfKeyFrames(au, kind, old) ==
  IF Has(au, kind) /\ Has(au, "idr") THEN Only(au, kind) ELSE old

LastOf(au, kind, old) ==
  IF Has(au, kind) THEN Only(au, kind) ELSE old

KeyFrame(au) == IF Has(au, "idr") THEN au ELSE latest

Feed(kinds) ==
  LET age == Len(units) + 1
      au  == [i \in 1..Len(kinds) |-> [kind |-> kinds[i], age |-> age]]
  IN /\ units' = Append(units, kinds)
     /\ lastSPS' = LastOf(au, "sps", lastSPS)
     /\ lastPPS' = LastOf(au, "pps", lastPPS)
     /\ latest' = KeyFrame(au)
     /\ UNCHANGED <<handler, given>>

Latest ==
  IF latest = NoUnit THEN NoUnit
  ELSE (IF Has(latest, "sps") THEN <<>> ELSE lastSPS)
       \o (IF Has(latest, "pps") THEN <<>> ELSE lastPPS) \o latest

buildAnnexB(au) ==
  Only(au, "sps") \o Only(au, "pps") \o Only(au, "other") \o Only(au, "idr")

----------------------------------------------------------------------------
(* The handlers.  ffmpeg may fail or time out.  That of the ONVIF server   *)
(* then reads the buffer again, for the kind of error or for the frame's   *)
(* timestamp; that of the web server reads it once.                        *)
Request ==
  /\ handler = "idle" /\ given' = buildAnnexB(Latest)
  /\ handler' = IF Latest = NoUnit THEN "failed" ELSE "convert"
  /\ UNCHANGED <<units, latest, lastSPS, lastPPS>>

Converted ==
  /\ handler = "convert" /\ handler' \in {"failed", "stamp"}
  /\ UNCHANGED <<units, latest, lastSPS, lastPPS, given>>

Answered ==
  /\ handler \in {"failed", "stamp"} /\ handler' = "idle" /\ given' = NoUnit
  /\ UNCHANGED <<units, latest, lastSPS, lastPPS>>

WebRequest ==
  /\ handler = "idle" /\ Latest # NoUnit
  /\ given' = buildAnnexB(Latest) /\ handler' = "web"
  /\ UNCHANGED <<units, latest, lastSPS, lastPPS>>

WebAnswered ==
  /\ handler = "web" /\ handler' = "idle" /\ given' = NoUnit
  /\ UNCHANGED <<units, latest, lastSPS, lastPPS>>

Next ==
  \/ \E kinds \in Units : Len(units) < MaxUnits /\ Feed(kinds)
  \/ Request \/ Converted \/ Answered \/ WebRequest \/ WebAnswered

Spec == Init /\ [][Next]_vars

----------------------------------------------------------------------------
Fed(kind, age) == \E k \in 1..Len(units[age]) : units[age][k] = kind

(* The key frame ffmpeg gets comes after both parameter sets, if they were *)
(* ever fed, in whatever units, and after none that is older than those in *)
(* force when the frame was taken.                                         *)
Decodable ==
  \A i \in 1..Len(given) : given[i].kind = "idr" =>
    \A kind \in {"sps", "pps"}, age \in 1..given[i].age :
      Fed(kind, age) =>
        \E k \in 1..(i - 1) : given[k].kind = kind /\ given[k].age >= age
=============================================================================
