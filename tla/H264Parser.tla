----------------------------- MODULE H264Parser -----------------------------
(***************************************************************************)
(* Splitting an Annex-B bytestream into NAL units                          *)
(* (src/internal/h264/parser.go).  The camera's bytes are built up one by  *)
(* one; then Parse runs its two loops, an action per iteration, on every   *)
(* string of up to MaxBytes.  Indices start at 1.                          *)
(***************************************************************************)
EXTENDS Integers, Sequences

CONSTANTS
  Bytes,     \* the bytes that may occur, 0 and 1 among them
  MaxBytes   \* bound: length of the stream

VARIABLES
  data,
  parse,      \* "none", "find", "split", "done", "panic"
  scan,       \* FindStartCodes: the index i
  positions,  \* what FindStartCodes found so far
  split,      \* Parse: the index into positions
  nalus       \* the NAL units so far: their first and last byte

parserVars == <<data, parse, scan, positions, split, nalus>>

Init ==
  /\ data = <<>> /\ parse = "none" /\ scan = 1 /\ positions = <<>>
  /\ split = 1 /\ nalus = <<>>

Receive ==
  /\ parse = "none" /\ Len(data) < MaxBytes
  /\ \E b \in Bytes : data' = Append(data, b)
  /\ UNCHANGED <<parse, scan, positions, split, nalus>>

ParseBegins ==
  /\ parse = "none" /\ parse' = IF data = <<>> THEN "done" ELSE "find"
  /\ UNCHANGED <<data, scan, positions, split, nalus>>

----------------------------------------------------------------------------
(* FindStartCodes: one iteration, and its end.                             *)
Core(i) == data[i] = 0 /\ data[i + 1] = 0 /\ data[i + 2] = 1

\* Mutant: the zero in front of a long start code is not looked at.
CodeAtCore(i) == i

CodeAt(i) == IF i > 1 /\ data[i - 1] = 0 THEN i - 1 ELSE i

FindStep ==
  /\ parse = "find" /\ scan <= Len(data) - 2
  /\ \/ /\ Core(scan) /\ scan' = scan + 3
        /\ positions' = Append(positions, CodeAt(scan))
     \/ /\ ~Core(scan) /\ scan' = scan + 1 /\ UNCHANGED positions
  /\ UNCHANGED <<data, parse, split, nalus>>

FindEnds ==
  /\ parse = "find" /\ scan > Len(data) - 2
  /\ parse' = IF positions = <<>> THEN "done" ELSE "split"
  /\ UNCHANGED <<data, scan, positions, split, nalus>>

----------------------------------------------------------------------------
(* Parse: where the unit behind a start code begins and ends.              *)
NaluStart(pos) ==
  IF /\ pos + 3 <= Len(data) /\ data[pos] = 0 /\ data[pos + 1] = 0
     /\ data[pos + 2] = 0 /\ data[pos + 3] = 1
  THEN pos + 4 ELSE pos + 3

Slice(k) ==
  [from |-> NaluStart(positions[k]),
   to   |-> IF k < Len(positions) THEN positions[k + 1] - 1 ELSE Len(data)]

\* Slicing from behind the end panics; an empty unit is left out; a start
\* code at the end of the data ends the loop.
SplitStep ==
  /\ parse = "split" /\ split <= Len(positions)
  /\ LET unit == Slice(split) IN
     \/ /\ unit.from > Len(data) /\ parse' = "done"
        /\ UNCHANGED <<split, nalus>>
     \/ /\ unit.from <= Len(data) /\ split' = split + 1
        /\ parse'  = IF unit.from > unit.to + 1 THEN "panic" ELSE parse
        /\ nalus' = IF unit.from > unit.to THEN nalus ELSE Append(nalus, unit)
  /\ UNCHANGED <<data, scan, positions>>

SplitEnds ==
  /\ parse = "split" /\ split > Len(positions) /\ parse' = "done"
  /\ UNCHANGED <<data, scan, positions, split, nalus>>

Next ==
  Receive \/ ParseBegins \/ FindStep \/ FindEnds \/ SplitStep \/ SplitEnds

Spec == Init /\ [][Next]_parserVars

----------------------------------------------------------------------------
(* Annex B, byte by byte: a byte belongs to a start code if it is in a     *)
(* core 00 00 01, or the zero right in front of one.                       *)
Cores == {i \in 1..(Len(data) - 2) : Core(i)}

InCode(p) ==
  \E i \in Cores : p \in i..(i + 2) \/ (p = i - 1 /\ data[p] = 0)

(* Parse never slices beyond the data, however start codes follow each     *)
(* other, and its answer is that definition: behind the first start code   *)
(* a byte is in exactly one NAL unit unless it is in a start code, and the *)
(* other bytes are in none.                                                *)
EveryByteOnce ==
  /\ parse # "panic"
  /\ parse = "done" =>
       \A p \in 1..Len(data) :
         LET in == {k \in 1..Len(nalus) : p \in nalus[k].from..nalus[k].to} IN
         IF InCode(p) \/ \A i \in Cores : p < i THEN in = {}
                                                ELSE \E k \in in : in = {k}
=============================================================================
