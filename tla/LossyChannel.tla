---------------------------- MODULE LossyChannel ----------------------------
(***************************************************************************)
(* What the server promises of each bounded channel that carries numbered  *)
(* items to one consumer (frames of the camera, access units of a          *)
(* subscriber): the producer never waits, so items may be lost, but what   *)
(* arrives arrives in order and once, and nothing follows the close.       *)
(***************************************************************************)
EXTENDS Integers, Sequences

CONSTANT Capacity

VARIABLES
  buffer,   \* items sent and not yet received
  last,     \* the last item sent
  closed

channel == <<buffer, last, closed>>

Init == buffer = <<>> /\ last = 0 /\ closed = FALSE

Send ==
  /\ ~closed /\ Len(buffer) < Capacity
  /\ last' > last /\ buffer' = Append(buffer, last')
  /\ UNCHANGED closed

Receive ==
  /\ buffer # <<>> /\ buffer' = Tail(buffer)
  /\ UNCHANGED <<last, closed>>

Close == ~closed /\ closed' = TRUE /\ UNCHANGED <<buffer, last>>

Next == Send \/ Receive \/ Close

Spec == Init /\ [][Next]_channel
=============================================================================
