----------------------------- MODULE LossyPipe -----------------------------
(***************************************************************************)
(* What the server promises of a way that leads through several lossy      *)
(* channels: a consumer at its end receives what was sent at its           *)
(* beginning, and each item later than all it received before.  How much   *)
(* arrives is not promised.                                                *)
(***************************************************************************)
EXTENDS Integers

VARIABLES
  last,   \* the last item sent
  got     \* the last item received

pipe == <<last, got>>

Init == last = 0 /\ got = 0

Send == last' > last /\ UNCHANGED got

Receive == got' > got /\ got' <= last /\ UNCHANGED last

Next == Send \/ Receive
=============================================================================
