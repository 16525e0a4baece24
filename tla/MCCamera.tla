------------------------------ MODULE MCCamera ------------------------------
(* Instances of Camera for TLC; the .cfg files choose the bounds.          *)
EXTENDS Camera, TLC

CONSTANTS p1, p2   \* two values of Params

MCParamValues == {p1, p2}
=============================================================================
