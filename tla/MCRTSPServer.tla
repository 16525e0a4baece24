---------------------------- MODULE MCRTSPServer ----------------------------
(* Instances of RTSPServer for TLC; the .cfg files choose the bounds.      *)
EXTENDS RTSPServer, TLC

CONSTANTS s1, s2   \* two sessions

MCSessions == {s1, s2}
Symmetry == Permutations(MCSessions)
=============================================================================
