--------------------------- MODULE MCLoginSessions ----------------------------
(***************************************************************************)
(* Instances of LoginSessions for TLC.                                     *)
(***************************************************************************)
EXTENDS LoginSessions, TLC

CONSTANTS u1, s1, s2, r1, r2

MCSymmetry == Permutations(Sessions) \cup Permutations(Requests)
=============================================================================
