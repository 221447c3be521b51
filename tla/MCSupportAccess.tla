--------------------------- MODULE MCSupportAccess ----------------------------
(***************************************************************************)
(* Instances of SupportAccess for TLC.                                     *)
(***************************************************************************)
EXTENDS SupportAccess

CONSTANTS s1, s2, u1, u2, r1, r2, e1, c1
=============================================================================
