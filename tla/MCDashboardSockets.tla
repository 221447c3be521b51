------------------------- MODULE MCDashboardSockets --------------------------
(***************************************************************************)
(* Instances of DashboardSockets for TLC: one user signed in twice.        *)
(***************************************************************************)
EXTENDS DashboardSockets, TLC

CONSTANTS u1, s1, s2, k1, k2, k3, l1, l2

MCUserOf == s1 :> u1 @@ s2 :> u1

MCSymmetry == Permutations(Sockets) \cup Permutations(Logouts) \cup Permutations(Sessions)
=============================================================================
