--------------------------- MODULE MCAgentSessions ----------------------------
(***************************************************************************)
(* Instances of AgentSessions for TLC.                                     *)
(***************************************************************************)
EXTENDS AgentSessions, TLC

CONSTANTS k1, k2, a1, a2, a3, r1, r2, t1, m1

Some(S, n) == {T \in SUBSET S : Cardinality(T) = n}

\* Some request provisions first.  Then two sockets meet one more request; with
\* an active template, two sockets meet none, one meets one or two, or one of each
\* meets two readers; with a mishap, two sockets meet none, or one socket one.
MCCasts ==
    {Sockets \cup A : A \in Some(Admins, 2)}
    \cup {Sockets \cup A \cup Templates \cup M : A \in Some(Admins, 1), M \in {{}, Mishaps}}
    \cup {K \cup Admins \cup Templates : K \in Some(Sockets, 1)}
    \cup {K \cup A \cup Templates \cup M : K \in Some(Sockets, 1), A \in Some(Admins, 2), M \in {Readers, Mishaps}}
    \cup {A \cup Readers \cup Mishaps : A \in Some(Admins, 2)}

MCSymmetry ==
    Permutations(Sockets) \cup Permutations(Admins) \cup Permutations(Readers)
=============================================================================
