------------------------- MODULE MCSupportAccessCasts -------------------------
(***************************************************************************)
(* SupportAccess with the handlers, sessions and faults that meet in one   *)
(* behaviour chosen at its beginning.                                      *)
(***************************************************************************)
EXTENDS MCSupportAccess, FiniteSets

CONSTANTS
    m1,
    Mishaps,   \* faults there may be
    Casts      \* sets of handlers, sessions and mishaps

VARIABLE cast

\* Two requests meet over two sessions; a request meets the scheduler over two
\* sessions; a request meets an event of the agent, the scheduler and a fault.
MCCasts ==
    { {r1, r2, s1, s2}, {r1, c1, s1, s2}, {r1, e1, c1, s1, m1} }

\* Slots, rows and employees that are alike are taken in this order: which of them is
\* next makes no difference.
InOrder ==
    /\ pc[r1] = "idle" /\ pc[r2] = "idle" => pc'[r2] = "idle"
    /\ log[s1] = "none" => log'[s2] = "none"
    /\ \A h \in Handlers : user'[h] = u2 =>
          \/ \E g \in Handlers : user[g] # None
          \/ \E s \in Sessions : accessedBy[s] # None
          \/ \E e \in ledger : e.actor # None

MCInit == Init /\ cast \in Casts

\* Time is left out where no scheduler would look at it.
MCNext ==
    /\ Next
    /\ \A h \in Handlers \ cast : pc'[h] = "idle"
    /\ \A s \in Sessions \ cast : log'[s] = "none"
    /\ faults' <= Cardinality(cast \cap Mishaps)
    /\ Cron \cap cast = {} => past' = past
    /\ InOrder
    /\ UNCHANGED cast

\* By the fairness of the scheduler AccessEnds is about the casts that have one.
MCSpec == MCInit /\ [][MCNext]_<<vars, cast>> /\ Fairness
=============================================================================
