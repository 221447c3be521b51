---------------------------- MODULE SupportSession ----------------------------
(***************************************************************************)
(* What temporary support access promises to the client who grants it and  *)
(* to whoever reads the log, with no handlers, queries, sockets or clocks: *)
(*                                                                         *)
(*   - a session is current from its grant until it is ended or a newer    *)
(*     grant takes its place, and never again;                             *)
(*   - it is claimed by one employee, at most once;                        *)
(*   - its password is disclosed to that employee, and only while it is    *)
(*     current.                                                            *)
(*                                                                         *)
(* SupportAccess implements it as long as no two handlers overlap (see     *)
(* SessionKept there).                                                     *)
(***************************************************************************)
EXTENDS Naturals

CONSTANTS
    Sessions,
    Staff,
    None

VARIABLES
    current,  \* the session there is, or None
    used,     \* the sessions granted so far
    owner,    \* the employee who claimed a session, or None
    given     \* the employees who got a session's password

vars == <<current, used, owner, given>>

Init ==
    /\ current = None
    /\ used = {}
    /\ owner = [s \in Sessions |-> None]
    /\ given = [s \in Sessions |-> {}]

Begin(s) ==
    /\ s \notin used
    /\ current' = s
    /\ used' = used \cup {s}
    /\ UNCHANGED <<owner, given>>

End ==
    /\ current # None
    /\ current' = None
    /\ UNCHANGED <<used, owner, given>>

Claim(u) ==
    /\ current # None
    /\ owner[current] = None
    /\ owner' = [owner EXCEPT ![current] = u]
    /\ UNCHANGED <<current, used, given>>

Disclose(u) ==
    /\ current # None
    /\ owner[current] = u
    /\ given' = [given EXCEPT ![current] = @ \cup {u}]
    /\ UNCHANGED <<current, used, owner>>

Next ==
    \/ \E s \in Sessions : Begin(s)
    \/ End
    \/ \E u \in Staff : Claim(u) \/ Disclose(u)

Spec == Init /\ [][Next]_vars
=============================================================================
