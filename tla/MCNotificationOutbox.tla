------------------------ MODULE MCNotificationOutbox -------------------------
(***************************************************************************)
(* Instances of NotificationOutbox for TLC.  The two policies keep the     *)
(* shapes of DELIVERY_POLICY that matter: an urgent one with retries and a *)
(* backoff, and an informational one with a single attempt.                *)
(***************************************************************************)
EXTENDS NotificationOutbox, TLC

CONSTANTS n1, n2, d1, d2, urgent, info

MCPolicy ==
    [e \in EventTypes |->
        IF e = urgent
        THEN [priority |-> 0, maxAttempts |-> 2, backoff |-> <<1>>]
        ELSE [priority |-> 3, maxAttempts |-> 1, backoff |-> <<>>]]

MCSymmetry == Permutations(Notifications) \cup Permutations({d1, d2})
=============================================================================
