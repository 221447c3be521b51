------------------------- MODULE NotificationPromise -------------------------
(***************************************************************************)
(* What the notification outbox promises to the code that queues a         *)
(* notification, with no dispatchers, leases, clocks or database:          *)
(*                                                                         *)
(*   - a queued notification stays queued until it is settled, and is      *)
(*     settled at most once;                                               *)
(*   - it is settled as sent only if Telegram accepted it at least once    *)
(*     (delivery is at-least-once);                                        *)
(*   - it is given up only when the attempts its policy allows are spent;  *)
(*   - Telegram is offered it at most once per attempt spent, so at most   *)
(*     as often as the policy allows.                                      *)
(*                                                                         *)
(* NotificationOutbox refines this specification as long as a result is    *)
(* recorded within the lease (see PromiseKept there).                      *)
(***************************************************************************)
EXTENDS Naturals

CONSTANTS
    Notifications,  \* identities of notifications
    Limits          \* the attempt limits a policy may set

VARIABLES
    phase,     \* where the notification is in its life
    limit,     \* attempts its policy allows
    spent,     \* attempts spent so far
    offered,   \* times Telegram was asked to deliver it
    accepted   \* whether Telegram ever accepted it

vars == <<phase, limit, spent, offered, accepted>>

Phases == {"none", "queued", "sent", "failed", "purged"}

Init ==
    /\ phase    = [n \in Notifications |-> "none"]
    /\ limit    = [n \in Notifications |-> 0]
    /\ spent    = [n \in Notifications |-> 0]
    /\ offered  = [n \in Notifications |-> 0]
    /\ accepted = [n \in Notifications |-> FALSE]

Queue(n, l) ==
    /\ phase[n] = "none"
    /\ phase' = [phase EXCEPT ![n] = "queued"]
    /\ limit' = [limit EXCEPT ![n] = l]
    /\ UNCHANGED <<spent, offered, accepted>>

Spend(n) ==
    /\ phase[n] = "queued"
    /\ spent[n] < limit[n]
    /\ spent' = [spent EXCEPT ![n] = @ + 1]
    /\ UNCHANGED <<phase, limit, offered, accepted>>

Offer(n, accept) ==
    /\ phase[n] = "queued"
    /\ offered[n] < spent[n]
    /\ offered'  = [offered EXCEPT ![n] = @ + 1]
    /\ accepted' = [accepted EXCEPT ![n] = @ \/ accept]
    /\ UNCHANGED <<phase, limit, spent>>

Settle(n) ==
    /\ phase[n] = "queued"
    /\ accepted[n]
    /\ phase' = [phase EXCEPT ![n] = "sent"]
    /\ UNCHANGED <<limit, spent, offered, accepted>>

GiveUp(n) ==
    /\ phase[n] = "queued"
    /\ spent[n] = limit[n]
    /\ phase' = [phase EXCEPT ![n] = "failed"]
    /\ UNCHANGED <<limit, spent, offered, accepted>>

Forget(S) ==
    /\ \A n \in S : phase[n] = "sent"
    /\ phase' = [n \in Notifications |-> IF n \in S THEN "purged" ELSE phase[n]]
    /\ UNCHANGED <<limit, spent, offered, accepted>>

Next ==
    \/ \E n \in Notifications :
          \/ \E l \in Limits : Queue(n, l)
          \/ Spend(n)
          \/ \E accept \in BOOLEAN : Offer(n, accept)
          \/ Settle(n)
          \/ GiveUp(n)
    \/ \E S \in SUBSET Notifications : Forget(S)

Spec == Init /\ [][Next]_vars
=============================================================================
