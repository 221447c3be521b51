------------------------- MODULE NotificationOutbox --------------------------
(***************************************************************************)
(* The transactional outbox that carries notifications to Telegram:        *)
(*   notifications/notifications.service.ts      (enqueue, kick)           *)
(*   notifications/notification-dispatcher.ts    (tick, claim, deliver,    *)
(*                                                record, purge)           *)
(*   notifications/notification-policy.ts        (DELIVERY_POLICY)         *)
(*                                                                         *)
(* Several processes run a dispatcher on one notification_outbox table.  A *)
(* dispatcher awaits every query and every send, so other dispatchers, the *)
(* clock, a tick of its own timer or a crash may come between any two of   *)
(* the actions below.  One SQL statement or transaction is one action: a   *)
(* claim that skips a row another claim has locked (SKIP LOCKED) chooses   *)
(* what it would choose after that other claim.                            *)
(*                                                                         *)
(* Time is kept as remaining time (dueIn, leaseLeft), counted down by      *)
(* Elapse, so that the model needs no bound on the clock.                  *)
(***************************************************************************)
EXTENDS Integers, Sequences

CONSTANTS
    Notifications,  \* rows that may be queued
    Dispatchers,    \* processes with a NotificationDispatcher
    Configured,     \* those whose TelegramSender has a token and a chat
    EventTypes,     \* NotificationEventType
    Policy,         \* DELIVERY_POLICY: priority, maxAttempts, backoff
    Lease,          \* LEASE_SECONDS
    MaxHold,        \* bound: longest time from claim to record
    MaxPerTick,     \* MAX_PER_TICK
    Retention,      \* RETENTION_DAYS
    MaxFaults,      \* bound: crashes and database errors
    None

ASSUME PolicyAssumption ==
    Policy \in [EventTypes -> [priority : 0..3, maxAttempts : Nat \ {0}, backoff : Seq(Nat)]]

ASSUME TimingAssumption ==
    /\ Lease \in Nat \ {0}
    /\ MaxHold \in Nat
    /\ Retention \in Nat
    /\ MaxHold <= Retention

ASSUME ProcessAssumption ==
    /\ Configured \subseteq Dispatchers
    /\ MaxPerTick \in Nat \ {0}
    /\ MaxFaults \in Nat
    /\ None \notin Notifications
    /\ None \notin EventTypes
    /\ None \notin {"sent", "retry", "failed"}

VARIABLES
    kind,       \* eventType of a row, None before it is queued
    status,     \* status; "none" before the insert, "purged" after the delete
    attempts,   \* attempts
    dueIn,      \* nextAttemptAt - now, no lower than -(Retention + 1)
    leaseLeft,  \* lockedUntil - now, -1 when NULL or in the past
    history,    \* outcomes in notification_attempts, oldest first
    pc,         \* what a dispatcher's tick() awaits
    row,        \* the ClaimedRow in hand
    att,        \* its attempts as returned by claim()
    outcome,    \* the outcome about to be recorded
    rerun,      \* this.rerun
    handled,    \* i of the loop in tick()
    hold,       \* time since the claim
    sends,      \* history variable: calls of sender.send for a row
    delivered,  \* history variable: Telegram accepted the row's message
    owed,       \* history variable: a tick() was refused since the last claim
    faults      \* crashes and errors so far

tableVars == <<kind, status, attempts, dueIn, leaseLeft, history>>
claimVars == <<row, att, outcome, hold>>
tickVars  == <<pc, rerun, handled, owed>>
telegram  == <<sends, delivered>>

vars == <<tableVars, claimVars, tickVars, telegram, faults>>

Statuses == {"none", "pending", "processing", "sent", "failed", "purged"}
Outcomes == {"sent", "retry", "failed"}

\* A dispatcher between the claim of a row and the record of its outcome.
Holding(d) == pc[d] \in {"deliver", "record"}

\* The row is in the table.
Stored(n) == status[n] \notin {"none", "purged"}

------------------------------------------------------------------------------
(* notification-policy.ts *)

PolicyFor(e) ==
    IF e \in DOMAIN Policy
    THEN Policy[e]
    ELSE [priority |-> 3, maxAttempts |-> 1, backoff |-> <<>>]

Limit(n) == PolicyFor(kind[n]).maxAttempts

Backoff(e, k) ==
    LET b == PolicyFor(e).backoff
    IN  IF b = <<>> THEN 0 ELSE b[IF k < Len(b) THEN k ELSE Len(b)]

------------------------------------------------------------------------------
(* The initial state: an empty table and idle dispatchers. *)

Init ==
    /\ kind      = [n \in Notifications |-> None]
    /\ status    = [n \in Notifications |-> "none"]
    /\ attempts  = [n \in Notifications |-> 0]
    /\ dueIn     = [n \in Notifications |-> 0]
    /\ leaseLeft = [n \in Notifications |-> -1]
    /\ history   = [n \in Notifications |-> <<>>]
    /\ pc        = [d \in Dispatchers |-> "idle"]
    /\ row       = [d \in Dispatchers |-> None]
    /\ att       = [d \in Dispatchers |-> 0]
    /\ outcome   = [d \in Dispatchers |-> None]
    /\ rerun     = [d \in Dispatchers |-> FALSE]
    /\ handled   = [d \in Dispatchers |-> 0]
    /\ hold      = [d \in Dispatchers |-> 0]
    /\ sends     = [n \in Notifications |-> 0]
    /\ delivered = [n \in Notifications |-> FALSE]
    /\ owed      = [d \in Dispatchers |-> FALSE]
    /\ faults    = 0

------------------------------------------------------------------------------
(* NotificationsService *)

\* enqueue(): the insert, on its own or inside the caller's transaction.  The
\* kick() that follows it is one of the calls of tick() below.
Enqueue(n, e) ==
    /\ status[n] = "none"
    /\ kind'   = [kind EXCEPT ![n] = e]
    /\ status' = [status EXCEPT ![n] = "pending"]
    /\ UNCHANGED <<attempts, dueIn, leaseLeft, history>>
    /\ UNCHANGED <<claimVars, tickVars, telegram, faults>>

------------------------------------------------------------------------------
(* NotificationDispatcher *)

\* tick(), called by the 5 s interval or by kick(), with no tick running.
StartTick(d) ==
    /\ pc[d] = "idle"
    /\ d \in Configured
    /\ pc'      = [pc EXCEPT ![d] = "claim"]
    /\ rerun'   = [rerun EXCEPT ![d] = FALSE]
    /\ handled' = [handled EXCEPT ![d] = 0]
    /\ UNCHANGED <<tableVars, claimVars, telegram, owed, faults>>

\* tick() while one is running: it only asks the running one for another pass.
RefuseTick(d) ==
    /\ pc[d] # "idle"
    /\ rerun' = [rerun EXCEPT ![d] = TRUE]
    /\ owed'  = [owed EXCEPT ![d] = TRUE]
    /\ UNCHANGED <<tableVars, claimVars, telegram, pc, handled, faults>>

\* Mutants of claim()'s WHERE clause: the lease forgotten, and the crashed
\* dispatcher's rows forgotten.
ClaimableWithoutLease(n) ==
    \/ status[n] = "pending" /\ dueIn[n] <= 0
    \/ status[n] = "processing"

ClaimableOnlyPending(n) == status[n] = "pending" /\ dueIn[n] <= 0

\* The WHERE clause of claim().
Claimable(n) ==
    \/ status[n] = "pending" /\ dueIn[n] <= 0
    \/ status[n] = "processing" /\ leaseLeft[n] < 0

\* Its ORDER BY priority, "nextAttemptAt".
Before(m, n) ==
    LET pm == PolicyFor(kind[m]).priority
        pn == PolicyFor(kind[n]).priority
    IN  pm < pn \/ (pm = pn /\ dueIn[m] < dueIn[n])

Claim(d, n) ==
    /\ pc[d] = "claim"
    /\ Claimable(n)
    /\ \A m \in Notifications : Claimable(m) => ~Before(m, n)
    /\ status'    = [status EXCEPT ![n] = "processing"]
    /\ attempts'  = [attempts EXCEPT ![n] = @ + 1]
    /\ leaseLeft' = [leaseLeft EXCEPT ![n] = Lease]
    /\ pc'   = [pc EXCEPT ![d] = "deliver"]
    /\ row'  = [row EXCEPT ![d] = n]
    /\ att'  = [att EXCEPT ![d] = attempts[n] + 1]
    /\ hold' = [hold EXCEPT ![d] = 0]
    /\ owed' = [owed EXCEPT ![d] = FALSE]
    /\ UNCHANGED <<kind, dueIn, history, outcome, rerun, handled, telegram, faults>>

\* claim() found nothing to do; its answer ends the for loop.
ClaimNothing(d) ==
    /\ pc[d] = "claim"
    /\ \A n \in Notifications : ~Claimable(n)
    /\ pc'   = [pc EXCEPT ![d] = "passEnd"]
    /\ owed' = [owed EXCEPT ![d] = FALSE]
    /\ UNCHANGED <<tableVars, claimVars, telegram, rerun, handled, faults>>

\* Mutant of the while (this.rerun): one pass, whatever was asked meanwhile.
EndPassOnce(d) ==
    /\ pc[d] = "passEnd"
    /\ pc'      = [pc EXCEPT ![d] = "idle"]
    /\ rerun'   = [rerun EXCEPT ![d] = FALSE]
    /\ handled' = [handled EXCEPT ![d] = 0]
    /\ UNCHANGED <<tableVars, claimVars, telegram, owed, faults>>

\* The while (this.rerun) of tick() and its finally.
EndPass(d) ==
    /\ pc[d] = "passEnd"
    /\ pc'      = [pc EXCEPT ![d] = IF rerun[d] THEN "claim" ELSE "idle"]
    /\ rerun'   = [rerun EXCEPT ![d] = FALSE]
    /\ handled' = [handled EXCEPT ![d] = 0]
    /\ UNCHANGED <<tableVars, claimVars, telegram, owed, faults>>

\* Mutant: deliver() always sends.
NeverExhausted(d) == FALSE

\* row.attempts > row.maxAttempts: reclaimed after its last attempt.
Exhausted(d) == att[d] > Limit(row[d])

\* deliver() of such a row: no send.
Abandon(d) ==
    /\ pc[d] = "deliver"
    /\ Exhausted(d)
    /\ pc'      = [pc EXCEPT ![d] = "record"]
    /\ outcome' = [outcome EXCEPT ![d] = "failed"]
    /\ UNCHANGED <<tableVars, telegram, row, att, hold, rerun, handled, owed, faults>>

\* Mutants of the outcome: given up one attempt early, and an error code
\* recorded where an outcome belongs.
OutcomeOfEarly(ok, k, max) ==
    IF ok THEN "sent" ELSE IF k + 1 >= max THEN "failed" ELSE "retry"

OutcomeOfUnknown(ok, k, max) ==
    IF ok THEN "sent" ELSE IF k >= max THEN "abandoned" ELSE "retry"

\* The outcome of the k-th attempt.
OutcomeOf(ok, k, max) ==
    IF ok THEN "sent" ELSE IF k >= max THEN "failed" ELSE "retry"

\* deliver(): Telegram may accept a message and the call still time out, so
\* ~ok does not mean it was not delivered.  A template that throws counts as
\* a send that Telegram did not accept.  (Telegram may also accept a request
\* only after the sender's timeout gave up on it: nothing reads when.)
Send(d, accept, ok) ==
    /\ pc[d] = "deliver"
    /\ ~Exhausted(d)
    /\ ok => accept
    /\ sends'     = [sends EXCEPT ![row[d]] = @ + 1]
    /\ delivered' = [delivered EXCEPT ![row[d]] = @ \/ accept]
    /\ pc'        = [pc EXCEPT ![d] = "record"]
    /\ outcome'   = [outcome EXCEPT ![d] = OutcomeOf(ok, att[d], Limit(row[d]))]
    /\ UNCHANGED <<tableVars, row, att, hold, rerun, handled, owed, faults>>

\* The transaction of record(): the update is by id alone, whatever has become
\* of the row since the claim.  Then the for loop goes on, or has run out.
Record(d) ==
    LET n == row[d]
        o == outcome[d]
    IN  /\ pc[d] = "record"
        /\ history'   = [history EXCEPT ![n] = Append(@, o)]
        /\ status'    = [status EXCEPT ![n] = IF o = "retry" THEN "pending" ELSE o]
        /\ dueIn'     = [dueIn EXCEPT ![n] = IF o = "retry" THEN Backoff(kind[n], att[d]) ELSE 0]
        /\ leaseLeft' = [leaseLeft EXCEPT ![n] = -1]
        /\ handled'   = [handled EXCEPT ![d] = @ + 1]
        /\ pc'        = [pc EXCEPT ![d] = IF handled[d] + 1 < MaxPerTick THEN "claim" ELSE "passEnd"]
        /\ row'       = [row EXCEPT ![d] = None]
        /\ att'       = [att EXCEPT ![d] = 0]
        /\ outcome'   = [outcome EXCEPT ![d] = None]
        /\ hold'      = [hold EXCEPT ![d] = 0]
        /\ UNCHANGED <<kind, attempts, telegram, rerun, owed, faults>>

Drop(d) ==
    /\ pc'      = [pc EXCEPT ![d] = "idle"]
    /\ handled' = [handled EXCEPT ![d] = 0]
    /\ row'     = [row EXCEPT ![d] = None]
    /\ att'     = [att EXCEPT ![d] = 0]
    /\ outcome' = [outcome EXCEPT ![d] = None]
    /\ hold'    = [hold EXCEPT ![d] = 0]
    /\ owed'    = [owed EXCEPT ![d] = FALSE]
    /\ faults'  = faults + 1
    /\ UNCHANGED <<tableVars, telegram>>

\* A query of claim() or record() throws: the catch of tick() leaves the row
\* as it is, and rerun as it was.
DatabaseError(d) ==
    /\ faults < MaxFaults
    /\ pc[d] \in {"claim", "record"}
    /\ UNCHANGED rerun
    /\ Drop(d)

\* The process dies and PM2 starts it again.
Crash(d) ==
    /\ faults < MaxFaults
    /\ pc[d] # "idle"
    /\ rerun' = [rerun EXCEPT ![d] = FALSE]
    /\ Drop(d)

\* purge(): sent rows older than the retention go, with their attempts (ON
\* DELETE CASCADE); so do old attempts of failed rows.  A sent or failed row
\* was recorded with nextAttemptAt = now(), so -dueIn is its age.  (A row
\* still being retried is taken to be younger than the 90 days.)
Purge ==
    LET old == {n \in Notifications : status[n] \in {"sent", "failed"} /\ dueIn[n] < -Retention}
    IN  /\ \E n \in old : Stored(n) /\ (status[n] = "sent" \/ history[n] # <<>>)
        /\ history' = [n \in Notifications |-> IF n \in old THEN <<>> ELSE history[n]]
        /\ status'  = [n \in Notifications |->
                          IF n \in old /\ status[n] = "sent" THEN "purged" ELSE status[n]]
        /\ UNCHANGED <<kind, attempts, dueIn, leaseLeft>>
        /\ UNCHANGED <<claimVars, tickVars, telegram, faults>>

------------------------------------------------------------------------------
\* Time passes.  A claim is held for at most MaxHold: the sender's budget plus
\* the time to record, or longer in a run about stuck sends.
Elapse ==
    /\ \A d \in Dispatchers : Holding(d) => hold[d] < MaxHold
    /\ dueIn' = [n \in Notifications |->
                    IF Stored(n) /\ dueIn[n] > -(Retention + 1) THEN dueIn[n] - 1 ELSE dueIn[n]]
    /\ leaseLeft' = [n \in Notifications |->
                        IF leaseLeft[n] >= 0 THEN leaseLeft[n] - 1 ELSE leaseLeft[n]]
    /\ hold' = [d \in Dispatchers |-> IF Holding(d) THEN hold[d] + 1 ELSE 0]
    /\ UNCHANGED <<kind, status, attempts, history, row, att, outcome, tickVars, telegram, faults>>

Deliver(d) == Abandon(d) \/ \E accept, ok \in BOOLEAN : Send(d, accept, ok)

Claims(d) == ClaimNothing(d) \/ \E n \in Notifications : Claim(d, n)

Next ==
    \/ \E n \in Notifications, e \in EventTypes : Enqueue(n, e)
    \/ \E d \in Dispatchers :
          \/ StartTick(d) \/ RefuseTick(d)
          \/ Claims(d) \/ EndPass(d) \/ Deliver(d) \/ Record(d)
          \/ DatabaseError(d) \/ Crash(d)
    \/ Purge
    \/ Elapse

Spec == Init /\ [][Next]_vars

\* The interval timer of a configured dispatcher keeps firing, an awaited
\* query or send settles (the sender has a budget), and time passes.  Nothing
\* is assumed of enqueue, kick, purge, crashes and errors.
Fairness ==
    /\ \A d \in Configured :
          /\ WF_vars(StartTick(d))
          /\ WF_vars(Claims(d))
          /\ WF_vars(EndPass(d))
          /\ WF_vars(Deliver(d))
          /\ WF_vars(Record(d))
    /\ WF_vars(Elapse)

FairSpec == Spec /\ Fairness
------------------------------------------------------------------------------
(* Properties *)

\* Every variable has its type; a dispatcher has a row in hand exactly between
\* the claim and the record.
TypeOK ==
    /\ kind \in [Notifications -> EventTypes \cup {None}]
    /\ status \in [Notifications -> Statuses]
    /\ attempts \in [Notifications -> Nat]
    /\ dueIn \in [Notifications -> Int]
    /\ leaseLeft \in [Notifications -> -1..Lease]
    /\ history \in [Notifications -> Seq(Outcomes)]
    /\ pc \in [Dispatchers -> {"idle", "claim", "deliver", "record", "passEnd"}]
    /\ row \in [Dispatchers -> Notifications \cup {None}]
    /\ att \in [Dispatchers -> Nat]
    /\ outcome \in [Dispatchers -> Outcomes \cup {None}]
    /\ rerun \in [Dispatchers -> BOOLEAN]
    /\ handled \in [Dispatchers -> 0..MaxPerTick]
    /\ hold \in [Dispatchers -> Nat]
    /\ sends \in [Notifications -> Nat]
    /\ delivered \in [Notifications -> BOOLEAN]
    /\ owed \in [Dispatchers -> BOOLEAN]
    /\ faults \in Nat
    /\ \A d \in Dispatchers :
          /\ row[d] # None <=> Holding(d)
          /\ outcome[d] # None <=> pc[d] = "record"

\* Two dispatchers on one database never work on the same row at the same time
\* (claim()'s lease, "safe with several dispatchers on one database").  It
\* needs MaxHold <= Lease: "only a crashed/stuck send loses its claim".
ExclusiveClaim ==
    \A d, e \in Dispatchers :
        Holding(d) /\ Holding(e) /\ row[d] = row[e] => d = e

\* However many crashes, reclaims and stuck sends there are, Telegram is never
\* asked more often than the policy's maxAttempts: the counter is raised by
\* the claim, and deliver() gives up a row reclaimed after its last attempt.
SendsWithinPolicy ==
    \A n \in Notifications : sends[n] <= Limit(n)

\* A row is marked sent only if Telegram accepted its message, and failed only
\* when its attempts are spent -- also when a dispatcher that lost its lease
\* records late over another one's result.
NoFalseVerdict ==
    \A n \in Notifications :
        /\ status[n] \in {"sent", "purged"} => delivered[n]
        /\ status[n] = "failed" => attempts[n] >= Limit(n)

\* notification_attempts and notification_outbox agree: what is not settled has
\* only retries behind it, what is settled has exactly one verdict, its own and
\* the last; there is never an attempt on record that no claim counted.
HistoryMatchesRow ==
    \A n \in Notifications :
        LET h == history[n]
        IN  /\ Len(h) <= attempts[n]
            /\ \A i \in 1..Len(h) :
                  \/ h[i] = "retry" /\ (i = Len(h) => status[n] \in {"pending", "processing"})
                  \/ h[i] = status[n] /\ i = Len(h)

\* A tick that found another one running (a kick during a pass) is not lost:
\* the dispatcher looks at the queue again before it goes idle.  Only an error
\* or a crash drops it; the timer is then the retry.
NoLostKick ==
    \A d \in Dispatchers : pc[d] = "idle" => ~owed[d]

\* With a record within the lease, the outbox does what NotificationPromise
\* says, whatever crashes: settled once and for all, sent only if delivered,
\* given up only when the attempts are spent, one offer per attempt at most.
PhaseOf(n) == IF status[n] \in {"pending", "processing"} THEN "queued" ELSE status[n]
LimitOf(n) == IF status[n] = "none" THEN 0 ELSE Limit(n)
SpentOf(n) == IF attempts[n] <= LimitOf(n) THEN attempts[n] ELSE LimitOf(n)

Promise == INSTANCE NotificationPromise WITH
    Limits   <- {PolicyFor(e).maxAttempts : e \in EventTypes},
    phase    <- [n \in Notifications |-> PhaseOf(n)],
    limit    <- [n \in Notifications |-> LimitOf(n)],
    spent    <- [n \in Notifications |-> SpentOf(n)],
    offered  <- sends,
    accepted <- delivered

PromiseKept == Promise!Spec

\* Every queued row is eventually sent or given up: the timer and the leases
\* get it past lost kicks, full passes, crashes and database errors.
EventuallySettled ==
    \A n \in Notifications :
        status[n] = "pending" ~> status[n] \in {"sent", "failed"}
=============================================================================
