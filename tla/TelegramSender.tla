---------------------------- MODULE TelegramSender ----------------------------
(***************************************************************************)
(* One call of TelegramSender.send(), the longest part of what a           *)
(* dispatcher does between its claim of a notification and the record of   *)
(* the outcome:                                                            *)
(*   notifications/telegram-sender.ts   (send, withTimeout)                *)
(*                                                                         *)
(* The time since the call began is in seconds, as the limits are, and     *)
(* passes while an HTTP call or a pause is awaited.  A timer fires up to   *)
(* MaxLate late, and an answer may still win against a late one.           *)
(***************************************************************************)
EXTENDS Integers

CONSTANTS
    RetryAfters,  \* the retry_after values Telegram may give
    MaxLate       \* a bound on the lateness of a timer

SendBudget == 45

SendTimeout == 10

MinAttempt == 3

SendMaxAttempts == 3

MaxRetryAfter == 30

RetryPause == 2

\* A timer that is later than the time kept for an attempt could use up all of it.
ASSUME SenderAssumption ==
    /\ RetryAfters \subseteq Nat
    /\ MaxLate \in 0..MinAttempt

VARIABLES
    sending,  \* what send() awaits: a "call" or a "pause"; or it has "sent" or "failed"
    attempt,  \* the number of HTTP calls so far
    plain,    \* the message goes as plain text
    pause,    \* how long it is to wait before the next call
    elapsed   \* the time since send() was called

senderVars == <<sending, attempt, plain, pause, elapsed>>

SenderInit ==
    /\ sending = "call"
    /\ attempt = 1
    /\ plain = FALSE
    /\ pause = 0
    /\ elapsed = 0

Least(i, j) == IF i < j THEN i ELSE j

\* Mutant: every call is given its full time.
FullTimeout == SendTimeout

\* The time a call is given: its limit, or what is left of the budget, or a moment.
Timeout == IF elapsed < SendBudget THEN Least(SendTimeout, SendBudget - elapsed) ELSE 0

\* When a call that is begun now may end.
CallEnds == elapsed..(elapsed + Timeout + MaxLate)

Accepted(now) ==
    /\ sending = "call"
    /\ sending' = "sent"
    /\ elapsed' = now
    /\ UNCHANGED <<attempt, plain, pause>>

\* There is to be another call after a wait, plain or not, if it still has a chance.
RetryIn(now, wait, asPlain) ==
    /\ elapsed' = now
    /\ plain' = asPlain
    /\ IF now + wait + MinAttempt > SendBudget
         THEN sending' = "failed" /\ UNCHANGED <<attempt, pause>>
         ELSE /\ sending' = IF wait = 0 THEN "call" ELSE "pause"
              /\ attempt' = attempt + 1
              /\ pause' = wait

GiveUp(now) ==
    /\ elapsed' = now
    /\ sending' = "failed"
    /\ UNCHANGED <<attempt, plain, pause>>

\* A 429: Telegram says when to come back.
RateLimited(now, after) ==
    /\ sending = "call"
    /\ IF attempt >= SendMaxAttempts \/ after > MaxRetryAfter
         THEN GiveUp(now)
         ELSE RetryIn(now, after, plain)

\* Any other error, a timeout included: first the formatting is given up.
Rejected(now) ==
    /\ sending = "call"
    /\ IF attempt >= SendMaxAttempts
         THEN GiveUp(now)
         ELSE RetryIn(now, IF plain THEN RetryPause ELSE 0, TRUE)

WakeUp(late) ==
    /\ sending = "pause"
    /\ sending' = "call"
    /\ elapsed' = elapsed + pause + late
    /\ UNCHANGED <<attempt, plain, pause>>

SenderNext ==
    \/ \E now \in CallEnds : Accepted(now)
    \/ \E now \in CallEnds, after \in RetryAfters : RateLimited(now, after)
    \/ \E now \in CallEnds : Rejected(now)
    \/ \E late \in 0..MaxLate : WakeUp(late)

SenderSpec == SenderInit /\ [][SenderNext]_senderVars

------------------------------------------------------------------------------
(* Properties *)

SenderTypeOK ==
    /\ sending \in {"call", "pause", "sent", "failed"}
    /\ attempt \in 1..SendMaxAttempts
    /\ plain \in BOOLEAN
    /\ pause \in 0..MaxRetryAfter
    /\ elapsed \in Nat

\* "The whole call - HTTP attempts, 429 waits, pauses - fits one 45s budget", but for the
\* lateness of its last timer, however its attempts and pauses follow each other.
SendWithinBudget == elapsed <= SendBudget + MaxLate
=============================================================================
