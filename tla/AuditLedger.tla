------------------------------ MODULE AuditLedger -----------------------------
(***************************************************************************)
(* The hash-chained ledger of support access:                              *)
(*   access/audit-log.service.ts         (append, verifyChain)             *)
(*   access/entities/audit-event.entity.ts                                 *)
(*   tinta-core/tinta-agent.gateway.ts   (recordSecurityAnomaly, and what  *)
(*                                        the agent's events are told by)  *)
(*   access/access.service.ts            (what its events are told by)     *)
(*                                                                         *)
(* append() is one transaction under an advisory lock that its end         *)
(* releases.  A hash stands for what it was computed over: two are equal   *)
(* if that is.  Of an event's metadata the module has the keys, in their   *)
(* order, for the order goes into the hash and the database does not keep  *)
(* it; the values, the session and the time are told by the call.          *)
(***************************************************************************)
EXTENDS Integers, Sequences

CONSTANTS
    Appends,     \* calls that record an event
    EventTypes,  \* the types of the events that occur
    MaxBreaks    \* a bound on failed queries and restarts

None == "none"

ASSUME LedgerAssumption ==
    /\ None \notin Appends
    /\ MaxBreaks \in Nat

VARIABLES
    events,    \* rows of audit_events that are committed
    nextSeq,   \* the sequence of audit_events.seq
    holder,    \* the call whose transaction has the lock, or "none"
    step,      \* where a call is
    kind,      \* the type and metadata a call was given
    prevHash,  \* what it has found as the last hash
    draft,     \* the row it has inserted, while it is not committed
    breaks     \* the number of failures so far

callVars == <<step, kind, prevHash, draft>>

ledgerVars == <<events, nextSeq, holder, callVars, breaks>>

\* The keys of the metadata each event is recorded with.
Granted == <<"serverId", "durationMinutes", "reasonCode", "reasonDetails", "ticketId">>

Metadata ==
    [granted |-> {Granted, Append(Granted, "source")}, connected |-> {<<>>},
     activity_log |-> {<<"entryCount">>}, security_anomaly |-> {<<"anomalies">>},
     revoked |-> {<<"reason">>, <<"reason", "source">>}, expired |-> {<<"reason">>}]

\* The order in which a jsonb column keeps the keys: by length, then byte by byte.
JsonbOrder ==
    <<"reason", "source", "serverId", "ticketId", "anomalies", "entryCount",
      "reasonCode", "reasonDetails", "durationMinutes">>

\* Metadata as it is read back.
Stored(meta) == SelectSeq(JsonbOrder, LAMBDA k : \E i \in DOMAIN meta : meta[i] = k)

ComputeHash(by, type, meta, prev) == <<by, type, meta, prev>>

\* The prevHash of the first event is null.
NoHash == <<>>

NoKind == [type |-> None, meta |-> <<>>, alert |-> FALSE]

NoDraft == [by |-> None, type |-> None, meta |-> <<>>, seq |-> 0, prev |-> NoHash, hash |-> NoHash]

LedgerInit ==
    /\ events = {}
    /\ nextSeq = 1
    /\ holder = None
    /\ step = [a \in Appends |-> "new"]
    /\ kind = [a \in Appends |-> NoKind]
    /\ prevHash = [a \in Appends |-> NoHash]
    /\ draft = [a \in Appends |-> NoDraft]
    /\ breaks = 0

Last(e) == e \in events /\ \A f \in events : f.seq <= e.seq

------------------------------------------------------------------------------
(* append() *)

Step(a, s) == step' = [step EXCEPT ![a] = s]

\* An event is to be recorded.  That of an anomaly has an alert in its transaction.
Call(a, type, meta) ==
    /\ step[a] = "new"
    /\ kind' = [kind EXCEPT ![a] = [type |-> type, meta |-> meta, alert |-> type = "security_anomaly"]]
    /\ Step(a, "lock")
    /\ UNCHANGED <<events, nextSeq, holder, prevHash, draft, breaks>>

\* Mutant: the lock is not waited for.
LockAtOnce(a) ==
    /\ step[a] = "lock"
    /\ holder' = a
    /\ Step(a, "last")
    /\ UNCHANGED <<events, nextSeq, kind, prevHash, draft, breaks>>

\* pg_advisory_xact_lock()
Lock(a) ==
    /\ step[a] = "lock"
    /\ holder = None
    /\ holder' = a
    /\ Step(a, "last")
    /\ UNCHANGED <<events, nextSeq, kind, prevHash, draft, breaks>>

FindLast(a) ==
    /\ step[a] = "last"
    /\ \/ events = {} /\ prevHash' = [prevHash EXCEPT ![a] = NoHash]
       \/ \E e \in events : Last(e) /\ prevHash' = [prevHash EXCEPT ![a] = e.hash]
    /\ Step(a, "save")
    /\ UNCHANGED <<events, nextSeq, holder, kind, draft, breaks>>

\* The hash is computed over the metadata in hand; the row's is a jsonb column.
Save(a) ==
    /\ step[a] = "save"
    /\ draft' = [draft EXCEPT ![a] =
                   [by |-> a, type |-> kind[a].type, meta |-> Stored(kind[a].meta), seq |-> nextSeq,
                    prev |-> prevHash[a],
                    hash |-> ComputeHash(a, kind[a].type, kind[a].meta, prevHash[a])]]
    /\ nextSeq' = nextSeq + 1
    /\ Step(a, IF kind[a].alert THEN "alert" ELSE "commit")
    /\ UNCHANGED <<events, holder, kind, prevHash, breaks>>

\* inTransaction(): the alert is queued, and committed or rolled back with the event.
QueueAlert(a) ==
    /\ step[a] = "alert"
    /\ Step(a, "commit")
    /\ UNCHANGED <<events, nextSeq, holder, kind, prevHash, draft, breaks>>

\* What a committed transaction leaves.
Committed(a) ==
    /\ events' = events \cup {draft[a]}
    /\ holder' = None

Commit(a) ==
    /\ step[a] = "commit"
    /\ Committed(a)
    /\ Step(a, "done")
    /\ draft' = [draft EXCEPT ![a] = NoDraft]
    /\ UNCHANGED <<nextSeq, kind, prevHash, breaks>>

------------------------------------------------------------------------------
(* Failures *)

InTransaction(a) == step[a] \in {"last", "save", "alert", "commit"}

\* A query fails and all of the transaction is rolled back, or its commit is made and the
\* answer lost.  An anomaly is then recorded once more, without its alert; any other
\* event is given up.
FailAppend(a) ==
    /\ InTransaction(a)
    /\ breaks < MaxBreaks
    /\ breaks' = breaks + 1
    /\ \/ holder' = None /\ UNCHANGED events
       \/ step[a] = "commit" /\ Committed(a)
    /\ draft' = [draft EXCEPT ![a] = NoDraft]
    /\ Step(a, IF kind[a].alert THEN "lock" ELSE "done")
    /\ kind' = [kind EXCEPT ![a].alert = FALSE]
    /\ UNCHANGED <<nextSeq, prevHash>>

\* The process restarts, and every transaction is rolled back.
RestartLedger ==
    /\ breaks < MaxBreaks
    /\ breaks' = breaks + 1
    /\ holder' = None
    /\ step' = [a \in Appends |-> IF step[a] = "new" THEN "new" ELSE "done"]
    /\ draft' = [a \in Appends |-> NoDraft]
    /\ UNCHANGED <<events, nextSeq, kind, prevHash>>

AppendEvent(a) ==
    \/ \E type \in EventTypes : \E meta \in Metadata[type] : Call(a, type, meta)
    \/ Lock(a) \/ FindLast(a) \/ Save(a) \/ QueueAlert(a) \/ Commit(a) \/ FailAppend(a)

LedgerNext == (\E a \in Appends : AppendEvent(a)) \/ RestartLedger

LedgerSpec == LedgerInit /\ [][LedgerNext]_ledgerVars

------------------------------------------------------------------------------
(* Properties *)

Steps == {"new", "lock", "last", "save", "alert", "commit", "done"}

\* What a call may be given, and the hashes on record.
Given(k) ==
    /\ k = [type |-> k.type, meta |-> k.meta, alert |-> k.alert]
    /\ k.type \in EventTypes
    /\ k.meta \in Metadata[k.type]
    /\ k.alert \in BOOLEAN

Hashes == {NoHash} \cup {e.hash : e \in events}

\* A row has a number of the sequence before next, and its hash was computed over its call's
\* event and one of the hashes.
IsRow(r, next, hashes) ==
    /\ r = [by |-> r.by, type |-> r.type, meta |-> r.meta, seq |-> r.seq, prev |-> r.prev,
            hash |-> r.hash]
    /\ r.by \in Appends
    /\ r.type \in EventTypes
    /\ r.seq \in 1..(next - 1)
    /\ r.prev \in hashes
    /\ \E meta \in Metadata[r.type] :
          r.meta = Stored(meta) /\ r.hash = ComputeHash(r.by, r.type, meta, r.prev)

\* Every variable has its type; a draft there is is a row in a transaction.
LedgerTypeOK ==
    /\ \A e \in events : IsRow(e, nextSeq, Hashes)
    /\ nextSeq \in Nat \ {0}
    /\ holder \in Appends \cup {None}
    /\ step \in [Appends -> Steps]
    /\ kind = [a \in Appends |-> kind[a]]
    /\ \A a \in Appends : IF step[a] = "new" THEN kind[a] = NoKind ELSE Given(kind[a])
    /\ prevHash \in [Appends -> Hashes]
    /\ draft = [a \in Appends |-> draft[a]]
    /\ \A a \in Appends : IF step[a] \in {"alert", "commit"} THEN IsRow(draft[a], nextSeq, Hashes)
                                                          ELSE draft[a] = NoDraft
    /\ breaks \in 0..MaxBreaks

\* The rows verifyChain() reads one after the other.
Precedes(e, f) == e.seq < f.seq /\ \A g \in events : g.seq <= e.seq \/ g.seq >= f.seq

\* "prevHash never races under concurrent writes": in the order of seq every event names
\* the hash of the one before it, whichever calls overlap, fail or are repeated.
ChainLinked ==
    \A f \in events :
        \/ f.prev = NoHash /\ \A e \in events : f.seq <= e.seq
        \/ \E e \in events : Precedes(e, f) /\ f.prev = e.hash

\* verifyChain(): every hash is computed anew, over what the row holds.
Verified(f, prev) == f.prev = prev /\ f.hash = ComputeHash(f.by, f.type, f.meta, prev)

\* "A chain built through normal appends verifies valid."
ChainVerifies ==
    \A f \in events :
        \/ Verified(f, NoHash) /\ \A e \in events : f.seq <= e.seq
        \/ \E e \in events : Precedes(e, f) /\ Verified(f, e.hash)
=============================================================================
