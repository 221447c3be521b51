---------------------------- MODULE SupportAccess -----------------------------
(***************************************************************************)
(* Temporary support access to one server of one client:                   *)
(*   access/access.service.ts        (grantAccess, revokeAccess,           *)
(*                                    recordConnection, the cron jobs)     *)
(*   tinta-core/tinta-agent.gateway.ts  (register, access_toggle and       *)
(*                                    setSupportAccess: what the client's  *)
(*                                    agent is told)                       *)
(*   servers/servers.service.ts      (setAccessEnabled)                    *)
(*                                                                         *)
(* A handler is an async function that awaits every query, with no         *)
(* transaction or lock around them: handlers interleave at every await,    *)
(* and one action below is what one handler does up to its next await.     *)
(* pc[h] names what handler h awaits.                                      *)
(*                                                                         *)
(* A session is a row of access_logs; it stands for the grantAccess call   *)
(* that made it, its password and its expiresAt.  Telegram notices are     *)
(* left to NotificationOutbox, agent_sessions and the server's status to   *)
(* the gateway's own state: nothing here reads them.                       *)
(***************************************************************************)
EXTENDS Naturals

CONSTANTS
    Sessions,   \* access_logs rows there may be
    Staff,      \* support employees
    Requests,   \* slots for the HTTP requests in progress
    Events,     \* slots for the events of the agent's socket in progress
    Cron,       \* slots for the runs of AccessScheduler in progress
    MaxFaults,  \* bound: crashes and failed queries
    None

Handlers == Requests \cup Events \cup Cron

ASSUME AccessAssumption ==
    /\ MaxFaults \in Nat
    /\ None \notin Sessions
    /\ None \notin Staff

VARIABLES
    accessEnabled,    \* Server.accessEnabled
    accessExpiresAt,  \* Server.accessExpiresAt: the grant it was computed by
    log,              \* state of a row: see LogStates
    grantedAt,        \* rank of the row's grantedAt stamp, 0 before it
    stamps,           \* stamps given so far
    accessedBy,       \* AccessLog.accessedBy; connectedAt is set with it
    ledger,           \* audit_events
    past,             \* sessions whose expiresAt is in the past
    link,             \* the agent's socket: see LinkStates
    told,             \* sessions whose password reached the agent on this link
    account,          \* what the agent was told last: a session, or None
    pc,               \* what a handler awaits
    sess,             \* the row a handler has in hand
    user,             \* the employee a connect request is from
    reason,           \* the reason of a revokeAccess
    attached,         \* handlers of an event from the agent's present socket
    faults            \* crashes and failed queries so far

\* History variables.
VARIABLES
    late,             \* sessions that were another employee's when a connect request
                      \* read the log
    given,            \* employees who got a row's password
    contested,        \* sessions two employees were about to claim at a time, or that
                      \* answered the claim of another session
    crossed,          \* a grant and a revocation were between their two writes at a
                      \* time, or one of them ended there, and no whole one came since
    unwatched         \* sessions granted while a run of the scheduler acts on a list
                      \* read before, or replaced in the server's row by a later grant

serverVars == <<accessEnabled, accessExpiresAt>>
logVars    == <<log, grantedAt, stamps, accessedBy>>
agentVars  == <<link, told, account>>
localVars  == <<sess, user, reason, attached, late>>

historyVars == <<given, contested, crossed, unwatched>>

vars == <<serverVars, logVars, ledger, past, agentVars, pc, localVars, historyVars, faults>>

\* "requested": its grantAccess is on the way to save it.
LogStates == {"none", "requested", "open", "revoked", "purged"}

\* "mapped": in this.agents; "synced": and a handler of one of its events has
\* gone through the server's access to the end.
LinkStates == {"down", "mapped", "synced"}

Granting   == {"stamp", "save", "auditGrant", "emitGrant"}
Revoking   == {"find", "disable", "close", "auditRevoke", "emitRevoke"}
Connecting == {"claim", "auditConnect", "reread"}
Toggling   == {"toggleOn", "toggleOff", "grant"}
Resyncing  == {"readServer", "readLog", "emitLog"}
Labels     == {"idle"} \cup Granting \cup Revoking \cup Connecting \cup Toggling \cup Resyncing

Open == {s \in Sessions : log[s] = "open"}

IsNewest(s) == s \in Open /\ \A r \in Open : grantedAt[r] <= grantedAt[s]

\* findOne({ isRevoked: false }, order: { grantedAt: 'DESC' }) answers x.
Found(x) == IF Open = {} THEN x = None ELSE IsNewest(x)

Rows == Sessions \cup {None}

Init ==
    /\ accessEnabled = FALSE
    /\ accessExpiresAt = None
    /\ log        = [s \in Sessions |-> "none"]
    /\ grantedAt  = [s \in Sessions |-> 0]
    /\ stamps     = 0
    /\ accessedBy = [s \in Sessions |-> None]
    /\ ledger     = {}
    /\ past       = {}
    /\ link       = "down"
    /\ told       = {}
    /\ account    = None
    /\ pc         = [h \in Handlers |-> "idle"]
    /\ sess       = [h \in Handlers |-> None]
    /\ user       = [h \in Handlers |-> None]
    /\ reason     = [h \in Handlers |-> None]
    /\ attached   = {}
    /\ late       = [h \in Handlers |-> {}]
    /\ given      = [s \in Sessions |-> {}]
    /\ contested  = {}
    /\ crossed    = FALSE
    /\ unwatched  = {}
    /\ faults     = 0

------------------------------------------------------------------------------
(* What several handlers do *)

Goto(h, label) == pc' = [pc EXCEPT ![h] = label]

\* The handler returns or throws.
Finish(h) ==
    /\ Goto(h, "idle")
    /\ sess'     = [sess EXCEPT ![h] = None]
    /\ user'     = [user EXCEPT ![h] = None]
    /\ reason'   = [reason EXCEPT ![h] = None]
    /\ late'     = [late EXCEPT ![h] = {}]
    /\ attached' = attached \ {h}

\* who is the employee who connects, None for any other actor.
Event(type, s, who) == [type |-> type, session |-> s, actor |-> who]

\* AuditLogService.append(): one transaction.
Audit(type, s, who) == ledger' = ledger \cup {Event(type, s, who)}

\* What a set_support_access event does at the agent.
Tell(s) ==
    /\ account' = s
    /\ told' = IF s = None THEN told ELSE told \cup {s}

\* setSupportAccess(): emitted on the socket in this.agents, or dropped.
SetSupportAccess(s) ==
    /\ IF link # "down" THEN Tell(s) ELSE UNCHANGED <<told, account>>
    /\ UNCHANGED link

------------------------------------------------------------------------------
(* grantAccess(), from POST /access/grant or from the agent's toggle *)

\* One of the two writes of a grant or of a revocation is done, of the server's row and
\* of access_logs.
HalfGranted == {h \in Handlers : pc[h] \in {"stamp", "save"}}
HalfRevoked == {h \in Handlers : pc[h] = "close"}
HalfDone    == HalfGranted \cup HalfRevoked

\* What the first write of a grant, or of a revocation, does to crossed: against is the
\* set of those of the other kind that are half done.
Cross(against) ==
    crossed' = IF HalfDone = {} THEN FALSE ELSE crossed \/ against # {}

\* A run of the scheduler has read the list of servers, and not the open session yet.
Scanned == \E h \in Handlers : pc[h] = "find" /\ reason[h] = "expired"

\* setAccessEnabled(true, expiresAt), s being the row to come.
GrantEnable(h, s) ==
    /\ pc[h] = "grant" \/ (h \in Requests /\ pc[h] = "idle")
    /\ log[s] = "none"
    /\ accessEnabled' = TRUE
    /\ accessExpiresAt' = s
    /\ log' = [log EXCEPT ![s] = "requested"]
    /\ Goto(h, "stamp")
    /\ sess' = [sess EXCEPT ![h] = s]
    /\ Cross(HalfRevoked)
    /\ unwatched' = unwatched \cup {x \in Sessions : log[x] \in {"requested", "open"}}
                               \cup {x \in {s} : Scanned}
    /\ UNCHANGED <<grantedAt, stamps, accessedBy, ledger, past, agentVars>>
    /\ UNCHANGED <<user, reason, attached, late, given, contested, faults>>

\* findById() answers; create() stamps grantedAt.
GrantStamp(h) ==
    /\ pc[h] = "stamp"
    /\ stamps' = stamps + 1
    /\ grantedAt' = [grantedAt EXCEPT ![sess[h]] = stamps + 1]
    /\ Goto(h, "save")
    /\ UNCHANGED <<serverVars, log, accessedBy, ledger, past, agentVars, localVars, historyVars, faults>>

GrantSave(h) ==
    /\ pc[h] = "save"
    /\ log' = [log EXCEPT ![sess[h]] = "open"]
    /\ Goto(h, "auditGrant")
    /\ UNCHANGED <<serverVars, grantedAt, stamps, accessedBy, ledger, past>>
    /\ UNCHANGED <<agentVars, localVars, historyVars, faults>>

GrantAudit(h) ==
    /\ pc[h] = "auditGrant"
    /\ Audit("granted", sess[h], None)
    /\ Goto(h, "emitGrant")
    /\ UNCHANGED <<serverVars, logVars, past, agentVars, localVars, historyVars, faults>>

GrantEmit(h) ==
    /\ pc[h] = "emitGrant"
    /\ SetSupportAccess(sess[h])
    /\ Finish(h)
    /\ UNCHANGED <<serverVars, logVars, ledger, past, historyVars, faults>>

------------------------------------------------------------------------------
(* revokeAccess(): manual, by the agent's toggle, or by the scheduler *)

RevokeStart(h) ==
    /\ h \in Requests
    /\ pc[h] = "idle"
    /\ Goto(h, "find")
    /\ reason' = [reason EXCEPT ![h] = "revoked"]
    /\ UNCHANGED <<serverVars, logVars, ledger, past, agentVars>>
    /\ UNCHANGED <<sess, user, attached, late, historyVars, faults>>

\* Mutant: the comparison with now the wrong way round.
OverdueReversed == accessEnabled /\ accessExpiresAt \notin past \cup {None}

Overdue == accessEnabled /\ accessExpiresAt \in past

\* checkAndRevokeExpired(): the list of servers is read once, each overdue
\* server is revoked later, whatever has become of it.
ScanExpired(h) ==
    /\ h \in Cron
    /\ pc[h] = "idle"
    /\ Overdue
    /\ Goto(h, "find")
    /\ reason' = [reason EXCEPT ![h] = "expired"]
    /\ UNCHANGED <<serverVars, logVars, ledger, past, agentVars>>
    /\ UNCHANGED <<sess, user, attached, late, historyVars, faults>>

RevokeFind(h) ==
    /\ pc[h] = "find"
    /\ \E x \in Rows : Found(x) /\ sess' = [sess EXCEPT ![h] = x]
    /\ Goto(h, "disable")
    /\ UNCHANGED <<serverVars, logVars, ledger, past, agentVars>>
    /\ UNCHANGED <<user, reason, attached, late, historyVars, faults>>

\* setAccessEnabled(false).
RevokeDisable(h) ==
    /\ pc[h] = "disable"
    /\ accessEnabled' = FALSE
    /\ accessExpiresAt' = None
    /\ Goto(h, "close")
    /\ Cross(HalfGranted)
    /\ UNCHANGED <<logVars, ledger, past, agentVars, localVars>>
    /\ UNCHANGED <<given, contested, unwatched, faults>>

\* Mutant: only the session in hand is closed.
RevokeCloseOne(h) ==
    /\ pc[h] = "close"
    /\ log' = [s \in Sessions |-> IF s = sess[h] /\ log[s] = "open" THEN "revoked" ELSE log[s]]
    /\ Goto(h, IF sess[h] = None THEN "emitRevoke" ELSE "auditRevoke")
    /\ UNCHANGED <<serverVars, grantedAt, stamps, accessedBy, ledger, past>>
    /\ UNCHANGED <<agentVars, localVars, historyVars, faults>>

\* Every open row of the server, not only the one found.
RevokeClose(h) ==
    /\ pc[h] = "close"
    /\ log' = [s \in Sessions |-> IF log[s] = "open" THEN "revoked" ELSE log[s]]
    /\ Goto(h, IF sess[h] = None THEN "emitRevoke" ELSE "auditRevoke")
    /\ UNCHANGED <<serverVars, grantedAt, stamps, accessedBy, ledger, past>>
    /\ UNCHANGED <<agentVars, localVars, historyVars, faults>>

\* Mutant: the reason written where the event's type belongs.
RevokeAuditRaw(h) ==
    /\ pc[h] = "auditRevoke"
    /\ Audit("manual", sess[h], None)
    /\ Goto(h, "emitRevoke")
    /\ UNCHANGED <<serverVars, logVars, past, agentVars, localVars, historyVars, faults>>

RevokeAudit(h) ==
    /\ pc[h] = "auditRevoke"
    /\ Audit(reason[h], sess[h], None)
    /\ Goto(h, "emitRevoke")
    /\ UNCHANGED <<serverVars, logVars, past, agentVars, localVars, historyVars, faults>>

\* Mutant: the agent is not told.
RevokeEmitNothing(h) ==
    /\ pc[h] = "emitRevoke"
    /\ Finish(h)
    /\ UNCHANGED <<serverVars, logVars, ledger, past, agentVars, historyVars, faults>>

RevokeEmit(h) ==
    /\ pc[h] = "emitRevoke"
    /\ SetSupportAccess(None)
    /\ Finish(h)
    /\ UNCHANGED <<serverVars, logVars, ledger, past, historyVars, faults>>

------------------------------------------------------------------------------
(* recordConnection(), from POST /access/connect *)

\* Mutant: the 409 forgotten.
NeverClaimed(s, u) == FALSE

\* activeLog.accessedBy && activeLog.accessedBy.id !== supportUserId
ClaimedByOther(s, u) == accessedBy[s] \notin {None, u}

\* It finds row s.  The 403 for no row and the 409 change nothing.
ConnectFind(h, u, s) ==
    /\ h \in Requests
    /\ pc[h] = "idle"
    /\ IsNewest(s)
    /\ ~ClaimedByOther(s, u)
    /\ Goto(h, IF accessedBy[s] = None THEN "claim" ELSE "reread")
    /\ sess' = [sess EXCEPT ![h] = s]
    /\ user' = [user EXCEPT ![h] = u]
    /\ late' = [late EXCEPT ![h] = {r \in Open : accessedBy[r] \notin {None, u}}]
    /\ UNCHANGED <<serverVars, logVars, ledger, past, agentVars>>
    /\ UNCHANGED <<reason, attached, historyVars, faults>>

\* The update is by id alone; it finds no row once the log was purged.
ConnectClaim(h) ==
    /\ pc[h] = "claim"
    /\ accessedBy' = IF log[sess[h]] = "purged"
                     THEN accessedBy
                     ELSE [accessedBy EXCEPT ![sess[h]] = user[h]]
    /\ Goto(h, "auditConnect")
    /\ contested' = contested \cup
          {s \in {sess[h]} : \E g \in Handlers :
              pc[g] = "claim" /\ sess[g] = s /\ user[g] # user[h]}
    /\ UNCHANGED <<serverVars, log, grantedAt, stamps, ledger, past>>
    /\ UNCHANGED <<agentVars, localVars, given, crossed, unwatched, faults>>

ConnectAudit(h) ==
    /\ pc[h] = "auditConnect"
    /\ Audit("connected", sess[h], user[h])
    /\ Goto(h, "reread")
    /\ UNCHANGED <<serverVars, logVars, past, agentVars, localVars, historyVars, faults>>

\* getActiveAccessForServer() and the answer: the password of the row found
\* now.  With no open row left the handler throws, and gives nothing.
ConnectAnswer(h) ==
    /\ pc[h] = "reread"
    /\ \E x \in Rows :
          /\ Found(x)
          /\ given' = [s \in Sessions |-> IF s = x THEN given[s] \cup {user[h]} ELSE given[s]]
          /\ contested' = contested \cup ({x} \ {sess[h], None})
    /\ Finish(h)
    /\ UNCHANGED <<serverVars, logVars, ledger, past, agentVars, crossed, unwatched, faults>>

------------------------------------------------------------------------------
(* The agent's socket *)

\* The socket is gone: handleDisconnect(), disconnectAgent() or the network.
\* Handlers of its events go on, but what they emit on it is lost.
LinkDown ==
    /\ link # "down"
    /\ link' = "down"
    /\ told' = {}
    /\ attached' = {}
    /\ UNCHANGED <<serverVars, logVars, ledger, past, account, pc, sess, user, reason, late, historyVars, faults>>

\* An event of the agent: the handler that starts is attached to the socket.
AgentEvent(h, label) ==
    /\ h \in Events
    /\ pc[h] = "idle"
    /\ Goto(h, label)
    /\ attached' = attached \cup {h}
    /\ UNCHANGED <<serverVars, logVars, ledger, past, told, account>>
    /\ UNCHANGED <<sess, user, reason, late, historyVars, faults>>

\* handleRegister(), past its checks, on a new socket or on the same again:
\* this.agents.set comes before the reads.
Register(h) ==
    /\ link' = IF link = "down" THEN "mapped" ELSE link
    /\ AgentEvent(h, "readServer")

\* handleAccessToggle(): only a registered socket has a clientId.
Toggle(h, label) ==
    /\ link # "down"
    /\ UNCHANGED link
    /\ AgentEvent(h, label)

\* findByClientId() answers the toggle's handler.
ToggleRead(h) ==
    /\ pc[h] \in {"toggleOn", "toggleOff"}
    /\ IF pc[h] = "toggleOff" /\ ~accessEnabled
       THEN Finish(h)
       ELSE /\ Goto(h, IF pc[h] = "toggleOff" THEN "find"
                       ELSE IF accessEnabled THEN "readLog" ELSE "grant")
            /\ reason' = [reason EXCEPT ![h] = IF pc[h] = "toggleOff" THEN "revoked" ELSE None]
            /\ UNCHANGED <<sess, user, attached, late>>
    /\ UNCHANGED <<serverVars, logVars, ledger, past, agentVars, historyVars, faults>>

\* The handler of an agent's event has gone through the server.
FinishSync(h) ==
    /\ link' = IF h \in attached THEN "synced" ELSE link
    /\ Finish(h)

\* The toggled server has no client user to grant for.
ToggleRefuse(h) ==
    /\ pc[h] = "grant"
    /\ Finish(h)
    /\ UNCHANGED <<serverVars, logVars, ledger, past, agentVars, historyVars, faults>>

\* Mutant: a registering agent is not told of an access that is open already.
ResyncNothing(h) ==
    /\ pc[h] = "readServer"
    /\ FinishSync(h)
    /\ UNCHANGED <<serverVars, logVars, ledger, past, told, account, historyVars, faults>>

\* findByClientId() answers the register's handler.
ResyncServer(h) ==
    /\ pc[h] = "readServer"
    /\ IF accessEnabled
       THEN Goto(h, "readLog") /\ UNCHANGED <<link, localVars>>
       ELSE FinishSync(h)
    /\ UNCHANGED <<serverVars, logVars, ledger, past, told, account, historyVars, faults>>

ResyncLog(h) ==
    /\ pc[h] = "readLog"
    /\ \/ /\ Goto(h, "emitLog")
          /\ \E s \in Open : IsNewest(s) /\ sess' = [sess EXCEPT ![h] = s]
          /\ UNCHANGED <<link, user, reason, attached, late>>
       \/ Open = {} /\ FinishSync(h)
    /\ UNCHANGED <<serverVars, logVars, ledger, past, told, account, historyVars, faults>>

\* client.emit on the event's own socket.
ResyncEmit(h) ==
    /\ pc[h] = "emitLog"
    /\ IF h \in attached THEN Tell(sess[h]) ELSE UNCHANGED <<told, account>>
    /\ FinishSync(h)
    /\ UNCHANGED <<serverVars, logVars, ledger, past, historyVars, faults>>

------------------------------------------------------------------------------
(* Retention, time and faults *)

\* purgeExpiredLogs() deletes the rows of the given set, those older than the
\* retention and under no hold.
Purge(old) ==
    /\ old # {}
    /\ \A s \in old : log[s] = "revoked"
    /\ log' = [s \in Sessions |-> IF s \in old THEN "purged" ELSE log[s]]
    /\ UNCHANGED <<serverVars, grantedAt, stamps, accessedBy, ledger, past>>
    /\ UNCHANGED <<agentVars, pc, localVars, historyVars, faults>>

\* The time of a grant runs out; it matters while the server's row refers to it.
Expire(s) ==
    /\ accessExpiresAt = s
    /\ s \notin past
    /\ past' = past \cup {s}
    /\ UNCHANGED <<serverVars, logVars, ledger, agentVars, pc, localVars, historyVars, faults>>

\* A query of a handler throws.  Past its last query a grant cannot fail.
Fail(h) ==
    /\ faults < MaxFaults
    /\ pc[h] \notin {"idle", "emitGrant", "emitLog"}
    /\ faults' = faults + 1
    /\ crossed' = (crossed \/ h \in HalfDone)
    /\ Finish(h)
    /\ UNCHANGED <<serverVars, logVars, ledger, past, agentVars, given, contested, unwatched>>

\* The process dies: every handler and every socket is gone.
Crash ==
    /\ faults < MaxFaults
    /\ faults'   = faults + 1
    /\ pc'       = [h \in Handlers |-> "idle"]
    /\ sess'     = [h \in Handlers |-> None]
    /\ user'     = [h \in Handlers |-> None]
    /\ reason'   = [h \in Handlers |-> None]
    /\ late'     = [h \in Handlers |-> {}]
    /\ attached' = {}
    /\ link'     = "down"
    /\ told'     = {}
    /\ crossed'  = (crossed \/ HalfDone # {})
    /\ UNCHANGED <<serverVars, logVars, ledger, past, account, given, contested, unwatched>>

Grant(h) ==
    \/ \E s \in Sessions : GrantEnable(h, s)
    \/ GrantStamp(h) \/ GrantSave(h) \/ GrantAudit(h) \/ GrantEmit(h)

Revoke(h) ==
    \/ RevokeFind(h) \/ RevokeDisable(h) \/ RevokeClose(h)
    \/ RevokeAudit(h) \/ RevokeEmit(h)

Connect(h) == ConnectClaim(h) \/ ConnectAudit(h) \/ ConnectAnswer(h)

Resync(h) == ToggleRead(h) \/ ToggleRefuse(h) \/ ResyncServer(h) \/ ResyncLog(h) \/ ResyncEmit(h)

Next ==
    \/ \E h \in Handlers :
          \/ Grant(h) \/ RevokeStart(h) \/ ScanExpired(h) \/ Revoke(h)
          \/ \E u \in Staff, s \in Sessions : ConnectFind(h, u, s)
          \/ Connect(h)
          \/ Register(h) \/ Toggle(h, "toggleOn") \/ Toggle(h, "toggleOff")
          \/ Resync(h)
          \/ Fail(h)
    \/ LinkDown
    \/ \E old \in SUBSET Sessions : Purge(old)
    \/ \E s \in Sessions : Expire(s)
    \/ Crash

Spec == Init /\ [][Next]_vars

\* The cron job runs every minute, its queries settle, and time passes.
\* Nothing is assumed of the clients, the staff and the agent.
Fairness ==
    /\ \A h \in Cron : WF_vars(ScanExpired(h)) /\ WF_vars(Revoke(h))
    /\ \A s \in Sessions : WF_vars(Expire(s))

FairSpec == Spec /\ Fairness
------------------------------------------------------------------------------
(* Properties *)

TypeOK ==
    /\ accessEnabled \in BOOLEAN
    /\ accessExpiresAt \in Rows
    /\ log \in [Sessions -> LogStates]
    /\ stamps \in Nat
    /\ grantedAt \in [Sessions -> Nat]
    /\ accessedBy \in [Sessions -> Staff \cup {None}]
    /\ ledger \subseteq [type : {"granted", "connected", "revoked", "expired"},
                         session : Sessions, actor : Staff \cup {None}]
    /\ past \subseteq Sessions
    /\ link \in LinkStates
    /\ told \subseteq Sessions
    /\ account \in Rows
    /\ pc \in [Handlers -> Labels]
    /\ sess \in [Handlers -> Rows]
    /\ user \in [Handlers -> Staff \cup {None}]
    /\ reason \in [Handlers -> {"revoked", "expired", None}]
    /\ attached \subseteq Handlers
    /\ late \in [Handlers -> SUBSET Sessions]
    /\ given \in [Sessions -> SUBSET Staff]
    /\ contested \subseteq Sessions
    /\ crossed \in BOOLEAN
    /\ unwatched \subseteq Sessions
    /\ faults \in 0..MaxFaults

\* "Binds the session to exactly one support employee": no two employees ever
\* get the password of the same session.
ExclusiveBinding ==
    \A s \in Sessions : \A u, v \in given[s] : u = v

\* The row that recordConnection would give out.
Newest == {s \in Sessions : IsNewest(s)}

Current == IF Newest = {} THEN None ELSE CHOOSE s \in Newest : TRUE

\* The rows that were made, whatever has become of them.
Saved == {s \in Sessions : log[s] \in {"open", "revoked", "purged"}}

Session == INSTANCE SupportSession WITH current <- Current, used <- Saved, owner <- accessedBy

\* With one handler at a time the handlers' queries and awaits add up to what a client
\* relies on: one session, one employee, and no password before, beside or after it.
SessionKept == Session!Spec

\* What is left of it under any interleaving: an employee whose request comes
\* when a session is another one's already is not about to get its password,
\* even if sessions are opened and closed during the request.
LatecomerRejected ==
    \A h \in Handlers :
        pc[h] \in Connecting => \A s \in late[h] : ~IsNewest(s)

\* And an employee who got a session's password is its only one, unless two were about
\* to claim it at a time, or it was the answer to the claim of an older session: whatever
\* fails, a claim that was seen is kept.
OneEmployee ==
    \A s \in Sessions \ contested : \A u, v \in given[s] : u = v

\* No handler is in the middle of its work.
AtRest == \A h \in Handlers : pc[h] = "idle"

\* "accessEnabled implies an active grant" with a concrete expiry.
EnabledMeansGranted ==
    AtRest /\ accessEnabled => Open # {} /\ accessExpiresAt # None

\* What is left of it under any interleaving and fault, and the other way round: unless
\* a grant and a revocation crossed, or one of them stopped half-way, an enabled server
\* has an expiry that is of an open row, and a closed one has no row left from which
\* recordConnection would still give out a password.  The next grant or revocation that
\* goes through sets things right, whatever came before it.
FlagsAgree ==
    HalfDone = {} /\ ~crossed =>
        IF accessEnabled THEN accessExpiresAt \in Open
                         ELSE accessExpiresAt = None /\ Open = {}

\* The ledger calls a session expired only after its time, but for a session that the
\* scheduler's stale list led to, or whose time was no longer in the server's row.
NoEarlyExpiry ==
    \A s \in Sessions : Event("expired", s, None) \in ledger => s \in past \cup unwatched

\* The password of the session that is open reaches the agent, whichever of
\* grant and register comes first: the grant finds the socket in this.agents,
\* or the register finds the row.
\* (It is about a grant that was recorded whole, and whose row is still the
\* one the server's accessExpiresAt comes from.)
AgentKnowsSession ==
    \A s \in Sessions :
        /\ link = "synced"
        /\ accessEnabled /\ accessExpiresAt = s /\ IsNewest(s)
        /\ Event("granted", s, None) \in ledger
        /\ \A h \in Handlers : pc[h] = "emitGrant" => sess[h] # s
        => s \in told

\* What the agent was told last on this socket is how things stand: a
\* revocation reaches it, and so does the newest password, if no query fails.
AgentFollows ==
    AtRest /\ faults = 0 /\ link = "synced" /\ account \in told =>
        accessEnabled /\ IsNewest(account)

\* An access that is enabled ends, whatever fails in between.
AccessEnds == accessEnabled ~> ~accessEnabled
=============================================================================
