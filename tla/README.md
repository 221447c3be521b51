# tinta-lab: specifications

TLA+ models of the tinta-lab backend, the TLC configurations that check them on
small instances, and theorems about them with machine-checked proofs.

The backend is one NestJS process (PM2, fork mode) over a Postgres database. It
manages Home Assistant hubs at clients' homes: each hub runs an agent that keeps
a WebSocket to the backend, support employees get temporary access to a hub, and
what matters is announced in a Telegram chat. JavaScript runs one callback at a
time, so handlers interleave at every `await` and nowhere else, and almost none
of the handlers holds a transaction or a lock across its awaits. That is where
most of what can go wrong in this system comes from, and it is what the models
keep: **one action is what one handler does from one await to the next.**
Data (texts, passwords, hashes, request bodies) is abstracted to identities.

Paths below are relative to `src/backend/src/` unless they begin with `src/`.
`PROJECT.json` maps every definition to the lines it stands for.

## Inventory

| Component | State | Operations | What makes it correct |
|---|---|---|---|
| **Notification outbox** `notifications/` | `notification_outbox`, `notification_attempts`; per process `running`, `rerun` | enqueue (alone or in the caller's transaction), kick, the 5 s tick, claim with `SKIP LOCKED` and a 2 min lease, deliver, record, daily purge | nothing queued is forgotten; two dispatchers never work on one row; attempts bounded by the policy; verdicts true |
| **Telegram sender** `notifications/telegram-sender.ts` | none across calls | send with timeout, plain-text fallback, pauses, a 45 s budget | a send ends within the budget, which is shorter than the lease |
| **Temporary support access** `access/` | `servers.accessEnabled/accessExpiresAt`, `access_logs` | grant, revoke, the per-minute expiry job, connect (discloses the password), purge | an enabled server has an open grant and an expiry, a disabled one no open session; one employee per session; nothing called expired before its time; access ends |
| **Audit ledger** `access/audit-log.service.ts` | `audit_events`, a hash chain | append (one transaction), verify | no event lost or reordered; an untouched chain verifies |
| **Agent gateway** `tinta-core/tinta-agent.gateway.ts` | `agents` (client -> socket), `pendingDiagnostics` | register, disconnect, heartbeat, access_toggle, activity log, security alert, diagnostics request/report, support access, self-update | the registered socket is the live one; the agent is told of the access as it stands |
| **Agent sessions, install link** `tinta-core/tinta-core.service.ts` | `agent_sessions` | provision, read and consume the one-time link, reissue, rotate the token | the link discloses its secrets once; an old token gets no connection |
| **Agent monitor** `tinta-core/agent-monitor.scheduler.ts` | tickets of its own | open a ticket for an agent gone silent, resolve it when it is back | one open ticket per outage |
| **Golden templates** `tinta-core/golden-template.service.ts` | `servers.appliedTemplates` | apply | what was applied is recorded |
| **Login sessions** `auth/` | the tokens in browsers, `revoked_sessions`, `users.passwordChangedAt`, `users.isActive` | login, the session check, the sliding session, logout, password change and reset, deactivation | a logout is final; whoever changes the password stays signed in |
| **Dashboard socket, presence** `servers/servers.gateway.ts`, `presence/` | `socketsBySession`, `online`, the room | connection, disconnect, subscribe, disconnectSession, presence | sockets end with their session; the count is of the live sockets |
| **Users** `users/` | `users` | CRUD, password, deactivation | see login sessions |
| **Servers** `servers/` | `servers` | CRUD, status, heartbeat (of a registration, or over HTTP), public probe, setAccessEnabled | the status tells whether an agent is there |
| **Provisioning** `provisioning/` | `provisioning_operations` (idempotency key, step, status) | claim, advance, complete, fail | one executor per key; a repeated request does not create a second hub |
| **Cloudflare** `cloudflare/` | tunnels and DNS records at Cloudflare | provision, delete | nothing orphaned when a call fails |
| **Tickets** `tickets/` | `tickets`, messages | create, update status, messages of client and staff | the status follows the transition table |
| **Diagnostics** `diagnostics/` | none | a snapshot, checks, aggregation | the overall status is that of the worst check |
| **Hubs, clients** `hubs/`, `clients/` | views and single rows | CRUD | - |
| **Shell, frontend, landing, operations** | - | wiring, UI, deploy scripts, SQL, Grafana | - |

How they interact: HTTP handlers and the agent's events call the services; a
grant or a revocation writes the server's row, the access log and the audit
ledger one after the other, then emits to the agent's socket and queues a
notification; a logout writes its row and then calls the listener that closes
dashboard sockets, in the same process; timers (`@Interval`, `@Cron`) run the
dispatcher, the expiry job, the monitor and the purges beside all of that.

What is hard, in short (`PROJECT.json` lists every hazard at its line):
check-then-act over two queries (connect, grant against revoke, tickets, the
install link), a value read before an await and used after it (the expiry job,
the session check of a socket, the sliding token), a crash between a claim and
its record, timeouts that give up on what still happens (Telegram, the agent),
two clocks' resolutions (seconds in `iat`, milliseconds in the database).

## Plan

The order was that of what would hurt most if it were wrong. All of it exists.

1. `NotificationPromise`, `NotificationOutbox`, `NotificationOutboxProofs` - the
   outbox, and the abstract queue it implements.
2. `SupportSession`, `SupportAccess`, `SupportAccessProofs` - grant, revoke,
   expiry, connect, what the agent is told, and the abstract session they implement
   when they do not overlap.
3. `LoginSessions`, `LoginSessionsProofs` - tokens, logouts, password changes.
4. `DashboardSockets`, `DashboardSocketsProofs` - connections against logouts.
5. `AgentSessions`, `AgentSessionsProofs` - registration, disconnect, rotation,
   the install link, golden templates.
6. `Provisioning`, `ProvisioningProofs` - the making and deletion of clients and
   hubs, with the calls to Cloudflare.
7. `Tickets`, `TicketsProofs` - the status table, and the monitor's alerts.
8. `Diagnostics` - the question to the agent, and the cause the page names.
9. `HashChain`, `AuditLedger` - the ledger, and the append-only chain it implements.
10. `TelegramSender` - the time budget of a send, which module 1 assumes.
11. `MCPlatform`, `PlatformProofs` - modules 6 to 10 together; the proofs of 8, 9
   and 10, and of the composition.

Left to do: the idempotency claim of `provisioning-operations.service.ts`, as soon
as anything calls it.

## The modules and the code

### NotificationOutbox

Rows are functions from `Notifications` to the columns of the table; each
dispatcher has a `pc` naming what its `tick()` awaits.

| Action | Code |
|---|---|
| `Enqueue` | `NotificationsService.enqueue` |
| `StartTick`, `RefuseTick`, `EndPass` | `tick`: the interval or a kick starts it, or sets `rerun` if it is running; the `do ... while (this.rerun)` |
| `Claim`, `ClaimNothing` | the one SQL statement of `claim` |
| `Abandon`, `Send` | `deliver`: a row reclaimed past its last attempt, or a call of the sender. Telegram may accept a message whose call times out |
| `Record` | the transaction of `record`, by id alone |
| `DatabaseError`, `Crash` | the `catch` of `tick`; the end of the process |
| `Purge` | `purge` |
| `Elapse` | time: counts down to `nextAttemptAt` and `lockedUntil` |

Bounds: `MaxHold`, the longest time from a claim to its record, and `MaxFaults`.
In the code the lease is 120 s, and a send takes at most its budget of 45 s plus
a last template and transaction: `MaxHold <= Lease` is how the program is meant
to run, and the run `outbox_stuck` drops it. `sends` counts calls of
`TelegramSender.send`, each of which makes up to three HTTP requests.

`NotificationPromise` is what a caller of `enqueue` can rely on: queued until
settled, settled once, *sent* only if accepted, *failed* only when the attempts
are spent, offered once per attempt at most. The refinement (`PromiseKept`) maps
pending and processing to queued, and counts a reclaim past the last attempt as
no attempt.

### SupportAccess

One server of one client. A session is a row of `access_logs`, and stands for the
grant that makes it, its password and its expiry. A handler is a slot: of an HTTP
request, of an event of the agent, or of the cron job.

| Actions | Code |
|---|---|
| `GrantEnable`, `GrantStamp`, `GrantSave`, `GrantAudit`, `GrantEmit` | `grantAccess`, await by await |
| `RevokeStart`/`ScanExpired`, `RevokeFind`, `RevokeDisable`, `RevokeClose`, `RevokeAudit`, `RevokeEmit` | `revokeAccess`, manual or from `checkAndRevokeExpired`, whose list is read once |
| `ConnectFind`, `ConnectClaim`, `ConnectAudit`, `ConnectAnswer` | `recordConnection`; the answer re-reads the newest open row |
| `Register`, `ResyncServer`, `ResyncLog`, `ResyncEmit` | `handleRegister` past its checks: the socket is entered first, the access read and sent afterwards |
| `Toggle`, `ToggleRead`, `ToggleRefuse` | `handleAccessToggle` |
| `LinkDown` | the agent's socket is gone; what is emitted on it is lost |
| `Purge`, `Expire`, `Fail`, `Crash` | retention, time, a query that throws, the end of the process |

The history variables: `late` has the sessions that were another employee's when a
connect began, `given` who was answered a password. The other three name what the code
leaves unguarded, and each is the exception of one property that otherwise holds of any
interleaving and any fault:

- `contested` (`OneEmployee`): two employees were about to claim a session at a time,
  or it was the answer to the claim of another;
- `crossed` (`FlagsAgree`): a grant and a revocation were between their two writes (the
  server's row, `access_logs`) at a time, or one of them stopped there. The next grant
  or revocation whose two writes nothing crosses clears it (`Cross`), so the property
  also says that such a state does not outlast it;
- `unwatched` (`NoEarlyExpiry`): a session was granted while a run of the scheduler was
  about to act on a list it had read before, or another was granted over it.

`SupportSession` is what a client relies on: one session at a time, from its grant to
its end or the next grant; claimed once, by one employee; its password disclosed to
that employee, and only while it is current. The refinement (`SessionKept`) maps the
current session to the newest open row - what `getActiveAccessForServer` reads - the
owner to `accessedBy`, and the sessions used to the rows that were made. It holds of
handlers that do not overlap: two claims at once already break it (see Findings). What
holds of those that do is `OneEmployee` and `LatecomerRejected`.

### LoginSessions

The clock counts seconds, as `iat` does. `tokens` is every unexpired token
wherever it is kept: a client may use any of them, or none. `expiresAt[s]` is the
revocation row of session `s`.

| Actions | Code |
|---|---|
| `LoginFind`, `LoginSign` | `AuthService.login` |
| `Present`, `CheckSession`, `CheckAccount`, `Fail` | `JwtStrategy.validate` and `assertSessionValid`: two queries side by side, within 3 s, the answers in any order |
| `Answer` | a handler's answer, and the fresh token of `SlidingSessionInterceptor` |
| `Logout`, `LogoutRecord`, `LogoutCleanup` | `revoke`: now, the insert, the delete of what had expired by then |
| `ChangePassword`, `ChangeSave`, `SetActive` | `changeOwnPassword`, `resetPassword`, `update` |
| `Tick`, `Crash` | time; the end of the process |

`expiresAt` and the cleanup's `now` are milliseconds in the code: within one
second the delete may or may not take a row, and `LogoutCleanup` allows both.

### DashboardSockets

| Actions | Code |
|---|---|
| `Connect`, `Check`, `Refuse`, `Authenticate` | `handleConnection`, before and after the awaited session check; it goes on even if the socket has disconnected meanwhile |
| `Subscribe` | `handleSubscribe`: a message is handled even while the check is pending |
| `Disconnect` | `handleDisconnect`: nothing to undo unless `data.user` is set |
| `Record`, `Notify` | `revoke`: the insert, and the listener `disconnectSession` |
| `Restart` | the process ends: connections and both maps are gone, `revoked_sessions` is not |

`ghosts` is a history variable: the sockets whose disconnect was handled during their
session check, and that `Authenticate` then marks online. The count has them until the
process restarts, against "number of live sockets" (`presence.service.ts:3`), and
`PresenceCounts` says that it is off by exactly them.

### AgentSessions

One client: its row of `agent_sessions`, the gateway's map entry and the sockets
of its agent. An agent's JWT and its install link are issued together, so one
number stands for both. `reg`, `off`, `admin`, `mark` and `reader` say which await
a handler is at.

| Actions | Code |
|---|---|
| `ReadSession`, `Accept`, `Connect`, `ServersOn`, `ClearLink`, `FinishRegister` | `handleRegister`, await by await: the row is read and compared, the socket entered in the map (also if it has closed meanwhile), the row updated or made, the servers' status, the link cleared if the *first* read had one |
| `RegisterTemplate`, `ApplyGoldenTemplate`, `MarkFind`, `MarkSave`, `MarkCollide` | `applyTemplate` and `markApplied`: emitted first, then read, then saved. TypeORM's `save` writes every column in which the entity differs from the row as it then is, so that a rotation, a consumed link or a deletion in between is undone |
| `Disconnect`, `OffRow`, `OffServers` | `handleDisconnect`: the map at once, if the entry is the socket's own; the rows after it |
| `Heartbeat` | `handleHeartbeat`: marks the row connected |
| `Provision`, `Reissue`, `CreateRow`, `RotateRow` | `provisionAgent`, `reissueInstallLink`: the agent's socket is closed *before* the new token is written |
| `AddHub`, `DropHub`, `KeepSession`, `DeleteSession` | `ServersService.create`, `delete`: a new hub's status is UNKNOWN; the hub's row goes, then, if no other was made meanwhile, the session's: the agent is not told |
| `ServerHeartbeat` | `POST /servers/:id/heartbeat`: the hub is shown online, agent or none |
| `Consent`, `ReadLink`, `ConsumeLink` | `recordServiceStartConsent`, `getInstallConfig`: read and consumed in two statements |
| `FailRegister`, `FailDisconnect`, `FailAdmin`, `Restart` | a query fails, the process ends |

`newest`, `ghosts`, `escaped`, `misled`, `clobbered`, `before` and `sent` are
history variables. `ghosts`, `escaped`, `misled` and `clobbered` name ways in which
the code does not keep a promise, and the property that has one as an exception says
that it is the *only* way. That does not make the promise kept: the hazards in
`PROJECT.json` say of each whether the code meets it. `misled` is the widest. It is set
when `servers.status` is last written against the map: by a handler that comes late, by
a heartbeat over HTTP with no agent there, by a new hub beside one, and by a failure or
a restart that leaves a write undone; the agent's own heartbeats do not touch the
status, so only the next registration, disconnect or heartbeat over HTTP sets it right.

### Provisioning

One e-mail address: a user, its client, the hubs and their Cloudflare resources.
`at` says which query or call a request awaits.

| Actions | Code |
|---|---|
| `StartExisting`, `FindUser`, `FindClient`, `LinkUser`, `CheckEmail`, `AddUser`, `AddClient` | `provisionClient` up to the server: a found user or client is reused, a new one is inserted under the unique keys |
| `AddHub`, `MakeResource`, `Configure`, `Record` | `ServersService.create`, `CloudflareService.provisionServer`: the row first, then tunnel, ingress, DNS record, access app, then their ids in one update |
| `FindSession`, `AddSession`, `RotateSession` | `provisionAgent` |
| `FindHub`, `ClearResource`, `Cleared`, `DropHub`, `CountHubs`, `DropSession` | `ServersService.delete`: what the row names at Cloudflare, the row, then the session if the client has no other hub |
| `FindClientOf`, `ListHubs`, `DropHubs`, `DropClient`, `DropUser` | `UsersService.delete` |
| `FileTicket` | a ticket about a hub; its foreign key has no `ON DELETE` |
| `FailCall`, `FailClear`, `FailQuery`, `RestartRequests` | a call to Cloudflare that fails, or whose answer does (`kept`); a query; the process ends |

### Tickets

Tickets with their status, and one client's agent as the monitor sees it.

| Actions | Code |
|---|---|
| `CreateTicket` | `create`, `createForClient` |
| `EditFind`, `EditWrite`, `EditMessage` | `updateStatus`: read and check against `ticket-status.transitions.ts`, update by id, the message that is the only trail |
| `FindStale`, `MarkOffline`, `RaiseFind`, `RaiseSave` | `checkAgentHealth`: agents gone silent are marked, and a ticket is opened unless one is open |
| `FindOnline`, `ResolveFind`, `Resolve` | agents back online: their untouched alerts are resolved, by id |
| `Beat`, `SocketCloses`, `FallSilent` | what the agent's row tells |
| `FailEdit`, `FailRun`, `RestartBackend` | failures |

### Diagnostics

| Actions | Code |
|---|---|
| `ReadServers`, `Ask`, `ReadSession`, `Judge` | `getClientDiagnostics`: the client and server first, then the session and the live agent in parallel |
| `Ask`, `ReportArrives`, `TimerFires`, `AgentReports` | `requestDiagnostics`, `handleDiagnosticsReport`: one pending question per client, a new one answers the old one's view with nothing, the 5 s timer |
| `AgentConnects`, `AgentDisconnects`, `RowsFollow`, `HomeAssistantFlips` | what changes at home meanwhile |
| `CheckClient` ... `CheckProvisioning`, `Found`, `RootCause` | `diagnostic-checks.ts`, and the choice of the root cause on the page |

A behaviour begins in any home that is `Consistent`, which says of it only that an agent
that is online is installed. The server's row may say anything beside: registration,
`handleDisconnect` and heartbeats over HTTP write it, the agent's heartbeats do not, so
that after a late disconnect it stays OFFLINE under a connected agent, and is an error
after a day. `Fault` says what the page makes of such a home: the server is to blame. A
client without a server has none to turn (`ServerTurns`): the loops of `handleRegister`
and `handleDisconnect` run over no rows. Ten of the eleven checks are modelled, that of
the support access among them, which warns of an access about to expire; the audit's is
always in order.

### AuditLedger

`append` is one transaction under an advisory lock: `Call`, `Lock`, `FindLast`,
`Save`, `QueueAlert`, `Commit`, and `FailAppend`, which may lose the answer of a
commit that was made. A hash *is* what it was computed over. Of the metadata the
keys are kept, in their order: `Stored` is the order in which a `jsonb` column
gives them back. `LedgerTypeOK` says what a row is: its hash is that of the event its
call was given, over a hash on record, and its number comes from the sequence.

`HashChain` is what a reader of the ledger relies on: rows are only added, one at a
time, each naming the last. The refinement maps the tip to the hash of the newest
committed row; what a transaction has in hand is not in the chain until it commits.

### TelegramSender

One call of `send`, in seconds: `Accepted`, `RateLimited`, `Rejected` end an HTTP
call anywhere between now and its timeout plus `MaxLate`, `WakeUp` ends a pause.
`RetryIn` is the check against the budget.

### MCPlatform

`Tickets`, `Provisioning`, `Diagnostics`, `AuditLedger` and `TelegramSender` share
no state that a property is about, so one run checks them side by side: `focus`
says which of them moves in a behaviour, the others stay in their first state. `TypesOK`
is the types of all five. A
behaviour of one component is a behaviour of the run with that focus, and their
names are kept apart by prefixes.

## Runs

| Run | Instance | Shows |
|---|---|---|
| `outbox_timely` | 2 dispatchers, 2 rows of 2 attempts, records within the lease, 1 fault | `ExclusiveClaim`, `HistoryMatchesRow`, `NoLostKick`, and `PromiseKept` (the refinement) |
| `outbox_stuck` | 2 dispatchers, 1 row of either policy, a claim held for three times the lease, 2 faults | `SendsWithinPolicy`, `NoFalseVerdict` still hold, and `EventuallySettled` |
| `access_serial` | one handler at a time, 2 sessions, 2 employees, the agent comes and goes, 1 fault | `SessionKept` (the refinement of `SupportSession`), `AgentFollows` |
| `access_agent` | 2 requests over 2 sessions; a request and the scheduler over 2 sessions; a request, an event of the agent and the scheduler with 1 fault | `LatecomerRejected` (an employee who comes after the session is another's never gets it), `OneEmployee`, `FlagsAgree`, `NoEarlyExpiry`, `AgentKnowsSession`, and `AccessEnds` |
| `access_two_claims` | two requests at once | violates `ExclusiveBinding` |
| `access_grant_revoke` | two requests at once | violates `EnabledMeansGranted` |
| `login_sessions` | two requests at once, 2 sessions of a user, margin = two requests + a check | `LoggedOutForGood`, `ChangerStaysSignedIn`, `CutOffForGood` |
| `dashboard_sockets` | 3 sockets, 2 logouts, 2 sessions of a user | `OnlyPassedOutlive`, `PresenceCounts` |
| `sockets_logout` | 2 sockets, a logout | violates `SocketsEndWithSession` |
| `agents` | 2 sockets, 3 administrators' requests, 2 readers of the link, a template and a mishap, up to six of them at a time, heartbeats over HTTP at any point | `NewestIsMapped`, `OnlyGhostsAreDead`, `OldTokenOut`, `ServerShowsAgent`, `LinkReadOnce`, `TemplatesOnRecord` |
| `platform` | the five components of `MCPlatform` | `TrailAddsUp`, `OneNewAlert`, `AlertsCleared`, `SilenceRaisesAlert` (tickets), `HubResourcesKept`, `HubHasSession` (provisioning), `WaitersAreServed`, `BlameHasReason` (diagnostics), `ChainLinked` (ledger), `SendWithinBudget` (sender) |
| `audit_chain` | 2 events of any type | violates `ChainVerifies` |

Why these bounds are enough for the cases that matter. *Outbox*: two dispatchers
and a lease of one tick make a row be reclaimed while its first holder is still
at work; two attempts and one fault reach the reclaim past the last attempt; two
rows make a pass go on after a record, and kicks come at every point. *Support
access*: two sessions make "the newest" differ from "the one in hand"; two
employees are the least that can conflict; two handlers are every pairwise
interleaving. `access_agent` lists who meets (`Casts`, in `MCSupportAccessCasts`):
two requests over two sessions let an employee come after the session was bound to the
other, with a request in between that claims, grants or revokes; a request and the
scheduler over two sessions let the scheduler act on a list older than a grant; a
request, an event and the scheduler meet a fault over one session. Slots that are alike
are taken in order. *Login sessions*: with one-second tokens, requests and checks and a
margin of 3 s, four seconds are a whole life of a row: a token issued during the
logout, used at its very end by a request that issues another. One second less of
margin is violated (mutant `LastsShort` drops it altogether), so the instance
sits at the edge of the bound the theorem needs. A token of one second never
outlives a change of the password of a later one, but a request that came with it
does; tokens that do are left to the theorem `CutOffsAreFinal`. *Sockets*: three sockets share
and split two sessions of one user, two logouts overlap.

In `agents` and `platform` whole populations would be too many, so a constant
lists the *sets* that meet in one behaviour (`Casts`, `Parties`, `Gangs`), and a
failure is a member of such a set: a failure meets fewer others. *Agents*: two
sockets are a reconnection, and a late disconnect; with two requests a rotation or
a deletion falls anywhere within a registration; a template with a request and a
socket is what a stale save needs; two readers are two copies of the link.
*Provisioning*: two requests want one subdomain and a third another; a user's
deletion and two of hubs meet them, with or without an outage. *Tickets*: two
edits and a run, or two runs that overlap. *Diagnostics*: two views, one of which
supersedes the other, in forty-odd homes, with one change meanwhile. *Ledger*: three
calls, of the two types that differ in their transaction, one failure. *Sender*:
waits of 0, 7, 30 and 31 s are none, a common one, the longest that is waited and
one that is not; timers up to a second late.

`CHECK_DEADLOCK FALSE` appears in the runs of logins, sockets, agents, platform and
audit chain only: their clock is bounded, or every request is used once.

### Findings

- **Two employees, one session** (`access_two_claims`, `access.service.ts:265`).
  The claim is a read and then an update by id: of two simultaneous requests both
  pass the check, both are answered the password, and the first name is
  overwritten. `LatecomerRejected` is what is left of the promise.
- **Enabled without a grant** (`access_grant_revoke`, `access.service.ts:115`).
  A grant and a revocation each make two writes; interleaved they leave
  `accessEnabled` with no open row; "accessEnabled implies an active grant" is an
  invariant that "should always hold" (`src/PHASE1_3_DIAGNOSTICS_SPEC.md:454`). `AccessEnds` shows that the expiry job still ends it.
- **A socket outlives its logout** (`sockets_logout`, `servers.gateway.ts:103`).
  A logout between a socket's session check and its entry in `socketsBySession`
  finds nothing to close. `OnlyPassedOutlive` says that this is the only way.

- **An untouched chain does not verify** (`audit_chain`, `audit-log.service.ts:57`).
  The hash is computed over the metadata in the order of its keys in hand; the
  column is `jsonb`, which keeps its own order. A grant's event, once read back,
  does not hash to what it was given. The test that says "valid" keeps rows in
  memory. `ChainLinked` shows that the links themselves hold.

Known limits that the models show:

- a socket that disconnects during its session check is registered afterwards
  and counts as online until the process restarts, though `presence.service.ts:3` says
  "number of live sockets" (`ghosts`: `PresenceCounts` counts them beside the live ones);
- a grant made while the expiry job is between its list and its revocation is ended at
  once, and the ledger calls it expired (`unwatched`);
- the answer to a connect request may be the password of a session granted since, which
  the request did not claim (`contested`);
- a revocation that the agent misses while it is offline is not repeated when it
  registers: it is told of an open access only;
- a hub is shown online after a heartbeat over HTTP though no agent is there, and offline
  beside one after a late disconnect, for heartbeats of the agent do not write
  `servers.status` (`misled`);
- "none can be valid past now + its TTL" (`session-revocation.service.ts:108`)
  does not hold of tokens issued by requests already past their check; the
  margin, meant for clock skew, is what covers them;
- a request of another session that passed its check before a password change is
  answered a token dated after it, and that session lives on; so does one with a
  token of the very second of the change, and one whose login had already read the
  old hash (`CutOffForGood` says that a session *cut off* stays so; `Outlives` is
  the list of those that are not);
- dashboard sockets are not closed by a deactivation or a password change;
- a socket that closes while its registration reads the row is entered in the map
  and stays there until the next registration (`ghosts`);
- an agent registering while its token is rotated may stay connected with the old
  one, and so does one whose row was deleted (`escaped`);
- `markApplied` saves a whole entity, and may put back a token that was rotated, a
  link that was consumed, or a row that was deleted (`clobbered`);
- two readers of one install link at the same time are both answered
  (`LinkReadOnce` is about a reader that comes after the answer);
- the deletion of a user or a hub that a ticket refers to is refused by the
  foreign key (`src/sql/008_client_tickets.sql:21`) only after the resources at
  Cloudflare are gone (`refused`);
- resources whose making was interrupted, and those of a hub deleted meanwhile,
  stay at Cloudflare with no row that names them (`lost`, `overlapped`);
- a hub saved after a deletion counted none loses its session (`raced`);
- a diagnostics view that another supersedes is answered with nothing, and its page
  calls the agent unresponsive, though "an in-flight one wins"
  (`tinta-agent.gateway.ts:554`) may be read otherwise;
- an agent whose socket is seen to close never gets the `[AUTO]` ticket that
  `src/RUNBOOK.md:328` lists, for the monitor asks for CONNECTED rows only; a run
  that fails after it marked the row raises none either (`missed`);
- two updates of a ticket's status may make a change that the table of transitions
  does not have, and leave a trail that does not add up (`blurred`);
- two runs of the monitor that overlap may raise two alerts (`doubled`).

## Fairness

Safety is checked without fairness. The liveness properties assume:

- `EventuallySettled`: the interval timer keeps firing on a configured dispatcher
  (`WF(StartTick)`), queries and sends settle - the sender has a budget - so that
  each stage of a pass is left (`WF` of `Claims`, `Deliver`, `Record`,
  `EndPass`), and time passes. Kicks, crashes and errors are never assumed to
  happen, and faults are finitely many.
- `AccessEnds`: the cron job runs every minute and its queries settle
  (`WF(ScanExpired)`, `WF(Revoke)` for the cron's slot), and a grant's time runs
  out. Nothing is assumed of requests, employees or the agent.
- `AlertsCleared`, `SilenceRaisesAlert`: the monitor's job starts a run every
  minute and its queries settle (`MonitorFairness`: `WF(CheckAgentHealth)` of each
  run). Nothing is assumed of the agent or the staff; failures are finitely many.

## Proofs

All theorems hold for every value of the constants that satisfies the named
assumptions of the module (types of the constants, `None` outside the sets), and
any number of dispatchers, rows, handlers, requests and sockets. Each proof has
the same shape: an inductive invariant, one step per action, temporal logic last.

| Theorem | Extra assumption | Inductive invariant, and why the property alone is not inductive |
|---|---|---|
| `NotificationOutboxProofs!TypeCorrect` | - | `TypeInv`: adds that a pass ends before its counter overflows and that a claimed row has at least one attempt |
| `KicksAreNotLost` | - | `KickInv`: a refused tick is owed only while `rerun` is set or a claim is about to look |
| `ClaimsAreExclusive` | `MaxHold <= Lease` | `LeaseInv`: lease left + time held = `Lease` for a row in hand, so no claim can pick it |
| `VerdictsAreTrue` | - | `VerdictInv`: an outcome in hand is true of its row, and stays so however late it is recorded |
| `StuckSendsAreBounded` | finitely many dispatchers | `CountInv`: what was sent and what those who hold the row may still send, counted together, stays within the attempts and the limit; no lease is needed |
| `HistoriesMatchRows` | `MaxHold <= Lease` | `HistoryInv`: a row in hand has one attempt more counted than on record, so the record has room for its own |
| `OutboxKeepsPromise` | `MaxHold <= Lease` | `OutboxInv`: the type, lease and verdict invariants and `SendsInv` (a dispatcher yet to send holds an attempt nothing was sent for), and each action maps to one of the promise or to none |
| `SupportAccessProofs!TypeCorrect` | - | `TypeInv`: adds what a handler has in hand at each `pc` |
| `LatecomersAreRejected` | - | `LateInv`: an older session of another employee is open only while the newer one found is open as well - a revocation closes them together |
| `AgentsKnowSession` | - | `AgentInv`: the due session was told, or no handler of the socket is through yet and none can miss it |
| `UncontestedHasOneEmployee` | - | `BindingInv`: whoever was given an uncontested session is its `accessedBy`, and so is whoever is past the claim of it; another claim under way is by the same employee |
| `FlagsAgreeUnlessCrossed` | - | `FlagInv`: with nothing crossed, those between their two writes are all grants or all revocations, and the server's row is as that kind leaves it |
| `ExpiredIsPast` | - | `ExpiryInv`: a session no other was granted over has its time in the server's row, or nobody's is there, so a run that read a time in the past finds nothing else but what was granted since |
| `EndedSessionsStayEnded` (an action property) | - | `RowInv`: a grant saves only a row that does not exist yet, and an answer is read from an open one |
| `LoginSessionsProofs!TypeCorrect` | - | `TypeInv` |
| `LogoutsAreFinal` | `2 * MaxHold + MaxCheck <= Margin` | `EndInv`: every token and request of a revoked session lies within the row's life; once the row is gone no token is left, and a request still in its check is past the check's timeout |
| `LogoutsAreObeyed` (an action property) | as above | the same: no request of a revoked session passes its check any more, for when the row is gone whoever is still in the check is past its timeout |
| `ChangersStaySignedIn` | - | `KeptInv`, with no stamp in the future |
| `CutOffsAreFinal` | - | `CutInv`: nothing in hand of a cut-off session, token or request, is as young as its user's stamp |
| `DashboardSocketsProofs!TypeCorrect` | - | `TypeOK` is inductive |
| `OnlyCheckedOutlive` | - | `RegistryInv`: every connected, authenticated socket is registered under its session, and one of a revoked session is `passed` or has a listener still to run |
| `PresenceIsAccounted` | - | with `RegistryInv`: a listener closes only live sockets; a lemma counts a set off a count |
| `AgentSessionsProofs!TypeCorrect` | - | `TypeInv`: adds the stages at which a handler holds a number, a template or a row |
| `NewestStaysMapped`, `DeadSocketsLeave` | - | `Mapped`, both at once: an entry is deleted only by its own socket or by a rotation that closes it |
| `ServerTellsTruth` | - | `Shown`, with `Marking`: whatever handler is still to write is one the property waits for |
| `LinkIsReadOnce` | - | `LinkInv`: a link once consumed is never again in the row, for the ones to come have other numbers |
| `OldTokenShutOut` | - | `TokenInv` and `LetIn`: a socket past its check has the row's token, or was met by the rotation |
| `TemplatesAreOnRecord` | - | `TemplateInv`: a template that was emitted is on record, or a handler is about to mark it |
| `TicketsTypeCorrect` | - | `TicketInv`: adds that a request at work has a ticket and an allowed change |
| `SilenceIsReportedOnce` | - | `AlertInv`: unless two runs met, one at most is about to create, and then there is no untouched alert |
| `TrailsAddUp` | - | `TrailInv`: changes on record *and those about to be* add up, status by status |
| `StatusFollowsTable` (an action property) | - | `AllowedInv`: what a request is about to write was allowed from what it read; the monitor, which does not look at the table, resolves what was new or is `blurred` |
| `ProvisioningTypeCorrect` | - | `TypeInv`: the foreign keys, as facts about `acct` and `target` |
| `HubsHaveSessions` | - | `SessionInv`: `SavedInv`, `SweepInv`, `EndedInv` - of a request past its session, of the hubs while a deletion removes one, of a request that has ended |
| `HubResourcesAreKept` | - | `ResourceInv`: what is at Cloudflare at each stage of the making and of the deletion (`NothingYet`, `MakingInv`, `MadeInv`, `Targets`, `OwnHubs`) |
| `PlatformProofs!ChainIsLinked` | - | `ChainInv`: who is in a transaction has the lock; what it found last is still the last when it inserts |
| `LedgerTypeCorrect` | - | `LedgerTypeOK` is inductive: the sequence and the hashes on record only grow, so a row stays one |
| `AllWaitersAreServed` | - | `WaiterInv`: a view before its question has no answer, one that is done has; whatever replaces the pending entry answers its view in the same step |
| `LedgerIsHashChain` | - | `ChainInv` again: the committed rows are the chain, `Tip` the hash of the one numbered last; only a commit extends it, after all that are there |
| `BlameIsFounded` | - | `BlameInv`: what a view that nothing disturbed has read is the home as it is, its answer one the agent could give there (`SeesHome`); then the table is walked once, for any home: the first check in the page's order that fails is the first broken link (`FirstHit`, `FirstIsHit`), be it an error (`ErrorIsCause`) or a warning |
| `SendsAreTimely` | `MaxLate <= MinAttempt` | `BudgetInv`: while a call or a pause is awaited, what is left of the budget holds it; after a pause `MinAttempt` is left, which a late timer cannot use up |
| `PlatformIsItsParts`, `PlatformTypesCorrect`, `PlatformIsSafe` | those of the parts | each step of the composition is a step of one component and a stutter of the others (`PlatformIsItsParts`), so all that is proved of the parts holds of the whole |

The assumptions are facts about time that the code meets or should meet.
`MaxHold <= Lease` is 45 s of budget against 120 s of lease: `SendsAreTimely` proves
the first number, for timers late by at most the 3 s kept for an attempt. `2 * MaxHold +
MaxCheck <= Margin` is, with a margin of 60 s and a check of 3 s, that a request
is answered within 28 s of its start; the code puts no total limit on a request,
so this is an assumption about its handlers. No theorem about support access assumes
anything of the schedule or the faults: where the code fails, the statement names the
case (`contested`, `crossed`, `unwatched`), and the violated runs show two of the three.

Only model-checked: the liveness properties (`EventuallySettled`, `AccessEnds`,
`AlertsCleared`, `SilenceRaisesAlert`), for fairness is out of the prover's reach, and
the two properties of `access_serial`, `SessionKept` and `AgentFollows`: they are about
handlers that do not overlap, which is no assumption the code meets. Every other
invariant of the passing runs is proved, and the outbox's refinement.
The other way round, some theorems are part of no run: the types of `LoginSessions`
and `DashboardSockets`, `LedgerTypeCorrect` (a part of `TypesOK`), `LedgerIsHashChain`, `EndedSessionsStayEnded`,
`LogoutsAreObeyed` and `StatusFollowsTable`.

`DiagnosticsAssumption` says that the homes a behaviour may begin in are consistent,
and nothing of how many there are: the run goes through forty-odd, the theorem through
all of them.

## Not modelled

- *The idempotency claim of provisioning* (`provisioning-operations.service.ts`):
  no code calls it, and who would claim, complete or fail an operation is only in
  a specification document, so that a model of it would be of that document.
- *Agent gateway*: the activity log's texts, self-update, and what the agent does
  on its side.
- *Tickets*: replies, internal notes, assignment, reads. Nothing is decided by them.
- *Diagnostics*: the check of the audit, which never finds a problem.
- *Servers*: the public probe, and the columns that the modelled handlers only copy.
- *Golden templates*: their CRUD; *Cloudflare*: the access policy's own life cycle.
- *Hubs, clients, CRUD of users and servers*: views, and updates of names and addresses.
  What creation, deletion and the heartbeat over HTTP change is modelled; the Cloudflare
  resources and tickets of a hub made by `POST /servers` rather than by provisioning are
  those of any hub, and only provisioning's are followed (`Provisioning`).
- *Frontend, landing page, shell, deploy scripts, SQL migrations, Grafana*: most of
  the repository's lines. Pages, generated API types, translations and wiring keep
  no state of the system; the diagnostics page's choice of a root cause is modelled.
- Truncation of the ledger's tail: a trigger of the database refuses it.
- In the modelled parts: texts and formatting, cookie attributes, throttling,
  role guards, passwords and hashes as data, the fields of a server or a user
  that the modelled handlers only copy.
