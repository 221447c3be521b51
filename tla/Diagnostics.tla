------------------------------ MODULE Diagnostics ------------------------------
(***************************************************************************)
(* The diagnostics page of one client, from the question put to the live   *)
(* agent to the problem the page names as the root cause:                  *)
(*   tinta-core/tinta-agent.gateway.ts      (requestDiagnostics, report)   *)
(*   tinta-core/tinta-core.service.ts       (getDiagnostics)               *)
(*   diagnostics/diagnostics.service.ts, diagnostic-checks.ts              *)
(*   frontend app/dashboard/diagnostics/[clientId]/page.tsx  (root cause)  *)
(*                                                                         *)
(* A view reads the client and its server, then the agent's session and    *)
(* the live agent in parallel, and judges what it got.  The gateway keeps  *)
(* one pending question per client: the next one supersedes it, and a      *)
(* report settles whichever is pending.  Of the eleven checks the ten that *)
(* may find a problem are here (audit never does), of their evidence what  *)
(* decides their status; a report has every reading.  The viewer is an     *)
(* administrator.                                                          *)
(***************************************************************************)
EXTENDS Integers, Sequences

CONSTANTS
    Views,       \* requests GET /diagnostics/:clientId
    Homes,       \* the states of the client's home in which a behaviour may begin
    MaxChanges   \* a bound on what happens at home meanwhile

Installs == {"none", "unknown", "pending", "expired", "connected"}

\* A server is offline recently, or for more than a day; support access is open, about to
\* expire, or enabled without an open row of it or an expiry.
HomeStates ==
    [install : Installs, online : BOOLEAN,
     server : {"none", "unknown", "online", "recent", "offline"}, ha : BOOLEAN, active : BOOLEAN,
     linked : BOOLEAN, public : {"reachable", "unreachable", "unknown"}, load : Nat,
     access : {"closed", "open", "expiring", "inconsistent"}, templates : BOOLEAN]

\* An agent that is online is installed.  Its server's row may say anything: heartbeats of
\* the agent do not touch it, and those over HTTP come without one.
Consistent(h) == h \in HomeStates /\ (h.online => h.install = "connected")

ASSUME DiagnosticsAssumption ==
    /\ "none" \notin Views
    /\ \A h \in Homes : Consistent(h)
    /\ MaxChanges \in Nat

\* The home, which views only read.
VARIABLES
    home,       \* what the database holds, and what the agent would report
    socket,     \* the gateway has a socket of the agent
    changes     \* the number of changes at home so far

VARIABLES
    viewing,    \* where a view is
    got,        \* what a view has read
    answer,     \* what it has heard from the agent
    pending,    \* the view whose question is pending, or "none"
    timers,     \* views whose timeout is armed
    asks,       \* questions on their way to the agent
    reports     \* reports on their way from it

\* History variables.
VARIABLES
    disturbed   \* views during which the home changed, or that another view's question met

homeVars  == <<home, socket, changes>>
wireVars  == <<pending, timers, asks, reports>>
viewVars  == <<viewing, got, answer>>

diagnosticsVars == <<homeVars, wireVars, viewVars, disturbed>>

Nothing == "nothing"

DiagnosticsInit ==
    /\ home \in Homes
    /\ socket = home.online
    /\ changes = 0
    /\ viewing = [v \in Views |-> "new"]
    /\ got = [v \in Views |-> [home |-> home, session |-> Nothing]]  \* both unread
    /\ answer = [v \in Views |-> "waiting"]
    /\ pending = "none"
    /\ timers = {}
    /\ asks = 0
    /\ reports = <<>>
    /\ disturbed = {}

Open == {v \in Views : viewing[v] \in {"servers", "session"}}

Waiting == {v \in Open : viewing[v] = "session" /\ answer[v] = "waiting"}

------------------------------------------------------------------------------
(* The home *)

Change ==
    /\ changes < MaxChanges
    /\ changes' = changes + 1
    /\ disturbed' = disturbed \cup Open

\* handleRegister() enters the socket in the map before it writes a row.
AgentConnects ==
    /\ Change
    /\ ~socket
    /\ home.install # "none"
    /\ socket' = TRUE
    /\ UNCHANGED <<home, wireVars, viewVars>>

\* What was on the wire is lost.
AgentDisconnects ==
    /\ Change
    /\ socket
    /\ socket' = FALSE
    /\ asks' = 0
    /\ reports' = <<>>
    /\ UNCHANGED <<home, pending, timers, viewVars>>

\* The status of the client's server, if it has one.
ServerTurns(status) == IF home.server = "none" THEN "none" ELSE status

\* The rows follow the socket.
RowsFollow ==
    /\ socket # home.online
    /\ home' = IF socket
                 THEN [home EXCEPT !.online = TRUE, !.install = "connected",
                                   !.server = ServerTurns("online")]
                 ELSE [home EXCEPT !.online = FALSE, !.server = ServerTurns("recent")]
    /\ disturbed' = disturbed \cup Open
    /\ UNCHANGED <<socket, changes, wireVars, viewVars>>

HomeAssistantFlips ==
    /\ Change
    /\ home' = [home EXCEPT !.ha = ~@]
    /\ UNCHANGED <<socket, wireVars, viewVars>>

------------------------------------------------------------------------------
(* The question to the agent *)

\* getClientDiagnostics(): the client and its server.
ReadServers(v) ==
    /\ viewing[v] = "new"
    /\ viewing' = [viewing EXCEPT ![v] = "servers"]
    /\ got' = [got EXCEPT ![v].home = home]
    /\ disturbed' = IF socket # home.online THEN disturbed \cup {v} ELSE disturbed
    /\ UNCHANGED <<homeVars, wireVars, answer>>

Met == IF asks > 0 \/ reports # <<>> \/ pending # "none" THEN Open ELSE {}

\* Mutant: the view that is superseded is never answered.
AskSilently(v) ==
    /\ viewing[v] = "servers"
    /\ viewing' = [viewing EXCEPT ![v] = "session"]
    /\ IF socket
         THEN /\ pending' = v
              /\ timers' = (timers \ {pending}) \cup {v}
              /\ asks' = asks + 1
              /\ disturbed' = disturbed \cup Met
              /\ UNCHANGED answer
         ELSE /\ answer' = [answer EXCEPT ![v] = "offline"]
              /\ UNCHANGED <<pending, timers, asks, disturbed>>
    /\ UNCHANGED <<homeVars, reports, got>>

\* getDiagnostics() and requestDiagnostics(), in one go: the pending question's timer
\* is cleared and its view answered with nothing, and the new one takes its place.
Ask(v) ==
    /\ viewing[v] = "servers"
    /\ viewing' = [viewing EXCEPT ![v] = "session"]
    /\ IF socket
         THEN /\ pending' = v
              /\ timers' = (timers \ {pending}) \cup {v}
              /\ answer' = [w \in Views |-> IF w = pending THEN "null" ELSE answer[w]]
              /\ asks' = asks + 1
              /\ disturbed' = disturbed \cup Met
         ELSE /\ answer' = [answer EXCEPT ![v] = "offline"]
              /\ UNCHANGED <<pending, timers, asks, disturbed>>
    /\ UNCHANGED <<homeVars, reports, got>>

\* The agent reads a question and reports its link to Home Assistant.
AgentReports ==
    /\ asks > 0
    /\ asks' = asks - 1
    /\ reports' = Append(reports, IF home.ha THEN "up" ELSE "down")
    /\ UNCHANGED <<homeVars, pending, timers, viewVars, disturbed>>

\* handleDiagnosticsReport(): whatever is pending is settled.
ReportArrives ==
    /\ reports # <<>>
    /\ reports' = Tail(reports)
    /\ answer' = [v \in Views |-> IF v = pending THEN Head(reports) ELSE answer[v]]
    /\ timers' = timers \ {pending}
    /\ pending' = "none"
    /\ UNCHANGED <<homeVars, asks, viewing, got, disturbed>>

\* Five seconds have passed: the entry of the client is deleted, whosever it is.
TimerFires(v) ==
    /\ v \in timers
    /\ timers' = timers \ {v}
    /\ pending' = "none"
    /\ answer' = [answer EXCEPT ![v] = "null"]
    /\ UNCHANGED <<homeVars, asks, reports, viewing, got, disturbed>>

\* getSessionSummary() is read in parallel with the question.
ReadSession(v) ==
    /\ viewing[v] = "session"
    /\ got[v].session = Nothing
    /\ got' = [got EXCEPT ![v].session = home.install]
    /\ UNCHANGED <<homeVars, wireVars, viewing, answer, disturbed>>

Judge(v) ==
    /\ viewing[v] = "session"
    /\ got[v].session # Nothing
    /\ answer[v] # "waiting"
    /\ viewing' = [viewing EXCEPT ![v] = "done"]
    /\ UNCHANGED <<homeVars, wireVars, got, answer, disturbed>>

View(v) == ReadServers(v) \/ Ask(v) \/ ReadSession(v) \/ TimerFires(v) \/ Judge(v)

DiagnosticsNext ==
    \/ AgentConnects \/ AgentDisconnects \/ RowsFollow \/ HomeAssistantFlips
    \/ AgentReports \/ ReportArrives
    \/ \E v \in Views : View(v)

DiagnosticsSpec == DiagnosticsInit /\ [][DiagnosticsNext]_diagnosticsVars

------------------------------------------------------------------------------
(* The checks: what a view that has got g and heard a finds *)

HasReport(a) == a \in {"up", "down"}

CheckClient(g) == IF g.home.active THEN "ok" ELSE "error"

CheckHub(g) ==
    CASE g.home.server = "none" -> "unknown"
      [] g.home.server # "none" /\ ~g.home.linked -> "error"
      [] OTHER -> "ok"

CheckServer(g) ==
    CASE g.home.server \in {"none", "unknown"} -> "unknown"
      [] g.home.server = "online" -> "ok"
      [] g.home.server = "recent" -> "warning"
      [] g.home.server = "offline" -> "error"

CheckAgent(g, a) ==
    CASE g.session = "none" -> "unknown"
      [] g.session # "none" /\ a = "offline" -> "error"
      [] g.session # "none" /\ a = "null" -> "warning"
      [] OTHER -> "ok"

CheckHomeAssistant(a) ==
    CASE ~HasReport(a) -> "unknown"
      [] a = "up" -> "ok"
      [] a = "down" -> "error"

CheckPublicConnectivity(g) ==
    CASE g.home.server = "none" \/ g.home.public = "unknown" -> "unknown"
      [] g.home.server # "none" /\ g.home.public = "reachable" -> "ok"
      [] g.home.server # "none" /\ g.home.public = "unreachable" -> "error"

\* Closed access is in order, and so is that of a client with no server.
CheckSupportAccess(g) ==
    CASE g.home.server = "none" \/ g.home.access \in {"closed", "open"} -> "ok"
      [] g.home.server # "none" /\ g.home.access = "expiring" -> "warning"
      [] g.home.server # "none" /\ g.home.access = "inconsistent" -> "unknown"

\* The load is that of the report, 80 and 95 per cent being the thresholds.
CheckResources(g, a) ==
    CASE ~HasReport(a) -> "unknown"
      [] HasReport(a) /\ g.home.load >= 95 -> "error"
      [] HasReport(a) /\ g.home.load >= 80 /\ g.home.load < 95 -> "warning"
      [] OTHER -> "ok"

CheckTemplates(g) ==
    CASE g.session # "connected" -> "unknown"
      [] g.session = "connected" /\ g.home.templates -> "ok"
      [] OTHER -> "warning"

CheckProvisioning(g) ==
    CASE g.session \in {"none", "unknown"} -> "unknown"
      [] g.session = "connected" -> "ok"
      [] g.session = "pending" -> "warning"
      [] g.session = "expired" -> "error"

Found(v) ==
    LET g == got[v]  a == answer[v]
    IN  [client |-> CheckClient(g), hub |-> CheckHub(g), provisioning |-> CheckProvisioning(g),
         agent |-> CheckAgent(g, a), server |-> CheckServer(g),
         homeAssistant |-> CheckHomeAssistant(a), cloudflare |-> CheckPublicConnectivity(g),
         resources |-> CheckResources(g, a), supportAccess |-> CheckSupportAccess(g),
         templates |-> CheckTemplates(g)]

\* ROOT_CAUSE_ORDER, but for the audit at its end.
RootCauseOrder ==
    <<"client", "hub", "provisioning", "agent", "server", "homeAssistant", "cloudflare",
      "resources", "supportAccess", "templates">>

First(checks, severity) ==
    LET hits == {i \in 1..Len(RootCauseOrder) : checks[RootCauseOrder[i]] = severity}
    IN  IF hits = {} THEN "none" ELSE RootCauseOrder[CHOOSE i \in hits : \A j \in hits : i <= j]

\* Mutant: the page goes down its order and takes whatever fails first.
FirstFailing(checks) ==
    LET hits == {i \in 1..Len(RootCauseOrder) : checks[RootCauseOrder[i]] \in {"error", "warning"}}
    IN  IF hits = {} THEN "none" ELSE RootCauseOrder[CHOOSE i \in hits : \A j \in hits : i <= j]

\* The page looks for an error first, then for a warning.
RootCause(checks) ==
    IF First(checks, "error") # "none" THEN First(checks, "error") ELSE First(checks, "warning")

------------------------------------------------------------------------------
(* Properties *)

DiagnosticsTypeOK ==
    /\ Consistent(home)
    /\ socket \in BOOLEAN
    /\ changes \in 0..MaxChanges
    /\ viewing \in [Views -> {"new", "servers", "session", "done"}]
    /\ answer \in [Views -> {"waiting", "offline", "null", "up", "down"}]
    /\ got \in [Views -> [home : HomeStates, session : Installs \cup {Nothing}]]
    /\ pending \in Views \cup {"none"}
    /\ timers \subseteq Views
    /\ asks \in Nat
    /\ reports \in Seq({"up", "down"})
    /\ disturbed \subseteq Views

\* Every view that waits for the agent gets its answer: it is the one whose question is
\* pending, and its timeout is armed and will settle no other's.
WaitersAreServed ==
    /\ Waiting = IF pending = "none" THEN {} ELSE {pending}
    /\ timers = Waiting

\* The chain from the account to the home, and the link of it that is broken: the first
\* for which nobody before it in the chain is to blame.  A server that has been shown
\* offline for a day is taken for one, though its agent be connected.
Fault(h) ==
    CASE ~h.active -> "client"
      [] h.active /\ h.server # "none" /\ ~h.linked -> "hub"
      [] OTHER ->
           CASE h.install = "expired" -> "provisioning"
             [] h.install \in {"unknown", "pending", "connected"} /\ ~h.online -> "agent"
             [] h.online /\ h.server = "offline" -> "server"
             [] h.online /\ h.server # "offline" /\ ~h.ha -> "homeAssistant"
             [] OTHER -> "none"

\* A view that nothing disturbs blames the fault there is, though the checks of
\* everything behind it fail or cannot be made; it blames the agent if that lets the
\* question time out and nothing worse is known, and the public address, the load, an
\* access about to expire or a template only where the chain is whole.
BlameHasReason ==
    \A v \in Views \ disturbed :
        viewing[v] = "done" =>
            LET cause == RootCause(Found(v))
                fault == Fault(got[v].home)
            IN  IF fault # "none" /\ ~(fault = "homeAssistant" /\ answer[v] = "null")
                  THEN cause = fault
                  ELSE cause \in {"server", "cloudflare", "resources", "supportAccess",
                                  "templates", "none"}
                         \cup (IF answer[v] = "null" THEN {"agent"} ELSE {})
=============================================================================
