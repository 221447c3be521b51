------------------------------- MODULE Tickets --------------------------------
(***************************************************************************)
(* Tickets, the staff's updates of their status, and the monitor that      *)
(* raises a ticket about a silent agent:                                   *)
(*   tickets/tickets.service.ts                (create, updateStatus)      *)
(*   tickets/ticket-status.transitions.ts                                  *)
(*   tinta-core/agent-monitor.scheduler.ts     (checkAgentHealth)          *)
(*                                                                         *)
(* updateStatus() reads the ticket, checks the change against a table,     *)
(* writes the new status by id and adds a message to the ticket's          *)
(* conversation, the only trail of the change; the monitor writes by id    *)
(* too, from a list it has read.  The module is about one client: of its   *)
(* agent it has what the monitor reads, the row's status and whether the   *)
(* last heartbeat is older than five minutes.  Replies and internal notes  *)
(* are left out: nothing is decided by them.                               *)
(***************************************************************************)
EXTENDS Integers, FiniteSets

CONSTANTS
    Tickets,      \* tickets that may be created
    AutoTickets,  \* those that would be offline alerts, a bound on their number
    Edits,        \* requests PATCH /tickets/:id/status
    Runs,         \* runs of checkAgentHealth() that may overlap
    Failures,     \* failed queries and restarts, a bound on their number
    Parties       \* the sets of tickets, requests, runs and failures that may meet

ASSUME TicketsAssumption ==
    /\ IsFiniteSet(Tickets)
    /\ AutoTickets \subseteq Tickets
    /\ IsFiniteSet(Edits)
    /\ IsFiniteSet(Runs)
    /\ IsFiniteSet(Failures)

VARIABLES
    status,    \* tickets.status, or "none" before the ticket is created
    edit,      \* what a request has read, and wants
    phase,     \* where a request is
    trail,     \* requests whose message about the change is saved
    conn,      \* agent_sessions.status, and who wrote it last
    silent,    \* lastHeartbeatAt is older than the threshold
    party,     \* who takes part in this behaviour
    stage,     \* where a run of the monitor is
    list,      \* alerts a run has found
    silences,  \* the times the agent has fallen silent
    failures   \* the number of failures so far

\* History variables.
VARIABLES
    blurred,   \* tickets written over a status nobody had looked at, or without a trail
    settled,   \* alerts that the monitor resolved while they were new
    doubled,   \* two runs were about to raise an alert
    missed     \* a run failed that had marked the agent offline

ticketVars  == <<status, blurred>>
editVars    == <<edit, phase, trail>>
agentVars   == <<conn, silent, silences>>
monitorVars == <<party, stage, list, settled, doubled, missed>>

ticketsVars == <<ticketVars, editVars, agentVars, monitorVars, failures>>

Statuses == {"new", "in_progress", "waiting_client", "resolved", "closed"}

\* ALLOWED_TICKET_STATUS_TRANSITIONS
Successors ==
    [s \in Statuses |->
        CASE s = "new" -> {"in_progress", "closed"}
          [] s = "in_progress" -> {"waiting_client", "resolved", "closed"}
          [] s = "waiting_client" -> {"in_progress", "resolved", "closed"}
          [] s = "resolved" -> {"closed", "in_progress"}
          [] s = "closed" -> {}]

Allowed(from, to) == from = to \/ to \in Successors[from]

\* OPEN_STATUSES
OpenStatuses == {"new", "in_progress", "waiting_client"}

Created == {t \in Tickets : status[t] # "none"}

Alerts == Created \cap AutoTickets

OpenAlerts == {t \in Alerts : status[t] \in OpenStatuses}

NewAlerts == {t \in Alerts : status[t] = "new"}

NoEdit == [ticket |-> "none", from |-> "none", to |-> "none"]

TicketsInit ==
    /\ status = [t \in Tickets |-> "none"]
    /\ edit = [e \in Edits |-> NoEdit]
    /\ phase = [e \in Edits |-> "new"]
    /\ trail = {}
    /\ conn = "connected"
    /\ silent = FALSE
    /\ party \in Parties
    /\ stage = [m \in Runs |-> "idle"]
    /\ list = [m \in Runs |-> {}]
    /\ silences = 0
    /\ failures = 0
    /\ blurred = {}
    /\ settled = {}
    /\ doubled = FALSE
    /\ missed = FALSE

------------------------------------------------------------------------------
(* Tickets and their status *)

Put(t, s) == status' = [status EXCEPT ![t] = s]

\* create() and createForClient()
CreateTicket(t) ==
    /\ t \in party \ AutoTickets
    /\ status[t] = "none"
    /\ Put(t, "new")
    /\ UNCHANGED <<blurred, editVars, agentVars, monitorVars, failures>>

\* updateStatus(): the ticket is found, and the change is allowed.  A change that
\* is not is refused with a 400 and changes nothing.
EditFind(e, t, s) ==
    /\ phase[e] = "new"
    /\ e \in party
    /\ t \in Created
    /\ Allowed(status[t], s)
    /\ edit' = [edit EXCEPT ![e] = [ticket |-> t, from |-> status[t], to |-> s]]
    /\ phase' = [phase EXCEPT ![e] = "write"]
    /\ UNCHANGED <<ticketVars, trail, agentVars, monitorVars, failures>>

\* Mutant: the change leaves no message.
EditWriteOnly(e) ==
    /\ phase[e] = "write"
    /\ Put(edit[e].ticket, edit[e].to)
    /\ blurred' = IF status[edit[e].ticket] = edit[e].from
                    THEN blurred ELSE blurred \cup {edit[e].ticket}
    /\ phase' = [phase EXCEPT ![e] = "done"]
    /\ UNCHANGED <<edit, trail, agentVars, monitorVars, failures>>

\* The status is written by id, even one that is the same as the one read.
EditWrite(e) ==
    /\ phase[e] = "write"
    /\ Put(edit[e].ticket, edit[e].to)
    /\ blurred' = IF status[edit[e].ticket] = edit[e].from
                    THEN blurred ELSE blurred \cup {edit[e].ticket}
    /\ phase' = [phase EXCEPT ![e] = IF edit[e].to = edit[e].from THEN "done" ELSE "message"]
    /\ UNCHANGED <<edit, trail, agentVars, monitorVars, failures>>

\* "Status changed: from -> to"
EditMessage(e) ==
    /\ phase[e] = "message"
    /\ trail' = trail \cup {e}
    /\ phase' = [phase EXCEPT ![e] = "done"]
    /\ UNCHANGED <<ticketVars, edit, agentVars, monitorVars, failures>>

FailEdit(e) ==
    /\ phase[e] \in {"write", "message"}
    /\ failures < Cardinality(Failures \cap party)
    /\ failures' = failures + 1
    /\ phase' = [phase EXCEPT ![e] = "done"]
    /\ blurred' = IF phase[e] = "message" THEN blurred \cup {edit[e].ticket} ELSE blurred
    /\ UNCHANGED <<status, edit, trail, agentVars, monitorVars>>

------------------------------------------------------------------------------
(* The agent, as far as its row in agent_sessions tells *)

\* A heartbeat or a registration.
Beat ==
    /\ conn # "connected" \/ silent
    /\ conn' = "connected"
    /\ silent' = FALSE
    /\ UNCHANGED <<ticketVars, editVars, silences, monitorVars, failures>>

\* The agent's socket closes, and handleDisconnect() writes so.
SocketCloses ==
    /\ conn = "connected"
    /\ conn' = "closed"
    /\ UNCHANGED <<ticketVars, editVars, silent, silences, monitorVars, failures>>

\* Five minutes pass without a heartbeat.  Every run may raise an alert about it.
FallSilent ==
    /\ ~silent
    /\ (silences + 1) * Cardinality(Runs \cap party) <= Cardinality(AutoTickets)
    /\ silent' = TRUE
    /\ silences' = silences + 1
    /\ UNCHANGED <<ticketVars, editVars, conn, monitorVars, failures>>

------------------------------------------------------------------------------
(* checkAgentHealth() *)

Enter(m, s) == stage' = [stage EXCEPT ![m] = s]

\* The cron job starts a run every minute, whether or not one is under way.
FindStale(m) ==
    /\ m \in party
    /\ stage[m] = "idle"
    /\ Enter(m, IF conn = "connected" /\ silent THEN "mark" ELSE "online")
    /\ UNCHANGED <<ticketVars, editVars, agentVars, party, list, settled, doubled, missed, failures>>

\* Mutant: the agent is marked, and no alert raised.
MarkQuietly(m) ==
    /\ stage[m] = "mark"
    /\ Enter(m, "online")
    /\ conn' = "marked"
    /\ UNCHANGED <<ticketVars, editVars, silent, silences, party, list, settled, doubled, missed, failures>>

\* The row is marked, be it still stale or not.
MarkOffline(m) ==
    /\ stage[m] = "mark"
    /\ Enter(m, "raise")
    /\ conn' = "marked"
    /\ UNCHANGED <<ticketVars, editVars, silent, silences, party, list, settled, doubled, missed, failures>>

\* Mutant: an open alert is no reason not to raise another.
RaiseAnyway(m) ==
    /\ stage[m] = "raise"
    /\ Enter(m, "create")
    /\ doubled' = (doubled \/ (\E n \in Runs \ {m} : stage[n] = "create"))
    /\ UNCHANGED <<ticketVars, editVars, agentVars, party, list, settled, missed, failures>>

\* raiseOfflineTicket(): not if there is an open alert already.
RaiseFind(m) ==
    /\ stage[m] = "raise"
    /\ IF OpenAlerts = {}
         THEN /\ Enter(m, "create")
              /\ doubled' = (doubled \/ (\E n \in Runs \ {m} : stage[n] = "create"))
         ELSE /\ Enter(m, "online")
              /\ UNCHANGED doubled
    /\ UNCHANGED <<ticketVars, editVars, agentVars, party, list, settled, missed, failures>>

RaiseSave(m, t) ==
    /\ stage[m] = "create"
    /\ t \in AutoTickets
    /\ status[t] = "none"
    /\ Put(t, "new")
    /\ Enter(m, "online")
    /\ UNCHANGED <<blurred, editVars, agentVars, party, list, settled, doubled, missed, failures>>

FindOnline(m) ==
    /\ stage[m] = "online"
    /\ Enter(m, IF conn = "connected" THEN "find" ELSE "idle")
    /\ UNCHANGED <<ticketVars, editVars, agentVars, party, list, settled, doubled, missed, failures>>

\* resolveOfflineTickets(): the alerts that nobody has picked up.
ResolveFind(m) ==
    /\ stage[m] = "find"
    /\ Enter(m, IF NewAlerts = {} THEN "idle" ELSE "resolve")
    /\ list' = [list EXCEPT ![m] = NewAlerts]
    /\ UNCHANGED <<ticketVars, editVars, agentVars, party, settled, doubled, missed, failures>>

\* Mutant: none of them is resolved.
ResolveNothing(m, t) ==
    /\ stage[m] = "resolve"
    /\ t \in list[m]
    /\ list' = [list EXCEPT ![m] = @ \ {t}]
    /\ Enter(m, IF list[m] = {t} THEN "idle" ELSE "resolve")
    /\ UNCHANGED <<ticketVars, editVars, agentVars, party, settled, doubled, missed, failures>>

\* Each is resolved by its id, whatever its status is by now, and leaves no message.
Resolve(m, t) ==
    /\ stage[m] = "resolve"
    /\ t \in list[m]
    /\ Put(t, "resolved")
    /\ settled' = IF status[t] = "new" THEN settled \cup {t} ELSE settled
    /\ blurred' = IF status[t] \in {"new", "resolved"} THEN blurred ELSE blurred \cup {t}
    /\ list' = [list EXCEPT ![m] = @ \ {t}]
    /\ Enter(m, IF list[m] = {t} THEN "idle" ELSE "resolve")
    /\ UNCHANGED <<party, editVars, agentVars, doubled, missed, failures>>

\* A query fails: the run ends, and what it marked stays marked.
FailRun(m) ==
    /\ stage[m] # "idle"
    /\ failures < Cardinality(Failures \cap party)
    /\ failures' = failures + 1
    /\ Enter(m, "idle")
    /\ list' = [list EXCEPT ![m] = {}]
    /\ missed' = (missed \/ stage[m] \in {"raise", "create"})
    /\ UNCHANGED <<ticketVars, editVars, agentVars, party, settled, doubled>>

\* The process restarts: every run and every request ends.
RestartBackend ==
    /\ failures < Cardinality(Failures \cap party)
    /\ failures' = failures + 1
    /\ stage' = [m \in Runs |-> "idle"]
    /\ list' = [m \in Runs |-> {}]
    /\ missed' = (missed \/ (\E m \in Runs : stage[m] \in {"raise", "create"}))
    /\ phase' = [e \in Edits |-> IF phase[e] = "new" THEN "new" ELSE "done"]
    /\ blurred' = blurred \cup {edit[e].ticket : e \in {x \in Edits : phase[x] = "message"}}
    /\ UNCHANGED <<status, edit, trail, agentVars, party, settled, doubled>>

------------------------------------------------------------------------------

UpdateStatus(e) ==
    \/ \E t \in Tickets, s \in Statuses : EditFind(e, t, s)
    \/ EditWrite(e) \/ EditMessage(e) \/ FailEdit(e)

CheckAgentHealth(m) ==
    \/ FindStale(m) \/ MarkOffline(m) \/ RaiseFind(m) \/ FindOnline(m) \/ ResolveFind(m)
    \/ \E t \in Tickets : RaiseSave(m, t) \/ Resolve(m, t)

TicketsNext ==
    \/ \E t \in Tickets : CreateTicket(t)
    \/ \E e \in Edits : UpdateStatus(e)
    \/ Beat \/ SocketCloses \/ FallSilent
    \/ \E m \in Runs : CheckAgentHealth(m) \/ FailRun(m)
    \/ RestartBackend

TicketsSpec == TicketsInit /\ [][TicketsNext]_ticketsVars

\* The job starts a run every minute, and every query of a run is answered.
MonitorFairness == \A m \in Runs : WF_ticketsVars(CheckAgentHealth(m))

------------------------------------------------------------------------------
(* Properties *)

Stages == {"idle", "mark", "raise", "create", "online", "find", "resolve"}

TicketsTypeOK ==
    /\ status \in [Tickets -> Statuses \cup {"none"}]
    /\ edit \in [Edits -> [ticket : Tickets, from : Statuses, to : Statuses] \cup {NoEdit}]
    /\ phase \in [Edits -> {"new", "write", "message", "done"}]
    /\ \A e \in Edits : phase[e] # "new" => edit[e].ticket \in Created
    /\ trail \subseteq {e \in Edits : phase[e] = "done"}
    /\ conn \in {"connected", "closed", "marked"}
    /\ silent \in BOOLEAN
    /\ party \in Parties
    /\ stage \in [Runs -> Stages]
    /\ list \in [Runs -> SUBSET Alerts]
    /\ silences \in Nat
    /\ failures \in Nat
    /\ blurred \subseteq Created
    /\ settled \subseteq Alerts
    /\ doubled \in BOOLEAN
    /\ missed \in BOOLEAN

Bit(b) == IF b THEN 1 ELSE 0

\* Changes of t on record that come from s, and that lead to it.
Left(t, s) == {e \in trail : edit[e].ticket = t /\ edit[e].from = s}

Reached(t, s) == {e \in trail : edit[e].ticket = t /\ edit[e].to = s}

\* "Keeps the audit trail meaningful": the changes on record and the monitor's
\* lead from "new" to the ticket's status, every status being left as often as it
\* was reached, unless a request or the monitor wrote over a status it had not
\* read or a message was lost.  The messages may be saved in another order.
TrailAddsUp ==
    \A t \in Created \ blurred :
        (\A e \in Edits : ~(phase[e] = "message" /\ edit[e].ticket = t))
            => \A s \in Statuses :
                 Cardinality(Reached(t, s)) + Bit(s = "new") + Bit(s = "resolved" /\ t \in settled)
                   = Cardinality(Left(t, s)) + Bit(s = status[t]) + Bit(s = "new" /\ t \in settled)

\* Silence is reported once: of the alerts that nobody has touched there is one at
\* most, unless two runs of the monitor looked for it at the same time.
OneNewAlert ==
    ~doubled => \A t, u \in NewAlerts \ blurred : t = u

\* Once the agent is back for good, no alert is left that nobody works on.
AlertsCleared ==
    <>[](conn = "connected" /\ ~silent) => <>[](NewAlerts = {})

\* "Raises an [AUTO] ticket when an agent goes silent": a silent agent gets an open
\* alert or is heard again; but none is raised if its socket is seen to close before
\* the monitor looks, nor if the run fails once the agent is marked offline.
SilenceRaisesAlert ==
    (conn = "connected" /\ silent) ~> (OpenAlerts # {} \/ ~silent \/ conn = "closed" \/ missed)
=============================================================================
