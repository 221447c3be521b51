---------------------------- MODULE AgentSessions -----------------------------
(***************************************************************************)
(* The connections of one client's agent, and its row of agent_sessions:   *)
(*   tinta-core/tinta-agent.gateway.ts      (handleRegister,               *)
(*                                           handleDisconnect, heartbeat,  *)
(*                                           disconnectAgent)              *)
(*   tinta-core/tinta-core.service.ts       (provisionAgent, the install   *)
(*                                           link, applyGoldenTemplate)    *)
(*   tinta-core/golden-template.service.ts  (markApplied)                  *)
(*   provisioning/provisioning.service.ts   (getInstallConfig)             *)
(*   servers/servers.service.ts             (heartbeat, updateStatus, and  *)
(*                                           of create and delete what     *)
(*                                           the agent's row depends on)   *)
(*                                                                         *)
(* Each handler is split where it awaits the database.  An agent's JWT and *)
(* its install link are issued together, so a number stands for both.      *)
(* The map's entry is set and deleted without an await, the row is not:    *)
(* what the row and the server's status say comes from whichever handler   *)
(* wrote last.  Support access, which registration resyncs, is the subject *)
(* of SupportAccess, and the age of heartbeats that of Tickets.            *)
(***************************************************************************)
EXTENDS Integers, FiniteSets

CONSTANTS
    Sockets,    \* connections to /tinta/ws
    Admins,     \* requests of administrators
    Readers,    \* GET /install/:token requests
    Templates,  \* slugs of golden templates; those of the cast are active
    Mishaps,    \* failed queries and restarts, a bound on their number
    Casts,      \* the sets of all of these that may meet in a behaviour
    None

ASSUME AgentAssumption ==
    /\ None \notin Sockets \cup Templates
    /\ Sockets \cap Admins = {}
    /\ Sockets \cap Readers = {}
    /\ IsFiniteSet(Templates)
    /\ IsFiniteSet(Mishaps)

VARIABLES
    row,           \* the client's row of agent_sessions
    made,          \* rows of agent_sessions made
    hub,           \* the client has a hub, a row of servers
    serverOnline,  \* its servers.status is ONLINE
    agents,        \* the client's entry in TintaAgentGateway.agents
    up,            \* sockets whose transport is connected
    jwt,           \* the JWT a socket registers with
    reg,           \* where handleRegister is with a socket
    stored,        \* what handleRegister read first, and still uses
    todo,          \* templates handleRegister has yet to look at
    off,           \* where handleDisconnect is with a socket
    admin,         \* where an administrator's request is
    num,           \* the number of the JWT and link it has generated
    mark,          \* the template a handler marks applied, and the row it read
    reader,        \* where a reader of the link is
    held,          \* the link a reader presented, and the JWT it read
    issued,        \* JWTs and links generated
    disclosed,     \* JWTs that somebody was given
    faults,        \* the number of mishaps so far
    cast           \* who takes part in this behaviour

\* History variables.
VARIABLES
    newest,        \* the socket that was last accepted
    ghosts,        \* sockets accepted after they had closed
    escaped,       \* sockets a rotation or a deletion could not reach
    misled,        \* servers.status was last written against the map
    clobbered,     \* a stale row was saved over newer columns
    before,        \* readers that had been answered when one began
    sent           \* templates emitted to an agent since the row was made

rowVars   == <<row, made, hub, serverOnline>>
sockVars  == <<agents, up, jwt, reg, stored, todo, off>>
adminVars == <<admin, num, issued>>
linkVars  == <<reader, held>>
histVars  == <<newest, ghosts, escaped, misled, clobbered, before, sent>>

vars == <<rowVars, sockVars, adminVars, mark, linkVars, disclosed, faults, cast, histVars>>

NoRow == [exists |-> FALSE, id |-> 0, token |-> 0, link |-> 0, consent |-> FALSE,
          connected |-> FALSE, enrolled |-> FALSE, applied |-> {}]

NoMark == [slug |-> None, found |-> FALSE, row |-> NoRow]

NothingStored == [link |-> 0, applied |-> {}]

\* "read": the row was found; "accepted": in the map; "connected": the row says
\* so; "online": the server says so; "templates": the link is cleared.
RegStages == {"new", "refused", "read", "accepted", "connected", "online", "templates", "done"}

OffStages == {"no", "row", "servers"}

AdminStages == {"new", "reissue", "create", "rotate", "template", "drop", "done"}

Init ==
    /\ row = NoRow
    /\ made = 0
    /\ hub = TRUE
    /\ serverOnline = FALSE
    /\ agents = None
    /\ up = Sockets
    /\ jwt = [k \in Sockets |-> 0]
    /\ reg = [k \in Sockets |-> "new"]
    /\ stored = [k \in Sockets |-> NothingStored]
    /\ todo = [k \in Sockets |-> {}]
    /\ off = [k \in Sockets |-> "no"]
    /\ admin = [a \in Admins |-> "new"]
    /\ num = [a \in Admins |-> 0]
    /\ mark = [h \in Sockets \cup Admins |-> NoMark]
    /\ reader = [r \in Readers |-> "new"]
    /\ held = [r \in Readers |-> [link |-> 0, token |-> 0]]
    /\ issued = 0
    /\ disclosed = {}
    /\ faults = 0
    /\ cast \in Casts
    /\ newest = None
    /\ ghosts = {}
    /\ escaped = {}
    /\ misled = FALSE
    /\ clobbered = FALSE
    /\ before = [r \in Readers |-> {}]
    /\ sent = {}

------------------------------------------------------------------------------
(* handleDisconnect() *)

\* Mutant: whichever socket closes, the client's entry is deleted.
CloseAny(k) ==
    /\ up' = up \ {k}
    /\ agents' = None
    /\ off' = [off EXCEPT ![k] = "row"]

\* Mutant: the entry is left to the next registration.
CloseOnly(k) ==
    /\ up' = up \ {k}
    /\ off' = [off EXCEPT ![k] = IF agents = k THEN "row" ELSE @]
    /\ UNCHANGED agents

\* A socket closes, whoever closed it: its entry in the map goes if it is its
\* own, and the writes that follow are under way.
Close(k) ==
    /\ up' = up \ {k}
    /\ IF agents = k
         THEN /\ agents' = None
              /\ off' = [off EXCEPT ![k] = "row"]
         ELSE UNCHANGED <<agents, off>>

Disconnect(k) ==
    /\ k \in up
    /\ reg[k] # "new"
    /\ Close(k)
    /\ UNCHANGED <<rowVars, jwt, reg, stored, todo, adminVars, mark, linkVars, disclosed,
                   faults, cast, histVars>>

\* Mutant: the servers' status is left as it is.
OffRowOnly(k) ==
    /\ off[k] = "row"
    /\ off' = [off EXCEPT ![k] = "no"]
    /\ row' = [row EXCEPT !.connected = FALSE]
    /\ UNCHANGED <<made, hub, serverOnline, agents, up, jwt, reg, stored, todo, adminVars, mark, linkVars,
                   disclosed, faults, cast, histVars>>

OffRow(k) ==
    /\ off[k] = "row"
    /\ off' = [off EXCEPT ![k] = "servers"]
    /\ row' = [row EXCEPT !.connected = FALSE]
    /\ UNCHANGED <<made, hub, serverOnline, agents, up, jwt, reg, stored, todo, adminVars, mark, linkVars,
                   disclosed, faults, cast, histVars>>

OffServers(k) ==
    /\ off[k] = "servers"
    /\ off' = [off EXCEPT ![k] = "no"]
    /\ serverOnline' = FALSE
    /\ misled' = (agents # None)
    /\ UNCHANGED <<row, made, hub, agents, up, jwt, reg, stored, todo, adminVars, mark, linkVars, disclosed,
                   faults, cast, newest, ghosts, escaped, clobbered, before, sent>>

------------------------------------------------------------------------------
(* handleRegister() *)

\* A validly signed JWT is presented and the row is read.  A row made by a
\* registration has no token, and lets any in.
ReadSession(k, t) ==
    /\ reg[k] = "new"
    /\ k \in cast
    /\ IF row.exists /\ row.token \in {0, t}
         THEN /\ reg' = [reg EXCEPT ![k] = "read"]
              /\ jwt' = [jwt EXCEPT ![k] = t]
              /\ stored' = [stored EXCEPT ![k] = [link |-> row.link, applied |-> row.applied]]
              /\ escaped' = IF \E a \in Admins : admin[a] = "rotate" THEN escaped \cup {k}
                                                                     ELSE escaped
              /\ UNCHANGED <<agents, up, off>>
         ELSE /\ reg' = [reg EXCEPT ![k] = "refused"]
              /\ Close(k)
              /\ UNCHANGED <<jwt, stored, escaped>>
    /\ UNCHANGED <<rowVars, todo, adminVars, mark, linkVars, disclosed, faults, cast,
                   newest, ghosts, misled, clobbered, before, sent>>

\* The socket is bound and entered in the map, be it open or closed.
Accept(k) ==
    /\ reg[k] = "read"
    /\ reg' = [reg EXCEPT ![k] = "accepted"]
    /\ agents' = k
    /\ newest' = k
    /\ ghosts' = IF k \in up THEN ghosts ELSE ghosts \cup {k}
    /\ UNCHANGED <<rowVars, up, jwt, stored, todo, off, adminVars, mark, linkVars, disclosed,
                   faults, cast, escaped, misled, clobbered, before, sent>>

NewRow(number, connected) ==
    /\ made' = made + 1
    /\ row' = [NoRow EXCEPT !.exists = TRUE, !.id = made + 1, !.token = number, !.link = number,
                            !.connected = connected, !.enrolled = connected]
    /\ sent' = {}

\* The row is read again and updated, or made if it is gone.
Connect(k) ==
    /\ reg[k] = "accepted"
    /\ reg' = [reg EXCEPT ![k] = "connected"]
    /\ IF row.exists
         THEN row' = [row EXCEPT !.connected = TRUE, !.enrolled = TRUE] /\ UNCHANGED <<made, sent>>
         ELSE NewRow(0, TRUE)
    /\ UNCHANGED <<hub, serverOnline, agents, up, jwt, stored, todo, off, adminVars, mark, linkVars,
                   disclosed, faults, cast, newest, ghosts, escaped, misled, clobbered, before>>

ServersOn(k) ==
    /\ reg[k] = "connected"
    /\ reg' = [reg EXCEPT ![k] = "online"]
    /\ serverOnline' = hub
    /\ misled' = (agents = None)
    /\ UNCHANGED <<row, made, hub, agents, up, jwt, stored, todo, off, adminVars, mark, linkVars, disclosed,
                   faults, cast, newest, ghosts, escaped, clobbered, before, sent>>

\* POST /servers/:id/heartbeat, of a client or of the staff: it shows the hub online
\* whether an agent is connected or not.
ServerHeartbeat ==
    /\ hub
    /\ serverOnline' = TRUE
    /\ misled' = (agents = None)
    /\ UNCHANGED <<row, made, hub, sockVars, adminVars, mark, linkVars, disclosed, faults, cast,
                   newest, ghosts, escaped, clobbered, before, sent>>

\* The link is cleared if the first read had found one.
ClearLink(k) ==
    /\ reg[k] = "online"
    /\ reg' = [reg EXCEPT ![k] = "templates"]
    /\ row' = IF stored[k].link = 0 THEN row ELSE [row EXCEPT !.link = 0]
    /\ todo' = [todo EXCEPT ![k] = (Templates \cap cast) \ stored[k].applied]
    /\ stored' = [stored EXCEPT ![k] = NothingStored]
    /\ UNCHANGED <<made, hub, serverOnline, agents, up, jwt, off, adminVars, mark, linkVars, disclosed,
                   faults, cast, histVars>>

FinishRegister(k) ==
    /\ reg[k] = "templates"
    /\ todo[k] = {}
    /\ mark[k] = NoMark
    /\ reg' = [reg EXCEPT ![k] = "done"]
    /\ UNCHANGED <<rowVars, agents, up, jwt, stored, todo, off, adminVars, mark, linkVars, disclosed,
                   faults, cast, histVars>>

\* A heartbeat of a socket once bound; its update may come after the close.
Heartbeat(k) ==
    /\ reg[k] \in {"accepted", "connected", "online", "templates", "done"}
    /\ row.exists
    /\ ~row.connected
    /\ row' = [row EXCEPT !.connected = TRUE]
    /\ UNCHANGED <<made, hub, serverOnline, sockVars, adminVars, mark, linkVars, disclosed, faults, cast,
                   histVars>>

------------------------------------------------------------------------------
(* Golden templates *)

\* applyTemplate(): emitted to the map's socket, if there is one.
Emit(h, t) ==
    /\ agents # None
    /\ sent' = sent \cup {t}
    /\ mark' = [mark EXCEPT ![h] = [slug |-> t, found |-> FALSE, row |-> NoRow]]

\* The loop at the end of handleRegister().
RegisterTemplate(k, t) ==
    /\ reg[k] = "templates"
    /\ mark[k] = NoMark
    /\ t \in todo[k]
    /\ todo' = [todo EXCEPT ![k] = @ \ {t}]
    /\ IF agents = None THEN UNCHANGED <<sent, mark>> ELSE Emit(k, t)
    /\ UNCHANGED <<rowVars, agents, up, jwt, reg, stored, off, adminVars, linkVars, disclosed, faults,
                   cast, newest, ghosts, escaped, misled, clobbered, before>>

\* applyGoldenTemplate(), at an administrator's request.
ApplyGoldenTemplate(a, t) ==
    /\ admin[a] = "new"
    /\ {a, t} \subseteq cast
    /\ row.exists
    /\ t \notin row.applied
    /\ Emit(a, t)
    /\ admin' = [admin EXCEPT ![a] = "template"]
    /\ UNCHANGED <<rowVars, sockVars, num, issued, linkVars, disclosed, faults, cast,
                   newest, ghosts, escaped, misled, clobbered, before>>

Marked(h) ==
    /\ mark' = [mark EXCEPT ![h] = NoMark]
    /\ admin' = [a \in Admins |-> IF a = h THEN "done" ELSE admin[a]]

\* Mutant: only a connected agent's row is marked.
MarkFindConnected(h) ==
    /\ mark[h] # NoMark
    /\ ~mark[h].found
    /\ IF row.connected /\ mark[h].slug \notin row.applied
         THEN mark' = [mark EXCEPT ![h].found = TRUE, ![h].row = row] /\ admin' = admin
         ELSE Marked(h)
    /\ UNCHANGED <<rowVars, sockVars, num, issued, linkVars, disclosed, faults, cast, histVars>>

\* markApplied(): its read.
MarkFind(h) ==
    /\ mark[h] # NoMark
    /\ ~mark[h].found
    /\ IF row.exists /\ mark[h].slug \notin row.applied
         THEN mark' = [mark EXCEPT ![h].found = TRUE, ![h].row = row] /\ admin' = admin
         ELSE Marked(h)
    /\ UNCHANGED <<rowVars, sockVars, num, issued, linkVars, disclosed, faults, cast, histVars>>

\* Its save: TypeORM reads the row of that id once more and writes every column in
\* which the entity in hand differs, so that the row becomes that entity, be it gone.
MarkSave(h) ==
    /\ mark[h].found
    /\ row.id \in {0, mark[h].row.id}
    /\ row' = [mark[h].row EXCEPT !.applied = @ \cup {mark[h].slug}]
    /\ clobbered' = (clobbered \/ row # mark[h].row)
    /\ Marked(h)
    /\ UNCHANGED <<made, hub, serverOnline, sockVars, num, issued, linkVars, disclosed, faults, cast,
                   newest, ghosts, escaped, misled, before, sent>>

\* The client has another row by now: the insert violates the unique key, and the
\* handler ends.
MarkCollide(h) ==
    /\ mark[h].found
    /\ row.id \notin {0, mark[h].row.id}
    /\ Marked(h)
    /\ reg' = [k \in Sockets |-> IF k = h THEN "done" ELSE reg[k]]
    /\ todo' = [k \in Sockets |-> IF k = h THEN {} ELSE todo[k]]
    /\ UNCHANGED <<rowVars, agents, up, jwt, stored, off, num, issued, linkVars, disclosed, faults, cast,
                   histVars>>

------------------------------------------------------------------------------
(* provisionAgent(), reissueInstallLink(), and the deletion of the last hub *)

Generate(a) ==
    /\ issued' = issued + 1
    /\ num' = [num EXCEPT ![a] = issued + 1]

\* Mutant: the row gets the new JWT, the agent keeps its socket.
ProvisionQuietly(a) ==
    /\ admin[a] \in {"new", "reissue"}
    /\ a \in cast
    /\ Generate(a)
    /\ admin' = [admin EXCEPT ![a] = IF row.exists THEN "rotate" ELSE "create"]
    /\ escaped' = IF row.exists THEN escaped \cup {k \in Sockets : reg[k] = "read"} ELSE escaped
    /\ UNCHANGED <<rowVars, sockVars, mark, linkVars, disclosed, faults, cast,
                   newest, ghosts, misled, clobbered, before, sent>>

\* The row is found, or not; disconnectAgent() closes the map's socket before
\* the row is updated.  A socket closed already has no disconnect to handle.
Provision(a) ==
    /\ admin[a] \in {"new", "reissue"}
    /\ a \in cast
    /\ Generate(a)
    /\ IF row.exists
         THEN /\ admin' = [admin EXCEPT ![a] = "rotate"]
              /\ escaped' = escaped \cup {k \in Sockets : reg[k] = "read"}
              /\ IF agents \in up
                   THEN Close(agents) /\ UNCHANGED misled
                   ELSE /\ agents' = None
                        /\ misled' = (misled \/ agents # None)
                        /\ UNCHANGED <<up, off>>
         ELSE /\ admin' = [admin EXCEPT ![a] = "create"]
              /\ UNCHANGED <<escaped, misled, agents, up, off>>
    /\ UNCHANGED <<rowVars, jwt, reg, stored, todo, mark, linkVars, disclosed, faults, cast,
                   newest, ghosts, clobbered, before, sent>>

\* reissueInstallLink(): refused once the agent has connected.
Reissue(a) ==
    /\ admin[a] = "new"
    /\ a \in cast
    /\ row.exists
    /\ ~row.enrolled
    /\ admin' = [admin EXCEPT ![a] = "reissue"]
    /\ UNCHANGED <<rowVars, sockVars, num, issued, mark, linkVars, disclosed, faults, cast, histVars>>

\* A second row of the client violates the unique key, and the request fails.
CreateRow(a) ==
    /\ admin[a] = "create"
    /\ admin' = [admin EXCEPT ![a] = "done"]
    /\ num' = [num EXCEPT ![a] = 0]
    /\ IF row.exists
         THEN UNCHANGED <<row, made, disclosed, sent>>
         ELSE /\ NewRow(num[a], FALSE)
              /\ disclosed' = disclosed \cup {num[a]}
    /\ UNCHANGED <<hub, serverOnline, sockVars, issued, mark, linkVars, faults, cast,
                   newest, ghosts, escaped, misled, clobbered, before>>

\* Mutant: a row that is gone is written back without its other columns.
RotateSave(a) ==
    /\ admin[a] = "rotate"
    /\ admin' = [admin EXCEPT ![a] = "done"]
    /\ row' = [row EXCEPT !.token = num[a], !.link = num[a], !.connected = FALSE]
    /\ disclosed' = disclosed \cup {num[a]}
    /\ num' = [num EXCEPT ![a] = 0]
    /\ UNCHANGED <<made, hub, serverOnline, sockVars, issued, mark, linkVars, faults, cast, histVars>>

RotateRow(a) ==
    /\ admin[a] = "rotate"
    /\ admin' = [admin EXCEPT ![a] = "done"]
    /\ row' = IF row.exists
                THEN [row EXCEPT !.token = num[a], !.link = num[a], !.connected = FALSE]
                ELSE row
    /\ disclosed' = disclosed \cup {num[a]}
    /\ num' = [num EXCEPT ![a] = 0]
    /\ UNCHANGED <<made, hub, serverOnline, sockVars, issued, mark, linkVars, faults, cast, histVars>>

------------------------------------------------------------------------------
(* The client's hub: ServersService.create() and delete() *)

\* A new hub's status is UNKNOWN, whoever is connected.
AddHub(a) ==
    /\ admin[a] = "new"
    /\ a \in cast
    /\ ~hub
    /\ admin' = [admin EXCEPT ![a] = "done"]
    /\ hub' = TRUE
    /\ serverOnline' = FALSE
    /\ misled' = (agents # None)
    /\ UNCHANGED <<row, made, sockVars, num, issued, mark, linkVars, disclosed, faults, cast,
                   newest, ghosts, escaped, clobbered, before, sent>>

DropHub(a) ==
    /\ admin[a] = "new"
    /\ a \in cast
    /\ hub
    /\ admin' = [admin EXCEPT ![a] = "drop"]
    /\ hub' = FALSE
    /\ serverOnline' = FALSE
    /\ UNCHANGED <<row, made, sockVars, num, issued, mark, linkVars, disclosed, faults, cast, histVars>>

\* The client has another hub by now.
KeepSession(a) ==
    /\ admin[a] = "drop"
    /\ hub
    /\ admin' = [admin EXCEPT ![a] = "done"]
    /\ UNCHANGED <<rowVars, sockVars, num, issued, mark, linkVars, disclosed, faults, cast, histVars>>

\* No hub is left, and the row of the session goes: the agent is not told.
DeleteSession(a) ==
    /\ admin[a] = "drop"
    /\ ~hub
    /\ admin' = [admin EXCEPT ![a] = "done"]
    /\ row' = NoRow
    /\ escaped' = IF row.exists
                    THEN escaped \cup {k \in Sockets : reg[k] \notin {"new", "refused"}}
                    ELSE escaped
    /\ UNCHANGED <<made, hub, serverOnline, sockVars, num, issued, mark, linkVars, disclosed, faults,
                   cast, newest, ghosts, misled, clobbered, before, sent>>

------------------------------------------------------------------------------
(* The install link *)

\* recordServiceStartConsent(): recorded once, whoever sends it again.
Consent ==
    /\ row.link # 0
    /\ ~row.consent
    /\ row' = [row EXCEPT !.consent = TRUE]
    /\ UNCHANGED <<made, hub, serverOnline, sockVars, adminVars, mark, linkVars, disclosed, faults, cast, histVars>>

Answered(r) == reader[r] = "done" /\ held[r].link # 0

\* getInstallConfig(): its read.  Without a consent, for a link that is not in
\* the row, or past its expiry, it is refused and changes nothing.
ReadLink(r) ==
    /\ reader[r] = "new"
    /\ r \in cast
    /\ row.link # 0
    /\ row.consent
    /\ reader' = [reader EXCEPT ![r] = "read"]
    /\ held' = [held EXCEPT ![r] = [link |-> row.link, token |-> row.token]]
    /\ before' = [before EXCEPT ![r] = {q \in Readers : Answered(q)}]
    /\ UNCHANGED <<rowVars, sockVars, adminVars, mark, disclosed, faults, cast,
                   newest, ghosts, escaped, misled, clobbered, sent>>

\* Mutant: the link is not consumed, as when the agent's registration was to.
AnswerLink(r) ==
    /\ reader[r] = "read"
    /\ reader' = [reader EXCEPT ![r] = "done"]
    /\ disclosed' = disclosed \cup {held[r].token}
    /\ UNCHANGED <<rowVars, sockVars, adminVars, mark, held, faults, cast, histVars>>

\* consumeInstallToken(), by the link's value, and the answer.
ConsumeLink(r) ==
    /\ reader[r] = "read"
    /\ reader' = [reader EXCEPT ![r] = "done"]
    /\ row' = IF row.link = held[r].link THEN [row EXCEPT !.link = 0] ELSE row
    /\ disclosed' = disclosed \cup {held[r].token}
    /\ UNCHANGED <<made, hub, serverOnline, sockVars, adminVars, mark, held, faults, cast, histVars>>

------------------------------------------------------------------------------
(* Faults *)

\* A query of a handler fails, and the handler ends.
FailRegister(k) ==
    /\ reg[k] \in {"accepted", "connected", "online", "templates"}
    /\ faults < Cardinality(cast \cap Mishaps)
    /\ faults' = faults + 1
    /\ reg' = [reg EXCEPT ![k] = "done"]
    /\ stored' = [stored EXCEPT ![k] = NothingStored]
    /\ todo' = [todo EXCEPT ![k] = {}]
    /\ misled' = (misled \/ reg[k] \in {"accepted", "connected"})
    /\ sent' = sent \ {mark[k].slug}
    /\ mark' = [mark EXCEPT ![k] = NoMark]
    /\ UNCHANGED <<rowVars, agents, up, jwt, off, adminVars, linkVars, disclosed, cast,
                   newest, ghosts, escaped, clobbered, before>>

FailDisconnect(k) ==
    /\ off[k] \in {"row", "servers"}
    /\ faults < Cardinality(cast \cap Mishaps)
    /\ faults' = faults + 1
    /\ off' = [off EXCEPT ![k] = "no"]
    /\ misled' = TRUE
    /\ UNCHANGED <<rowVars, agents, up, jwt, reg, stored, todo, adminVars, mark, linkVars, disclosed,
                   cast, newest, ghosts, escaped, clobbered, before, sent>>

FailAdmin(a) ==
    /\ admin[a] \in {"create", "rotate", "template", "drop"}
    /\ faults < Cardinality(cast \cap Mishaps)
    /\ faults' = faults + 1
    /\ admin' = [admin EXCEPT ![a] = "done"]
    /\ num' = [num EXCEPT ![a] = 0]
    /\ sent' = sent \ {mark[a].slug}
    /\ mark' = [mark EXCEPT ![a] = NoMark]
    /\ UNCHANGED <<rowVars, sockVars, issued, linkVars, disclosed, cast,
                   newest, ghosts, escaped, misled, clobbered, before>>

\* The process ends: its map and its handlers are gone, the rows stay as they are.
Restart ==
    /\ faults < Cardinality(cast \cap Mishaps)
    /\ faults' = faults + 1
    /\ agents' = None
    /\ newest' = None
    /\ up' = {k \in up : reg[k] = "new"}
    /\ reg' = [k \in Sockets |-> IF reg[k] \in {"new", "refused"} THEN reg[k] ELSE "done"]
    /\ off' = [k \in Sockets |-> "no"]
    /\ admin' = [a \in Admins |-> IF admin[a] = "new" THEN "new" ELSE "done"]
    /\ reader' = [r \in Readers |-> IF reader[r] = "read" THEN "new" ELSE reader[r]]
    /\ mark' = [h \in Sockets \cup Admins |-> NoMark]
    /\ sent' = sent \ {mark[h].slug : h \in Sockets \cup Admins}
    /\ stored' = [k \in Sockets |-> NothingStored]
    /\ todo' = [k \in Sockets |-> {}]
    /\ num' = [a \in Admins |-> 0]
    /\ misled' = serverOnline
    /\ UNCHANGED <<rowVars, jwt, issued, held, disclosed, cast,
                   ghosts, escaped, clobbered, before>>

------------------------------------------------------------------------------

HandleDisconnect(k) == OffRow(k) \/ OffServers(k) \/ FailDisconnect(k)

HandleRegister(k) ==
    \/ \E t \in disclosed : ReadSession(k, t)
    \/ Accept(k) \/ Connect(k) \/ ServersOn(k) \/ ClearLink(k) \/ FinishRegister(k)
    \/ \E t \in Templates : RegisterTemplate(k, t)
    \/ FailRegister(k)

HandleAdmin(a) ==
    \/ Provision(a) \/ Reissue(a) \/ CreateRow(a) \/ RotateRow(a)
    \/ AddHub(a) \/ DropHub(a) \/ KeepSession(a) \/ DeleteSession(a)
    \/ \E t \in Templates : ApplyGoldenTemplate(a, t)
    \/ FailAdmin(a)

Next ==
    \/ \E k \in Sockets : Disconnect(k) \/ HandleDisconnect(k) \/ HandleRegister(k) \/ Heartbeat(k)
    \/ \E a \in Admins : HandleAdmin(a)
    \/ \E h \in Sockets \cup Admins : MarkFind(h) \/ MarkSave(h) \/ MarkCollide(h)
    \/ \E r \in Readers : ReadLink(r) \/ ConsumeLink(r)
    \/ Consent
    \/ ServerHeartbeat
    \/ Restart

Spec == Init /\ [][Next]_vars

------------------------------------------------------------------------------
(* Properties *)

Rows == [exists : BOOLEAN, id : 0..made, token : 0..issued, link : 0..issued, consent : BOOLEAN,
         connected : BOOLEAN, enrolled : BOOLEAN, applied : SUBSET Templates]

\* Every variable has its type, and a missing row is NoRow.
TypeOK ==
    /\ row \in Rows
    /\ ~row.exists => row = NoRow
    /\ row.exists => row.id # 0
    /\ made \in Nat
    /\ hub \in BOOLEAN
    /\ serverOnline \in BOOLEAN
    /\ agents \in Sockets \cup {None}
    /\ up \subseteq Sockets
    /\ jwt \in [Sockets -> 0..issued]
    /\ reg \in [Sockets -> RegStages]
    /\ stored \in [Sockets -> [link : 0..issued, applied : SUBSET Templates]]
    /\ todo \in [Sockets -> SUBSET Templates]
    /\ off \in [Sockets -> OffStages]
    /\ admin \in [Admins -> AdminStages]
    /\ num \in [Admins -> 0..issued]
    /\ mark \in [Sockets \cup Admins -> [slug : Templates \cup {None}, found : BOOLEAN, row : Rows]]
    /\ reader \in [Readers -> {"new", "read", "done"}]
    /\ held \in [Readers -> [link : 0..issued, token : 0..issued]]
    /\ issued \in Nat
    /\ disclosed \subseteq 0..issued
    /\ faults \in Nat
    /\ cast \in Casts
    /\ newest \in Sockets \cup {None}
    /\ ghosts \subseteq Sockets
    /\ escaped \subseteq Sockets
    /\ misled \in BOOLEAN
    /\ clobbered \in BOOLEAN
    /\ before \in [Readers -> SUBSET Readers]
    /\ sent \subseteq Templates

\* An agent whose socket is open is reachable under its client: while the socket
\* that registered last is connected, the map holds it, whatever other sockets
\* of the agent close late.
NewestIsMapped == newest \in up => agents = newest

\* isConnected() tells the truth but for one case: a socket that closed between
\* the first query of its registration and the answer is entered all the same,
\* and nothing will ever take it out but the next registration.
OnlyGhostsAreDead == agents \in up \cup ghosts \cup {None}

\* After a rotation no reachable agent holds an older JWT, except one whose
\* registration was under way between its first query and the row's update, or
\* one that a deletion of the row left connected.
OldTokenOut ==
    agents \in up \ escaped /\ (\A a \in Admins : admin[a] # "rotate")
        => row.token \in {0, jwt[agents]} \/ clobbered

\* Once the handlers have ended, a client's hub is shown online exactly while an agent is
\* registered, but for what nothing sets right before the next registration or disconnect:
\* a handler wrote after the map had changed, a heartbeat came over HTTP with no agent
\* there, the hub was made while one was, a rotation took a closed socket out of the map,
\* a query failed, or the process restarted.
ServerShowsAgent ==
    hub /\ (\A k \in Sockets : /\ reg[k] \notin {"accepted", "connected"}
                                /\ off[k] = "no")
        => serverOnline = (agents # None) \/ misled

\* Whoever presents a link after its secrets were handed out gets nothing,
\* unless a stale save has put the link back.
LinkReadOnce ==
    \A q, r \in Readers :
        Answered(r) /\ q \in before[r] /\ held[q].link = held[r].link => clobbered

\* A template emitted to the agent is on record once its handler has ended,
\* unless a stale save has dropped it.
TemplatesOnRecord ==
    row.exists /\ (\A h \in Sockets \cup Admins : mark[h] = NoMark)
        => sent \subseteq row.applied \/ clobbered
=============================================================================
