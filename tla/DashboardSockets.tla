-------------------------- MODULE DashboardSockets ---------------------------
(***************************************************************************)
(* The dashboards' WebSocket connections and what a logout does to them:   *)
(*   servers/servers.gateway.ts          (handleConnection,                *)
(*                                        handleDisconnect, subscribe,     *)
(*                                        disconnectSession)               *)
(*   presence/presence.service.ts        (who is online)                   *)
(*   auth/session-revocation.service.ts  (revoke and its listener; what it *)
(*                                        reads in assertSessionValid)     *)
(*                                                                         *)
(* handleConnection awaits the session check, so a logout or a disconnect  *)
(* may come between the check's answer and the registration of the socket. *)
(* How long tokens and revocations last is the subject of LoginSessions:   *)
(* here a revocation stays.                                                *)
(***************************************************************************)
EXTENDS Integers, FiniteSets

CONSTANTS
    Users,
    Sessions,   \* session ids (sid)
    UserOf,     \* the user a session belongs to
    Sockets,    \* connections, each with an id of its own
    Logouts,    \* POST /auth/logout requests
    None

ASSUME SocketsAssumption ==
    /\ UserOf \in [Sessions -> Users]
    /\ IsFiniteSet(Sockets)
    /\ None \notin Sessions

VARIABLES
    revoked,           \* sessions in revoked_sessions
    notify,            \* the session whose listeners a logout has yet to run
    logouts,           \* logout requests that have recorded their session
    connected,         \* sockets whose transport is up
    stage,             \* where handleConnection is with a socket: see Stages
    sid,               \* the session of a socket's token
    socketsBySession,  \* ServersGateway.socketsBySession
    online,            \* PresenceService.online, 0 for no entry
    room               \* members of servers-room

\* History variables.
VARIABLES
    passed,            \* sockets the session check of which had been passed when
                       \* the session was revoked
    ghosts             \* sockets that had disconnected when they were counted

sessionVars == <<revoked, notify, logouts>>
socketVars  == <<connected, stage, sid, room>>

historyVars == <<passed, ghosts>>

vars == <<sessionVars, socketVars, socketsBySession, online, historyVars>>

\* "checking": awaits assertSessionValid; "checked": the session was found not
\* to be revoked; "live": client.data.user is set; "gone": refused, or its
\* disconnect is handled.
Stages == {"new", "checking", "checked", "live", "gone"}

Init ==
    /\ revoked = {}
    /\ notify = [l \in Logouts |-> None]
    /\ logouts = {}
    /\ connected = {}
    /\ stage = [k \in Sockets |-> "new"]
    /\ sid = [k \in Sockets |-> None]
    /\ socketsBySession = [s \in Sessions |-> {}]
    /\ online = [u \in Users |-> 0]
    /\ room = {}
    /\ passed = {}
    /\ ghosts = {}

------------------------------------------------------------------------------
(* PresenceService *)

MarkOnline(u) == online' = [online EXCEPT ![u] = @ + 1]

\* Mutant: the entry goes with the first socket.
MarkOfflineAll(K) ==
    online' = [u \in Users |-> IF \E k \in K : UserOf[sid[k]] = u THEN 0 ELSE online[u]]

\* One socket less for the user of each socket in K; at none the entry goes.
MarkOffline(K) ==
    online' = [u \in Users |->
                  LET n == Cardinality({k \in K : UserOf[sid[k]] = u})
                  IN  IF online[u] > n THEN online[u] - n ELSE 0]

------------------------------------------------------------------------------
(* handleConnection() *)

\* A connection with a valid token of session s (one without is refused at
\* once, and changes nothing).
Connect(k, s) ==
    /\ stage[k] = "new"
    /\ connected' = connected \cup {k}
    /\ stage' = [stage EXCEPT ![k] = "checking"]
    /\ sid' = [sid EXCEPT ![k] = s]
    /\ UNCHANGED <<sessionVars, room, socketsBySession, online, historyVars>>

\* assertSessionValid(): its query of revoked_sessions is answered.
Check(k) ==
    /\ stage[k] = "checking"
    /\ sid[k] \notin revoked
    /\ stage' = [stage EXCEPT ![k] = "checked"]
    /\ UNCHANGED <<sessionVars, connected, sid, room, socketsBySession, online, historyVars>>

\* The check fails: a revoked session, an inactive account, a password changed
\* since, or no answer in time.
Refuse(k) ==
    /\ stage[k] \in {"checking", "checked"}
    /\ stage' = [stage EXCEPT ![k] = "gone"]
    /\ connected' = connected \ {k}
    /\ room' = room \ {k}
    /\ UNCHANGED <<sessionVars, sid, socketsBySession, online, historyVars>>

\* The rest of handleConnection(), whether the socket is still there or not.
Authenticate(k) ==
    /\ stage[k] = "checked"
    /\ stage' = [stage EXCEPT ![k] = "live"]
    /\ socketsBySession' = [socketsBySession EXCEPT ![sid[k]] = @ \cup {k}]
    /\ MarkOnline(UserOf[sid[k]])
    /\ ghosts' = IF k \in connected THEN ghosts ELSE ghosts \cup {k}
    /\ UNCHANGED <<sessionVars, connected, sid, room, passed>>

\* handleSubscribe(): the message is handled as soon as the socket is there.
Subscribe(k) ==
    /\ k \in connected
    /\ k \notin room
    /\ room' = room \cup {k}
    /\ UNCHANGED <<sessionVars, connected, stage, sid, socketsBySession, online, historyVars>>

------------------------------------------------------------------------------
(* handleDisconnect() *)

\* Mutant: the whole entry of its session is dropped.
WithoutSession(k) == [socketsBySession EXCEPT ![sid[k]] = {}]

\* What remains registered without socket k.
Without(k) == [socketsBySession EXCEPT ![sid[k]] = @ \ {k}]

\* The client or the network closes the connection.  Before Authenticate the
\* socket has no data.user: nothing is registered, nothing is counted.
Disconnect(k) ==
    /\ k \in connected
    /\ connected' = connected \ {k}
    /\ room' = room \ {k}
    /\ IF stage[k] = "live"
       THEN /\ stage' = [stage EXCEPT ![k] = "gone"]
            /\ socketsBySession' = Without(k)
            /\ MarkOffline({k})
       ELSE UNCHANGED <<stage, socketsBySession, online>>
    /\ UNCHANGED <<sessionVars, sid, historyVars>>

------------------------------------------------------------------------------
(* SessionRevocationService.revoke() *)

\* The insert into revoked_sessions.
Record(l, s) ==
    /\ l \notin logouts
    /\ logouts' = logouts \cup {l}
    /\ notify' = [notify EXCEPT ![l] = s]
    /\ revoked' = revoked \cup {s}
    /\ passed' = passed \cup {k \in Sockets : sid[k] = s /\ stage[k] = "checked"}
    /\ UNCHANGED <<socketVars, socketsBySession, online, ghosts>>

\* The listener: disconnectSession().  A socket in the set that is gone already
\* does not disconnect again.
Notify(l) ==
    LET s == notify[l]
        K == {k \in socketsBySession[s] : k \in connected}
    IN  /\ s # None
        /\ notify' = [notify EXCEPT ![l] = None]
        /\ socketsBySession' = [socketsBySession EXCEPT ![s] = {}]
        /\ connected' = connected \ K
        /\ room' = room \ K
        /\ stage' = [k \in Sockets |-> IF k \in K THEN "gone" ELSE stage[k]]
        /\ MarkOffline(K)
        /\ UNCHANGED <<revoked, logouts, sid, historyVars>>

\* The process dies and PM2 starts it again: what is in memory is gone, and so
\* is every connection.
Restart ==
    /\ notify' = [l \in Logouts |-> None]
    /\ connected' = {}
    /\ room' = {}
    /\ stage' = [k \in Sockets |-> IF stage[k] = "new" THEN "new" ELSE "gone"]
    /\ socketsBySession' = [s \in Sessions |-> {}]
    /\ online' = [u \in Users |-> 0]
    /\ ghosts' = {}
    /\ UNCHANGED <<revoked, logouts, sid, passed>>

Next ==
    \/ \E k \in Sockets :
          \/ \E s \in Sessions : Connect(k, s)
          \/ Check(k) \/ Refuse(k) \/ Authenticate(k) \/ Subscribe(k) \/ Disconnect(k)
    \/ \E l \in Logouts :
          \/ \E s \in Sessions : Record(l, s)
          \/ Notify(l)
    \/ Restart

Spec == Init /\ [][Next]_vars
------------------------------------------------------------------------------
(* Properties *)

TypeOK ==
    /\ revoked \subseteq Sessions
    /\ notify \in [Logouts -> Sessions \cup {None}]
    /\ logouts \subseteq Logouts
    /\ connected \subseteq Sockets
    /\ stage \in [Sockets -> Stages]
    /\ sid \in [Sockets -> Sessions \cup {None}]
    /\ \A k \in Sockets : k \in connected \/ stage[k] # "new" => sid[k] \in Sessions
    /\ socketsBySession \in [Sessions -> SUBSET Sockets]
    /\ online \in [Users -> Nat]
    /\ room \subseteq connected
    /\ passed \subseteq Sockets
    /\ ghosts \subseteq Sockets

\* Session s is revoked, and its logout has run the listeners.
Ended(s) == s \in revoked /\ \A l \in Logouts : notify[l] # s

\* "Ends every live /servers connection of a revoked session."
SocketsEndWithSession ==
    \A k \in connected : stage[k] = "live" => ~Ended(sid[k])

\* What is left of it under any interleaving: the only connections that
\* outlive a logout are those whose session check had been passed, and not yet
\* acted on, when the logout was recorded.
OnlyPassedOutlive ==
    \A k \in connected : stage[k] = "live" /\ Ended(sid[k]) => k \in passed

\* "number of live sockets": closing one of two tabs, or a logout, takes off what was put
\* on and no more.  The count is of the connected sockets that were authenticated and of
\* the ghosts, which were put on after their disconnect had been handled and which
\* nothing takes off again while the process runs.
PresenceCounts ==
    \A u \in Users :
        online[u] = Cardinality({k \in connected : stage[k] = "live" /\ UserOf[sid[k]] = u})
                    + Cardinality({k \in ghosts : UserOf[sid[k]] = u})
=============================================================================
