---------------------------- MODULE LoginSessions -----------------------------
(***************************************************************************)
(* Login sessions, their tokens and their end:                             *)
(*   auth/auth.service.ts, auth/auth.controller.ts  (login, logout,        *)
(*                                        change-password)                 *)
(*   auth/session-revocation.service.ts  (assertSessionValid, revoke)      *)
(*   auth/sliding-session.interceptor.ts (a fresh token on every answer)   *)
(*   users/users.service.ts              (passwordChangedAt, isActive)     *)
(*                                                                         *)
(* A token is good for TTL seconds from its iat and stands for its session *)
(* (sid).  A revoked session is a row of revoked_sessions that is deleted  *)
(* once it expires: it has to outlive every token of its session, those    *)
(* included that are issued while the logout is under way.                 *)
(*                                                                         *)
(* The clock counts seconds, as iat does; revokedAt and expiresAt are kept *)
(* in milliseconds, so what compares them may go either way within one     *)
(* second.  A request is a handler slot that awaits its queries: requests  *)
(* interleave at every await.                                              *)
(***************************************************************************)
EXTENDS Integers

CONSTANTS
    Users,
    Sessions,   \* session ids there may be
    Requests,   \* slots for requests in progress
    TTL,        \* JWT_EXPIRES_IN
    Margin,     \* REVOCATION_MARGIN_MS
    MaxCheck,   \* AUTH_CHECK_TIMEOUT_MS
    MaxHold,    \* bound: longest time a request takes
    MaxTime,    \* bound: the last second of a run
    None

ASSUME TimeAssumption ==
    /\ TTL \in Nat \ {0}
    /\ Margin \in Nat
    /\ MaxCheck \in Nat
    /\ MaxHold \in Nat
    /\ MaxTime \in Nat

ASSUME NoneAssumption ==
    /\ None \notin Users
    /\ None \notin Int

VARIABLES
    now,
    tokens,      \* tokens that have not expired, wherever they are kept
    owner,       \* the user of a session, None before its login
    expiresAt,   \* RevokedSession.expiresAt, None without a row
    changedAt,   \* User.passwordChangedAt, None before the first change
    isActive,    \* User.isActive
    pc,          \* what a request awaits
    token,       \* the token it came with
    seen,        \* the queries of assertSessionValid() answered so far
    about,       \* the user whose account the request is about
    stamp,       \* its Date.now()
    hold,        \* time since it began
    loggedOut,   \* history variable: sessions ever recorded as revoked
    kept,        \* history variable: tokens that were the answer to a change
                 \* of one's own password, up to the next change of it
    cut          \* history variable: sessions that the last change of their
                 \* user's password cut off

sessionVars == <<tokens, owner, expiresAt, loggedOut, kept, cut>>
accountVars == <<changedAt, isActive>>
requestVars == <<pc, token, seen, about, stamp, hold>>

vars == <<now, sessionVars, accountVars, requestVars>>

Tokens  == [sid : Sessions, iat : Nat]
Queries == {"session", "account"}
Labels  == {"idle", "sign", "check", "record", "cleanup", "save", "answer"}

NoToken == [sid |-> None, iat |-> 0]

Init ==
    /\ now = 0
    /\ tokens = {}
    /\ owner = [s \in Sessions |-> None]
    /\ expiresAt = [s \in Sessions |-> None]
    /\ changedAt = [u \in Users |-> None]
    /\ isActive = [u \in Users |-> TRUE]
    /\ pc = [r \in Requests |-> "idle"]
    /\ token = [r \in Requests |-> NoToken]
    /\ seen = [r \in Requests |-> {}]
    /\ about = [r \in Requests |-> None]
    /\ stamp = [r \in Requests |-> 0]
    /\ hold = [r \in Requests |-> 0]
    /\ loggedOut = {}
    /\ kept = {}
    /\ cut = {}

Sid(r) == token[r].sid

Goto(r, label) == pc' = [pc EXCEPT ![r] = label]

\* The request is answered, or fails.
Finish(r) ==
    /\ Goto(r, "idle")
    /\ token' = [token EXCEPT ![r] = NoToken]
    /\ seen'  = [seen EXCEPT ![r] = {}]
    /\ about' = [about EXCEPT ![r] = None]
    /\ stamp' = [stamp EXCEPT ![r] = 0]
    /\ hold'  = [hold EXCEPT ![r] = 0]

\* jwtService.sign() for session s.
Issue(s) == tokens' = tokens \cup {[sid |-> s, iat |-> now]}

------------------------------------------------------------------------------
(* login() *)

\* The user is found by e-mail, with the hash of the password; the comparison
\* with the password given is awaited.
LoginFind(r, u) ==
    /\ pc[r] = "idle"
    /\ isActive[u]
    /\ Goto(r, "sign")
    /\ about' = [about EXCEPT ![r] = u]
    /\ UNCHANGED <<now, sessionVars, accountVars, token, seen, stamp, hold>>

\* The password was right: the first token of a new session.
LoginSign(r, s) ==
    /\ pc[r] = "sign"
    /\ owner[s] = None
    /\ owner' = [owner EXCEPT ![s] = about[r]]
    /\ Issue(s)
    /\ Finish(r)
    /\ UNCHANGED <<now, expiresAt, loggedOut, kept, cut, accountVars>>

------------------------------------------------------------------------------
(* JwtStrategy and assertSessionValid() *)

\* A request with a token that has not expired.
Present(r, t) ==
    /\ pc[r] = "idle"
    /\ t \in tokens
    /\ Goto(r, "check")
    /\ token' = [token EXCEPT ![r] = t]
    /\ UNCHANGED <<now, sessionVars, accountVars, seen, about, stamp, hold>>

\* Mutant: the token of the very second of the change is refused.
CurrentAfter(t) ==
    LET at == changedAt[owner[t.sid]]
    IN  IF at = None THEN TRUE ELSE t.iat > at

\* !(payload.iat < changedAtSeconds)
Current(t) ==
    LET at == changedAt[owner[t.sid]]
    IN  IF at = None THEN TRUE ELSE t.iat >= at

\* Either query is answered in time, and the answer lets the request through.
CheckSession(r) ==
    /\ pc[r] = "check"
    /\ hold[r] <= MaxCheck
    /\ expiresAt[Sid(r)] = None
    /\ seen' = [seen EXCEPT ![r] = @ \cup {"session"}]
    /\ UNCHANGED <<now, sessionVars, accountVars, pc, token, about, stamp, hold>>

\* Mutant: the age of the token is not looked at.
CheckActive(r) ==
    /\ pc[r] = "check"
    /\ hold[r] <= MaxCheck
    /\ isActive[owner[Sid(r)]]
    /\ seen' = [seen EXCEPT ![r] = @ \cup {"account"}]
    /\ UNCHANGED <<now, sessionVars, accountVars, pc, token, about, stamp, hold>>

CheckAccount(r) ==
    /\ pc[r] = "check"
    /\ hold[r] <= MaxCheck
    /\ isActive[owner[Sid(r)]]
    /\ Current(token[r])
    /\ seen' = [seen EXCEPT ![r] = @ \cup {"account"}]
    /\ UNCHANGED <<now, sessionVars, accountVars, pc, token, about, stamp, hold>>

Authenticated(r) == pc[r] = "check" /\ seen[r] = Queries

\* The check refuses the request or times out, the login's password is wrong,
\* or a query of the request fails: 401, 403 or 503, and no fresh token.
Fail(r) ==
    /\ pc[r] # "idle"
    /\ Finish(r)
    /\ UNCHANGED <<now, sessionVars, accountVars>>

------------------------------------------------------------------------------
(* The handlers, and the sliding session *)

\* A request is answered.  One that came with a cookie gets a fresh token.
Answer(r, cookie) ==
    /\ Authenticated(r) \/ pc[r] = "answer"
    /\ IF cookie THEN Issue(Sid(r)) ELSE UNCHANGED tokens
    /\ kept' = IF cookie /\ pc[r] = "answer" /\ about[r] = owner[Sid(r)]
               THEN kept \cup {[sid |-> Sid(r), iat |-> now]}
               ELSE kept
    /\ Finish(r)
    /\ UNCHANGED <<now, owner, expiresAt, loggedOut, cut, accountVars>>

\* revoke(): now is taken before the insert.
Logout(r) ==
    /\ Authenticated(r)
    /\ Goto(r, "record")
    /\ stamp' = [stamp EXCEPT ![r] = now]
    /\ UNCHANGED <<now, sessionVars, accountVars, token, seen, about, hold>>

\* Mutant: the row lasts as long as the token, with no margin.
LastsShort(at) == at + TTL

\* The end of a row recorded at a time, past the newest token's.
Lasts(at) == at + TTL + Margin

\* The insert, which leaves a row that is there already.
LogoutRecord(r) ==
    LET s == Sid(r)
    IN  /\ pc[r] = "record"
        /\ expiresAt' = [expiresAt EXCEPT ![s] = IF @ = None THEN Lasts(stamp[r]) ELSE @]
        /\ loggedOut' = loggedOut \cup {s}
        /\ Goto(r, "cleanup")
        /\ UNCHANGED <<now, tokens, owner, kept, cut, accountVars, token, seen, about, stamp, hold>>

\* The delete of the rows that expired before the logout, and the answer: the
\* cookie is cleared, and no fresh one is set.
LogoutCleanup(r, old) ==
    /\ pc[r] = "cleanup"
    /\ \A s \in Sessions :
          /\ s \in old => expiresAt[s] # None /\ expiresAt[s] <= stamp[r]
          /\ expiresAt[s] # None /\ expiresAt[s] < stamp[r] => s \in old
    /\ expiresAt' = [s \in Sessions |-> IF s \in old THEN None ELSE expiresAt[s]]
    /\ Finish(r)
    /\ UNCHANGED <<now, tokens, owner, loggedOut, kept, cut, accountVars>>

\* changeOwnPassword(), or resetPassword() of another user by an admin: the new
\* hash is ready, the stamp is taken, the update awaited.
ChangePassword(r, u) ==
    /\ Authenticated(r)
    /\ Goto(r, "save")
    /\ about' = [about EXCEPT ![r] = u]
    /\ stamp' = [stamp EXCEPT ![r] = now]
    /\ UNCHANGED <<now, sessionVars, accountVars, token, seen, hold>>

\* Session s can still be answered a token after a change stamped at: it has a token
\* of that second or later, or a request that comes with one or is past its check.
Outlives(s, at) ==
    \/ \E t \in tokens : t.sid = s /\ t.iat >= at
    \/ \E q \in Requests :
          /\ Sid(q) = s
          /\ \/ pc[q] \in {"save", "answer"}
             \/ pc[q] = "check" /\ ("account" \in seen[q] \/ token[q].iat >= at)

ChangeSave(r) ==
    /\ pc[r] = "save"
    /\ cut' = {s \in Sessions : IF owner[s] = about[r] THEN ~Outlives(s, stamp[r]) ELSE s \in cut}
    /\ changedAt' = [changedAt EXCEPT ![about[r]] = stamp[r]]
    /\ kept' = {t \in kept : owner[t.sid] # about[r]}
    /\ Goto(r, "answer")
    /\ UNCHANGED <<now, tokens, owner, expiresAt, loggedOut, isActive, token, seen, about, stamp, hold>>

\* PATCH /users/:id with isActive.
SetActive(r, u, active) ==
    /\ Authenticated(r)
    /\ isActive[u] # active
    /\ isActive' = [isActive EXCEPT ![u] = active]
    /\ Goto(r, "answer")
    /\ UNCHANGED <<now, sessionVars, changedAt, token, seen, about, stamp, hold>>

------------------------------------------------------------------------------
(* Time and crashes *)

\* A second passes, and with it tokens expire.
Tick ==
    /\ now < MaxTime
    /\ \A r \in Requests : pc[r] # "idle" => hold[r] < MaxHold
    /\ now' = now + 1
    /\ tokens' = {t \in tokens : now + 1 < t.iat + TTL}
    /\ hold' = [r \in Requests |-> IF pc[r] = "idle" THEN 0 ELSE hold[r] + 1]
    /\ UNCHANGED <<owner, expiresAt, loggedOut, kept, cut, accountVars, pc, token, seen, about, stamp>>

Crash ==
    /\ pc'    = [r \in Requests |-> "idle"]
    /\ token' = [r \in Requests |-> NoToken]
    /\ seen'  = [r \in Requests |-> {}]
    /\ about' = [r \in Requests |-> None]
    /\ stamp' = [r \in Requests |-> 0]
    /\ hold'  = [r \in Requests |-> 0]
    /\ UNCHANGED <<now, sessionVars, accountVars>>

Login(r) ==
    \/ \E u \in Users : LoginFind(r, u)
    \/ \E s \in Sessions : LoginSign(r, s)

EndSession(r) ==
    \/ Logout(r) \/ LogoutRecord(r)
    \/ \E old \in SUBSET Sessions : LogoutCleanup(r, old)

ChangeAccount(r) ==
    \/ \E u \in Users : ChangePassword(r, u) \/ \E active \in BOOLEAN : SetActive(r, u, active)
    \/ ChangeSave(r)

Next ==
    \/ \E r \in Requests :
          \/ Login(r)
          \/ \E t \in tokens : Present(r, t)
          \/ CheckSession(r) \/ CheckAccount(r) \/ Fail(r)
          \/ \E cookie \in BOOLEAN : Answer(r, cookie)
          \/ EndSession(r) \/ ChangeAccount(r)
    \/ Tick
    \/ Crash

Spec == Init /\ [][Next]_vars
------------------------------------------------------------------------------
(* Properties *)

TypeOK ==
    /\ now \in Nat
    /\ tokens \subseteq Tokens
    /\ owner \in [Sessions -> Users \cup {None}]
    /\ expiresAt \in [Sessions -> Nat \cup {None}]
    /\ changedAt \in [Users -> Nat \cup {None}]
    /\ isActive \in [Users -> BOOLEAN]
    /\ pc \in [Requests -> Labels]
    /\ token \in [Requests -> Tokens \cup {NoToken}]
    /\ seen \in [Requests -> SUBSET Queries]
    /\ about \in [Requests -> Users \cup {None}]
    /\ stamp \in [Requests -> Nat]
    /\ hold \in [Requests -> Nat]
    /\ loggedOut \subseteq Sessions
    /\ kept \subseteq Tokens
    /\ cut \subseteq Sessions

\* A session that was logged out stays so: as long as any of its tokens has
\* not expired its row is there to refuse it -- also a token issued by a
\* request that had passed its check before the logout.
\* It needs 2 * MaxHold + MaxCheck <= Margin.
LoggedOutForGood ==
    \A t \in tokens : t.sid \in loggedOut => expiresAt[t.sid] # None

\* "the user who just changed the password stays signed in": the token their
\* answer brings is not refused for its age.
ChangerStaysSignedIn ==
    \A t \in kept : Current(t)

\* "Closes the window where a leaked token would otherwise outlive a reset": a
\* session that a change of the password has cut off gets no token again that
\* would be let in, whatever requests it has under way and however changes of
\* the password overtake each other.  Only a session goes on that has a token
\* no older than the change, or had a request past its check.
CutOffForGood ==
    \A t \in tokens : t.sid \in cut => ~Current(t)
=============================================================================
