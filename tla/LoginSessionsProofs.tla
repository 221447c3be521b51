------------------------- MODULE LoginSessionsProofs --------------------------
(***************************************************************************)
(* Theorems about LoginSessions, for any number of users, sessions and     *)
(* requests, and any lengths of tokens, margin and requests.               *)
(***************************************************************************)
EXTENDS LoginSessions, TLAPS

USE DEF Goto, Finish, Issue, Sid, Authenticated, sessionVars, accountVars, requestVars

(***************************************************************************)
(* Type correctness.  A request past its start has a token of a session,   *)
(* and one that works on an account has a user.                            *)
(***************************************************************************)

Past == {"record", "cleanup", "save", "answer"}
Presented == Past \cup {"check"}

TypeInv ==
    /\ TypeOK
    /\ \A r \in Requests :
          /\ pc[r] \in Presented => token[r] \in Tokens
          /\ pc[r] \in {"sign", "save"} => about[r] \in Users

LEMMA InitTypeInv == Init => TypeInv
  BY NoneAssumption DEF Init, TypeInv, TypeOK, Tokens, NoToken, Labels, Presented, Past

LEMMA NextTypeInv ==
  TypeInv /\ [Next]_vars => TypeInv'
  <1> SUFFICES ASSUME TypeInv, [Next]_vars
               PROVE  TypeInv'
    OBVIOUS
  <1> USE TimeAssumption, NoneAssumption
      DEF TypeInv, TypeOK, Tokens, Queries, Labels, Presented, Past
  <1>1. ASSUME NEW r \in Requests, NEW u \in Users, LoginFind(r, u)
        PROVE  TypeInv'
    BY <1>1 DEF LoginFind
  <1>2. ASSUME NEW r \in Requests, NEW s \in Sessions, LoginSign(r, s)
        PROVE  TypeInv'
    BY <1>2 DEF LoginSign
  <1>3. ASSUME NEW r \in Requests, NEW t \in tokens, Present(r, t)
        PROVE  TypeInv'
    BY <1>3 DEF Present
  <1>4. ASSUME NEW r \in Requests, CheckSession(r)
        PROVE  TypeInv'
    BY <1>4 DEF CheckSession
  <1>5. ASSUME NEW r \in Requests, CheckAccount(r)
        PROVE  TypeInv'
    BY <1>5 DEF CheckAccount
  <1>6. ASSUME NEW r \in Requests, Fail(r)
        PROVE  TypeInv'
    BY <1>6 DEF Fail
  <1>7. ASSUME NEW r \in Requests, NEW cookie \in BOOLEAN, Answer(r, cookie)
        PROVE  TypeInv'
    BY <1>7 DEF Answer
  <1>8. ASSUME NEW r \in Requests, Logout(r)
        PROVE  TypeInv'
    BY <1>8 DEF Logout
  <1>9. ASSUME NEW r \in Requests, LogoutRecord(r)
        PROVE  TypeInv'
    BY <1>9 DEF LogoutRecord, Lasts
  <1>10. ASSUME NEW r \in Requests, NEW old \in SUBSET Sessions, LogoutCleanup(r, old)
        PROVE  TypeInv'
    BY <1>10 DEF LogoutCleanup
  <1>11. ASSUME NEW r \in Requests, NEW u \in Users, ChangePassword(r, u)
        PROVE  TypeInv'
    BY <1>11 DEF ChangePassword
  <1>12. ASSUME NEW r \in Requests, NEW u \in Users, NEW active \in BOOLEAN, SetActive(r, u, active)
        PROVE  TypeInv'
    BY <1>12 DEF SetActive
  <1>13. ASSUME NEW r \in Requests, ChangeSave(r)
        PROVE  TypeInv'
    BY <1>13 DEF ChangeSave, Outlives
  <1>14. ASSUME Tick
        PROVE  TypeInv'
    BY <1>14 DEF Tick
  <1>15. ASSUME Crash
        PROVE  TypeInv'
    BY <1>15 DEF Crash
  <1>16. CASE UNCHANGED vars
    BY <1>16 DEF vars
  <1> HIDE DEF TypeInv, TypeOK, Tokens, Queries, Labels, Presented, Past
  <1>17. QED
    BY <1>1, <1>2, <1>3, <1>4, <1>5, <1>6, <1>7, <1>8, <1>9, <1>10, <1>11, <1>12, <1>13, <1>14, <1>15, <1>16
    DEF Next, Login, EndSession, ChangeAccount

\* Every reachable state of the login sessions has the declared types, whatever
\* requests overlap, fail or are cut off by a crash.
THEOREM TypeCorrect == Spec => []TypeOK
  <1>1. TypeInv => TypeOK
    BY DEF TypeInv
  <1>2. QED
    BY <1>1, InitTypeInv, NextTypeInv, PTL DEF Spec

(***************************************************************************)
(* Time.  Tokens are not older than TTL, a request has not lasted longer   *)
(* than MaxHold, and what it is past was checked.                          *)
(***************************************************************************)

TokenInv ==
    \A t \in tokens : t.iat <= now /\ now < t.iat + TTL /\ owner[t.sid] # None

RequestInv ==
    \A r \in Requests :
        /\ stamp[r] <= now
        /\ hold[r] <= MaxHold
        /\ pc[r] = "idle" => hold[r] = 0
        /\ pc[r] \notin Presented => seen[r] = {}
        /\ pc[r] \in Past => seen[r] = Queries
        /\ pc[r] = "record" => now - hold[r] <= stamp[r]
        /\ pc[r] \in Presented =>
              /\ owner[token[r].sid] # None
              /\ token[r].iat <= now
              /\ now - hold[r] < token[r].iat + TTL

TimeInv == TokenInv /\ RequestInv

LEMMA InitTimeInv == Init => TimeInv
  BY TimeAssumption DEF Init, TimeInv, TokenInv, RequestInv, Presented, Past

LEMMA NextTimeInv ==
  TypeInv /\ TimeInv /\ [Next]_vars => TimeInv'
  <1> SUFFICES ASSUME TypeInv, TimeInv, [Next]_vars
               PROVE  TimeInv'
    OBVIOUS
  <1> USE TimeAssumption, NoneAssumption
      DEF TypeInv, TypeOK, TimeInv, TokenInv, RequestInv, Tokens, Queries, Labels, Presented, Past
  <1>1. ASSUME NEW r \in Requests, NEW u \in Users, LoginFind(r, u)
        PROVE  TimeInv'
    BY <1>1 DEF LoginFind
  <1>2. ASSUME NEW r \in Requests, NEW s \in Sessions, LoginSign(r, s)
        PROVE  TimeInv'
    BY <1>2 DEF LoginSign
  <1>3. ASSUME NEW r \in Requests, NEW t \in tokens, Present(r, t)
        PROVE  TimeInv'
    BY <1>3 DEF Present
  <1>4. ASSUME NEW r \in Requests, CheckSession(r)
        PROVE  TimeInv'
    BY <1>4 DEF CheckSession
  <1>5. ASSUME NEW r \in Requests, CheckAccount(r)
        PROVE  TimeInv'
    BY <1>5 DEF CheckAccount
  <1>6. ASSUME NEW r \in Requests, Fail(r)
        PROVE  TimeInv'
    BY <1>6 DEF Fail
  <1>7. ASSUME NEW r \in Requests, NEW cookie \in BOOLEAN, Answer(r, cookie)
        PROVE  TimeInv'
    BY <1>7 DEF Answer
  <1>8. ASSUME NEW r \in Requests, Logout(r)
        PROVE  TimeInv'
    BY <1>8 DEF Logout
  <1>9. ASSUME NEW r \in Requests, LogoutRecord(r)
        PROVE  TimeInv'
    BY <1>9 DEF LogoutRecord, Lasts
  <1>10. ASSUME NEW r \in Requests, NEW old \in SUBSET Sessions, LogoutCleanup(r, old)
        PROVE  TimeInv'
    BY <1>10 DEF LogoutCleanup
  <1>11. ASSUME NEW r \in Requests, NEW u \in Users, ChangePassword(r, u)
        PROVE  TimeInv'
    BY <1>11 DEF ChangePassword
  <1>12. ASSUME NEW r \in Requests, NEW u \in Users, NEW active \in BOOLEAN, SetActive(r, u, active)
        PROVE  TimeInv'
    BY <1>12 DEF SetActive
  <1>13. ASSUME NEW r \in Requests, ChangeSave(r)
        PROVE  TimeInv'
    BY <1>13 DEF ChangeSave, Outlives
  <1>14. ASSUME Tick
        PROVE  TimeInv'
    BY <1>14 DEF Tick
  <1>15. ASSUME Crash
        PROVE  TimeInv'
    BY <1>15 DEF Crash
  <1>16. CASE UNCHANGED vars
    BY <1>16 DEF vars
  <1> HIDE DEF TypeInv, TypeOK, TimeInv, TokenInv, RequestInv, Tokens, Queries, Labels, Presented, Past
  <1>17. QED
    BY <1>1, <1>2, <1>3, <1>4, <1>5, <1>6, <1>7, <1>8, <1>9, <1>10, <1>11, <1>12, <1>13, <1>14, <1>15, <1>16
    DEF Next, Login, EndSession, ChangeAccount

(***************************************************************************)
(* The end of a session.  While its row is there, every token of it, and   *)
(* every request that has passed its check, is from around the logout; the *)
(* row goes only when the last of them is past.  From then on there is no  *)
(* token left, and a request still in its check is too late for it.        *)
(***************************************************************************)

\* The instant of the logout, for a session with a row, plus d.
Within(s, time, d) == time + TTL + Margin <= expiresAt[s] + d

RowInv ==
    \A s \in Sessions : expiresAt[s] # None =>
        /\ s \in loggedOut
        /\ \A t \in tokens : t.sid = s => Within(s, t.iat, MaxHold + MaxHold)
        /\ \A r \in Requests : pc[r] \in Presented /\ token[r].sid = s =>
              /\ Within(s, token[r].iat, MaxHold + MaxHold)
              /\ "session" \in seen[r] => Within(s, now - hold[r], MaxHold)

GoneInv ==
    \A s \in loggedOut :
        /\ owner[s] # None
        /\ expiresAt[s] = None =>
              /\ \A t \in tokens : t.sid # s
              /\ \A r \in Requests : pc[r] \in Presented /\ token[r].sid = s =>
                    pc[r] = "check" /\ "session" \notin seen[r] /\ hold[r] > MaxCheck

EndInv == RowInv /\ GoneInv

LEMMA InitEndInv == Init => EndInv
  BY DEF Init, EndInv, RowInv, GoneInv

LEMMA NextEndInv ==
    ASSUME 2 * MaxHold + MaxCheck <= Margin
    PROVE  TypeInv /\ TimeInv /\ EndInv /\ [Next]_vars => EndInv'
  <1> SUFFICES ASSUME TypeInv, TimeInv, EndInv, [Next]_vars
               PROVE  EndInv'
    OBVIOUS
  <1> USE TimeAssumption, NoneAssumption
      DEF TypeInv, TypeOK, TimeInv, TokenInv, RequestInv, EndInv, RowInv, GoneInv, Within,
          Tokens, Queries, Labels, Presented, Past
  <1>1. ASSUME NEW r \in Requests, NEW u \in Users, LoginFind(r, u)
        PROVE  EndInv'
    BY <1>1 DEF LoginFind
  <1>2. ASSUME NEW r \in Requests, NEW s \in Sessions, LoginSign(r, s)
        PROVE  EndInv'
    BY <1>2 DEF LoginSign
  <1>3. ASSUME NEW r \in Requests, NEW t \in tokens, Present(r, t)
        PROVE  EndInv'
    BY <1>3 DEF Present
  <1>4. ASSUME NEW r \in Requests, CheckSession(r)
        PROVE  EndInv'
    BY <1>4 DEF CheckSession
  <1>5. ASSUME NEW r \in Requests, CheckAccount(r)
        PROVE  EndInv'
    BY <1>5 DEF CheckAccount
  <1>6. ASSUME NEW r \in Requests, Fail(r)
        PROVE  EndInv'
    BY <1>6 DEF Fail
  <1>7. ASSUME NEW r \in Requests, NEW cookie \in BOOLEAN, Answer(r, cookie)
        PROVE  EndInv'
    BY <1>7 DEF Answer
  <1>8. ASSUME NEW r \in Requests, Logout(r)
        PROVE  EndInv'
    BY <1>8 DEF Logout
  <1>9. ASSUME NEW r \in Requests, LogoutRecord(r)
        PROVE  EndInv'
    <2> DEFINE s == Sid(r)
    <2>1. now <= stamp[r] + MaxHold
      BY <1>9 DEF LogoutRecord
    <2>2. /\ s \in Sessions
          /\ "session" \in seen[r]
          /\ s \in loggedOut => expiresAt[s] # None
      BY <1>9 DEF LogoutRecord
    <2>3. ASSUME expiresAt[s] = None
          PROVE  expiresAt'[s] = stamp[r] + TTL + Margin
      BY <1>9, <2>2, <2>3 DEF LogoutRecord, Lasts
    <2>4. ASSUME expiresAt[s] # None
          PROVE  expiresAt'[s] = expiresAt[s]
      BY <1>9, <2>2, <2>4 DEF LogoutRecord
    <2>5. /\ expiresAt'[s] # None
          /\ \A x \in Sessions \ {s} : expiresAt'[x] = expiresAt[x]
      BY <1>9, <2>2 DEF LogoutRecord, Lasts
    <2>6. RowInv'
      BY <1>9, <2>1, <2>2, <2>3, <2>4, <2>5 DEF LogoutRecord
    <2>7. GoneInv'
      BY <1>9, <2>2, <2>5 DEF LogoutRecord
    <2>8. QED
      BY <2>6, <2>7
  <1>10. ASSUME NEW r \in Requests, NEW old \in SUBSET Sessions, LogoutCleanup(r, old)
        PROVE  EndInv'
    <2>1. ASSUME NEW s \in old
          PROVE  expiresAt[s] \in Nat /\ expiresAt[s] <= now
      BY <1>10, <2>1 DEF LogoutCleanup
    <2>2. ASSUME NEW s \in old
          PROVE  \A t \in tokens : t.sid # s
      BY <2>1, <2>2
    <2>3. ASSUME NEW s \in old, NEW q \in Requests, pc[q] \in Presented, token[q].sid = s
          PROVE  "session" \notin seen[q] /\ hold[q] > MaxCheck
      BY <2>1, <2>3
    <2>4. RowInv'
      BY <1>10 DEF LogoutCleanup
    <2>5. GoneInv'
      BY <1>10, <2>2, <2>3 DEF LogoutCleanup
    <2>6. QED
      BY <2>4, <2>5
  <1>11. ASSUME NEW r \in Requests, NEW u \in Users, ChangePassword(r, u)
        PROVE  EndInv'
    BY <1>11 DEF ChangePassword
  <1>12. ASSUME NEW r \in Requests, NEW u \in Users, NEW active \in BOOLEAN, SetActive(r, u, active)
        PROVE  EndInv'
    BY <1>12 DEF SetActive
  <1>13. ASSUME NEW r \in Requests, ChangeSave(r)
        PROVE  EndInv'
    BY <1>13 DEF ChangeSave, Outlives
  <1>14. ASSUME Tick
        PROVE  EndInv'
    BY <1>14 DEF Tick
  <1>15. ASSUME Crash
        PROVE  EndInv'
    BY <1>15 DEF Crash
  <1>16. CASE UNCHANGED vars
    BY <1>16 DEF vars
  <1> HIDE DEF TypeInv, TypeOK, TimeInv, TokenInv, RequestInv, EndInv, RowInv, GoneInv, Within,
          Tokens, Queries, Labels, Presented, Past
  <1>17. QED
    BY <1>1, <1>2, <1>3, <1>4, <1>5, <1>6, <1>7, <1>8, <1>9, <1>10, <1>11, <1>12, <1>13, <1>14, <1>15, <1>16
    DEF Next, Login, EndSession, ChangeAccount

\* A session that was logged out is refused for as long as a token of it has
\* not expired, if the margin of its row covers two requests and a check.
THEOREM LogoutsAreFinal ==
    ASSUME 2 * MaxHold + MaxCheck <= Margin
    PROVE  Spec => []LoggedOutForGood
  <1>1. EndInv => LoggedOutForGood
    BY DEF EndInv, GoneInv, LoggedOutForGood
  <1>2. TypeInv /\ TimeInv /\ EndInv /\ [Next]_vars => EndInv'
    BY NextEndInv
  <1>3. QED
    BY <1>1, <1>2, InitTypeInv, NextTypeInv, InitTimeInv, NextTimeInv, InitEndInv, PTL DEF Spec

\* Once a logout is on record no request of the session passes its check any more, be
\* it under way already: the row refuses it, or when that is gone the check's timeout.
RefusedForGood ==
    [][\A r \in Requests :
          Sid(r) \in loggedOut /\ "session" \in seen'[r] => "session" \in seen[r]]_vars

\* Who sees a session through the check is none that was logged out.
LEMMA CheckedIsNotOut ==
    ASSUME TypeInv, EndInv, NEW r \in Requests, CheckSession(r)
    PROVE  Sid(r) \notin loggedOut
  BY TimeAssumption DEF TypeInv, TypeOK, EndInv, GoneInv, CheckSession, Presented, Tokens

\* assertSessionValid() refuses a logged-out session for ever, although it asks for a
\* row that is deleted in the end and gives up after a time: what outlives the row is
\* no request that can still be let in.
THEOREM LogoutsAreObeyed ==
    ASSUME 2 * MaxHold + MaxCheck <= Margin
    PROVE  Spec => RefusedForGood
  <1> DEFINE Refused == \A r \in Requests :
          Sid(r) \in loggedOut /\ "session" \in seen'[r] => "session" \in seen[r]
  <1>1. ASSUME TypeInv, EndInv, [Next]_vars
        PROVE  Refused
    <2>1. ASSUME NEW q \in Requests, CheckSession(q)
          PROVE  Refused
      <3>1. \A r \in Requests \ {q} : seen'[r] = seen[r]
        BY <1>1, <2>1 DEF CheckSession, TypeInv, TypeOK
      <3>2. QED
        BY <1>1, <2>1, <3>1, CheckedIsNotOut
    <2>2. ASSUME NEW q \in Requests, CheckAccount(q)
          PROVE  Refused
      BY <1>1, <2>2 DEF CheckAccount, TypeInv, TypeOK
    <2>3. ASSUME \A r \in Requests : seen'[r] \in {seen[r], {}}
          PROVE  Refused
      BY <2>3
    <2>4. CASE Tick \/ Crash \/ UNCHANGED vars
      BY <2>3, <2>4 DEF Tick, Crash, vars
    <2>5. ASSUME NEW q \in Requests,
                 \/ Login(q) \/ \E t \in tokens : Present(q, t)
                 \/ Fail(q) \/ \E cookie \in BOOLEAN : Answer(q, cookie)
                 \/ EndSession(q) \/ ChangeAccount(q)
          PROVE  \A r \in Requests : seen'[r] \in {seen[r], {}}
      BY <1>1, <2>5
         DEF Login, LoginFind, LoginSign, Present, Fail, Answer, EndSession, Logout, LogoutRecord,
             LogoutCleanup, ChangeAccount, ChangePassword, SetActive, ChangeSave, TypeInv, TypeOK
    <2>6. QED
      BY <1>1, <2>1, <2>2, <2>3, <2>4, <2>5 DEF Next
  <1>2. TypeInv /\ TimeInv /\ EndInv /\ [Next]_vars => EndInv'
    BY NextEndInv
  <1>3. TypeInv /\ EndInv /\ [Next]_vars => [Refused]_vars
    BY <1>1
  <1>4. QED
    BY <1>2, <1>3, InitTypeInv, NextTypeInv, InitTimeInv, NextTimeInv, InitEndInv, PTL
       DEF Spec, RefusedForGood

(***************************************************************************)
(* The change of a password.                                               *)
(***************************************************************************)

KeptInv ==
    /\ \A u \in Users : changedAt[u] # None => changedAt[u] <= now
    /\ \A t \in kept : owner[t.sid] # None /\ Current(t)

LEMMA InitKeptInv == Init => KeptInv
  BY DEF Init, KeptInv

LEMMA NextKeptInv ==
  TypeInv /\ TimeInv /\ KeptInv /\ [Next]_vars => KeptInv'
  <1> SUFFICES ASSUME TypeInv, TimeInv, KeptInv, [Next]_vars
               PROVE  KeptInv'
    OBVIOUS
  <1> USE TimeAssumption, NoneAssumption
      DEF TypeInv, TypeOK, TimeInv, TokenInv, RequestInv, KeptInv, Current,
          Tokens, Queries, Labels, Presented, Past
  <1>1. ASSUME NEW r \in Requests, NEW u \in Users, LoginFind(r, u)
        PROVE  KeptInv'
    BY <1>1 DEF LoginFind
  <1>2. ASSUME NEW r \in Requests, NEW s \in Sessions, LoginSign(r, s)
        PROVE  KeptInv'
    BY <1>2 DEF LoginSign
  <1>3. ASSUME NEW r \in Requests, NEW t \in tokens, Present(r, t)
        PROVE  KeptInv'
    BY <1>3 DEF Present
  <1>4. ASSUME NEW r \in Requests, CheckSession(r)
        PROVE  KeptInv'
    BY <1>4 DEF CheckSession
  <1>5. ASSUME NEW r \in Requests, CheckAccount(r)
        PROVE  KeptInv'
    BY <1>5 DEF CheckAccount
  <1>6. ASSUME NEW r \in Requests, Fail(r)
        PROVE  KeptInv'
    BY <1>6 DEF Fail
  <1>7. ASSUME NEW r \in Requests, NEW cookie \in BOOLEAN, Answer(r, cookie)
        PROVE  KeptInv'
    BY <1>7 DEF Answer
  <1>8. ASSUME NEW r \in Requests, Logout(r)
        PROVE  KeptInv'
    BY <1>8 DEF Logout
  <1>9. ASSUME NEW r \in Requests, LogoutRecord(r)
        PROVE  KeptInv'
    BY <1>9 DEF LogoutRecord, Lasts
  <1>10. ASSUME NEW r \in Requests, NEW old \in SUBSET Sessions, LogoutCleanup(r, old)
        PROVE  KeptInv'
    BY <1>10 DEF LogoutCleanup
  <1>11. ASSUME NEW r \in Requests, NEW u \in Users, ChangePassword(r, u)
        PROVE  KeptInv'
    BY <1>11 DEF ChangePassword
  <1>12. ASSUME NEW r \in Requests, NEW u \in Users, NEW active \in BOOLEAN, SetActive(r, u, active)
        PROVE  KeptInv'
    BY <1>12 DEF SetActive
  <1>13. ASSUME NEW r \in Requests, ChangeSave(r)
        PROVE  KeptInv'
    BY <1>13 DEF ChangeSave, Outlives
  <1>14. ASSUME Tick
        PROVE  KeptInv'
    BY <1>14 DEF Tick
  <1>15. ASSUME Crash
        PROVE  KeptInv'
    BY <1>15 DEF Crash
  <1>16. CASE UNCHANGED vars
    BY <1>16 DEF vars
  <1> HIDE DEF TypeInv, TypeOK, TimeInv, TokenInv, RequestInv, KeptInv, Current,
          Tokens, Queries, Labels, Presented, Past
  <1>17. QED
    BY <1>1, <1>2, <1>3, <1>4, <1>5, <1>6, <1>7, <1>8, <1>9, <1>10, <1>11, <1>12, <1>13, <1>14, <1>15, <1>16
    DEF Next, Login, EndSession, ChangeAccount

\* The token that answers the change of one's own password is not refused for
\* its age, until the password is changed again.
THEOREM ChangersStaySignedIn == Spec => []ChangerStaysSignedIn
  <1>1. KeptInv => ChangerStaysSignedIn
    BY DEF KeptInv, ChangerStaysSignedIn
  <1>2. QED
    BY <1>1, InitTypeInv, NextTypeInv, InitTimeInv, NextTimeInv, InitKeptInv, NextKeptInv, PTL
    DEF Spec

(***************************************************************************)
(* Who is cut off by it.                                                   *)
(***************************************************************************)

\* Session s has nothing left that is let in after time at.
LastingCut(s, at) ==
    /\ \A t \in tokens : t.sid = s => t.iat < at
    /\ \A q \in Requests : token[q].sid = s =>
          /\ pc[q] \notin {"save", "answer"}
          /\ pc[q] = "check" => "account" \notin seen[q] /\ token[q].iat < at

CutInv ==
    /\ \A q \in Requests : pc[q] = "idle" => seen[q] = {}
    /\ \A s \in cut :
          /\ owner[s] # None
          /\ changedAt[owner[s]] # None
          /\ LastingCut(s, changedAt[owner[s]])

LEMMA InitCutInv == Init => CutInv
  BY DEF Init, CutInv

LEMMA NextCutInv ==
  TypeInv /\ CutInv /\ [Next]_vars => CutInv'
  <1> SUFFICES ASSUME TypeInv, CutInv, [Next]_vars
               PROVE  CutInv'
    OBVIOUS
  <1> USE TimeAssumption, NoneAssumption
      DEF TypeInv, TypeOK, CutInv, LastingCut, Current,
          Tokens, Queries, Labels, Presented, Past
  <1>1. ASSUME NEW r \in Requests, NEW u \in Users, LoginFind(r, u)
        PROVE  CutInv'
    BY <1>1 DEF LoginFind
  <1>2. ASSUME NEW r \in Requests, NEW s \in Sessions, LoginSign(r, s)
        PROVE  CutInv'
    <2>1. s \notin cut /\ UNCHANGED <<cut, changedAt>>
      BY <1>2 DEF LoginSign
    <2>2. \A q \in Requests : q # r => pc'[q] = pc[q] /\ token'[q] = token[q] /\ seen'[q] = seen[q]
      BY <1>2 DEF LoginSign
    <2>3. pc'[r] = "idle" /\ seen'[r] = {}
      BY <1>2 DEF LoginSign
    <2>4. \A t \in tokens' : t \in tokens \/ t.sid = s
      BY <1>2 DEF LoginSign
    <2>5. ASSUME NEW x \in cut
          PROVE  owner'[x] = owner[x]
      <3>1. x \in Sessions /\ x # s
        BY <2>1
      <3>2. owner' = [owner EXCEPT ![s] = about[r]]
        BY <1>2 DEF LoginSign
      <3>3. QED
        BY <3>1, <3>2
    <2>6. ASSUME NEW x \in cut, NEW q \in Requests, token'[q].sid = x
          PROVE  /\ pc'[q] \notin {"save", "answer"}
                 /\ pc'[q] = "check" => "account" \notin seen'[q] /\ token'[q].iat < changedAt[owner[x]]
      BY <2>2, <2>3, <2>6
    <2>7. QED
      BY <2>1, <2>2, <2>3, <2>4, <2>5, <2>6
  <1>3. ASSUME NEW r \in Requests, NEW t \in tokens, Present(r, t)
        PROVE  CutInv'
    BY <1>3 DEF Present
  <1>4. ASSUME NEW r \in Requests, CheckSession(r)
        PROVE  CutInv'
    BY <1>4 DEF CheckSession
  <1>5. ASSUME NEW r \in Requests, CheckAccount(r)
        PROVE  CutInv'
    BY <1>5 DEF CheckAccount
  <1>6. ASSUME NEW r \in Requests, Fail(r)
        PROVE  CutInv'
    BY <1>6 DEF Fail
  <1>7. ASSUME NEW r \in Requests, NEW cookie \in BOOLEAN, Answer(r, cookie)
        PROVE  CutInv'
    <2>1. token[r].sid \in Sessions /\ token[r].sid \notin cut
      BY <1>7 DEF Answer
    <2>2. \A q \in Requests : q # r => pc'[q] = pc[q] /\ token'[q] = token[q] /\ seen'[q] = seen[q]
      BY <1>7 DEF Answer
    <2>3. pc'[r] = "idle" /\ seen'[r] = {} /\ UNCHANGED <<owner, cut, changedAt>>
      BY <1>7 DEF Answer
    <2>4. \A t \in tokens' : t \in tokens \/ t.sid = token[r].sid
      BY <1>7 DEF Answer
    <2>5. ASSUME NEW s \in cut, NEW q \in Requests, token'[q].sid = s
          PROVE  /\ pc'[q] \notin {"save", "answer"}
                 /\ pc'[q] = "check" => "account" \notin seen'[q] /\ token'[q].iat < changedAt[owner[s]]
      BY <2>2, <2>3, <2>5
    <2>6. QED
      BY <2>1, <2>2, <2>3, <2>4, <2>5
  <1>8. ASSUME NEW r \in Requests, Logout(r)
        PROVE  CutInv'
    BY <1>8 DEF Logout
  <1>9. ASSUME NEW r \in Requests, LogoutRecord(r)
        PROVE  CutInv'
    BY <1>9 DEF LogoutRecord, Lasts
  <1>10. ASSUME NEW r \in Requests, NEW old \in SUBSET Sessions, LogoutCleanup(r, old)
        PROVE  CutInv'
    BY <1>10 DEF LogoutCleanup
  <1>11. ASSUME NEW r \in Requests, NEW u \in Users, ChangePassword(r, u)
        PROVE  CutInv'
    BY <1>11 DEF ChangePassword
  <1>12. ASSUME NEW r \in Requests, NEW u \in Users, NEW active \in BOOLEAN, SetActive(r, u, active)
        PROVE  CutInv'
    BY <1>12 DEF SetActive
  <1>13. ASSUME NEW r \in Requests, ChangeSave(r)
        PROVE  CutInv'
    BY <1>13 DEF ChangeSave, Outlives
  <1>14. ASSUME Tick
        PROVE  CutInv'
    BY <1>14 DEF Tick
  <1>15. ASSUME Crash
        PROVE  CutInv'
    BY <1>15 DEF Crash
  <1>16. CASE UNCHANGED vars
    BY <1>16 DEF vars
  <1> HIDE DEF TypeInv, TypeOK, CutInv, LastingCut, Current,
          Tokens, Queries, Labels, Presented, Past
  <1>17. QED
    BY <1>1, <1>2, <1>3, <1>4, <1>5, <1>6, <1>7, <1>8, <1>9, <1>10, <1>11, <1>12, <1>13, <1>14, <1>15, <1>16
    DEF Next, Login, EndSession, ChangeAccount

\* A session that the change of a password has cut off gets no token again that
\* would be let in, whatever requests and changes overlap.
THEOREM CutOffsAreFinal == Spec => []CutOffForGood
  <1>1. TypeInv /\ CutInv => CutOffForGood
    BY NoneAssumption DEF TypeInv, TypeOK, CutInv, LastingCut, CutOffForGood, Current, Tokens
  <1>2. QED
    BY <1>1, InitTypeInv, NextTypeInv, InitCutInv, NextCutInv, PTL DEF Spec
=============================================================================
