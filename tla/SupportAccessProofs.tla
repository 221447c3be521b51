------------------------- MODULE SupportAccessProofs --------------------------
(***************************************************************************)
(* Theorems about SupportAccess, for every value of its constants: any     *)
(* number of sessions, employees, overlapping handlers and faults.         *)
(***************************************************************************)
EXTENDS SupportAccess, TLAPS

USE DEF Goto, Finish, Event, Audit, serverVars, logVars, agentVars, localVars, historyVars

(***************************************************************************)
(* Type correctness.  A handler has a row in hand where it uses one, which *)
(* is what its next update, event or emit needs.                           *)
(***************************************************************************)

InHand == Granting \cup Connecting \cup {"auditRevoke", "emitLog"}

TypeInv ==
    /\ TypeOK
    /\ \A h \in Handlers :
          /\ pc[h] \in InHand => sess[h] \in Sessions
          /\ pc[h] \in Connecting => user[h] \in Staff
          /\ pc[h] \in Revoking => reason[h] \in {"revoked", "expired"}

LEMMA InitTypeInv == Init => TypeInv
  <1> SUFFICES ASSUME Init
               PROVE  TypeInv
    OBVIOUS
  <1>1. TypeOK
    <2>1. /\ accessEnabled \in BOOLEAN
          /\ ledger \subseteq [type : {"granted", "connected", "revoked", "expired"},
                               session : Sessions, actor : Staff \cup {None}]
      BY DEF Init
    <2>2. /\ accessExpiresAt \in Rows
          /\ log \in [Sessions -> LogStates]
          /\ stamps \in Nat
          /\ grantedAt \in [Sessions -> Nat]
          /\ accessedBy \in [Sessions -> Staff \cup {None}]
          /\ past \subseteq Sessions
          /\ link \in LinkStates
          /\ told \subseteq Sessions
          /\ account \in Rows
          /\ faults \in 0..MaxFaults
      BY AccessAssumption DEF Init, Rows, LogStates, LinkStates
    <2>3. /\ pc \in [Handlers -> Labels]
          /\ sess \in [Handlers -> Rows]
          /\ user \in [Handlers -> Staff \cup {None}]
          /\ reason \in [Handlers -> {"revoked", "expired", None}]
          /\ attached \subseteq Handlers
      BY DEF Init, Rows, Labels
    <2>4. /\ late \in [Handlers -> SUBSET Sessions]
          /\ given \in [Sessions -> SUBSET Staff]
          /\ contested \subseteq Sessions
          /\ crossed \in BOOLEAN
          /\ unwatched \subseteq Sessions
      BY DEF Init
    <2>5. QED
      BY <2>1, <2>2, <2>3, <2>4 DEF TypeOK
  <1>2. \A h \in Handlers : pc[h] \notin InHand \cup Connecting \cup Revoking
    BY DEF Init, InHand, Granting, Connecting, Revoking
  <1>3. QED
    BY <1>1, <1>2 DEF TypeInv

LEMMA NextTypeInv == TypeInv /\ [Next]_vars => TypeInv'
  <1> SUFFICES ASSUME TypeInv, [Next]_vars
               PROVE  TypeInv'
    OBVIOUS
  <1> USE AccessAssumption
      DEF TypeInv, TypeOK, InHand, Rows, LogStates, LinkStates,
          Labels, Granting, Revoking, Connecting, Toggling, Resyncing
  <1>1. ASSUME NEW h \in Handlers, NEW s \in Sessions, GrantEnable(h, s)
        PROVE  TypeInv'
    BY <1>1 DEF GrantEnable, Cross
  <1>2. ASSUME NEW h \in Handlers, GrantStamp(h)
        PROVE  TypeInv'
    BY <1>2 DEF GrantStamp
  <1>3. ASSUME NEW h \in Handlers, GrantSave(h)
        PROVE  TypeInv'
    BY <1>3 DEF GrantSave
  <1>4. ASSUME NEW h \in Handlers, GrantAudit(h)
        PROVE  TypeInv'
    BY <1>4 DEF GrantAudit
  <1>5. ASSUME NEW h \in Handlers, GrantEmit(h)
        PROVE  TypeInv'
    BY <1>5 DEF GrantEmit, SetSupportAccess, Tell
  <1>6. ASSUME NEW h \in Handlers, RevokeStart(h)
        PROVE  TypeInv'
    BY <1>6 DEF RevokeStart
  <1>7. ASSUME NEW h \in Handlers, ScanExpired(h)
        PROVE  TypeInv'
    BY <1>7 DEF ScanExpired
  <1>8. ASSUME NEW h \in Handlers, RevokeFind(h)
        PROVE  TypeInv'
    BY <1>8 DEF RevokeFind
  <1>9. ASSUME NEW h \in Handlers, RevokeDisable(h)
        PROVE  TypeInv'
    BY <1>9 DEF RevokeDisable, Cross
  <1>10. ASSUME NEW h \in Handlers, RevokeClose(h)
        PROVE  TypeInv'
    BY <1>10 DEF RevokeClose
  <1>11. ASSUME NEW h \in Handlers, RevokeAudit(h)
        PROVE  TypeInv'
    BY <1>11 DEF RevokeAudit
  <1>12. ASSUME NEW h \in Handlers, RevokeEmit(h)
        PROVE  TypeInv'
    BY <1>12 DEF RevokeEmit, SetSupportAccess, Tell
  <1>13. ASSUME NEW h \in Handlers, NEW u \in Staff, NEW s \in Sessions, ConnectFind(h, u, s)
        PROVE  TypeInv'
    BY <1>13 DEF ConnectFind, IsNewest, Open
  <1>14. ASSUME NEW h \in Handlers, ConnectClaim(h)
        PROVE  TypeInv'
    BY <1>14 DEF ConnectClaim
  <1>15. ASSUME NEW h \in Handlers, ConnectAudit(h)
        PROVE  TypeInv'
    BY <1>15 DEF ConnectAudit
  <1>16. ASSUME NEW h \in Handlers, ConnectAnswer(h)
        PROVE  TypeInv'
    BY <1>16 DEF ConnectAnswer
  <1>17. ASSUME NEW h \in Handlers, Register(h)
        PROVE  TypeInv'
    BY <1>17 DEF Register, AgentEvent
  <1>18. ASSUME NEW h \in Handlers, NEW label \in {"toggleOn", "toggleOff"}, Toggle(h, label)
        PROVE  TypeInv'
    BY <1>18 DEF Toggle, AgentEvent
  <1>19. ASSUME NEW h \in Handlers, ToggleRead(h)
        PROVE  TypeInv'
    BY <1>19 DEF ToggleRead
  <1>20. ASSUME NEW h \in Handlers, ToggleRefuse(h)
        PROVE  TypeInv'
    BY <1>20 DEF ToggleRefuse
  <1>21. ASSUME NEW h \in Handlers, ResyncServer(h)
        PROVE  TypeInv'
    BY <1>21 DEF ResyncServer, FinishSync
  <1>22. ASSUME NEW h \in Handlers, ResyncLog(h)
        PROVE  TypeInv'
    BY <1>22 DEF ResyncLog, FinishSync, IsNewest, Open
  <1>23. ASSUME NEW h \in Handlers, ResyncEmit(h)
        PROVE  TypeInv'
    BY <1>23 DEF ResyncEmit, Tell, FinishSync
  <1>24. CASE LinkDown
    BY <1>24 DEF LinkDown
  <1>25. ASSUME NEW old \in SUBSET Sessions, Purge(old)
        PROVE  TypeInv'
    BY <1>25 DEF Purge
  <1>26. ASSUME NEW s \in Sessions, Expire(s)
        PROVE  TypeInv'
    BY <1>26 DEF Expire
  <1>27. ASSUME NEW h \in Handlers, Fail(h)
        PROVE  TypeInv'
    BY <1>27 DEF Fail
  <1>28. CASE Crash
    BY <1>28 DEF Crash
  <1>29. CASE UNCHANGED vars
    BY <1>29 DEF vars, serverVars, logVars, agentVars, localVars
  <1>30. QED
    BY <1>1, <1>2, <1>3, <1>4, <1>5, <1>6, <1>7, <1>8, <1>9, <1>10, <1>11,
       <1>12, <1>13, <1>14, <1>15, <1>16, <1>17, <1>18, <1>19, <1>20, <1>21,
       <1>22, <1>23, <1>24, <1>25, <1>26, <1>27, <1>28, <1>29 DEF Next,
       Grant, Revoke, Connect, Resync

\* Every variable keeps its type.
THEOREM TypeCorrect == Spec => []TypeOK
  <1>1. TypeInv => TypeOK
    BY DEF TypeInv
  <1>2. QED
    BY <1>1, InitTypeInv, NextTypeInv, PTL DEF Spec

(***************************************************************************)
(* Rows and the grants that make them.  A grant in progress has its row to *)
(* itself; the row's event is not in the ledger before the grant's append; *)
(* two saved rows never have the same grantedAt.                           *)
(***************************************************************************)

RowInv ==
    /\ \A h \in Handlers :
          /\ pc[h] \in {"stamp", "save"} => log[sess[h]] = "requested"
          /\ pc[h] = "save" => grantedAt[sess[h]] # 0
          /\ pc[h] \in Granting => log[sess[h]] # "none"
          /\ pc[h] \in {"stamp", "save", "auditGrant"} =>
                Event("granted", sess[h], None) \notin ledger
    /\ \A g, h \in Handlers :
          pc[g] \in Granting /\ pc[h] \in Granting /\ sess[g] = sess[h] => g = h
    /\ \A s \in Sessions :
          /\ log[s] = "none" => Event("granted", s, None) \notin ledger
          /\ grantedAt[s] <= stamps
          /\ s \in Saved => grantedAt[s] # 0
    /\ \A r, s \in Sessions : grantedAt[r] = grantedAt[s] /\ grantedAt[r] # 0 => r = s

LEMMA InitRowInv == Init => RowInv
  BY DEF Init, RowInv, Saved, Granting

LEMMA NextRowInv == TypeInv /\ RowInv /\ [Next]_vars => RowInv'
  <1> SUFFICES ASSUME TypeInv, RowInv, [Next]_vars
               PROVE  RowInv'
    OBVIOUS
  <1> USE AccessAssumption
      DEF TypeInv, TypeOK, RowInv, Saved, Granting, Connecting, InHand
  <1>1. ASSUME NEW h \in Handlers, NEW s \in Sessions, GrantEnable(h, s)
        PROVE  RowInv'
    BY <1>1 DEF GrantEnable
  <1>2. ASSUME NEW h \in Handlers, GrantStamp(h)
        PROVE  RowInv'
    <2>1. /\ sess[h] \in Sessions
          /\ log[sess[h]] = "requested"
          /\ grantedAt' = [grantedAt EXCEPT ![sess[h]] = stamps + 1]
          /\ stamps' = stamps + 1
          /\ UNCHANGED <<log, ledger, sess>>
      BY <1>2 DEF GrantStamp
    <2>2. /\ pc' = [pc EXCEPT ![h] = "save"]
          /\ pc[h] = "stamp"
      BY <1>2 DEF GrantStamp
    <2>3. /\ grantedAt \in [Sessions -> Nat]
          /\ stamps \in Nat
          /\ \A s \in Sessions : grantedAt[s] <= stamps
          /\ \A s \in Sessions : log[s] \in {"open", "revoked", "purged"} => grantedAt[s] # 0
          /\ \A r, s \in Sessions : grantedAt[r] = grantedAt[s] /\ grantedAt[r] # 0 => r = s
      OBVIOUS
    <2>4. ASSUME NEW s \in Sessions
          PROVE  /\ grantedAt'[s] <= stamps'
                 /\ s \in Saved' => grantedAt'[s] # 0
      <3> HIDE DEF TypeInv, RowInv
      <3>1. CASE s = sess[h]
        BY <2>1, <2>3, <3>1
      <3>2. CASE s # sess[h]
        BY <2>1, <2>3, <3>2
      <3>3. QED
        BY <3>1, <3>2
    <2>5. ASSUME NEW r \in Sessions, NEW s \in Sessions,
                 grantedAt'[r] = grantedAt'[s], grantedAt'[r] # 0
          PROVE  r = s
      <3> HIDE DEF TypeInv, RowInv
      <3>1. QED
        BY <2>1, <2>3, <2>5
    <2>6. \A g \in Handlers :
             /\ pc'[g] \in {"stamp", "save"} => log'[sess'[g]] = "requested"
             /\ pc'[g] = "save" => grantedAt'[sess'[g]] # 0
             /\ pc'[g] \in Granting => log'[sess'[g]] # "none"
             /\ pc'[g] \in {"stamp", "save", "auditGrant"} =>
                   Event("granted", sess'[g], None) \notin ledger'
      BY <2>1, <2>2
    <2>7. \A f, g \in Handlers :
             pc'[f] \in Granting /\ pc'[g] \in Granting /\ sess'[f] = sess'[g] => f = g
      BY <2>1, <2>2
    <2>8. \A s \in Sessions : log'[s] = "none" => Event("granted", s, None) \notin ledger'
      BY <2>1
    <2>9. QED
      BY <2>4, <2>5, <2>6, <2>7, <2>8
  <1>3. ASSUME NEW h \in Handlers, GrantSave(h)
        PROVE  RowInv'
    BY <1>3 DEF GrantSave
  <1>4. ASSUME NEW h \in Handlers, GrantAudit(h)
        PROVE  RowInv'
    BY <1>4 DEF GrantAudit
  <1>5. ASSUME NEW h \in Handlers, GrantEmit(h)
        PROVE  RowInv'
    BY <1>5 DEF GrantEmit
  <1>6. ASSUME NEW h \in Handlers, RevokeStart(h)
        PROVE  RowInv'
    BY <1>6 DEF RevokeStart
  <1>7. ASSUME NEW h \in Handlers, ScanExpired(h)
        PROVE  RowInv'
    BY <1>7 DEF ScanExpired
  <1>8. ASSUME NEW h \in Handlers, RevokeFind(h)
        PROVE  RowInv'
    BY <1>8 DEF RevokeFind
  <1>9. ASSUME NEW h \in Handlers, RevokeDisable(h)
        PROVE  RowInv'
    BY <1>9 DEF RevokeDisable
  <1>10. ASSUME NEW h \in Handlers, RevokeClose(h)
        PROVE  RowInv'
    BY <1>10 DEF RevokeClose
  <1>11. ASSUME NEW h \in Handlers, RevokeAudit(h)
        PROVE  RowInv'
    BY <1>11 DEF RevokeAudit, Revoking
  <1>12. ASSUME NEW h \in Handlers, RevokeEmit(h)
        PROVE  RowInv'
    BY <1>12 DEF RevokeEmit
  <1>13. ASSUME NEW h \in Handlers, NEW u \in Staff, NEW s \in Sessions, ConnectFind(h, u, s)
        PROVE  RowInv'
    BY <1>13 DEF ConnectFind, IsNewest, Open
  <1>14. ASSUME NEW h \in Handlers, ConnectClaim(h)
        PROVE  RowInv'
    BY <1>14 DEF ConnectClaim
  <1>15. ASSUME NEW h \in Handlers, ConnectAudit(h)
        PROVE  RowInv'
    BY <1>15 DEF ConnectAudit
  <1>16. ASSUME NEW h \in Handlers, ConnectAnswer(h)
        PROVE  RowInv'
    BY <1>16 DEF ConnectAnswer
  <1>17. ASSUME NEW h \in Handlers, Register(h)
        PROVE  RowInv'
    BY <1>17 DEF Register, AgentEvent
  <1>18. ASSUME NEW h \in Handlers, NEW label \in {"toggleOn", "toggleOff"}, Toggle(h, label)
        PROVE  RowInv'
    BY <1>18 DEF Toggle, AgentEvent
  <1>19. ASSUME NEW h \in Handlers, ToggleRead(h)
        PROVE  RowInv'
    BY <1>19 DEF ToggleRead
  <1>20. ASSUME NEW h \in Handlers, ToggleRefuse(h)
        PROVE  RowInv'
    BY <1>20 DEF ToggleRefuse
  <1>21. ASSUME NEW h \in Handlers, ResyncServer(h)
        PROVE  RowInv'
    BY <1>21 DEF ResyncServer, FinishSync
  <1>22. ASSUME NEW h \in Handlers, ResyncLog(h)
        PROVE  RowInv'
    BY <1>22 DEF ResyncLog, FinishSync, IsNewest, Open
  <1>23. ASSUME NEW h \in Handlers, ResyncEmit(h)
        PROVE  RowInv'
    BY <1>23 DEF ResyncEmit, FinishSync
  <1>24. CASE LinkDown
    BY <1>24 DEF LinkDown
  <1>25. ASSUME NEW old \in SUBSET Sessions, Purge(old)
        PROVE  RowInv'
    BY <1>25 DEF Purge
  <1>26. ASSUME NEW s \in Sessions, Expire(s)
        PROVE  RowInv'
    BY <1>26 DEF Expire
  <1>27. ASSUME NEW h \in Handlers, Fail(h)
        PROVE  RowInv'
    BY <1>27 DEF Fail
  <1>28. CASE Crash
    BY <1>28 DEF Crash
  <1>29. CASE UNCHANGED vars
    BY <1>29 DEF vars, serverVars, logVars, agentVars, localVars
  <1>30. QED
    BY <1>1, <1>2, <1>3, <1>4, <1>5, <1>6, <1>7, <1>8, <1>9, <1>10, <1>11,
       <1>12, <1>13, <1>14, <1>15, <1>16, <1>17, <1>18, <1>19, <1>20, <1>21,
       <1>22, <1>23, <1>24, <1>25, <1>26, <1>27, <1>28, <1>29 DEF Next,
       Grant, Revoke, Connect, Resync

(***************************************************************************)
(* An employee who comes too late.  While a connect request is in          *)
(* progress, a session that was another employee's when it began is open   *)
(* only with the newer session it found still open as well: revokeAccess   *)
(* closes them together, so the re-read never falls back on the older one. *)
(***************************************************************************)

LateInv ==
    \A h \in Handlers : pc[h] \in Connecting =>
        \A s \in late[h] :
            /\ s \in Saved
            /\ log[s] = "open" =>
                  log[sess[h]] = "open" /\ grantedAt[s] < grantedAt[sess[h]]

LEMMA InitLateInv == Init => LateInv
  BY DEF Init, LateInv, Connecting

LEMMA NextLateInv == TypeInv /\ RowInv /\ LateInv /\ [Next]_vars => LateInv'
  <1> SUFFICES ASSUME TypeInv, RowInv, LateInv, [Next]_vars
               PROVE  LateInv'
    OBVIOUS
  <1> USE AccessAssumption
      DEF TypeInv, TypeOK, RowInv, LateInv, Saved, Granting, Connecting, InHand
  <1>1. ASSUME NEW h \in Handlers, NEW s \in Sessions, GrantEnable(h, s)
        PROVE  LateInv'
    BY <1>1 DEF GrantEnable
  <1>2. ASSUME NEW h \in Handlers, GrantStamp(h)
        PROVE  LateInv'
    BY <1>2 DEF GrantStamp
  <1>3. ASSUME NEW h \in Handlers, GrantSave(h)
        PROVE  LateInv'
    BY <1>3 DEF GrantSave
  <1>4. ASSUME NEW h \in Handlers, GrantAudit(h)
        PROVE  LateInv'
    BY <1>4 DEF GrantAudit
  <1>5. ASSUME NEW h \in Handlers, GrantEmit(h)
        PROVE  LateInv'
    BY <1>5 DEF GrantEmit
  <1>6. ASSUME NEW h \in Handlers, RevokeStart(h)
        PROVE  LateInv'
    BY <1>6 DEF RevokeStart
  <1>7. ASSUME NEW h \in Handlers, ScanExpired(h)
        PROVE  LateInv'
    BY <1>7 DEF ScanExpired
  <1>8. ASSUME NEW h \in Handlers, RevokeFind(h)
        PROVE  LateInv'
    BY <1>8 DEF RevokeFind
  <1>9. ASSUME NEW h \in Handlers, RevokeDisable(h)
        PROVE  LateInv'
    BY <1>9 DEF RevokeDisable
  <1>10. ASSUME NEW h \in Handlers, RevokeClose(h)
        PROVE  LateInv'
    BY <1>10 DEF RevokeClose
  <1>11. ASSUME NEW h \in Handlers, RevokeAudit(h)
        PROVE  LateInv'
    BY <1>11 DEF RevokeAudit
  <1>12. ASSUME NEW h \in Handlers, RevokeEmit(h)
        PROVE  LateInv'
    BY <1>12 DEF RevokeEmit
  <1>13. ASSUME NEW h \in Handlers, NEW u \in Staff, NEW s \in Sessions, ConnectFind(h, u, s)
        PROVE  LateInv'
    <2>1. /\ pc' = [pc EXCEPT ![h] = pc'[h]]
          /\ sess' = [sess EXCEPT ![h] = s]
          /\ late' = [late EXCEPT ![h] = {r \in Open : accessedBy[r] \notin {None, u}}]
          /\ accessedBy[s] \in {None, u}
          /\ log[s] = "open"
          /\ \A r \in Open : grantedAt[r] <= grantedAt[s]
          /\ UNCHANGED <<log, grantedAt>>
      BY <1>13 DEF ConnectFind, ClaimedByOther, IsNewest, Open
    <2>2. ASSUME NEW r \in late'[h]
          PROVE  /\ r \in Saved'
                 /\ log'[r] = "open" => log'[sess'[h]] = "open" /\ grantedAt'[r] < grantedAt'[sess'[h]]
      <3>1. /\ r \in Sessions
            /\ log[r] = "open"
            /\ r # s
        BY <2>1 DEF Open
      <3>2. grantedAt[r] <= grantedAt[s]
        <4>1. r \in Open
          BY <3>1 DEF Open
        <4>2. QED
          BY <2>1, <4>1
      <3>3. grantedAt[r] # grantedAt[s]
        <4>1. grantedAt[r] # 0
          BY <3>1
        <4>2. \A p, q \in Sessions : grantedAt[p] = grantedAt[q] /\ grantedAt[p] # 0 => p = q
          OBVIOUS
        <4> HIDE DEF TypeInv, RowInv, LateInv
        <4>3. QED
          BY <3>1, <4>1, <4>2
      <3>4. grantedAt[r] \in Nat /\ grantedAt[s] \in Nat
        BY <3>1
      <3>5. grantedAt[r] < grantedAt[s]
        BY <3>2, <3>3, <3>4
      <3>6. r \in Saved' /\ log'[s] = "open" /\ UNCHANGED grantedAt /\ sess'[h] = s
        BY <2>1, <3>1
      <3>7. QED
        BY <3>5, <3>6
    <2>3. \A g \in Handlers : g # h => pc'[g] = pc[g] /\ sess'[g] = sess[g] /\ late'[g] = late[g]
      BY <2>1
    <2>4. QED
      BY <2>1, <2>2, <2>3
  <1>14. ASSUME NEW h \in Handlers, ConnectClaim(h)
        PROVE  LateInv'
    BY <1>14 DEF ConnectClaim
  <1>15. ASSUME NEW h \in Handlers, ConnectAudit(h)
        PROVE  LateInv'
    BY <1>15 DEF ConnectAudit
  <1>16. ASSUME NEW h \in Handlers, ConnectAnswer(h)
        PROVE  LateInv'
    BY <1>16 DEF ConnectAnswer
  <1>17. ASSUME NEW h \in Handlers, Register(h)
        PROVE  LateInv'
    BY <1>17 DEF Register, AgentEvent
  <1>18. ASSUME NEW h \in Handlers, NEW label \in {"toggleOn", "toggleOff"}, Toggle(h, label)
        PROVE  LateInv'
    BY <1>18 DEF Toggle, AgentEvent
  <1>19. ASSUME NEW h \in Handlers, ToggleRead(h)
        PROVE  LateInv'
    BY <1>19 DEF ToggleRead
  <1>20. ASSUME NEW h \in Handlers, ToggleRefuse(h)
        PROVE  LateInv'
    BY <1>20 DEF ToggleRefuse
  <1>21. ASSUME NEW h \in Handlers, ResyncServer(h)
        PROVE  LateInv'
    BY <1>21 DEF ResyncServer, FinishSync
  <1>22. ASSUME NEW h \in Handlers, ResyncLog(h)
        PROVE  LateInv'
    BY <1>22 DEF ResyncLog, FinishSync, IsNewest, Open
  <1>23. ASSUME NEW h \in Handlers, ResyncEmit(h)
        PROVE  LateInv'
    BY <1>23 DEF ResyncEmit, FinishSync
  <1>24. CASE LinkDown
    BY <1>24 DEF LinkDown
  <1>25. ASSUME NEW old \in SUBSET Sessions, Purge(old)
        PROVE  LateInv'
    BY <1>25 DEF Purge
  <1>26. ASSUME NEW s \in Sessions, Expire(s)
        PROVE  LateInv'
    BY <1>26 DEF Expire
  <1>27. ASSUME NEW h \in Handlers, Fail(h)
        PROVE  LateInv'
    BY <1>27 DEF Fail
  <1>28. CASE Crash
    BY <1>28 DEF Crash
  <1>29. CASE UNCHANGED vars
    BY <1>29 DEF vars, serverVars, logVars, agentVars, localVars
  <1>30. QED
    BY <1>1, <1>2, <1>3, <1>4, <1>5, <1>6, <1>7, <1>8, <1>9, <1>10, <1>11,
       <1>12, <1>13, <1>14, <1>15, <1>16, <1>17, <1>18, <1>19, <1>20, <1>21,
       <1>22, <1>23, <1>24, <1>25, <1>26, <1>27, <1>28, <1>29 DEF Next,
       Grant, Revoke, Connect, Resync

\* An employee who asks for a session that is another one's is not about to
\* get its password, whatever is granted, claimed and revoked in the meantime.
THEOREM LatecomersAreRejected == Spec => []LatecomerRejected
  <1>1. TypeInv /\ LateInv => LatecomerRejected
    BY DEF TypeInv, TypeOK, LateInv, LatecomerRejected, IsNewest, Open, InHand
  <1>2. QED
    BY <1>1, InitTypeInv, NextTypeInv, InitRowInv, NextRowInv, InitLateInv, NextLateInv, PTL
    DEF Spec


(***************************************************************************)
(* What the agent knows.  Let s be due: the server's present grant, saved, *)
(* recorded and emitted.  Either s was told on this socket, or no handler  *)
(* of the socket has gone through the server yet, and each that goes on    *)
(* will find s: it cannot have read the access as closed, or another row,  *)
(* for s became due by being emitted, and would be told.                   *)
(***************************************************************************)

Due(s) ==
    /\ accessEnabled
    /\ accessExpiresAt = s
    /\ IsNewest(s)
    /\ Event("granted", s, None) \in ledger
    /\ \A h \in Handlers : pc[h] = "emitGrant" => sess[h] # s

AgentInv ==
    /\ link = "down" => attached = {}
    /\ \A s \in Sessions : Due(s) /\ link # "down" =>
          \/ s \in told
          \/ /\ link = "mapped"
             /\ \A h \in attached : pc[h] = "emitLog" => sess[h] = s

LEMMA InitAgentInv == Init => AgentInv
  BY DEF Init, AgentInv

LEMMA NextAgentInv == TypeInv /\ RowInv /\ AgentInv /\ [Next]_vars => AgentInv'
  <1> SUFFICES ASSUME TypeInv, RowInv, AgentInv, [Next]_vars
               PROVE  AgentInv'
    OBVIOUS
  <1> USE AccessAssumption
      DEF TypeInv, TypeOK, RowInv, AgentInv, Due, IsNewest, Open, Saved, Granting, InHand,
          LinkStates, Rows
  <1>1. ASSUME NEW h \in Handlers, NEW s \in Sessions, GrantEnable(h, s)
        PROVE  AgentInv'
    BY <1>1 DEF GrantEnable
  <1>2. ASSUME NEW h \in Handlers, GrantStamp(h)
        PROVE  AgentInv'
    BY <1>2 DEF GrantStamp
  <1>3. ASSUME NEW h \in Handlers, GrantSave(h)
        PROVE  AgentInv'
    BY <1>3 DEF GrantSave
  <1>4. ASSUME NEW h \in Handlers, GrantAudit(h)
        PROVE  AgentInv'
    BY <1>4 DEF GrantAudit
  <1>5. ASSUME NEW h \in Handlers, GrantEmit(h)
        PROVE  AgentInv'
    <2>1. /\ pc[h] = "emitGrant" /\ pc' = [pc EXCEPT ![h] = "idle"] /\ sess[h] \in Sessions
          /\ UNCHANGED <<serverVars, logVars, ledger, link>>
          /\ attached' = attached \ {h} /\ sess' = [sess EXCEPT ![h] = None]
      BY <1>5 DEF GrantEmit, SetSupportAccess
    <2>2. \A s \in Sessions : Due(s)' /\ s # sess[h] => Due(s)
      BY <2>1
    <2>3. told' = IF link # "down" THEN told \cup {sess[h]} ELSE told
      BY <1>5, <2>1 DEF GrantEmit, SetSupportAccess, Tell
    <2>4. QED
      BY <2>1, <2>2, <2>3
  <1>6. ASSUME NEW h \in Handlers, RevokeStart(h)
        PROVE  AgentInv'
    BY <1>6 DEF RevokeStart
  <1>7. ASSUME NEW h \in Handlers, ScanExpired(h)
        PROVE  AgentInv'
    BY <1>7 DEF ScanExpired
  <1>8. ASSUME NEW h \in Handlers, RevokeFind(h)
        PROVE  AgentInv'
    BY <1>8 DEF RevokeFind
  <1>9. ASSUME NEW h \in Handlers, RevokeDisable(h)
        PROVE  AgentInv'
    BY <1>9 DEF RevokeDisable
  <1>10. ASSUME NEW h \in Handlers, RevokeClose(h)
        PROVE  AgentInv'
    BY <1>10 DEF RevokeClose
  <1>11. ASSUME NEW h \in Handlers, RevokeAudit(h)
        PROVE  AgentInv'
    BY <1>11 DEF RevokeAudit, Revoking
  <1>12. ASSUME NEW h \in Handlers, RevokeEmit(h)
        PROVE  AgentInv'
    BY <1>12 DEF RevokeEmit, SetSupportAccess, Tell
  <1>13. ASSUME NEW h \in Handlers, NEW u \in Staff, NEW s \in Sessions, ConnectFind(h, u, s)
        PROVE  AgentInv'
    <2>1. /\ UNCHANGED <<serverVars, logVars, ledger, link, told>>
          /\ attached' = attached
          /\ pc[h] = "idle"
          /\ pc'[h] \in {"claim", "reread"}
          /\ \A g \in Handlers : g # h => pc'[g] = pc[g] /\ sess'[g] = sess[g]
      BY <1>13 DEF ConnectFind
    <2>2. ASSUME NEW r \in Sessions, Due(r)'
          PROVE  Due(r)
      BY <2>1, <2>2
    <2>3. QED
      BY <2>1, <2>2
  <1>14. ASSUME NEW h \in Handlers, ConnectClaim(h)
        PROVE  AgentInv'
    BY <1>14 DEF ConnectClaim
  <1>15. ASSUME NEW h \in Handlers, ConnectAudit(h)
        PROVE  AgentInv'
    BY <1>15 DEF ConnectAudit
  <1>16. ASSUME NEW h \in Handlers, ConnectAnswer(h)
        PROVE  AgentInv'
    <2>1. /\ UNCHANGED <<serverVars, logVars, ledger, link, told>>
          /\ attached' = attached \ {h}
          /\ pc[h] = "reread"
          /\ pc'[h] \in {"idle"}
          /\ \A g \in Handlers : g # h => pc'[g] = pc[g] /\ sess'[g] = sess[g]
      BY <1>16 DEF ConnectAnswer
    <2>2. ASSUME NEW s \in Sessions, Due(s)'
          PROVE  Due(s)
      BY <2>1, <2>2
    <2>3. QED
      BY <2>1, <2>2
  <1>17. ASSUME NEW h \in Handlers, Register(h)
        PROVE  AgentInv'
    BY <1>17 DEF Register, AgentEvent
  <1>18. ASSUME NEW h \in Handlers, NEW label \in {"toggleOn", "toggleOff"}, Toggle(h, label)
        PROVE  AgentInv'
    BY <1>18 DEF Toggle, AgentEvent
  <1>19. ASSUME NEW h \in Handlers, ToggleRead(h)
        PROVE  AgentInv'
    BY <1>19 DEF ToggleRead
  <1>20. ASSUME NEW h \in Handlers, ToggleRefuse(h)
        PROVE  AgentInv'
    BY <1>20 DEF ToggleRefuse
  <1>21. ASSUME NEW h \in Handlers, ResyncServer(h)
        PROVE  AgentInv'
    BY <1>21 DEF ResyncServer, FinishSync
  <1>22. ASSUME NEW h \in Handlers, ResyncLog(h)
        PROVE  AgentInv'
    <2>1. /\ UNCHANGED <<serverVars, logVars, ledger, told>>
          /\ pc[h] = "readLog"
          /\ pc'[h] \in {"idle", "emitLog"}
          /\ \A g \in Handlers : g # h => pc'[g] = pc[g] /\ sess'[g] = sess[g]
      BY <1>22 DEF ResyncLog, FinishSync
    <2>2. ASSUME NEW s \in Sessions, Due(s)'
          PROVE  Due(s)
      BY <2>1, <2>2
    <2>3. CASE Open = {} /\ FinishSync(h)
      <3>1. \A s \in Sessions : ~Due(s)
        BY <2>3
      <3>2. (link = "down" => attached = {}) /\ link' = (IF h \in attached THEN "synced" ELSE link)
        BY <2>3 DEF FinishSync
      <3>3. attached' = attached \ {h}
        BY <2>3 DEF FinishSync
      <3>4. QED
        BY <2>2, <3>1, <3>2, <3>3
    <2>4. ASSUME NEW x \in Open, IsNewest(x), sess' = [sess EXCEPT ![h] = x],
                 UNCHANGED <<link, attached>>
          PROVE  AgentInv'
      <3>1. \A s \in Sessions : Due(s) => s = x
        BY <2>4
      <3>2. sess'[h] = x
        BY <2>4
      <3>3. QED
        BY <2>1, <2>2, <2>4, <3>1, <3>2
    <2>5. QED
      BY <1>22, <2>3, <2>4 DEF ResyncLog
  <1>23. ASSUME NEW h \in Handlers, ResyncEmit(h)
        PROVE  AgentInv'
    <2>1. /\ UNCHANGED <<serverVars, logVars, ledger>>
          /\ pc[h] = "emitLog"
          /\ pc'[h] = "idle"
          /\ attached' = attached \ {h}
          /\ \A g \in Handlers : g # h => pc'[g] = pc[g] /\ sess'[g] = sess[g]
      BY <1>23 DEF ResyncEmit, FinishSync
    <2>2. ASSUME NEW s \in Sessions, Due(s)'
          PROVE  Due(s)
      BY <2>1, <2>2
    <2>3. CASE h \in attached
      <3>1. sess[h] \in Sessions
        BY <2>1
      <3>2. told' = told \cup {sess[h]} /\ link' = "synced"
        BY <1>23, <2>3, <3>1 DEF ResyncEmit, FinishSync, Tell
      <3>3. link # "down"
        BY <2>3
      <3>4. QED
        BY <2>1, <2>2, <2>3, <3>2, <3>3
    <2>4. CASE h \notin attached
      <3>1. UNCHANGED <<told, link, attached>>
        BY <1>23, <2>4 DEF ResyncEmit, FinishSync
      <3>2. QED
        BY <2>1, <2>2, <2>4, <3>1
    <2>5. QED
      BY <2>3, <2>4
  <1>24. CASE LinkDown
    BY <1>24 DEF LinkDown
  <1>25. ASSUME NEW old \in SUBSET Sessions, Purge(old)
        PROVE  AgentInv'
    BY <1>25 DEF Purge
  <1>26. ASSUME NEW s \in Sessions, Expire(s)
        PROVE  AgentInv'
    BY <1>26 DEF Expire
  <1>27. ASSUME NEW h \in Handlers, Fail(h)
        PROVE  AgentInv'
    BY <1>27 DEF Fail
  <1>28. CASE Crash
    BY <1>28 DEF Crash
  <1>29. CASE UNCHANGED vars
    BY <1>29 DEF vars, serverVars, logVars, agentVars, localVars
  <1>30. QED
    BY <1>1, <1>2, <1>3, <1>4, <1>5, <1>6, <1>7, <1>8, <1>9, <1>10, <1>11,
       <1>12, <1>13, <1>14, <1>15, <1>16, <1>17, <1>18, <1>19, <1>20, <1>21,
       <1>22, <1>23, <1>24, <1>25, <1>26, <1>27, <1>28, <1>29 DEF Next,
       Grant, Revoke, Connect, Resync

\* An agent that has been through register knows the password of the session
\* that is open, in whatever order grant, register and revoke took their steps.
THEOREM AgentsKnowSession == Spec => []AgentKnowsSession
  <1>1. AgentInv => AgentKnowsSession
    BY DEF AgentInv, Due, AgentKnowsSession
  <1>2. QED
    BY <1>1, InitTypeInv, NextTypeInv, InitRowInv, NextRowInv, InitAgentInv, NextAgentInv, PTL
    DEF Spec


(***************************************************************************)
(* The claim.  While nobody contests a session, the only one who got its   *)
(* password is the one its row names: a claim finds the row free or its    *)
(* own, and a re-read answers the claim it follows.                        *)
(***************************************************************************)

BindingInv ==
    /\ \A s \in Sessions \ contested : \A u \in given[s] : accessedBy[s] = u
    /\ \A h \in Handlers : sess[h] \notin contested =>
          /\ pc[h] = "claim" => accessedBy[sess[h]] \in {None, user[h]}
          /\ pc[h] \in {"auditConnect", "reread"} =>
                log[sess[h]] = "purged" \/ accessedBy[sess[h]] = user[h]

LEMMA InitBindingInv == Init => BindingInv
  BY DEF Init, BindingInv

LEMMA NextBindingInv == TypeInv /\ RowInv /\ BindingInv /\ [Next]_vars => BindingInv'
  <1> SUFFICES ASSUME TypeInv, RowInv, BindingInv, [Next]_vars
               PROVE  BindingInv'
    OBVIOUS
  <1> USE AccessAssumption
      DEF TypeInv, TypeOK, RowInv, BindingInv, IsNewest, Open, Saved, Rows,
          Granting, Connecting, InHand
  <1>1. ASSUME NEW h \in Handlers, NEW s \in Sessions, GrantEnable(h, s)
        PROVE  BindingInv'
    BY <1>1 DEF GrantEnable
  <1>2. ASSUME NEW h \in Handlers, GrantStamp(h)
        PROVE  BindingInv'
    BY <1>2 DEF GrantStamp
  <1>3. ASSUME NEW h \in Handlers, GrantSave(h)
        PROVE  BindingInv'
    BY <1>3 DEF GrantSave
  <1>4. ASSUME NEW h \in Handlers, GrantAudit(h)
        PROVE  BindingInv'
    BY <1>4 DEF GrantAudit
  <1>5. ASSUME NEW h \in Handlers, GrantEmit(h)
        PROVE  BindingInv'
    BY <1>5 DEF GrantEmit
  <1>6. ASSUME NEW h \in Handlers, RevokeStart(h)
        PROVE  BindingInv'
    BY <1>6 DEF RevokeStart
  <1>7. ASSUME NEW h \in Handlers, ScanExpired(h)
        PROVE  BindingInv'
    BY <1>7 DEF ScanExpired
  <1>8. ASSUME NEW h \in Handlers, RevokeFind(h)
        PROVE  BindingInv'
    BY <1>8 DEF RevokeFind
  <1>9. ASSUME NEW h \in Handlers, RevokeDisable(h)
        PROVE  BindingInv'
    BY <1>9 DEF RevokeDisable
  <1>10. ASSUME NEW h \in Handlers, RevokeClose(h)
        PROVE  BindingInv'
    BY <1>10 DEF RevokeClose
  <1>11. ASSUME NEW h \in Handlers, RevokeAudit(h)
        PROVE  BindingInv'
    BY <1>11 DEF RevokeAudit
  <1>12. ASSUME NEW h \in Handlers, RevokeEmit(h)
        PROVE  BindingInv'
    BY <1>12 DEF RevokeEmit
  <1>13. ASSUME NEW h \in Handlers, NEW u \in Staff, NEW s \in Sessions, ConnectFind(h, u, s)
        PROVE  BindingInv'
    BY <1>13 DEF ConnectFind, ClaimedByOther
  <1>14. ASSUME NEW h \in Handlers, ConnectClaim(h)
        PROVE  BindingInv'
    <2>1. /\ pc[h] = "claim" /\ sess[h] \in Sessions /\ user[h] \in Staff
          /\ contested \subseteq contested'
          /\ UNCHANGED <<log, given, sess, user>>
      BY <1>14 DEF ConnectClaim
    <2>2. CASE sess[h] \in contested'
      BY <1>14, <2>1, <2>2 DEF ConnectClaim
    <2>3. CASE sess[h] \notin contested'
      <3>1. accessedBy[sess[h]] \in {None, user[h]}
        BY <2>1, <2>3
      <3>2. \A g \in Handlers : pc[g] = "claim" /\ sess[g] = sess[h] => user[g] = user[h]
        BY <1>14, <2>3 DEF ConnectClaim
      <3>3. \A g \in Handlers :
               pc[g] \in {"auditConnect", "reread"} /\ sess[g] = sess[h] /\ log[sess[h]] # "purged" =>
                   user[g] = user[h]
        BY <2>1, <2>3, <3>1
      <3>4. \A u \in given[sess[h]] : u = user[h]
        BY <2>1, <2>3, <3>1
      <3>5. QED
        BY <1>14, <2>1, <3>1, <3>2, <3>3, <3>4 DEF ConnectClaim
    <2>4. QED
      BY <2>2, <2>3
  <1>15. ASSUME NEW h \in Handlers, ConnectAudit(h)
        PROVE  BindingInv'
    BY <1>15 DEF ConnectAudit
  <1>16. ASSUME NEW h \in Handlers, ConnectAnswer(h)
        PROVE  BindingInv'
    <2>1. PICK x \in Rows :
             /\ Found(x)
             /\ given' = [s \in Sessions |-> IF s = x THEN given[s] \cup {user[h]} ELSE given[s]]
             /\ contested' = contested \cup ({x} \ {sess[h], None})
      BY <1>16 DEF ConnectAnswer
    <2>2. /\ pc[h] = "reread" /\ sess[h] \in Sessions
          /\ pc' = [pc EXCEPT ![h] = "idle"] /\ sess' = [sess EXCEPT ![h] = None]
          /\ user' = [user EXCEPT ![h] = None]
          /\ UNCHANGED <<log, accessedBy>>
      BY <1>16 DEF ConnectAnswer
    <2>3. x \in Sessions => log[x] = "open"
      BY <2>1 DEF Found
    <2>4. \A s \in Sessions \ contested' : \A u \in given'[s] : accessedBy'[s] = u
      BY <2>1, <2>2, <2>3
    <2>5. QED
      BY <2>1, <2>2, <2>4
  <1>17. ASSUME NEW h \in Handlers, Register(h)
        PROVE  BindingInv'
    BY <1>17 DEF Register, AgentEvent
  <1>18. ASSUME NEW h \in Handlers, NEW label \in {"toggleOn", "toggleOff"}, Toggle(h, label)
        PROVE  BindingInv'
    BY <1>18 DEF Toggle, AgentEvent
  <1>19. ASSUME NEW h \in Handlers, ToggleRead(h)
        PROVE  BindingInv'
    BY <1>19 DEF ToggleRead
  <1>20. ASSUME NEW h \in Handlers, ToggleRefuse(h)
        PROVE  BindingInv'
    BY <1>20 DEF ToggleRefuse
  <1>21. ASSUME NEW h \in Handlers, ResyncServer(h)
        PROVE  BindingInv'
    BY <1>21 DEF ResyncServer, FinishSync
  <1>22. ASSUME NEW h \in Handlers, ResyncLog(h)
        PROVE  BindingInv'
    BY <1>22 DEF ResyncLog, FinishSync
  <1>23. ASSUME NEW h \in Handlers, ResyncEmit(h)
        PROVE  BindingInv'
    BY <1>23 DEF ResyncEmit, FinishSync
  <1>24. CASE LinkDown
    BY <1>24 DEF LinkDown
  <1>25. ASSUME NEW old \in SUBSET Sessions, Purge(old)
        PROVE  BindingInv'
    BY <1>25 DEF Purge
  <1>26. ASSUME NEW s \in Sessions, Expire(s)
        PROVE  BindingInv'
    BY <1>26 DEF Expire
  <1>27. ASSUME NEW h \in Handlers, Fail(h)
        PROVE  BindingInv'
    BY <1>27 DEF Fail
  <1>28. CASE Crash
    BY <1>28 DEF Crash
  <1>29. CASE UNCHANGED vars
    BY <1>29 DEF vars, serverVars, logVars, agentVars, localVars
  <1>30. QED
    BY <1>1, <1>2, <1>3, <1>4, <1>5, <1>6, <1>7, <1>8, <1>9, <1>10, <1>11,
       <1>12, <1>13, <1>14, <1>15, <1>16, <1>17, <1>18, <1>19, <1>20, <1>21,
       <1>22, <1>23, <1>24, <1>25, <1>26, <1>27, <1>28, <1>29 DEF Next,
       Grant, Revoke, Connect, Resync

\* A session whose claim nobody contests has one employee, whatever is granted, claimed and
\* revoked beside it, and whatever fails: recordConnection's first query keeps the others
\* out, and its second one gives them nothing.
THEOREM UncontestedHasOneEmployee == Spec => []OneEmployee
  <1>1. BindingInv => OneEmployee
    BY DEF BindingInv, OneEmployee
  <1>2. QED
    BY <1>1, InitTypeInv, NextTypeInv, InitRowInv, NextRowInv, InitBindingInv, NextBindingInv, PTL
    DEF Spec

(***************************************************************************)
(* The server's flag and the rows.  Unless a grant and a revocation cross  *)
(* or stop half-way, those that are half done are of one kind, and the     *)
(* server's row is as that kind left it.                                   *)
(***************************************************************************)

FlagInv ==
    /\ accessEnabled <=> accessExpiresAt # None
    /\ ~crossed =>
          /\ HalfGranted # {} => accessEnabled
          /\ HalfRevoked # {} => ~accessEnabled
          /\ accessEnabled =>
                accessExpiresAt \in Open \/ \E h \in HalfGranted : sess[h] = accessExpiresAt
          /\ HalfDone = {} /\ ~accessEnabled => Open = {}

LEMMA InitFlagInv == Init => FlagInv
  BY DEF Init, FlagInv, HalfGranted, HalfRevoked, HalfDone, Open

LEMMA NextFlagInv == TypeInv /\ RowInv /\ FlagInv /\ [Next]_vars => FlagInv'
  <1> SUFFICES ASSUME TypeInv, RowInv, FlagInv, [Next]_vars
               PROVE  FlagInv'
    OBVIOUS
  <1> USE AccessAssumption
      DEF TypeInv, TypeOK, RowInv, FlagInv, HalfGranted, HalfRevoked, HalfDone, Open, Rows,
          Granting, InHand
  <1>1. ASSUME NEW h \in Handlers, NEW s \in Sessions, GrantEnable(h, s)
        PROVE  FlagInv'
    BY <1>1 DEF GrantEnable, Cross
  <1>2. ASSUME NEW h \in Handlers, GrantStamp(h)
        PROVE  FlagInv'
    BY <1>2 DEF GrantStamp
  <1>3. ASSUME NEW h \in Handlers, GrantSave(h)
        PROVE  FlagInv'
    BY <1>3 DEF GrantSave
  <1>4. ASSUME NEW h \in Handlers, GrantAudit(h)
        PROVE  FlagInv'
    BY <1>4 DEF GrantAudit
  <1>5. ASSUME NEW h \in Handlers, GrantEmit(h)
        PROVE  FlagInv'
    BY <1>5 DEF GrantEmit
  <1>6. ASSUME NEW h \in Handlers, RevokeStart(h)
        PROVE  FlagInv'
    BY <1>6 DEF RevokeStart
  <1>7. ASSUME NEW h \in Handlers, ScanExpired(h)
        PROVE  FlagInv'
    BY <1>7 DEF ScanExpired
  <1>8. ASSUME NEW h \in Handlers, RevokeFind(h)
        PROVE  FlagInv'
    BY <1>8 DEF RevokeFind
  <1>9. ASSUME NEW h \in Handlers, RevokeDisable(h)
        PROVE  FlagInv'
    BY <1>9 DEF RevokeDisable, Cross
  <1>10. ASSUME NEW h \in Handlers, RevokeClose(h)
        PROVE  FlagInv'
    BY <1>10 DEF RevokeClose
  <1>11. ASSUME NEW h \in Handlers, RevokeAudit(h)
        PROVE  FlagInv'
    BY <1>11 DEF RevokeAudit
  <1>12. ASSUME NEW h \in Handlers, RevokeEmit(h)
        PROVE  FlagInv'
    BY <1>12 DEF RevokeEmit
  <1>13. ASSUME NEW h \in Handlers, NEW u \in Staff, NEW s \in Sessions, ConnectFind(h, u, s)
        PROVE  FlagInv'
    BY <1>13 DEF ConnectFind
  <1>14. ASSUME NEW h \in Handlers, ConnectClaim(h)
        PROVE  FlagInv'
    BY <1>14 DEF ConnectClaim
  <1>15. ASSUME NEW h \in Handlers, ConnectAudit(h)
        PROVE  FlagInv'
    BY <1>15 DEF ConnectAudit
  <1>16. ASSUME NEW h \in Handlers, ConnectAnswer(h)
        PROVE  FlagInv'
    BY <1>16 DEF ConnectAnswer
  <1>17. ASSUME NEW h \in Handlers, Register(h)
        PROVE  FlagInv'
    BY <1>17 DEF Register, AgentEvent
  <1>18. ASSUME NEW h \in Handlers, NEW label \in {"toggleOn", "toggleOff"}, Toggle(h, label)
        PROVE  FlagInv'
    BY <1>18 DEF Toggle, AgentEvent
  <1>19. ASSUME NEW h \in Handlers, ToggleRead(h)
        PROVE  FlagInv'
    BY <1>19 DEF ToggleRead
  <1>20. ASSUME NEW h \in Handlers, ToggleRefuse(h)
        PROVE  FlagInv'
    BY <1>20 DEF ToggleRefuse
  <1>21. ASSUME NEW h \in Handlers, ResyncServer(h)
        PROVE  FlagInv'
    BY <1>21 DEF ResyncServer, FinishSync
  <1>22. ASSUME NEW h \in Handlers, ResyncLog(h)
        PROVE  FlagInv'
    BY <1>22 DEF ResyncLog, FinishSync
  <1>23. ASSUME NEW h \in Handlers, ResyncEmit(h)
        PROVE  FlagInv'
    BY <1>23 DEF ResyncEmit, FinishSync
  <1>24. CASE LinkDown
    BY <1>24 DEF LinkDown
  <1>25. ASSUME NEW old \in SUBSET Sessions, Purge(old)
        PROVE  FlagInv'
    BY <1>25 DEF Purge
  <1>26. ASSUME NEW s \in Sessions, Expire(s)
        PROVE  FlagInv'
    BY <1>26 DEF Expire
  <1>27. ASSUME NEW h \in Handlers, Fail(h)
        PROVE  FlagInv'
    <2>1. /\ pc' = [pc EXCEPT ![h] = "idle"] /\ sess' = [sess EXCEPT ![h] = None]
          /\ UNCHANGED <<serverVars, log>>
      BY <1>27 DEF Fail
    <2>2. CASE crossed'
      BY <2>1, <2>2
    <2>3. CASE ~crossed'
      <3>1. ~crossed /\ h \notin HalfDone
        BY <1>27, <2>3 DEF Fail
      <3>2. HalfGranted' = HalfGranted /\ HalfRevoked' = HalfRevoked
        BY <2>1, <3>1
      <3>3. \A g \in HalfGranted : sess'[g] = sess[g]
        BY <2>1, <3>1
      <3>4. QED
        BY <2>1, <3>1, <3>2, <3>3
    <2>4. QED
      BY <2>2, <2>3
  <1>28. CASE Crash
    BY <1>28 DEF Crash
  <1>29. CASE UNCHANGED vars
    BY <1>29 DEF vars, serverVars, logVars, agentVars, localVars
  <1>30. QED
    BY <1>1, <1>2, <1>3, <1>4, <1>5, <1>6, <1>7, <1>8, <1>9, <1>10, <1>11,
       <1>12, <1>13, <1>14, <1>15, <1>16, <1>17, <1>18, <1>19, <1>20, <1>21,
       <1>22, <1>23, <1>24, <1>25, <1>26, <1>27, <1>28, <1>29 DEF Next,
       Grant, Revoke, Connect, Resync

\* However grants, revocations, connects and the agent's events overlap and fail, the flag
\* and the rows agree from the first grant or revocation that goes through to the next
\* that crosses another or stops half-way.
THEOREM FlagsAgreeUnlessCrossed == Spec => []FlagsAgree
  <1>1. FlagInv => FlagsAgree
    BY DEF FlagInv, FlagsAgree, HalfDone
  <1>2. QED
    BY <1>1, InitTypeInv, NextTypeInv, InitRowInv, NextRowInv, InitFlagInv, NextFlagInv, PTL
    DEF Spec

(***************************************************************************)
(* What a scheduled revocation finds.  A session that was not granted over *)
(* has its time in the server's row, or nobody's is there; so a run of the *)
(* scheduler that read a time in the past has nothing else to find but     *)
(* what was granted since.                                                 *)
(***************************************************************************)

Pending(x) == x \notin unwatched /\ log[x] \in {"requested", "open"}

ExpiryInv ==
    /\ NoEarlyExpiry
    /\ \A x \in Sessions : Pending(x) => accessExpiresAt \in {x, None}
    /\ Scanned => \A x \in Sessions : Pending(x) => x \in past
    /\ \A h \in Handlers :
          pc[h] \in {"disable", "close", "auditRevoke"} /\ reason[h] = "expired" =>
              sess[h] \in past \cup unwatched \cup {None}

LEMMA InitExpiryInv == Init => ExpiryInv
  BY DEF Init, ExpiryInv, NoEarlyExpiry, Pending, Scanned

LEMMA NextExpiryInv == TypeInv /\ RowInv /\ ExpiryInv /\ [Next]_vars => ExpiryInv'
  <1> SUFFICES ASSUME TypeInv, RowInv, ExpiryInv, [Next]_vars
               PROVE  ExpiryInv'
    OBVIOUS
  <1> USE AccessAssumption
      DEF TypeInv, TypeOK, RowInv, ExpiryInv, NoEarlyExpiry, Pending, Scanned, Rows,
          Revoking, InHand, Granting
  <1>1. ASSUME NEW h \in Handlers, NEW s \in Sessions, GrantEnable(h, s)
        PROVE  ExpiryInv'
    BY <1>1 DEF GrantEnable
  <1>2. ASSUME NEW h \in Handlers, GrantStamp(h)
        PROVE  ExpiryInv'
    BY <1>2 DEF GrantStamp
  <1>3. ASSUME NEW h \in Handlers, GrantSave(h)
        PROVE  ExpiryInv'
    BY <1>3 DEF GrantSave
  <1>4. ASSUME NEW h \in Handlers, GrantAudit(h)
        PROVE  ExpiryInv'
    BY <1>4 DEF GrantAudit
  <1>5. ASSUME NEW h \in Handlers, GrantEmit(h)
        PROVE  ExpiryInv'
    BY <1>5 DEF GrantEmit
  <1>6. ASSUME NEW h \in Handlers, RevokeStart(h)
        PROVE  ExpiryInv'
    BY <1>6 DEF RevokeStart
  <1>7. ASSUME NEW h \in Handlers, ScanExpired(h)
        PROVE  ExpiryInv'
    BY <1>7 DEF ScanExpired, Overdue
  <1>8. ASSUME NEW h \in Handlers, RevokeFind(h)
        PROVE  ExpiryInv'
    BY <1>8 DEF RevokeFind, Found, IsNewest, Open
  <1>9. ASSUME NEW h \in Handlers, RevokeDisable(h)
        PROVE  ExpiryInv'
    BY <1>9 DEF RevokeDisable
  <1>10. ASSUME NEW h \in Handlers, RevokeClose(h)
        PROVE  ExpiryInv'
    BY <1>10 DEF RevokeClose
  <1>11. ASSUME NEW h \in Handlers, RevokeAudit(h)
        PROVE  ExpiryInv'
    BY <1>11 DEF RevokeAudit
  <1>12. ASSUME NEW h \in Handlers, RevokeEmit(h)
        PROVE  ExpiryInv'
    BY <1>12 DEF RevokeEmit
  <1>13. ASSUME NEW h \in Handlers, NEW u \in Staff, NEW s \in Sessions, ConnectFind(h, u, s)
        PROVE  ExpiryInv'
    BY <1>13 DEF ConnectFind
  <1>14. ASSUME NEW h \in Handlers, ConnectClaim(h)
        PROVE  ExpiryInv'
    BY <1>14 DEF ConnectClaim
  <1>15. ASSUME NEW h \in Handlers, ConnectAudit(h)
        PROVE  ExpiryInv'
    BY <1>15 DEF ConnectAudit
  <1>16. ASSUME NEW h \in Handlers, ConnectAnswer(h)
        PROVE  ExpiryInv'
    BY <1>16 DEF ConnectAnswer
  <1>17. ASSUME NEW h \in Handlers, Register(h)
        PROVE  ExpiryInv'
    BY <1>17 DEF Register, AgentEvent
  <1>18. ASSUME NEW h \in Handlers, NEW label \in {"toggleOn", "toggleOff"}, Toggle(h, label)
        PROVE  ExpiryInv'
    BY <1>18 DEF Toggle, AgentEvent
  <1>19. ASSUME NEW h \in Handlers, ToggleRead(h)
        PROVE  ExpiryInv'
    BY <1>19 DEF ToggleRead
  <1>20. ASSUME NEW h \in Handlers, ToggleRefuse(h)
        PROVE  ExpiryInv'
    BY <1>20 DEF ToggleRefuse
  <1>21. ASSUME NEW h \in Handlers, ResyncServer(h)
        PROVE  ExpiryInv'
    BY <1>21 DEF ResyncServer, FinishSync
  <1>22. ASSUME NEW h \in Handlers, ResyncLog(h)
        PROVE  ExpiryInv'
    BY <1>22 DEF ResyncLog, FinishSync
  <1>23. ASSUME NEW h \in Handlers, ResyncEmit(h)
        PROVE  ExpiryInv'
    BY <1>23 DEF ResyncEmit, FinishSync
  <1>24. CASE LinkDown
    BY <1>24 DEF LinkDown
  <1>25. ASSUME NEW old \in SUBSET Sessions, Purge(old)
        PROVE  ExpiryInv'
    BY <1>25 DEF Purge
  <1>26. ASSUME NEW s \in Sessions, Expire(s)
        PROVE  ExpiryInv'
    BY <1>26 DEF Expire
  <1>27. ASSUME NEW h \in Handlers, Fail(h)
        PROVE  ExpiryInv'
    BY <1>27 DEF Fail
  <1>28. CASE Crash
    BY <1>28 DEF Crash
  <1>29. CASE UNCHANGED vars
    BY <1>29 DEF vars, serverVars, logVars, agentVars, localVars
  <1>30. QED
    BY <1>1, <1>2, <1>3, <1>4, <1>5, <1>6, <1>7, <1>8, <1>9, <1>10, <1>11,
       <1>12, <1>13, <1>14, <1>15, <1>16, <1>17, <1>18, <1>19, <1>20, <1>21,
       <1>22, <1>23, <1>24, <1>25, <1>26, <1>27, <1>28, <1>29 DEF Next,
       Grant, Revoke, Connect, Resync

\* Whatever overlaps and fails, a session that the ledger calls expired is past its time,
\* or was granted behind the back of a run of the scheduler, or another was granted over it.
THEOREM ExpiredIsPast == Spec => []NoEarlyExpiry
  <1>1. ExpiryInv => NoEarlyExpiry
    BY DEF ExpiryInv
  <1>2. QED
    BY <1>1, InitTypeInv, NextTypeInv, InitRowInv, NextRowInv, InitExpiryInv, NextExpiryInv, PTL
    DEF Spec

(***************************************************************************)
(* What is over.                                                           *)
(***************************************************************************)

\* However handlers overlap and fail, a session that was ended stays ended: no grant that
\* is saved late opens it again, and nobody is given its password any more.
EndedForGood ==
    [][\A s \in Sessions : log[s] \in {"revoked", "purged"} =>
          /\ log'[s] \in {"revoked", "purged"}
          /\ given'[s] = given[s]]_vars

\* A revocation is final: RevokeClose and purgeExpiredLogs leave rows that nothing writes
\* back, and an answer is read from rows that are open.
THEOREM EndedSessionsStayEnded == Spec => EndedForGood
  <1>1. ASSUME TypeInv, RowInv, Next, NEW s \in Sessions, log[s] \in {"revoked", "purged"}
        PROVE  log'[s] \in {"revoked", "purged"} /\ given'[s] = given[s]
    <2> USE DEF TypeInv, TypeOK
    <2>1. ASSUME NEW h \in Handlers, GrantSave(h)
          PROVE  log'[s] \in {"revoked", "purged"} /\ given'[s] = given[s]
      <3>1. log[sess[h]] = "requested"
        BY <1>1, <2>1 DEF GrantSave, RowInv
      <3>2. QED
        BY <1>1, <2>1, <3>1 DEF GrantSave
    <2>2. ASSUME NEW h \in Handlers, ConnectAnswer(h)
          PROVE  log'[s] \in {"revoked", "purged"} /\ given'[s] = given[s]
      <3>1. \A x \in Rows : Found(x) => x # s
        BY <1>1, AccessAssumption DEF Found, IsNewest, Open
      <3>2. QED
        BY <1>1, <2>2, <3>1 DEF ConnectAnswer
    <2>3. ASSUME NEW h \in Handlers, NEW r \in Sessions, GrantEnable(h, r)
          PROVE  log'[s] \in {"revoked", "purged"} /\ given'[s] = given[s]
      BY <1>1, <2>3 DEF GrantEnable
    <2>4. ASSUME NEW h \in Handlers, RevokeClose(h)
          PROVE  log'[s] \in {"revoked", "purged"} /\ given'[s] = given[s]
      BY <1>1, <2>4 DEF RevokeClose
    <2>5. ASSUME NEW old \in SUBSET Sessions, Purge(old)
          PROVE  log'[s] \in {"revoked", "purged"} /\ given'[s] = given[s]
      BY <1>1, <2>5 DEF Purge
    <2>6. CASE UNCHANGED <<log, given>>
      BY <1>1, <2>6
    <2>7. QED
      BY <1>1, <2>1, <2>2, <2>3, <2>4, <2>5, <2>6
         DEF Next, Grant, Revoke, Connect, Resync, GrantStamp, GrantAudit, GrantEmit, RevokeStart,
             ScanExpired, RevokeFind, RevokeDisable, RevokeAudit, RevokeEmit, ConnectFind,
             ConnectClaim, ConnectAudit, Register, Toggle, AgentEvent, ToggleRead, ToggleRefuse,
             ResyncServer, ResyncLog, ResyncEmit, Fail, LinkDown, Expire, Crash
  <1>2. TypeInv /\ RowInv /\ [Next]_vars =>
           [\A s \in Sessions : log[s] \in {"revoked", "purged"} =>
               /\ log'[s] \in {"revoked", "purged"}
               /\ given'[s] = given[s]]_vars
    BY <1>1
  <1>3. QED
    BY <1>2, InitTypeInv, NextTypeInv, InitRowInv, NextRowInv, PTL DEF Spec, EndedForGood
=============================================================================
