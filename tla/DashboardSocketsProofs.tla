------------------------ MODULE DashboardSocketsProofs ------------------------
(***************************************************************************)
(* Theorems about DashboardSockets, for any number of users, sessions,     *)
(* sockets and logouts.                                                    *)
(***************************************************************************)
EXTENDS DashboardSockets, FiniteSetTheorems, TLAPS

USE DEF sessionVars, socketVars, historyVars

Live(u) == {k \in Sockets : stage[k] = "live" /\ UserOf[sid[k]] = u}

(***************************************************************************)
(* Type correctness.                                                       *)
(***************************************************************************)

\* What a set of sockets takes off the count is a number.
LEMMA MarkOfflineType ==
    ASSUME TypeOK, NEW K \in SUBSET Sockets, MarkOffline(K)
    PROVE  online' \in [Users -> Nat]
  <1> DEFINE n(u) == Cardinality({k \in K : UserOf[sid[k]] = u})
  <1>1. \A u \in Users : n(u) \in Nat
    BY SocketsAssumption, FS_Subset, FS_CardinalityType
  <1>2. online' = [u \in Users |-> IF online[u] > n(u) THEN online[u] - n(u) ELSE 0]
    BY DEF MarkOffline
  <1> HIDE DEF n
  <1>3. \A u \in Users : (IF online[u] > n(u) THEN online[u] - n(u) ELSE 0) \in Nat
    BY <1>1 DEF TypeOK
  <1>4. QED
    BY <1>2, <1>3

LEMMA InitTypeOK == Init => TypeOK
  BY SocketsAssumption DEF Init, TypeOK, Stages

LEMMA NextTypeOK ==
  TypeOK /\ [Next]_vars => TypeOK'
  <1> SUFFICES ASSUME TypeOK, [Next]_vars
               PROVE  TypeOK'
    OBVIOUS
  <1> USE SocketsAssumption
  <1>1. ASSUME NEW k \in Sockets, NEW s \in Sessions, Connect(k, s)
        PROVE  TypeOK'
    BY <1>1 DEF Connect, TypeOK, Stages
  <1>2. ASSUME NEW k \in Sockets, Check(k)
        PROVE  TypeOK'
    BY <1>2 DEF Check, TypeOK, Stages
  <1>3. ASSUME NEW k \in Sockets, Refuse(k)
        PROVE  TypeOK'
    BY <1>3 DEF Refuse, TypeOK, Stages
  <1>4. ASSUME NEW k \in Sockets, Authenticate(k)
        PROVE  TypeOK'
    BY <1>4 DEF Authenticate, MarkOnline, TypeOK, Stages
  <1>5. ASSUME NEW k \in Sockets, Subscribe(k)
        PROVE  TypeOK'
    BY <1>5 DEF Subscribe, TypeOK, Stages
  <1>6. ASSUME NEW k \in Sockets, Disconnect(k)
        PROVE  TypeOK'
    <2>1. online' \in [Users -> Nat]
      BY <1>6, MarkOfflineType DEF Disconnect, TypeOK
    <2>2. socketsBySession' \in [Sessions -> SUBSET Sockets]
      BY <1>6 DEF Disconnect, Without, TypeOK
    <2>3. /\ connected' \subseteq Sockets
          /\ stage' \in [Sockets -> Stages]
          /\ room' \subseteq connected'
      BY <1>6 DEF Disconnect, TypeOK, Stages
    <2>4. \A x \in Sockets : x \in connected' \/ stage'[x] # "new" => sid[x] \in Sessions
      BY <1>6 DEF Disconnect, TypeOK
    <2>5. QED
      BY <1>6, <2>1, <2>2, <2>3, <2>4 DEF Disconnect, TypeOK
  <1>7. ASSUME NEW l \in Logouts, NEW s \in Sessions, Record(l, s)
        PROVE  TypeOK'
    BY <1>7 DEF Record, TypeOK, Stages
  <1>8. ASSUME NEW l \in Logouts, Notify(l)
        PROVE  TypeOK'
    <2> DEFINE K == {k \in socketsBySession[notify[l]] : k \in connected}
    <2>1. notify[l] \in Sessions /\ K \in SUBSET Sockets
      BY <1>8 DEF Notify, TypeOK
    <2>2. online' \in [Users -> Nat]
      BY <1>8, <2>1, MarkOfflineType DEF Notify
    <2>3. /\ connected' \subseteq Sockets
          /\ room' \subseteq connected'
          /\ stage' \in [Sockets -> Stages]
      BY <1>8 DEF Notify, TypeOK, Stages
    <2>4. /\ notify' \in [Logouts -> Sessions \cup {None}]
          /\ socketsBySession' \in [Sessions -> SUBSET Sockets]
      BY <1>8, <2>1 DEF Notify, TypeOK
    <2>5. \A x \in Sockets : x \in connected' \/ stage'[x] # "new" => sid[x] \in Sessions
      BY <1>8, <2>1 DEF Notify, TypeOK
    <2>6. QED
      BY <1>8, <2>2, <2>3, <2>4, <2>5 DEF Notify, TypeOK
  <1>9. ASSUME Restart
        PROVE  TypeOK'
    BY <1>9 DEF Restart, TypeOK, Stages
  <1>10. CASE UNCHANGED vars
    BY <1>10 DEF vars, TypeOK
  <1>11. QED
    BY <1>1, <1>2, <1>3, <1>4, <1>5, <1>6, <1>7, <1>8, <1>9, <1>10
    DEF Next

\* Every reachable state of the dashboards' sockets is type correct.
THEOREM TypeCorrect == Spec => []TypeOK
  BY InitTypeOK, NextTypeOK, PTL DEF Spec

(***************************************************************************)
(* The registry.  socketsBySession holds authenticated sockets under their *)
(* own session, among them every one that is connected, so that a listener *)
(* still to run will close it.                                             *)
(***************************************************************************)

Registered ==
    /\ \A s \in Sessions : \A k \in socketsBySession[s] : stage[k] = "live" /\ sid[k] = s
    /\ \A k \in connected :
          /\ stage[k] # "new"
          /\ stage[k] = "live" => k \in socketsBySession[sid[k]]

Covered ==
    /\ \A l \in Logouts : l \notin logouts => notify[l] = None
    /\ \A k \in Sockets : stage[k] = "checked" /\ sid[k] \in revoked => k \in passed
    /\ \A k \in connected :
          stage[k] = "live" /\ sid[k] \in revoked /\ k \notin passed =>
              \E l \in Logouts : notify[l] = sid[k]

RegistryInv == Registered /\ Covered

LEMMA InitRegistryInv == Init => RegistryInv
  BY DEF Init, RegistryInv, Registered, Covered

LEMMA NextRegistryInv ==
  TypeOK /\ RegistryInv /\ [Next]_vars => RegistryInv'
  <1> SUFFICES ASSUME TypeOK, RegistryInv, [Next]_vars
               PROVE  RegistryInv'
    OBVIOUS
  <1> USE SocketsAssumption
      DEF TypeOK, Stages, RegistryInv, Registered, Covered
  <1>1. ASSUME NEW k \in Sockets, NEW s \in Sessions, Connect(k, s)
        PROVE  RegistryInv'
    BY <1>1 DEF Connect
  <1>2. ASSUME NEW k \in Sockets, Check(k)
        PROVE  RegistryInv'
    BY <1>2 DEF Check
  <1>3. ASSUME NEW k \in Sockets, Refuse(k)
        PROVE  RegistryInv'
    BY <1>3 DEF Refuse
  <1>4. ASSUME NEW k \in Sockets, Authenticate(k)
        PROVE  RegistryInv'
    BY <1>4 DEF Authenticate, MarkOnline
  <1>5. ASSUME NEW k \in Sockets, Subscribe(k)
        PROVE  RegistryInv'
    BY <1>5 DEF Subscribe
  <1>6. ASSUME NEW k \in Sockets, Disconnect(k)
        PROVE  RegistryInv'
    BY <1>6 DEF Disconnect, Without
  <1>7. ASSUME NEW l \in Logouts, NEW s \in Sessions, Record(l, s)
        PROVE  RegistryInv'
    BY <1>7 DEF Record
  <1>8. ASSUME NEW l \in Logouts, Notify(l)
        PROVE  RegistryInv'
    <2> DEFINE s == notify[l]
               K == {k \in socketsBySession[s] : k \in connected}
    <2>1. s \in Sessions
      BY <1>8 DEF Notify
    <2>2. \A k \in connected : stage[k] = "live" /\ sid[k] = s => k \in K
      OBVIOUS
    <2>3. \A k \in connected' : k \in connected /\ k \notin K /\ stage'[k] = stage[k]
      BY <1>8 DEF Notify
    <2>4. \A k \in connected' : stage'[k] = "live" => sid'[k] # s
      BY <1>8, <2>2, <2>3 DEF Notify
    <2>5. Registered'
      BY <1>8, <2>1, <2>3, <2>4 DEF Notify
    <2>6. Covered'
      BY <1>8, <2>1, <2>3, <2>4 DEF Notify
    <2>7. QED
      BY <2>5, <2>6
  <1>9. ASSUME Restart
        PROVE  RegistryInv'
    BY <1>9 DEF Restart
  <1>10. CASE UNCHANGED vars
    BY <1>10 DEF vars
  <1> HIDE DEF TypeOK, Stages, RegistryInv, Registered, Covered
  <1>11. QED
    BY <1>1, <1>2, <1>3, <1>4, <1>5, <1>6, <1>7, <1>8, <1>9, <1>10
    DEF Next

\* A connection that outlives a logout had passed its session check when the
\* logout was recorded: the listener closes every other one, however sockets
\* and logouts overlap.
THEOREM OnlyCheckedOutlive == Spec => []OnlyPassedOutlive
  <1>1. TypeOK /\ RegistryInv => OnlyPassedOutlive
    BY DEF RegistryInv, Covered, OnlyPassedOutlive, Ended
  <1>2. QED
    BY <1>1, InitTypeOK, NextTypeOK, InitRegistryInv, NextRegistryInv, PTL DEF Spec

(***************************************************************************)
(* Presence.  A user's count is of the sockets in stage "live"; those are  *)
(* the connected ones, which a disconnect or a listener takes off, and the *)
(* ghosts.                                                                 *)
(***************************************************************************)

CountInv == \A u \in Users : online[u] = Cardinality(Live(u))

GhostInv == ghosts = {k \in Sockets : stage[k] = "live" /\ k \notin connected}

LEMMA LiveFinite ==
    ASSUME NEW u \in Users
    PROVE  IsFiniteSet(Live(u)) /\ Cardinality(Live(u)) \in Nat
  BY SocketsAssumption, FS_Subset, FS_CardinalityType DEF Live

\* Sockets that were live and are counted off leave the count exact.
LEMMA CountedOff ==
    ASSUME TypeOK, CountInv,
           NEW K \in SUBSET Sockets, \A k \in K : stage[k] = "live",
           MarkOffline(K), NEW u \in Users
    PROVE  online'[u] = Cardinality(Live(u) \ K)
  <1> DEFINE Ku == {k \in K : UserOf[sid[k]] = u}
             n == Cardinality(Ku)
  <1>1. Live(u) \cap K = Ku /\ Ku \in SUBSET Live(u)
    BY DEF Live
  <1>2. Cardinality(Live(u) \ K) = Cardinality(Live(u)) - n
    BY <1>1, LiveFinite, FS_Difference
  <1>3. n \in Nat /\ n <= Cardinality(Live(u))
    BY <1>1, LiveFinite, FS_Subset, FS_CardinalityType
  <1>4. online'[u] = IF online[u] > n THEN online[u] - n ELSE 0
    BY DEF MarkOffline
  <1>5. online[u] = Cardinality(Live(u))
    BY DEF CountInv, Live
  <1> HIDE DEF n
  <1>6. QED
    BY <1>2, <1>3, <1>4, <1>5, LiveFinite

LEMMA InitPresence == Init => CountInv
  <1> SUFFICES ASSUME Init, NEW u \in Users
               PROVE  online[u] = Cardinality(Live(u))
    BY DEF CountInv
  <1>1. Live(u) = {}
    BY DEF Init, Live
  <1>2. QED
    BY <1>1, FS_EmptySet DEF Init

LEMMA NextPresence ==
  TypeOK /\ RegistryInv /\ CountInv /\ [Next]_vars => CountInv'
  <1> SUFFICES ASSUME TypeOK, RegistryInv, CountInv, [Next]_vars
               PROVE  CountInv'
    OBVIOUS
  <1> USE SocketsAssumption
  <1>1. ASSUME NEW k \in Sockets, NEW s \in Sessions, Connect(k, s)
        PROVE  CountInv'
    <2>1. \A u \in Users : Live(u)' = Live(u)
      BY <1>1 DEF Connect, Live, TypeOK
    <2>2. QED
      BY <1>1, <2>1 DEF Connect, CountInv, Live
  <1>2. ASSUME NEW k \in Sockets, Check(k)
        PROVE  CountInv'
    <2>1. \A u \in Users : Live(u)' = Live(u)
      BY <1>2 DEF Check, Live, TypeOK
    <2>2. QED
      BY <1>2, <2>1 DEF Check, CountInv, Live
  <1>3. ASSUME NEW k \in Sockets, Refuse(k)
        PROVE  CountInv'
    <2>1. \A u \in Users : Live(u)' = Live(u)
      BY <1>3 DEF Refuse, Live, TypeOK
    <2>2. QED
      BY <1>3, <2>1 DEF Refuse, CountInv, Live
  <1>4. ASSUME NEW k \in Sockets, Authenticate(k)
        PROVE  CountInv'
    <2> SUFFICES ASSUME NEW u \in Users
                 PROVE  online'[u] = Cardinality(Live(u)')
      BY DEF CountInv, Live
    <2>1. online[u] = Cardinality(Live(u))
      BY DEF CountInv, Live
    <2>2. stage[k] = "checked" /\ sid[k] \in Sessions
      BY <1>4 DEF Authenticate, TypeOK
    <2>3. CASE UserOf[sid[k]] = u
      <3>1. Live(u)' = Live(u) \cup {k} /\ k \notin Live(u)
        BY <1>4, <2>2, <2>3 DEF Authenticate, Live, TypeOK
      <3>2. Cardinality(Live(u)') = Cardinality(Live(u)) + 1
        BY <3>1, LiveFinite, FS_AddElement
      <3>3. QED
        BY <1>4, <2>1, <2>3, <3>2 DEF Authenticate, MarkOnline, TypeOK
    <2>4. CASE UserOf[sid[k]] # u
      <3>1. Live(u)' = Live(u)
        BY <1>4, <2>2, <2>4 DEF Authenticate, Live, TypeOK
      <3>2. QED
        BY <1>4, <2>1, <2>4, <3>1 DEF Authenticate, MarkOnline, TypeOK
    <2>5. QED
      BY <2>3, <2>4
  <1>5. ASSUME NEW k \in Sockets, Subscribe(k)
        PROVE  CountInv'
    <2>1. \A u \in Users : Live(u)' = Live(u)
      BY <1>5 DEF Subscribe, Live, TypeOK
    <2>2. QED
      BY <1>5, <2>1 DEF Subscribe, CountInv, Live
  <1>6. ASSUME NEW k \in Sockets, Disconnect(k)
        PROVE  CountInv'
    <2> SUFFICES ASSUME NEW u \in Users
                 PROVE  online'[u] = Cardinality(Live(u)')
      BY DEF CountInv, Live
    <2>1. CASE stage[k] = "live"
      <3>1. online'[u] = Cardinality(Live(u) \ {k})
        BY <1>6, <2>1, CountedOff DEF Disconnect
      <3>2. Live(u)' = Live(u) \ {k}
        BY <1>6, <2>1 DEF Disconnect, Live, TypeOK
      <3>3. QED
        BY <3>1, <3>2
    <2>2. CASE stage[k] # "live"
      <3>1. Live(u)' = Live(u) /\ online' = online
        BY <1>6, <2>2 DEF Disconnect, Live
      <3>2. QED
        BY <3>1 DEF CountInv, Live
    <2>3. QED
      BY <2>1, <2>2
  <1>7. ASSUME NEW l \in Logouts, NEW s \in Sessions, Record(l, s)
        PROVE  CountInv'
    <2>1. \A u \in Users : Live(u)' = Live(u)
      BY <1>7 DEF Record, Live, TypeOK
    <2>2. QED
      BY <1>7, <2>1 DEF Record, CountInv, Live
  <1>8. ASSUME NEW l \in Logouts, Notify(l)
        PROVE  CountInv'
    <2> SUFFICES ASSUME NEW u \in Users
                 PROVE  online'[u] = Cardinality(Live(u)')
      BY DEF CountInv, Live
    <2> DEFINE K == {k \in socketsBySession[notify[l]] : k \in connected}
    <2>1. K \in SUBSET Sockets /\ \A k \in K : stage[k] = "live"
      BY <1>8 DEF Notify, TypeOK, RegistryInv, Registered
    <2>2. online'[u] = Cardinality(Live(u) \ K)
      BY <1>8, <2>1, CountedOff DEF Notify
    <2>3. Live(u)' = Live(u) \ K
      BY <1>8, <2>1 DEF Notify, Live, TypeOK
    <2>4. QED
      BY <2>2, <2>3
  <1>9. ASSUME Restart
        PROVE  CountInv'
    <2> SUFFICES ASSUME NEW u \in Users
                 PROVE  online'[u] = Cardinality(Live(u)')
      BY DEF CountInv, Live
    <2>1. Live(u)' = {} /\ online'[u] = 0
      BY <1>9 DEF Restart, Live
    <2>2. QED
      BY <2>1, FS_EmptySet
  <1>10. CASE UNCHANGED vars
    BY <1>10 DEF vars, CountInv, Live
  <1>11. QED
    BY <1>1, <1>2, <1>3, <1>4, <1>5, <1>6, <1>7, <1>8, <1>9, <1>10
    DEF Next

LEMMA InitGhosts == Init => GhostInv
  BY DEF Init, GhostInv

LEMMA NextGhosts ==
  TypeOK /\ RegistryInv /\ GhostInv /\ [Next]_vars => GhostInv'
  <1> SUFFICES ASSUME TypeOK, RegistryInv, GhostInv, [Next]_vars
               PROVE  GhostInv'
    OBVIOUS
  <1> USE DEF TypeOK, GhostInv
  <1>1. ASSUME NEW k \in Sockets, NEW s \in Sessions, Connect(k, s)
        PROVE  GhostInv'
    BY <1>1 DEF Connect
  <1>2. ASSUME NEW k \in Sockets, Check(k)
        PROVE  GhostInv'
    BY <1>2 DEF Check
  <1>3. ASSUME NEW k \in Sockets, Refuse(k)
        PROVE  GhostInv'
    BY <1>3 DEF Refuse
  <1>4. ASSUME NEW k \in Sockets, Authenticate(k)
        PROVE  GhostInv'
    BY <1>4 DEF Authenticate
  <1>5. ASSUME NEW k \in Sockets, Subscribe(k)
        PROVE  GhostInv'
    BY <1>5 DEF Subscribe
  <1>6. ASSUME NEW k \in Sockets, Disconnect(k)
        PROVE  GhostInv'
    BY <1>6 DEF Disconnect
  <1>7. ASSUME NEW l \in Logouts, NEW s \in Sessions, Record(l, s)
        PROVE  GhostInv'
    BY <1>7 DEF Record
  <1>8. ASSUME NEW l \in Logouts, Notify(l)
        PROVE  GhostInv'
    BY <1>8 DEF Notify
  <1>9. ASSUME Restart
        PROVE  GhostInv'
    BY <1>9 DEF Restart
  <1>10. CASE UNCHANGED vars
    BY <1>10 DEF vars
  <1>11. QED
    BY <1>1, <1>2, <1>3, <1>4, <1>5, <1>6, <1>7, <1>8, <1>9, <1>10
    DEF Next

\* A user's count is of the connected sockets that were authenticated and of the ghosts,
\* the sockets entered after their disconnect had been handled: closing one of several
\* tabs and a logout's listener take off what was put on, and nothing else miscounts.
THEOREM PresenceIsAccounted == Spec => []PresenceCounts
  <1>1. TypeOK /\ CountInv /\ GhostInv => PresenceCounts
    <2> SUFFICES ASSUME TypeOK, CountInv, GhostInv, NEW u \in Users
                 PROVE  online[u] =
                          Cardinality({k \in connected : stage[k] = "live" /\ UserOf[sid[k]] = u})
                          + Cardinality({k \in ghosts : UserOf[sid[k]] = u})
      BY DEF PresenceCounts
    <2> DEFINE C == {k \in connected : stage[k] = "live" /\ UserOf[sid[k]] = u}
               G == {k \in ghosts : UserOf[sid[k]] = u}
    <2>1. Live(u) = C \cup G /\ C \cap G = {}
      BY DEF Live, GhostInv, TypeOK
    <2>2. IsFiniteSet(C) /\ IsFiniteSet(G)
      BY <2>1, LiveFinite, FS_Subset
    <2>3. Cardinality(C) \in Nat /\ Cardinality(G) \in Nat /\ Cardinality(C \cap G) = 0
      BY <2>1, <2>2, FS_CardinalityType, FS_EmptySet
    <2>4. Cardinality(Live(u)) = Cardinality(C) + Cardinality(G) - Cardinality(C \cap G)
      BY <2>1, <2>2, FS_Union
    <2>5. online[u] = Cardinality(Live(u))
      BY DEF CountInv
    <2> HIDE DEF C, G
    <2>6. online[u] = Cardinality(C) + Cardinality(G)
      BY <2>3, <2>4, <2>5
    <2>7. QED
      BY <2>6 DEF C, G
  <1>2. QED
    BY <1>1, InitTypeOK, NextTypeOK, InitRegistryInv, NextRegistryInv, InitPresence, NextPresence,
       InitGhosts, NextGhosts, PTL DEF Spec
=============================================================================
