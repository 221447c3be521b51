------------------------- MODULE ProvisioningProofs -------------------------
(***************************************************************************)
(* Theorems about Provisioning, for any number of requests and hubs that   *)
(* meet in any way and fail at any point.                                  *)
(***************************************************************************)
EXTENDS Provisioning, TLAPS

USE DEF rowVars, requestVars, causeVars

Deletions == HubDeletions \cup UserDeletions

(***************************************************************************)
(* Type correctness.                                                       *)
(***************************************************************************)

\* Stages before a request has saved its hub, and after the hub's resources are on record.
Early == {"new", "client", "link", "check", "adduser", "addclient", "hub"}

Late == {"session", "addsession", "rotate", "done"}

\* Stages of a request that is past the user's account.
Accountable ==
    {"client", "link", "addclient", "hub", "session", "addsession"} \cup CloudStages

Ending == {"new", "list", "clear", "drop", "count", "session", "dropclient", "dropuser", "done"}

AtOK ==
    /\ at \in [Requests -> MakerStages \cup DeletionStages \cup {"new", "session", "done"}]
    /\ \A m \in Makers : at[m] \in Early \cup CloudStages \cup Late
    /\ \A d \in Deletions : at[d] \in Ending

\* A request that is past its account has found one.
AcctOK ==
    /\ acct \in [Requests -> Makers \cup {"none"}]
    /\ \A m \in Makers : at[m] \in Accountable => acct[m] # "none"

AccountOK ==
    /\ user \in Makers \cup {"none"}
    /\ client \in Makers \cup {"none"}
    /\ client # "none" => user # "none"

HubOK ==
    /\ hub \in [Makers -> {client} \cup {"none"}]
    /\ named \in [Makers -> SUBSET Resources]
    /\ \A h \in Makers : hub[h] = "none" => named[h] = {}
    /\ session \subseteq {client} \ {"none"}
    /\ ticketed \subseteq {h \in Ticketed : hub[h] # "none"}

WorkOK ==
    /\ cloud \in [Makers -> SUBSET Resources]
    /\ gang \in Gangs
    /\ mine \in [Makers -> SUBSET Resources]
    /\ target \in [Requests -> SUBSET Makers]
    /\ todo \in [Requests -> SUBSET (Makers \X Resources)]

CauseOK ==
    /\ lost \subseteq Makers
    /\ overlapped \subseteq Makers
    /\ refused \subseteq Makers
    /\ raced \subseteq Makers

TypeInv == AtOK /\ AcctOK /\ AccountOK /\ HubOK /\ WorkOK /\ CauseOK

LEMMA TypeInvSuffices == TypeInv => ProvisioningTypeOK
  BY DEF TypeInv, AtOK, AcctOK, AccountOK, HubOK, WorkOK, CauseOK, ProvisioningTypeOK

LEMMA InitTypeInv == ProvisioningInit => TypeInv
  <1> SUFFICES ASSUME ProvisioningInit
               PROVE  TypeInv
    OBVIOUS
  <1>1. AtOK
    BY DEF ProvisioningInit, AtOK, Early, Ending, Requests, Deletions
  <1>2. AcctOK
    BY DEF ProvisioningInit, AcctOK, Accountable, CloudStages, Requests
  <1>3. AccountOK /\ HubOK
    BY DEF ProvisioningInit, AccountOK, HubOK
  <1>4. WorkOK /\ CauseOK
    BY DEF ProvisioningInit, WorkOK, CauseOK
  <1>5. QED
    BY <1>1, <1>2, <1>3, <1>4 DEF TypeInv

\* Where a request goes.
LEMMA MakerGoes ==
    ASSUME TypeInv, NEW m \in Makers, NEW s, Go(m, s), s \in Early \cup CloudStages \cup Late
    PROVE  AtOK' /\ at'[m] = s /\ \A r \in Requests \ {m} : at'[r] = at[r]
  <1>1. s \in MakerStages \cup {"new", "session", "done"}
    BY DEF Early, CloudStages, Late, MakerStages
  <1>2. m \in Requests /\ m \notin Deletions
    BY ProvisioningAssumption DEF Requests, Deletions
  <1>3. QED
    BY <1>1, <1>2 DEF TypeInv, AtOK, Go, Requests, Deletions

LEMMA DeletionGoes ==
    ASSUME TypeInv, NEW d \in Deletions, NEW s, Go(d, s), s \in Ending
    PROVE  AtOK' /\ at'[d] = s /\ \A r \in Requests \ {d} : at'[r] = at[r]
  <1>1. s \in DeletionStages \cup {"new", "session", "done"}
    BY DEF Ending, DeletionStages
  <1>2. d \in Requests /\ d \notin Makers
    BY ProvisioningAssumption DEF Requests, Deletions
  <1>3. QED
    BY <1>1, <1>2 DEF TypeInv, AtOK, Go, Requests, Deletions

LEMMA MakerAccounts ==
    ASSUME TypeInv, NEW m \in Makers, NEW s, Go(m, s), s \in Early \cup CloudStages \cup Late,
           \/ acct' = acct
           \/ \E c \in Makers \cup {"none"} : acct' = [acct EXCEPT ![m] = c],
           s \in Accountable => acct'[m] # "none"
    PROVE  AcctOK'
  <1>1. at'[m] = s /\ \A r \in Makers \ {m} : at'[r] = at[r]
    BY MakerGoes DEF Requests
  <1>2. acct' \in [Requests -> Makers \cup {"none"}] /\ \A r \in Makers \ {m} : acct'[r] = acct[r]
    BY DEF TypeInv, AcctOK, Requests
  <1>3. QED
    BY <1>1, <1>2 DEF TypeInv, AcctOK

LEMMA DeletionAccounts ==
    ASSUME TypeInv, NEW d \in Deletions, \A m \in Makers : at'[m] = at[m],
           \/ acct' = acct
           \/ \E c \in Makers \cup {"none"} : acct' = [acct EXCEPT ![d] = c]
    PROVE  AcctOK'
  <1>1. acct' \in [Requests -> Makers \cup {"none"}] /\ \A m \in Makers : acct'[m] = acct[m]
    BY ProvisioningAssumption DEF TypeInv, AcctOK, Deletions, Requests
  <1>2. QED
    BY <1>1 DEF TypeInv, AcctOK

LEMMA RowsStay ==
    ASSUME TypeInv, UNCHANGED rowVars
    PROVE  AccountOK' /\ HubOK'
  BY DEF TypeInv, AccountOK, HubOK

LEMMA WorkStays ==
    ASSUME TypeInv, UNCHANGED <<cloud, gang, mine, target, todo>>
    PROVE  WorkOK'
  BY DEF TypeInv, WorkOK

LEMMA CausesStay ==
    ASSUME TypeInv, UNCHANGED causeVars
    PROVE  CauseOK'
  BY DEF TypeInv, CauseOK

\* The account.
LEMMA AccountTypes ==
    ASSUME TypeInv, NEW m \in Makers,
           \/ StartExisting(m) \/ FindUser(m) \/ FindClient(m) \/ LinkUser(m)
           \/ CheckEmail(m) \/ AddUser(m) \/ AddClient(m)
    PROVE  TypeInv'
  <1> DEFINE Stages == {"client", "link", "check", "adduser", "addclient", "hub", "done"}
  <1>1. PICK s \in Stages : Go(m, s) /\ (s \in Accountable => acct'[m] # "none")
    <2>1. "check" \notin Accountable /\ "adduser" \notin Accountable /\ "done" \notin Accountable
      BY DEF Accountable, CloudStages
    <2>2. {"client", "link", "addclient"} \subseteq Accountable
      BY DEF Accountable
    <2>3. m \in Requests /\ acct \in [Requests -> Makers \cup {"none"}] /\ m # "none"
      BY ProvisioningAssumption DEF TypeInv, AcctOK, Requests
    <2>4. CASE StartExisting(m) \/ FindUser(m)
      BY <2>1, <2>3, <2>4 DEF StartExisting, FindUser, GoWith
    <2>5. CASE FindClient(m)
      BY <2>1, <2>2, <2>3, <2>5 DEF FindClient, GoWith, TypeInv, AcctOK
    <2>6. CASE LinkUser(m)
      BY <2>1, <2>2, <2>3, <2>6 DEF LinkUser, TypeInv, AcctOK
    <2>7. CASE CheckEmail(m) \/ AddUser(m) \/ AddClient(m)
      BY <2>1, <2>2, <2>3, <2>7 DEF CheckEmail, AddUser, AddClient, GoWith, TypeInv, AcctOK
    <2>8. QED
      BY <2>4, <2>5, <2>6, <2>7
  <1>2. s \in Early \cup CloudStages \cup Late
    BY DEF Early, Late
  <1>3. acct' = acct \/ \E c \in Makers \cup {"none"} : acct' = [acct EXCEPT ![m] = c]
    <2>1. user \in Makers \cup {"none"} /\ client \in Makers \cup {"none"}
      BY DEF TypeInv, AccountOK
    <2>2. QED
      BY <2>1 DEF StartExisting, FindUser, FindClient, LinkUser, CheckEmail, AddUser, AddClient, GoWith
  <1> HIDE DEF Stages
  <1>4. AtOK' /\ AcctOK'
    BY <1>1, <1>2, <1>3, MakerGoes, MakerAccounts
  <1>5. AccountOK' /\ HubOK'
    <2>1. CASE AddUser(m)
      BY <2>1 DEF AddUser, TypeInv, AccountOK, HubOK
    <2>2. CASE AddClient(m)
      <3>1. CASE user = acct[m] /\ client = "none"
        <4>1. acct[m] # "none"
          BY <2>2 DEF AddClient, TypeInv, AcctOK, Accountable
        <4>2. client' = m /\ UNCHANGED <<user, hub, named, session, ticketed>>
          BY <2>2, <3>1 DEF AddClient
        <4>3. QED
          BY <3>1, <4>1, <4>2 DEF TypeInv, AccountOK, HubOK
      <3>2. CASE ~(user = acct[m] /\ client = "none")
        BY <2>2, <3>2, RowsStay DEF AddClient
      <3>3. QED
        BY <3>1, <3>2
    <2>3. CASE ~AddUser(m) /\ ~AddClient(m)
      BY <2>3, RowsStay DEF StartExisting, FindUser, FindClient, LinkUser, CheckEmail
    <2>4. QED
      BY <2>1, <2>2, <2>3
  <1>6. UNCHANGED <<cloud, gang, mine, target, todo, causeVars>>
    BY DEF StartExisting, FindUser, FindClient, LinkUser, CheckEmail, AddUser, AddClient
  <1>7. QED
    BY <1>4, <1>5, <1>6, WorkStays, CausesStay DEF TypeInv

\* The hub, its resources, and the client's session.
LEMMA HubTypes ==
    ASSUME TypeInv, NEW m \in Makers,
           \/ AddHub(m) \/ MakeResource(m) \/ Configure(m) \/ Record(m)
           \/ \E kept \in BOOLEAN : FailCall(m, kept)
    PROVE  TypeInv'
  <1> DEFINE Stages == CloudStages \cup {"session", "done"}
  <1>1. PICK s \in Stages : Go(m, s)
    <2>1. /\ After["tunnel"] = "config" /\ After["dns"] = "app" /\ After["app"] = "record"
          /\ {"tunnel", "config", "dns", "app", "record", "session", "done"} = Stages
      BY DEF After, CloudStages
    <2>2. QED
      BY <2>1 DEF AddHub, MakeResource, Configure, Record, FailCall, Resources
  <1>2. s \in Early \cup CloudStages \cup Late
    BY DEF Late
  <1>3. UNCHANGED <<acct, user, client, gang, target, todo>>
    BY DEF AddHub, MakeResource, Configure, Record, FailCall
  <1>4. acct[m] # "none"
    BY DEF AddHub, MakeResource, Configure, Record, FailCall, TypeInv, AcctOK, Accountable,
       CloudStages, Resources
  <1> HIDE DEF Stages
  <1>5. AtOK' /\ AcctOK'
    BY <1>1, <1>2, <1>3, <1>4, MakerGoes, MakerAccounts
  <1>6. AccountOK'
    BY <1>3 DEF TypeInv, AccountOK
  <1>7. HubOK'
    <2>1. CASE AddHub(m)
      <3>1. hub' = hub \/ (hub' = [hub EXCEPT ![m] = client] /\ client # "none")
        BY <1>4, <2>1 DEF AddHub
      <3>2. hub' \in [Makers -> {client} \cup {"none"}] /\ \A h \in Makers : hub[h] # "none" => hub'[h] # "none"
        BY <3>1 DEF TypeInv, HubOK
      <3>3. UNCHANGED <<named, session, ticketed>>
        BY <2>1 DEF AddHub
      <3>4. Ticketed \subseteq Makers
        BY ProvisioningAssumption
      <3>5. QED
        BY <1>3, <3>2, <3>3, <3>4 DEF TypeInv, HubOK
    <2>2. CASE Record(m)
      <3>1. UNCHANGED <<hub, session, ticketed>>
        BY <2>2 DEF Record
      <3>2. named' \in [Makers -> SUBSET Resources] /\ \A h \in Makers : hub[h] = "none" => named'[h] = {}
        BY <2>2 DEF Record, TypeInv, HubOK, WorkOK
      <3>3. QED
        BY <1>3, <3>1, <3>2 DEF TypeInv, HubOK
    <2>3. CASE ~AddHub(m) /\ ~Record(m)
      BY <2>3, RowsStay DEF MakeResource, Configure, FailCall
    <2>4. QED
      BY <2>1, <2>2, <2>3
  <1>8. WorkOK'
    <2>1. CASE MakeResource(m)
      BY <1>3, <2>1 DEF MakeResource, TypeInv, WorkOK
    <2>2. CASE \E kept \in BOOLEAN : FailCall(m, kept)
      <3>1. at[m] # "config" /\ at[m] \in Resources \cup {"config"} => at[m] \in Resources
        OBVIOUS
      <3>2. mine' = mine
        BY <2>2 DEF FailCall
      <3>3. cloud' \in [Makers -> SUBSET Resources]
        BY <2>2, <3>1 DEF FailCall, TypeInv, WorkOK
      <3>4. QED
        BY <1>3, <3>2, <3>3 DEF TypeInv, WorkOK
    <2>3. CASE AddHub(m) \/ Configure(m) \/ Record(m)
      BY <1>3, <2>3, WorkStays DEF AddHub, Configure, Record
    <2>4. QED
      BY <2>1, <2>2, <2>3
  <1>9. CauseOK'
    BY DEF AddHub, MakeResource, Configure, Record, FailCall, TypeInv, CauseOK
  <1>10. QED
    BY <1>5, <1>6, <1>7, <1>8, <1>9 DEF TypeInv

LEMMA SessionTypes ==
    ASSUME TypeInv, NEW m \in Makers, FindSession(m) \/ AddSession(m) \/ RotateSession(m)
    PROVE  TypeInv'
  <1>1. PICK s \in {"rotate", "addsession", "done"} : Go(m, s)
    BY DEF FindSession, AddSession, RotateSession
  <1>2. s \in Early \cup CloudStages \cup Late /\ (s \in Accountable => s = "addsession")
    BY DEF Late, Accountable, CloudStages
  <1>3. UNCHANGED <<acct, user, client, hub, named, ticketed, cloud, gang, mine, target, todo, causeVars>>
    BY DEF FindSession, AddSession, RotateSession
  <1>4. s = "addsession" => acct[m] # "none"
    <2>1. s = "addsession" => FindSession(m)
      <3>1. at'[m] = s
        BY <1>1, <1>2, MakerGoes
      <3>2. AddSession(m) \/ RotateSession(m) => at'[m] = "done"
        BY <1>2, MakerGoes DEF AddSession, RotateSession, Late
      <3>3. QED
        BY <3>1, <3>2
    <2>2. QED
      BY <2>1 DEF FindSession, TypeInv, AcctOK, Accountable
  <1>5. AtOK' /\ AcctOK'
    BY <1>1, <1>2, <1>3, <1>4, MakerGoes, MakerAccounts
  <1>6. session' \subseteq {client} \ {"none"}
    <2>1. CASE AddSession(m)
      <3>1. acct[m] # "none"
        BY <2>1 DEF AddSession, TypeInv, AcctOK, Accountable
      <3>2. QED
        BY <2>1, <3>1 DEF AddSession, TypeInv, HubOK
    <2>2. CASE ~AddSession(m)
      BY <2>2 DEF FindSession, RotateSession, TypeInv, HubOK
    <2>3. QED
      BY <2>1, <2>2
  <1>7. AccountOK' /\ HubOK'
    BY <1>3, <1>6 DEF TypeInv, AccountOK, HubOK
  <1>8. QED
    BY <1>3, <1>5, <1>7, WorkStays, CausesStay DEF TypeInv

\* The steps of a deletion.
LEMMA DeletionAt ==
    ASSUME TypeInv, NEW d \in Deletions, NEW s \in Ending, Go(d, s),
           \/ acct' = acct
           \/ \E c \in Makers \cup {"none"} : acct' = [acct EXCEPT ![d] = c]
    PROVE  AtOK' /\ AcctOK'
  <1>1. AtOK' /\ \A r \in Requests \ {d} : at'[r] = at[r]
    BY DeletionGoes
  <1>2. \A m \in Makers : at'[m] = at[m]
    BY <1>1, ProvisioningAssumption DEF Requests, Deletions
  <1>3. QED
    BY <1>1, <1>2, DeletionAccounts

\* Rows of hubs are deleted, if there is no ticket about one.
LEMMA DropTypes ==
    ASSUME TypeInv, NEW d \in Deletions, NEW H, NEW next \in Ending, Drop(d, H, next),
           UNCHANGED <<user, client, session, ticketed, cloud, gang, acct, mine, target, todo,
                       outages, lost, overlapped, raced>>
    PROVE  TypeInv'
  <1>1. AtOK' /\ AcctOK'
    BY DeletionAt DEF Drop, Ending
  <1>2. AccountOK' /\ WorkOK'
    BY DEF TypeInv, AccountOK, WorkOK
  <1>3. HubOK'
    <2>1. CASE H \cap ticketed # {}
      BY <2>1 DEF Drop, TypeInv, HubOK
    <2>2. CASE H \cap ticketed = {}
      <3>1. /\ hub' = [h \in Makers |-> IF h \in H THEN "none" ELSE hub[h]]
            /\ named' = [h \in Makers |-> IF h \in H THEN {} ELSE named[h]]
        BY <2>2 DEF Drop
      <3>2. ticketed \subseteq Makers \ H
        BY <2>2, ProvisioningAssumption DEF TypeInv, HubOK
      <3>3. ticketed' \subseteq {h \in Ticketed : hub'[h] # "none"}
        BY <3>1, <3>2 DEF TypeInv, HubOK
      <3>4. hub' \in [Makers -> {client} \cup {"none"}]
        BY <3>1 DEF TypeInv, HubOK
      <3>5. named' \in [Makers -> SUBSET Resources] /\ \A h \in Makers : hub'[h] = "none" => named'[h] = {}
        BY <3>1 DEF TypeInv, HubOK
      <3>6. QED
        BY <3>3, <3>4, <3>5 DEF TypeInv, HubOK
    <2>3. QED
      BY <2>1, <2>2
  <1>4. CauseOK'
    <2>1. target[d] \subseteq Makers
      BY DEF TypeInv, WorkOK, Requests, Deletions
    <2>2. QED
      BY <2>1 DEF Drop, TypeInv, CauseOK
  <1>5. QED
    BY <1>1, <1>2, <1>3, <1>4 DEF TypeInv

LEMMA ClearTypes ==
    ASSUME TypeInv, NEW d \in Deletions, ClearCloudflare(d)
    PROVE  TypeInv'
  <1>1. ASSUME NEW h \in Makers, NEW r \in Resources, ClearResource(d, h, r) \/ FailClear(d, h, r)
        PROVE  TypeInv'
    <2>1. UNCHANGED <<at, acct, rowVars>>
      BY <1>1 DEF ClearResource, FailClear
    <2>2. AtOK' /\ AcctOK'
      BY <2>1 DEF TypeInv, AtOK, AcctOK
    <2>3. WorkOK' /\ CauseOK'
      BY <1>1 DEF ClearResource, FailClear, TypeInv, WorkOK, CauseOK
    <2>4. QED
      BY <2>1, <2>2, <2>3, RowsStay DEF TypeInv
  <1>2. CASE Cleared(d)
    <2>1. AtOK' /\ AcctOK'
      BY <1>2, DeletionAt DEF Cleared, Ending
    <2>2. QED
      BY <1>2, <2>1, RowsStay, WorkStays, CausesStay DEF Cleared, TypeInv
  <1>3. QED
    BY <1>1, <1>2 DEF ClearCloudflare

LEMMA DropSessionTypes ==
    ASSUME TypeInv, NEW d \in Deletions, DropSession(d)
    PROVE  TypeInv'
  <1>1. AtOK' /\ AcctOK'
    BY DeletionAt DEF DropSession, Ending
  <1>2. AccountOK' /\ HubOK'
    BY DEF DropSession, TypeInv, AccountOK, HubOK
  <1>3. QED
    BY <1>1, <1>2, WorkStays, CausesStay DEF DropSession, TypeInv

LEMMA HubDeletionTypes ==
    ASSUME TypeInv, NEW d \in HubDeletions, DeleteHub(d)
    PROVE  TypeInv'
  <1>0. d \in Deletions /\ d \in Requests /\ d \notin Makers
    BY ProvisioningAssumption DEF Deletions, Requests
  <1>1. ASSUME NEW h \in Makers, FindHub(d, h)
        PROVE  TypeInv'
    <2>1. hub[h] \in Makers \cup {"none"} /\ named[h] \subseteq Resources
      BY DEF TypeInv, HubOK, AccountOK
    <2>2. AtOK' /\ AcctOK'
      BY <1>0, <1>1, <2>1, DeletionAt DEF FindHub, GoWith, Ending
    <2>3. {h} \X named[h] \in SUBSET (Makers \X Resources)
      BY <2>1
    <2>4. WorkOK'
      BY <1>0, <1>1, <2>3 DEF FindHub, TypeInv, WorkOK
    <2>5. CauseOK'
      BY <1>1 DEF FindHub, FoundEarly, TypeInv, CauseOK
    <2>6. QED
      BY <1>1, <2>2, <2>4, <2>5, RowsStay DEF FindHub, TypeInv
  <1>2. CASE DropHub(d)
    BY <1>0, <1>2, DropTypes DEF DropHub, Ending
  <1>3. CASE CountHubs(d)
    <2>1. AtOK' /\ AcctOK'
      BY <1>0, <1>3, DeletionAt DEF CountHubs, Ending
    <2>2. QED
      BY <1>3, <2>1, RowsStay, WorkStays, CausesStay DEF CountHubs, TypeInv
  <1>4. CASE DropSession(d)
    BY <1>0, <1>4, DropSessionTypes
  <1>5. QED
    BY <1>0, <1>1, <1>2, <1>3, <1>4, ClearTypes DEF DeleteHub

LEMMA UserDeletionTypes ==
    ASSUME TypeInv, NEW d \in UserDeletions, DeleteUser(d)
    PROVE  TypeInv'
  <1>0. d \in Deletions /\ d \in Requests /\ d \notin Makers
    BY ProvisioningAssumption DEF Deletions, Requests
  <1>1. CASE FindClientOf(d)
    <2>1. client \in Makers \cup {"none"}
      BY DEF TypeInv, AccountOK
    <2>2. AtOK' /\ AcctOK'
      BY <1>0, <1>1, <2>1, DeletionAt DEF FindClientOf, GoWith, Ending
    <2>3. QED
      BY <1>1, <2>2, RowsStay, WorkStays, CausesStay DEF FindClientOf, TypeInv
  <1>2. CASE ListHubs(d)
    <2>1. AtOK' /\ AcctOK'
      BY <1>0, <1>2, DeletionAt DEF ListHubs, Ending
    <2>2. HubsOf(acct[d]) \subseteq Makers
      BY DEF HubsOf
    <2>3. WorkOK'
      BY <1>0, <1>2, <2>2 DEF ListHubs, TypeInv, WorkOK
    <2>4. CauseOK'
      BY <1>2, <2>2 DEF ListHubs, FoundEarly, TypeInv, CauseOK
    <2>5. QED
      BY <1>2, <2>1, <2>3, <2>4, RowsStay DEF ListHubs, TypeInv
  <1>3. CASE DropHubs(d)
    BY <1>0, <1>3, DropTypes DEF DropHubs, Ending
  <1>4. CASE DropSession(d)
    BY <1>0, <1>4, DropSessionTypes
  <1>5. CASE DropClient(d)
    <2>1. AtOK' /\ AcctOK'
      BY <1>0, <1>5, DeletionAt DEF DropClient, Ending
    <2>2. CASE client' = client
      <3>1. UNCHANGED rowVars
        BY <1>5, <2>2 DEF DropClient
      <3>2. QED
        BY <1>5, <2>1, <3>1, RowsStay, WorkStays, CausesStay DEF DropClient, TypeInv
    <2>3. CASE client' # client
      <3>1. /\ client = acct[d] /\ client' = "none"
            /\ \A h \in Makers : hub[h] # client
            /\ client \notin session
        BY <1>5, <2>3 DEF DropClient, HubsOf
      <3>2. UNCHANGED <<user, hub, named, session, ticketed>>
        BY <1>5 DEF DropClient
      <3>3. AccountOK'
        BY <3>1, <3>2 DEF TypeInv, AccountOK
      <3>4. HubOK'
        BY <3>1, <3>2 DEF TypeInv, HubOK
      <3>5. QED
        BY <1>5, <2>1, <3>3, <3>4, WorkStays, CausesStay DEF DropClient, TypeInv
    <2>4. QED
      BY <2>2, <2>3
  <1>6. CASE DropUser(d)
    <2>1. AtOK' /\ AcctOK'
      BY <1>0, <1>6, DeletionAt DEF DropUser, Ending
    <2>2. AccountOK' /\ HubOK'
      BY <1>6 DEF DropUser, TypeInv, AccountOK, HubOK
    <2>3. QED
      BY <1>6, <2>1, <2>2, WorkStays, CausesStay DEF DropUser, TypeInv
  <1>7. QED
    BY <1>0, <1>1, <1>2, <1>3, <1>4, <1>5, <1>6, ClearTypes DEF DeleteUser

\* Tickets, failed queries and restarts.
LEMMA OutageTypes ==
    ASSUME TypeInv,
           \/ \E m \in Makers : FileTicket(m)
           \/ \E r \in Requests : FailQuery(r)
           \/ RestartRequests
    PROVE  TypeInv'
  <1>0. \A r \in Requests : Work(r) \subseteq Makers
    BY DEF Work, TypeInv, WorkOK
  <1>1. ASSUME NEW m \in Makers, FileTicket(m)
        PROVE  TypeInv'
    <2>1. UNCHANGED <<user, client, hub, named, session, cloud, requestVars, causeVars>>
      BY <1>1 DEF FileTicket
    <2>2. HubOK'
      BY <1>1, <2>1 DEF FileTicket, TypeInv, HubOK
    <2>3. AtOK' /\ AcctOK' /\ AccountOK'
      BY <2>1 DEF TypeInv, AtOK, AcctOK, AccountOK
    <2>4. QED
      BY <2>1, <2>2, <2>3, WorkStays, CausesStay DEF TypeInv
  <1>2. ASSUME NEW r \in Requests, FailQuery(r)
        PROVE  TypeInv'
    <2>1. UNCHANGED <<rowVars, cloud, gang, acct, mine, target, todo>>
      BY <1>2 DEF FailQuery
    <2>2. CauseOK'
      BY <1>0, <1>2 DEF FailQuery, TypeInv, CauseOK
    <2>3. AtOK' /\ AcctOK'
      <3>1. CASE r \in Makers
        <4>1. PICK s \in {"session", "done"} : Go(r, s) /\ (s = "session" => at[r] = "record")
          BY <1>2 DEF FailQuery
        <4>2. s \in Early \cup CloudStages \cup Late /\ (s \in Accountable => s = "session")
          BY DEF Late, Accountable, CloudStages
        <4>3. s = "session" => acct[r] # "none"
          BY <3>1, <4>1 DEF TypeInv, AcctOK, Accountable, CloudStages
        <4>4. QED
          BY <2>1, <3>1, <4>1, <4>2, <4>3, MakerGoes, MakerAccounts
      <3>2. CASE r \notin Makers
        <4>1. r \in Deletions
          BY <3>2 DEF Requests, Deletions
        <4>2. at[r] # "record"
          BY <4>1 DEF TypeInv, AtOK, Ending
        <4>3. Go(r, "done")
          BY <1>2, <4>2 DEF FailQuery
        <4>4. "done" \in Ending
          BY DEF Ending
        <4>5. QED
          BY <2>1, <4>1, <4>3, <4>4, DeletionAt
      <3>3. QED
        BY <3>1, <3>2
    <2>4. QED
      BY <2>1, <2>2, <2>3, RowsStay, WorkStays DEF TypeInv
  <1>3. CASE RestartRequests
    <2>1. UNCHANGED <<rowVars, cloud, gang, acct, mine, target, todo>>
      BY <1>3 DEF RestartRequests
    <2>2. CauseOK'
      BY <1>0, <1>3 DEF RestartRequests, TypeInv, CauseOK
    <2>3. /\ at' \in [Requests -> MakerStages \cup DeletionStages \cup {"new", "session", "done"}]
          /\ \A r \in Requests : at'[r] \in {at[r], "done"}
      BY <1>3 DEF RestartRequests, TypeInv, AtOK
    <2>4. "done" \in Late /\ "done" \in Ending /\ "done" \notin Accountable
      BY DEF Late, Ending, Accountable, CloudStages
    <2>5. AtOK' /\ AcctOK'
      BY <2>1, <2>3, <2>4 DEF TypeInv, AtOK, AcctOK, Requests, Deletions
    <2>6. QED
      BY <2>1, <2>2, <2>5, RowsStay, WorkStays DEF TypeInv
  <1>4. QED
    BY <1>1, <1>2, <1>3

LEMMA NextTypeInv == TypeInv /\ [ProvisioningNext]_provisioningVars => TypeInv'
  <1> SUFFICES ASSUME TypeInv, [ProvisioningNext]_provisioningVars
               PROVE  TypeInv'
    OBVIOUS
  <1>1. CASE UNCHANGED provisioningVars
    <2>1. UNCHANGED <<rowVars, cloud, requestVars, causeVars>>
      BY <1>1 DEF provisioningVars
    <2>2. AtOK' /\ AcctOK'
      BY <2>1 DEF TypeInv, AtOK, AcctOK
    <2>3. QED
      BY <2>1, <2>2, RowsStay, WorkStays, CausesStay DEF TypeInv
  <1>2. QED
    BY <1>1, AccountTypes, HubTypes, SessionTypes, HubDeletionTypes, UserDeletionTypes, OutageTypes
       DEF ProvisioningNext, ProvisionClient

\* Every reachable state is type correct.
THEOREM ProvisioningTypeCorrect == ProvisioningSpec => []ProvisioningTypeOK
  BY InitTypeInv, NextTypeInv, TypeInvSuffices, PTL DEF ProvisioningSpec

(***************************************************************************)
(* A hub has its session.                                                  *)
(***************************************************************************)

\* A hub is saved once, by a request that is past its account, for the client found.
SavedInv ==
    \A h \in Makers : hub[h] # "none" => at[h] \notin Early /\ hub[h] = acct[h]

\* While the session is deleted, the client's hubs are those saved meanwhile.
SweepInv ==
    \A d \in Deletions, h \in Makers :
        at[d] = "session" /\ hub[h] # "none" /\ hub[h] = acct[d] => h \in raced

\* A request that found the session, or has ended, leaves its hub with one.
EndedInv ==
    \A h \in Makers \ (lost \cup raced) :
        hub[h] # "none" /\ at[h] \in {"rotate", "done"} => hub[h] \in session

SessionInv == SavedInv /\ SweepInv /\ EndedInv

LEMMA SessionInvSuffices == SessionInv => HubHasSession
  BY DEF SessionInv, EndedInv, HubHasSession

LEMMA InitSessionInv == ProvisioningInit => SessionInv
  BY DEF ProvisioningInit, SessionInv, SavedInv, SweepInv, EndedInv

\* A step that saves no hub, deletes no session, begins no deletion of one, and at whose
\* end no other request than those it found so, or that failed, has ended.
LEMMA SessionStays ==
    ASSUME SessionInv, \A h \in Makers : hub'[h] \in {hub[h], "none"},
           \A h \in Makers : hub[h] # "none" =>
               /\ acct'[h] = acct[h]
               /\ at'[h] \notin Early \/ at'[h] = at[h]
               /\ at'[h] \in {"rotate", "done"} => at'[h] = at[h] \/ h \in lost',
           \A d \in Deletions : at'[d] = "session" => at[d] = "session" /\ acct'[d] = acct[d],
           session \subseteq session', lost \subseteq lost', raced \subseteq raced'
    PROVE  SessionInv'
  <1>1. SavedInv'
    BY DEF SessionInv, SavedInv
  <1>2. SweepInv'
    BY DEF SessionInv, SweepInv
  <1>3. EndedInv'
    BY DEF SessionInv, EndedInv
  <1>4. QED
    BY <1>1, <1>2, <1>3 DEF SessionInv

\* A request for a client takes a step that leaves the hubs' rows and sessions alone.
LEMMA MakerSession ==
    ASSUME TypeInv, SessionInv, NEW m \in Makers, NEW s, Go(m, s),
           s \in Early \cup CloudStages \cup Late, UNCHANGED <<hub, raced>>,
           session \subseteq session', lost \subseteq lost',
           \A r \in Requests \ {m} : acct'[r] = acct[r],
           hub[m] # "none" => /\ acct'[m] = acct[m] /\ s \notin Early
                              /\ s \in {"rotate", "done"} => m \in lost' \/ hub[m] \in session'
    PROVE  SessionInv'
  <1>1. at'[m] = s /\ \A r \in Requests \ {m} : at'[r] = at[r]
    BY MakerGoes
  <1>2. m \in Requests /\ Makers \subseteq Requests /\ Deletions \subseteq Requests \ {m}
    BY ProvisioningAssumption DEF Requests, Deletions
  <1>3. SavedInv'
    BY <1>1, <1>2 DEF SessionInv, SavedInv
  <1>4. SweepInv'
    BY <1>1, <1>2 DEF SessionInv, SweepInv
  <1>5. EndedInv'
    BY <1>1, <1>2 DEF SessionInv, EndedInv
  <1>6. QED
    BY <1>3, <1>4, <1>5 DEF SessionInv

LEMMA HubSaved ==
    ASSUME TypeInv, SessionInv, NEW m \in Makers, AddHub(m)
    PROVE  SessionInv'
  <1>1. hub[m] = "none" /\ UNCHANGED <<acct, session, lost>> /\ raced \subseteq raced'
    BY DEF AddHub, SessionInv, SavedInv, Early
  <1>2. CASE hub' = hub
    <2>1. PICK s \in {"tunnel", "done"} : Go(m, s)
      BY DEF AddHub
    <2>2. s \in Early \cup CloudStages \cup Late
      BY DEF CloudStages, Late
    <2>3. at'[m] = s /\ \A r \in Requests \ {m} : at'[r] = at[r]
      BY <2>1, <2>2, MakerGoes
    <2>4. Deletions \subseteq Requests \ {m} /\ Makers \subseteq Requests
      BY ProvisioningAssumption DEF Requests, Deletions
    <2>5. QED
      BY <1>1, <1>2, <2>3, <2>4, SessionStays
  <1>3. CASE hub' # hub
    <2>1. /\ client = acct[m] /\ hub' = [hub EXCEPT ![m] = client] /\ Go(m, "tunnel")
          /\ Sweeping(client) => m \in raced'
      BY <1>3 DEF AddHub
    <2>2. "tunnel" \in CloudStages /\ "tunnel" \notin Early
      BY DEF CloudStages, Early
    <2>3. at'[m] = "tunnel" /\ \A r \in Requests \ {m} : at'[r] = at[r]
      BY <2>1, <2>2, MakerGoes
    <2>4. Deletions \subseteq Requests \ {m} /\ Makers \subseteq Requests
      BY ProvisioningAssumption DEF Requests, Deletions
    <2>5. hub'[m] = client /\ \A h \in Makers \ {m} : hub'[h] = hub[h]
      BY <2>1 DEF TypeInv, HubOK
    <2>6. SavedInv'
      BY <1>1, <2>1, <2>2, <2>3, <2>4, <2>5 DEF SessionInv, SavedInv
    <2>7. SweepInv'
      <3> SUFFICES ASSUME NEW d \in Deletions, NEW h \in Makers,
                          at'[d] = "session", hub'[h] # "none", hub'[h] = acct[d]
                   PROVE  h \in raced'
        BY <1>1 DEF SweepInv
      <3>1. at[d] = "session"
        BY <2>3, <2>4
      <3>2. CASE h = m
        BY <2>1, <2>5, <3>1, <3>2 DEF Sweeping, Deletions
      <3>3. CASE h # m
        BY <1>1, <2>5, <3>1, <3>3 DEF SessionInv, SweepInv
      <3>4. QED
        BY <3>2, <3>3
    <2>8. EndedInv'
      BY <1>1, <2>3, <2>4, <2>5 DEF SessionInv, EndedInv
    <2>9. QED
      BY <2>6, <2>7, <2>8 DEF SessionInv
  <1>4. QED
    BY <1>2, <1>3

LEMMA MakersSession ==
    ASSUME TypeInv, SessionInv, NEW m \in Makers,
           ProvisionClient(m) \/ \E kept \in BOOLEAN : FailCall(m, kept)
    PROVE  SessionInv'
  <1>0. m \in Requests /\ m \notin Deletions
    BY ProvisioningAssumption DEF Requests, Deletions
  <1>1. CASE \/ StartExisting(m) \/ FindUser(m) \/ FindClient(m) \/ LinkUser(m)
             \/ CheckEmail(m) \/ AddUser(m) \/ AddClient(m)
    <2>1. at[m] \in Early
      BY <1>1 DEF StartExisting, FindUser, FindClient, LinkUser, CheckEmail, AddUser, AddClient,
         Begins, Early
    <2>2. hub[m] = "none"
      BY <2>1 DEF SessionInv, SavedInv
    <2>3. PICK s \in {"client", "link", "check", "adduser", "addclient", "hub", "done"} : Go(m, s)
      BY <1>1 DEF StartExisting, FindUser, FindClient, LinkUser, CheckEmail, AddUser, AddClient, GoWith
    <2>4. s \in Early \cup CloudStages \cup Late
      BY DEF Early, Late
    <2>5. UNCHANGED <<hub, raced, session, lost>>
      BY <1>1 DEF StartExisting, FindUser, FindClient, LinkUser, CheckEmail, AddUser, AddClient
    <2>6. \A r \in Requests \ {m} : acct'[r] = acct[r]
      BY <1>1 DEF StartExisting, FindUser, FindClient, LinkUser, CheckEmail, AddUser, AddClient,
         GoWith, TypeInv, AcctOK
    <2>7. QED
      BY <2>2, <2>3, <2>4, <2>5, <2>6, MakerSession
  <1>2. CASE MakeResource(m) \/ Configure(m) \/ Record(m)
    <2>1. PICK s \in {"config", "dns", "app", "record", "session"} : Go(m, s)
      <3>1. After["tunnel"] = "config" /\ After["dns"] = "app" /\ After["app"] = "record"
        BY DEF After
      <3>2. QED
        BY <1>2, <3>1 DEF MakeResource, Configure, Record, Resources
    <2>2. s \in Early \cup CloudStages \cup Late /\ s \notin Early
      BY DEF Early, Late, CloudStages
    <2>3. UNCHANGED <<hub, raced, session, lost, acct>>
      BY <1>2 DEF MakeResource, Configure, Record
    <2>4. QED
      BY <2>1, <2>2, <2>3, MakerSession
  <1>3. CASE \E kept \in BOOLEAN : FailCall(m, kept)
    <2>1. PICK s \in {"record", "session"} : Go(m, s)
      BY <1>3 DEF FailCall
    <2>2. s \in Early \cup CloudStages \cup Late /\ s \notin Early
      BY DEF Early, Late, CloudStages
    <2>3. UNCHANGED <<hub, raced, session, acct>> /\ lost \subseteq lost'
      BY <1>3 DEF FailCall
    <2>4. QED
      BY <2>1, <2>2, <2>3, MakerSession
  <1>4. CASE FindSession(m)
    <2>1. PICK s \in {"rotate", "addsession"} : Go(m, s) /\ (s = "rotate" => acct[m] \in session)
      BY <1>4 DEF FindSession
    <2>2. s \in Early \cup CloudStages \cup Late /\ s \notin Early
      BY DEF Early, Late
    <2>3. UNCHANGED <<hub, raced, session, lost, acct>>
      BY <1>4 DEF FindSession
    <2>4. hub[m] # "none" => hub[m] = acct[m]
      BY DEF SessionInv, SavedInv
    <2>5. QED
      BY <2>1, <2>2, <2>3, <2>4, MakerSession
  <1>5. CASE AddSession(m) \/ RotateSession(m)
    <2>1. Go(m, "done") /\ UNCHANGED <<hub, raced, lost, acct>> /\ session \subseteq session'
      BY <1>5 DEF AddSession, RotateSession
    <2>2. hub[m] # "none" => hub[m] \in session' \/ m \in raced \/ m \in lost
      <3>1. hub[m] # "none" => hub[m] = acct[m] /\ hub[m] = client
        BY DEF SessionInv, SavedInv, TypeInv, HubOK
      <3>2. CASE AddSession(m)
        BY <3>1, <3>2 DEF AddSession
      <3>3. CASE RotateSession(m)
        BY <2>1, <3>3 DEF RotateSession, SessionInv, EndedInv
      <3>4. QED
        BY <1>5, <3>2, <3>3
    <2>3. "done" \in Late /\ "done" \notin Early
      BY DEF Early, Late
    <2>4. at'[m] = "done" /\ \A r \in Requests \ {m} : at'[r] = at[r]
      BY <2>1, <2>3, MakerGoes
    <2>5. Deletions \subseteq Requests \ {m} /\ Makers \subseteq Requests
      BY ProvisioningAssumption DEF Requests, Deletions
    <2>6. SavedInv'
      BY <2>1, <2>3, <2>4, <2>5 DEF SessionInv, SavedInv
    <2>7. SweepInv'
      BY <2>1, <2>4, <2>5 DEF SessionInv, SweepInv
    <2>8. EndedInv'
      BY <2>1, <2>2, <2>4, <2>5 DEF SessionInv, EndedInv
    <2>9. QED
      BY <2>6, <2>7, <2>8 DEF SessionInv
  <1>6. QED
    BY <1>1, <1>2, <1>3, <1>4, <1>5, HubSaved DEF ProvisionClient

\* A deletion takes a step that deletes no session and goes on to none.
LEMMA DeletionSession ==
    ASSUME TypeInv, SessionInv, NEW d \in Deletions,
           \A r \in Requests \ {d} : at'[r] = at[r] /\ acct'[r] = acct[r],
           \A h \in Makers : hub'[h] \in {hub[h], "none"},
           at'[d] = "session" => \A h \in Makers : hub'[h] # "none" => hub'[h] # acct'[d],
           session \subseteq session', lost \subseteq lost', raced \subseteq raced'
    PROVE  SessionInv'
  <1>1. Makers \subseteq Requests \ {d} /\ Deletions \subseteq Requests
    BY ProvisioningAssumption DEF Requests, Deletions
  <1>2. SavedInv'
    BY <1>1 DEF SessionInv, SavedInv
  <1>3. SweepInv'
    BY <1>1 DEF SessionInv, SweepInv
  <1>4. EndedInv'
    BY <1>1 DEF SessionInv, EndedInv
  <1>5. QED
    BY <1>2, <1>3, <1>4 DEF SessionInv

LEMMA DropRowsSession ==
    ASSUME TypeInv, SessionInv, NEW d \in Deletions, NEW H, NEW next \in {"count", "session"},
           Drop(d, H, next), next = "session" => HubsOf(acct[d]) \subseteq H,
           UNCHANGED <<acct, session, lost, raced>>
    PROVE  SessionInv'
  <1>1. \A h \in Makers : hub'[h] \in {hub[h], "none"}
    BY DEF Drop
  <1>2. PICK s \in {"count", "session", "done"} : Go(d, s) /\ (s = "session" => next = "session" /\ H \cap ticketed = {})
    BY DEF Drop
  <1>3. s \in Ending
    BY DEF Ending
  <1>4. at'[d] = s /\ \A r \in Requests \ {d} : at'[r] = at[r]
    BY <1>2, <1>3, DeletionGoes
  <1>5. s = "session" => \A h \in Makers : hub'[h] # "none" => hub'[h] # acct[d]
    BY <1>2 DEF Drop, HubsOf
  <1>6. QED
    BY <1>1, <1>4, <1>5, DeletionSession

LEMMA SweepSession ==
    ASSUME TypeInv, SessionInv, NEW d \in Deletions, DropSession(d)
    PROVE  SessionInv'
  <1>1. PICK s \in {"done", "dropclient"} : Go(d, s)
    BY DEF DropSession
  <1>2. at'[d] = s /\ \A r \in Requests \ {d} : at'[r] = at[r]
    BY <1>1, DeletionGoes DEF Ending
  <1>3. Makers \subseteq Requests \ {d} /\ Deletions \subseteq Requests
    BY ProvisioningAssumption DEF Requests, Deletions
  <1>4. UNCHANGED <<hub, acct, lost, raced>> /\ session' = session \ {acct[d]} /\ at[d] = "session"
    BY DEF DropSession
  <1>5. SavedInv'
    BY <1>2, <1>3, <1>4 DEF SessionInv, SavedInv
  <1>6. SweepInv'
    BY <1>2, <1>3, <1>4 DEF SessionInv, SweepInv
  <1>7. EndedInv'
    <2> SUFFICES ASSUME NEW h \in Makers \ (lost \cup raced), hub[h] # "none",
                        at'[h] \in {"rotate", "done"}
                 PROVE  hub[h] \in session'
      BY <1>4 DEF EndedInv
    <2>1. hub[h] \in session
      BY <1>2, <1>3 DEF SessionInv, EndedInv
    <2>2. hub[h] # acct[d]
      BY <1>4 DEF SessionInv, SweepInv
    <2>3. QED
      BY <1>4, <2>1, <2>2
  <1>8. QED
    BY <1>5, <1>6, <1>7 DEF SessionInv

LEMMA DeletionsSession ==
    ASSUME TypeInv, SessionInv, NEW d \in Deletions, DeleteHub(d) \/ DeleteUser(d)
    PROVE  SessionInv'
  <1>0. d \in Requests /\ acct \in [Requests -> Makers \cup {"none"}]
    BY DEF Requests, Deletions, TypeInv, AcctOK
  <1>1. CASE (\E h \in Makers : FindHub(d, h)) \/ FindClientOf(d) \/ ListHubs(d) \/ Cleared(d)
             \/ DropClient(d) \/ DropUser(d)
    <2>1. PICK s \in {"clear", "list", "drop", "dropuser", "done"} : Go(d, s)
      BY <1>1 DEF FindHub, FindClientOf, ListHubs, Cleared, DropClient, DropUser, GoWith
    <2>2. at'[d] = s /\ \A r \in Requests \ {d} : at'[r] = at[r]
      BY <2>1, DeletionGoes DEF Ending
    <2>3. \A r \in Requests \ {d} : acct'[r] = acct[r]
      BY <1>0, <1>1 DEF FindHub, FindClientOf, ListHubs, Cleared, DropClient, DropUser, GoWith
    <2>4. UNCHANGED <<hub, session, lost, raced>>
      BY <1>1 DEF FindHub, FindClientOf, ListHubs, Cleared, DropClient, DropUser
    <2>5. QED
      BY <2>2, <2>3, <2>4, DeletionSession
  <1>2. ASSUME NEW h \in Makers, NEW r \in Resources, ClearResource(d, h, r) \/ FailClear(d, h, r)
        PROVE  SessionInv'
    BY <1>2, SessionStays DEF ClearResource, FailClear
  <1>3. CASE DropHub(d)
    BY <1>3, DropRowsSession DEF DropHub
  <1>4. CASE DropHubs(d)
    BY <1>4, DropRowsSession DEF DropHubs
  <1>5. CASE CountHubs(d)
    <2>1. PICK s \in {"session", "done"} : Go(d, s) /\ (s = "session" => HubsOf(acct[d]) = {})
      BY <1>5 DEF CountHubs
    <2>2. at'[d] = s /\ \A r \in Requests \ {d} : at'[r] = at[r]
      BY <2>1, DeletionGoes DEF Ending
    <2>3. UNCHANGED <<hub, acct, session, lost, raced>>
      BY <1>5 DEF CountHubs
    <2>4. QED
      BY <2>1, <2>2, <2>3, DeletionSession DEF HubsOf
  <1>6. QED
    BY <1>1, <1>2, <1>3, <1>4, <1>5, SweepSession DEF DeleteHub, DeleteUser, ClearCloudflare

LEMMA NextSessionInv ==
  TypeInv /\ SessionInv /\ [ProvisioningNext]_provisioningVars => SessionInv'
  <1> SUFFICES ASSUME TypeInv, SessionInv, [ProvisioningNext]_provisioningVars
               PROVE  SessionInv'
    OBVIOUS
  <1>1. ASSUME NEW m \in Makers, FileTicket(m)
        PROVE  SessionInv'
    BY <1>1, SessionStays DEF FileTicket
  <1>2. ASSUME NEW r \in Requests, FailQuery(r)
        PROVE  SessionInv'
    <2>1. UNCHANGED <<hub, session, acct, raced>> /\ lost' = lost \cup Work(r)
      BY <1>2 DEF FailQuery
    <2>2. PICK s \in {"session", "done"} : Go(r, s) /\ (s = "session" => at[r] = "record")
      BY <1>2 DEF FailQuery
    <2>3. CASE r \in Makers
      <3>1. r \in lost' /\ s \in Early \cup CloudStages \cup Late /\ s \notin Early
        BY <2>1, <2>3 DEF Work, Late, Early
      <3>2. QED
        BY <2>1, <2>2, <2>3, <3>1, MakerSession
    <2>4. CASE r \notin Makers
      <3>1. r \in Deletions
        BY <2>4 DEF Requests, Deletions
      <3>2. at[r] # "record" /\ s \in Ending
        BY <3>1 DEF TypeInv, AtOK, Ending
      <3>3. at'[r] = "done" /\ \A q \in Requests \ {r} : at'[q] = at[q]
        BY <2>2, <3>1, <3>2, DeletionGoes
      <3>4. QED
        BY <2>1, <3>1, <3>3, DeletionSession
    <2>5. QED
      BY <2>3, <2>4
  <1>3. CASE RestartRequests
    <2>1. UNCHANGED <<hub, session, acct, raced>>
      BY <1>3 DEF RestartRequests
    <2>2. \A r \in Requests : at'[r] = at[r] \/ (Busy(r) /\ at'[r] = "done")
      BY <1>3 DEF RestartRequests
    <2>3. \A m \in Makers : Busy(m) => m \in lost'
      BY <1>3 DEF RestartRequests, Work, Requests
    <2>4. lost \subseteq lost' /\ "done" \notin Early
      BY <1>3 DEF RestartRequests, Early
    <2>5. QED
      BY <2>1, <2>2, <2>3, <2>4, SessionStays DEF Requests, Deletions
  <1>4. CASE UNCHANGED provisioningVars
    BY <1>4, SessionStays DEF provisioningVars
  <1>5. QED
    BY <1>1, <1>2, <1>3, <1>4, MakersSession, DeletionsSession DEF ProvisioningNext, Deletions

\* "Only tear it down once this was the client's last remaining hub": a hub that is made has
\* its session, unless its request failed or it was saved after a deletion had counted none.
THEOREM HubsHaveSessions == ProvisioningSpec => []HubHasSession
  BY InitTypeInv, NextTypeInv, InitSessionInv, NextSessionInv, SessionInvSuffices, PTL
     DEF ProvisioningSpec

(***************************************************************************)
(* A hub's row names the resources there are.                              *)
(***************************************************************************)

Spoiled == lost \cup overlapped \cup refused

\* A deletion is removing h.
Removing(d, h) == at[d] \in {"clear", "drop"} /\ h \in target[d]

\* Nothing is made for a hub before its row.
NothingYet == \A h \in Makers : at[h] \in Early => cloud[h] = {} /\ mine[h] = {}

\* A deletion is about hubs that were saved, and is past their resources when it deletes rows.
Targets ==
    \A d \in Deletions :
        /\ \A h \in Makers : Removing(d, h) => at[h] \notin Early
        /\ \A h \in Makers, r \in Resources :
               at[d] = "clear" /\ <<h, r>> \in todo[d] => h \in target[d]
        /\ at[d] = "drop" => todo[d] = {}

\* A user's deletion removes the client's hubs, but for those saved after it listed them.
OwnHubs ==
    \A d \in UserDeletions :
        /\ at[d] \in {"list", "clear", "drop"} => acct[d] # "none"
        /\ \A h \in Makers :
               /\ Removing(d, h) => hub[h] \in {"none", acct[d]}
               /\ at[d] \in {"clear", "drop"} /\ hub[h] # "none" /\ hub[h] = acct[d] =>
                      h \in target[d] \/ h \in overlapped

\* While h's resources are made, its request has them all in memory.
MakingInv ==
    \A h \in Makers \ Spoiled : at[h] \in CloudStages =>
        /\ hub[h] # "none" /\ cloud[h] = mine[h]
        /\ \A d \in Deletions : ~Removing(d, h)

\* Once they are on record, they are what is on record, unless a deletion removes h, and then
\* every one it has not come to is still on its list.
MadeInv ==
    \A h \in Makers \ Spoiled : at[h] \in Late =>
        /\ cloud[h] \subseteq named[h]
        /\ cloud[h] = named[h] \/ \E d \in Deletions : Removing(d, h)
        /\ \A d \in Deletions : Removing(d, h) => \A r \in cloud[h] : <<h, r>> \in todo[d]

ResourceInv == NothingYet /\ Targets /\ OwnHubs /\ MakingInv /\ MadeInv

LEMMA ResourceInvSuffices ==
    ASSUME TypeInv, SavedInv, ResourceInv
    PROVE  HubResourcesKept
  <1> SUFFICES ASSUME NEW h \in Makers \ Spoiled, Settled(h)
               PROVE  cloud[h] = named[h]
    BY DEF HubResourcesKept, Spoiled
  <1>1. at[h] \in Early \/ at[h] \in Late
    BY DEF Settled, TypeInv, AtOK
  <1>2. CASE at[h] \in Early
    BY <1>2 DEF ResourceInv, NothingYet, SavedInv, TypeInv, HubOK
  <1>3. CASE at[h] \in Late
    BY <1>3 DEF ResourceInv, MadeInv, Settled, Removing, Deletions
  <1>4. QED
    BY <1>1, <1>2, <1>3

LEMMA InitResourceInv == ProvisioningInit => ResourceInv
  <1> SUFFICES ASSUME ProvisioningInit
               PROVE  ResourceInv
    OBVIOUS
  <1>1. /\ \A r \in Requests : at[r] = "new"
        /\ \A h \in Makers : cloud[h] = {} /\ mine[h] = {} /\ named[h] = {}
    BY DEF ProvisioningInit
  <1>2. \A d \in Deletions : at[d] = "new" /\ \A h \in Makers : ~Removing(d, h)
    BY <1>1 DEF Removing, Requests, Deletions
  <1>3. NothingYet /\ MadeInv
    BY <1>1, <1>2 DEF NothingYet, MadeInv
  <1>4. Targets /\ OwnHubs
    BY <1>2 DEF Targets, OwnHubs, Deletions
  <1>5. \A h \in Makers : at[h] \notin CloudStages
    BY <1>1 DEF CloudStages, Requests
  <1>6. QED
    BY <1>3, <1>4, <1>5 DEF ResourceInv, MakingInv

\* A request's step that leaves its hub's row, resources and record alone, or spoils it.
LEMMA MakerResource ==
    ASSUME TypeInv, SavedInv, ResourceInv, NEW m \in Makers, NEW s, Go(m, s),
           s \in Early \cup CloudStages \cup Late,
           \A d \in Deletions : acct'[d] = acct[d],
           UNCHANGED <<hub, named, mine, target, todo>>, Spoiled \subseteq Spoiled',
           overlapped \subseteq overlapped',
           \A h \in Makers : cloud'[h] = cloud[h] \/ (h = m /\ m \in Spoiled'),
           \/ s \in Early /\ at[m] \in Early
           \/ s \notin Early /\ m \in Spoiled'
           \/ s = "done" /\ at[m] \in Early
           \/ s \in CloudStages /\ at[m] \in CloudStages
           \/ s \in Late /\ at[m] \in Late,
           s \in Early => m \notin Spoiled' \/ cloud' = cloud
    PROVE  ResourceInv'
  <1>1. at'[m] = s /\ \A r \in Requests \ {m} : at'[r] = at[r]
    BY MakerGoes
  <1>2. m \in Requests /\ Makers \subseteq Requests /\ Deletions \subseteq Requests \ {m}
    BY ProvisioningAssumption DEF Requests, Deletions
  <1>3. \A d \in Deletions, h \in Makers : Removing(d, h)' <=> Removing(d, h)
    BY <1>1, <1>2 DEF Removing
  <1>4. /\ "done" \in Late /\ Early \cap Late = {} /\ Early \cap CloudStages = {}
        /\ Late \cap CloudStages = {}
    BY DEF Early, Late, CloudStages
  <1>5. NothingYet'
    BY <1>1, <1>2, <1>4 DEF ResourceInv, NothingYet
  <1>6. Targets'
    BY <1>1, <1>2, <1>3, <1>4 DEF ResourceInv, Targets
  <1>7. OwnHubs'
    BY <1>1, <1>2, <1>3 DEF ResourceInv, OwnHubs, Deletions
  <1>8. MakingInv'
    BY <1>1, <1>2, <1>3, <1>4 DEF ResourceInv, MakingInv
  <1>9. MadeInv'
    <2> SUFFICES ASSUME NEW h \in Makers \ Spoiled', at'[h] \in Late
                 PROVE  /\ cloud'[h] \subseteq named[h]
                        /\ cloud'[h] = named[h] \/ \E d \in Deletions : Removing(d, h)
                        /\ \A d \in Deletions : Removing(d, h) => \A r \in cloud'[h] : <<h, r>> \in todo[d]
      BY <1>3 DEF MadeInv
    <2>1. cloud'[h] = cloud[h] /\ h \notin Spoiled
      OBVIOUS
    <2>2. CASE at[h] \in Late
      BY <2>1, <2>2 DEF ResourceInv, MadeInv
    <2>3. CASE at[h] \notin Late
      <3>1. h = m /\ at[m] \in Early
        BY <1>1, <1>2, <1>4, <2>3
      <3>2. cloud[h] = {} /\ named[h] = {}
        BY <3>1 DEF ResourceInv, NothingYet, SavedInv, TypeInv, HubOK
      <3>3. QED
        BY <2>1, <3>2
    <2>4. QED
      BY <2>2, <2>3
  <1>10. QED
    BY <1>5, <1>6, <1>7, <1>8, <1>9 DEF ResourceInv

\* The row of a hub is saved: no deletion is about it, unless one has listed the client's hubs.
LEMMA HubAdded ==
    ASSUME TypeInv, SavedInv, ResourceInv, NEW m \in Makers, AddHub(m)
    PROVE  ResourceInv'
  <1>0. /\ UNCHANGED <<acct, named, cloud, mine, target, todo, lost, refused>>
        /\ at[m] = "hub" /\ "hub" \in Early /\ overlapped \subseteq overlapped'
    BY DEF AddHub, Early
  <1>1. Spoiled \subseteq Spoiled'
    BY <1>0 DEF Spoiled
  <1>2. CASE hub' = hub
    <2>1. PICK s \in {"tunnel", "done"} : Go(m, s) /\ (s = "tunnel" => hub'[m] = client /\ client = acct[m])
      BY DEF AddHub, TypeInv, HubOK
    <2>2. hub[m] = "none" /\ acct[m] # "none"
      BY <1>0 DEF SavedInv, TypeInv, AcctOK, Accountable
    <2>3. s = "done" /\ s \in Late
      BY <1>2, <2>1, <2>2 DEF Late
    <2>4. QED
      BY <1>0, <1>1, <1>2, <2>1, <2>3, MakerResource
  <1>3. CASE hub' # hub
    <2>1. /\ client = acct[m] /\ hub' = [hub EXCEPT ![m] = client] /\ Go(m, "tunnel")
          /\ Listed(client) => m \in overlapped'
      BY <1>3 DEF AddHub
    <2>2. "tunnel" \in CloudStages /\ "tunnel" \notin Early /\ "tunnel" \notin Late
      BY DEF CloudStages, Early, Late
    <2>3. at'[m] = "tunnel" /\ \A r \in Requests \ {m} : at'[r] = at[r]
      BY <2>1, <2>2, MakerGoes
    <2>4. Deletions \subseteq Requests \ {m} /\ Makers \subseteq Requests /\ UserDeletions \subseteq Deletions
      BY ProvisioningAssumption DEF Requests, Deletions
    <2>5. hub'[m] = client /\ client # "none" /\ \A h \in Makers \ {m} : hub'[h] = hub[h]
      BY <1>0, <2>1 DEF TypeInv, HubOK, AcctOK, Accountable
    <2>6. \A d \in Deletions : ~Removing(d, m)
      BY <1>0 DEF ResourceInv, Targets
    <2>7. \A d \in Deletions, h \in Makers : Removing(d, h)' <=> Removing(d, h)
      BY <1>0, <2>3, <2>4 DEF Removing
    <2>8. cloud[m] = {} /\ mine[m] = {}
      BY <1>0 DEF ResourceInv, NothingYet
    <2>9. NothingYet'
      BY <1>0, <2>2, <2>3, <2>4 DEF ResourceInv, NothingYet
    <2>10. Targets'
      BY <1>0, <2>2, <2>3, <2>4, <2>7 DEF ResourceInv, Targets
    <2>11. OwnHubs'
      <3>0. \A d \in UserDeletions : at'[d] \in {"list", "clear", "drop"} => acct[d] # "none"
        BY <2>3, <2>4 DEF ResourceInv, OwnHubs
      <3> SUFFICES ASSUME NEW d \in UserDeletions, NEW h \in Makers
                   PROVE  /\ Removing(d, h)' => hub'[h] \in {"none", acct[d]}
                          /\ at'[d] \in {"clear", "drop"} /\ hub'[h] # "none" /\ hub'[h] = acct[d] =>
                                 h \in target[d] \/ h \in overlapped'
        BY <1>0, <3>0 DEF OwnHubs
      <3>1. at'[d] = at[d] /\ (Removing(d, h)' <=> Removing(d, h)) /\ d \in Deletions
        BY <2>3, <2>4, <2>7
      <3>2. CASE h = m
        BY <2>1, <2>5, <2>6, <3>1, <3>2 DEF Listed, ResourceInv, OwnHubs
      <3>3. CASE h # m
        BY <1>0, <2>5, <3>1, <3>3 DEF ResourceInv, OwnHubs
      <3>4. QED
        BY <3>2, <3>3
    <2>12. MakingInv'
      BY <1>0, <1>1, <2>2, <2>3, <2>4, <2>5, <2>6, <2>7, <2>8 DEF ResourceInv, MakingInv
    <2>13. MadeInv'
      BY <1>0, <1>1, <2>2, <2>3, <2>4, <2>7 DEF ResourceInv, MadeInv
    <2>14. QED
      BY <2>9, <2>10, <2>11, <2>12, <2>13 DEF ResourceInv
  <1>4. QED
    BY <1>2, <1>3

\* A resource is made, or what was made is put on record, by the hub's own request.
LEMMA ResourceMade ==
    ASSUME TypeInv, SavedInv, ResourceInv, NEW m \in Makers, MakeResource(m) \/ Record(m)
    PROVE  ResourceInv'
  <1>0. /\ UNCHANGED <<hub, acct, target, todo, lost, overlapped, refused>>
        /\ at[m] \in CloudStages /\ Spoiled' = Spoiled
    BY DEF MakeResource, Record, CloudStages, Resources, Spoiled
  <1>1. PICK s \in {"config", "app", "record", "session"} :
            Go(m, s) /\ (s = "session" <=> Record(m))
    <2>1. After["tunnel"] = "config" /\ After["dns"] = "app" /\ After["app"] = "record"
      BY DEF After
    <2>2. QED
      BY <2>1 DEF MakeResource, Record, Resources
  <1>2. s \notin Early /\ s \in CloudStages \cup Late /\ (s \in Late <=> s = "session")
    BY DEF Early, Late, CloudStages
  <1>3. at'[m] = s /\ \A r \in Requests \ {m} : at'[r] = at[r]
    BY <1>1, <1>2, MakerGoes
  <1>4. Deletions \subseteq Requests \ {m} /\ Makers \subseteq Requests /\ UserDeletions \subseteq Deletions
    BY ProvisioningAssumption DEF Requests, Deletions
  <1>5. \A d \in Deletions, h \in Makers : Removing(d, h)' <=> Removing(d, h)
    BY <1>0, <1>3, <1>4 DEF Removing
  <1>6. \A h \in Makers \ {m} : cloud'[h] = cloud[h] /\ mine'[h] = mine[h] /\ named'[h] = named[h]
    BY DEF MakeResource, Record, TypeInv, WorkOK, HubOK
  <1>7. cloud[m] = mine[m] => cloud'[m] = mine'[m]
    BY DEF MakeResource, Record, TypeInv, WorkOK
  <1>8. NothingYet'
    BY <1>2, <1>3, <1>4, <1>6 DEF ResourceInv, NothingYet
  <1>9. Targets'
    BY <1>0, <1>2, <1>3, <1>4, <1>5 DEF ResourceInv, Targets
  <1>10. OwnHubs'
    BY <1>0, <1>3, <1>4, <1>5 DEF ResourceInv, OwnHubs
  <1>11. MakingInv'
    BY <1>0, <1>3, <1>4, <1>5, <1>6, <1>7 DEF ResourceInv, MakingInv
  <1>12. MadeInv'
    <2> SUFFICES ASSUME NEW h \in Makers \ Spoiled, at'[h] \in Late
                 PROVE  /\ cloud'[h] \subseteq named'[h]
                        /\ cloud'[h] = named'[h] \/ \E d \in Deletions : Removing(d, h)
                        /\ \A d \in Deletions : Removing(d, h) => \A r \in cloud'[h] : <<h, r>> \in todo[d]
      BY <1>0, <1>5 DEF MadeInv
    <2>1. CASE h # m
      BY <1>3, <1>4, <1>6, <2>1 DEF ResourceInv, MadeInv
    <2>2. CASE h = m
      <3>1. Record(m)
        BY <1>1, <1>2, <1>3, <2>2
      <3>2. hub[m] # "none" /\ cloud[m] = mine[m] /\ \A d \in Deletions : ~Removing(d, m)
        BY <1>0, <2>2 DEF ResourceInv, MakingInv
      <3>3. named'[m] = mine[m] /\ cloud' = cloud
        BY <3>1, <3>2 DEF Record, TypeInv, HubOK
      <3>4. QED
        BY <2>2, <3>2, <3>3
    <2>3. QED
      BY <2>1, <2>2
  <1>13. QED
    BY <1>8, <1>9, <1>10, <1>11, <1>12 DEF ResourceInv

LEMMA MakersResource ==
    ASSUME TypeInv, SavedInv, ResourceInv, NEW m \in Makers,
           ProvisionClient(m) \/ \E kept \in BOOLEAN : FailCall(m, kept)
    PROVE  ResourceInv'
  <1>0. m \in Requests /\ Deletions \subseteq Requests \ {m}
    BY ProvisioningAssumption DEF Requests, Deletions
  <1>1. CASE \/ StartExisting(m) \/ FindUser(m) \/ FindClient(m) \/ LinkUser(m)
             \/ CheckEmail(m) \/ AddUser(m) \/ AddClient(m)
    <2>1. at[m] \in Early
      BY <1>1 DEF StartExisting, FindUser, FindClient, LinkUser, CheckEmail, AddUser, AddClient,
         Begins, Early
    <2>2. PICK s \in {"client", "link", "check", "adduser", "addclient", "hub", "done"} : Go(m, s)
      BY <1>1 DEF StartExisting, FindUser, FindClient, LinkUser, CheckEmail, AddUser, AddClient, GoWith
    <2>3. s \in Early \cup CloudStages \cup Late /\ (s \in Early \/ s = "done")
      BY DEF Early, Late
    <2>4. UNCHANGED <<hub, named, cloud, mine, target, todo, lost, overlapped, refused>>
      BY <1>1 DEF StartExisting, FindUser, FindClient, LinkUser, CheckEmail, AddUser, AddClient
    <2>5. \A r \in Requests \ {m} : acct'[r] = acct[r]
      BY <1>1 DEF StartExisting, FindUser, FindClient, LinkUser, CheckEmail, AddUser, AddClient,
         GoWith, TypeInv, AcctOK
    <2>6. Spoiled' = Spoiled
      BY <2>4 DEF Spoiled
    <2>7. QED
      BY <1>0, <2>1, <2>2, <2>3, <2>4, <2>5, <2>6, MakerResource
  <1>2. CASE Configure(m)
    <2>1. Go(m, "dns") /\ at[m] \in CloudStages /\ "dns" \in CloudStages /\ "dns" \notin Early
      BY <1>2 DEF Configure, CloudStages, Early
    <2>2. UNCHANGED <<hub, named, cloud, acct, mine, target, todo, lost, overlapped, refused>>
      BY <1>2 DEF Configure
    <2>3. Spoiled' = Spoiled
      BY <2>2 DEF Spoiled
    <2>4. QED
      BY <2>1, <2>2, <2>3, MakerResource
  <1>3. CASE FindSession(m) \/ AddSession(m) \/ RotateSession(m)
    <2>1. PICK s \in {"rotate", "addsession", "done"} : Go(m, s)
      BY <1>3 DEF FindSession, AddSession, RotateSession
    <2>2. at[m] \in Late /\ s \in Late /\ s \notin Early
      BY <1>3 DEF FindSession, AddSession, RotateSession, Late, Early
    <2>3. UNCHANGED <<hub, named, cloud, acct, mine, target, todo, lost, overlapped, refused>>
      BY <1>3 DEF FindSession, AddSession, RotateSession
    <2>4. Spoiled' = Spoiled
      BY <2>3 DEF Spoiled
    <2>5. QED
      BY <2>1, <2>2, <2>3, <2>4, MakerResource
  <1>4. ASSUME NEW kept \in BOOLEAN, FailCall(m, kept)
        PROVE  ResourceInv'
    <2>1. PICK s \in {"record", "session"} : Go(m, s)
      BY <1>4 DEF FailCall
    <2>2. s \in CloudStages \cup Late /\ s \notin Early
      BY DEF CloudStages, Late, Early
    <2>3. UNCHANGED <<hub, named, acct, mine, target, todo, overlapped, refused>> /\ lost' = lost \cup {m}
      BY <1>4 DEF FailCall
    <2>4. \A h \in Makers : cloud'[h] = cloud[h] \/ h = m
      BY <1>4 DEF FailCall, TypeInv, WorkOK
    <2>5. Spoiled \subseteq Spoiled' /\ m \in Spoiled'
      BY <2>3 DEF Spoiled
    <2>6. QED
      BY <2>1, <2>2, <2>3, <2>4, <2>5, MakerResource
  <1>5. QED
    BY <1>1, <1>2, <1>3, <1>4, HubAdded, ResourceMade DEF ProvisionClient

\* A step of d's: what it must leave so of each hub that nothing spoiled, and of d.
LEMMA DeletionResource ==
    ASSUME TypeInv, ResourceInv, NEW d \in Deletions,
           \A r \in Requests \ {d} : /\ at'[r] = at[r] /\ acct'[r] = acct[r]
                                     /\ target'[r] = target[r] /\ todo'[r] = todo[r],
           mine' = mine, Spoiled \subseteq Spoiled', overlapped \subseteq overlapped',
           \A h \in Makers : hub'[h] \in {hub[h], "none"} /\ cloud'[h] \subseteq cloud[h],
           \A h \in Makers \ Spoiled' :
               /\ at[h] \in CloudStages =>
                      hub'[h] = hub[h] /\ cloud'[h] = cloud[h] /\ ~Removing(d, h)'
               /\ at[h] \in Late =>
                      /\ cloud'[h] \subseteq named'[h]
                      /\ cloud'[h] = named'[h] \/ \E e \in Deletions : Removing(e, h)'
                      /\ Removing(d, h)' => \A r \in cloud'[h] : <<h, r>> \in todo'[d],
           \A h \in Makers : Removing(d, h)' => at[h] \notin Early,
           \A h \in Makers, r \in Resources :
               at'[d] = "clear" /\ <<h, r>> \in todo'[d] => h \in target'[d],
           at'[d] = "drop" => todo'[d] = {},
           d \in UserDeletions /\ at'[d] \in {"list", "clear", "drop"} => acct'[d] # "none",
           d \in UserDeletions => \A h \in Makers :
               /\ Removing(d, h)' => hub'[h] \in {"none", acct'[d]}
               /\ at'[d] \in {"clear", "drop"} /\ hub'[h] # "none" /\ hub'[h] = acct'[d] =>
                      h \in target'[d] \/ h \in overlapped'
    PROVE  ResourceInv'
  <1>1. Makers \subseteq Requests \ {d} /\ Deletions \subseteq Requests /\ UserDeletions \subseteq Deletions
    BY ProvisioningAssumption DEF Requests, Deletions
  <1>2. \A e \in Deletions \ {d}, h \in Makers : Removing(e, h)' <=> Removing(e, h)
    BY <1>1 DEF Removing
  <1>3. NothingYet'
    BY <1>1 DEF ResourceInv, NothingYet
  <1>4. Targets'
    <2> SUFFICES ASSUME NEW e \in Deletions
                 PROVE  /\ \A h \in Makers : Removing(e, h)' => at'[h] \notin Early
                        /\ \A h \in Makers, r \in Resources :
                               at'[e] = "clear" /\ <<h, r>> \in todo'[e] => h \in target'[e]
                        /\ at'[e] = "drop" => todo'[e] = {}
      BY DEF Targets
    <2>1. CASE e = d
      BY <1>1, <2>1
    <2>2. CASE e # d
      BY <1>1, <1>2, <2>2 DEF ResourceInv, Targets
    <2>3. QED
      BY <2>1, <2>2
  <1>5. OwnHubs'
    <2>0. \A e \in UserDeletions : at'[e] \in {"list", "clear", "drop"} => acct'[e] # "none"
      BY <1>1 DEF ResourceInv, OwnHubs
    <2> SUFFICES ASSUME NEW e \in UserDeletions, NEW h \in Makers
                 PROVE  /\ Removing(e, h)' => hub'[h] \in {"none", acct'[e]}
                        /\ at'[e] \in {"clear", "drop"} /\ hub'[h] # "none" /\ hub'[h] = acct'[e] =>
                               h \in target'[e] \/ h \in overlapped'
      BY <2>0 DEF OwnHubs
    <2>1. CASE e = d
      BY <2>1
    <2>2. CASE e # d
      BY <1>1, <1>2, <2>2 DEF ResourceInv, OwnHubs
    <2>3. QED
      BY <2>1, <2>2
  <1>6. MakingInv'
    BY <1>1, <1>2 DEF ResourceInv, MakingInv
  <1>7. MadeInv'
    <2> SUFFICES ASSUME NEW h \in Makers \ Spoiled', at'[h] \in Late
                 PROVE  /\ cloud'[h] \subseteq named'[h]
                        /\ cloud'[h] = named'[h] \/ \E e \in Deletions : Removing(e, h)'
                        /\ \A e \in Deletions : Removing(e, h)' => \A r \in cloud'[h] : <<h, r>> \in todo'[e]
      BY DEF MadeInv
    <2>1. at[h] \in Late /\ h \in Makers \ Spoiled
      BY <1>1
    <2>2. \A e \in Deletions \ {d} : Removing(e, h)' => \A r \in cloud'[h] : <<h, r>> \in todo'[e]
      BY <1>1, <1>2, <2>1 DEF ResourceInv, MadeInv
    <2>3. QED
      BY <2>1, <2>2
  <1>8. QED
    BY <1>3, <1>4, <1>5, <1>6, <1>7 DEF ResourceInv

\* A deletion that goes on to where it removes nothing, and has removed no row.
LEMMA DeletionQuiet ==
    ASSUME TypeInv, ResourceInv, NEW d \in Deletions, NEW s, Go(d, s),
           s \in Ending \ {"clear", "drop"}, \A r \in Requests \ {d} : acct'[r] = acct[r],
           UNCHANGED <<hub, named, cloud, mine, target, todo>>,
           Spoiled \subseteq Spoiled', overlapped \subseteq overlapped',
           \A h \in Makers : Removing(d, h) => h \in Spoiled',
           s = "list" => acct'[d] # "none"
    PROVE  ResourceInv'
  <1>1. at'[d] = s /\ \A r \in Requests \ {d} : at'[r] = at[r]
    BY DeletionGoes
  <1>2. Makers \subseteq Requests \ {d} /\ Deletions \subseteq Requests
    BY ProvisioningAssumption DEF Requests, Deletions
  <1>3. \A h \in Makers : ~Removing(d, h)'
    BY <1>1 DEF Removing
  <1>4. \A e \in Deletions \ {d}, h \in Makers : Removing(e, h)' <=> Removing(e, h)
    BY <1>1, <1>2 DEF Removing
  <1>5. \A h \in Makers \ Spoiled' :
            /\ at[h] \in CloudStages => ~Removing(d, h)'
            /\ at[h] \in Late =>
                   /\ cloud'[h] \subseteq named'[h]
                   /\ cloud'[h] = named'[h] \/ \E e \in Deletions : Removing(e, h)'
    <2> SUFFICES ASSUME NEW h \in Makers \ Spoiled', at[h] \in Late
                 PROVE  /\ cloud'[h] \subseteq named'[h]
                        /\ cloud'[h] = named'[h] \/ \E e \in Deletions : Removing(e, h)'
      BY <1>3
    <2>1. cloud[h] \subseteq named[h] /\ (cloud[h] = named[h] \/ \E e \in Deletions : Removing(e, h))
      BY DEF ResourceInv, MadeInv
    <2>2. \A e \in Deletions : Removing(e, h) => Removing(e, h)'
      BY <1>4
    <2>3. QED
      BY <2>1, <2>2
  <1>6. QED
    BY <1>1, <1>2, <1>3, <1>5, DeletionResource

\* A resource is removed, or its removal fails.
LEMMA ResourceCleared ==
    ASSUME TypeInv, ResourceInv, NEW d \in Deletions, NEW h \in Makers, NEW r \in Resources,
           ClearResource(d, h, r) \/ FailClear(d, h, r)
    PROVE  ResourceInv'
  <1>1. /\ UNCHANGED <<hub, named, at, acct, mine, target, overlapped, refused>>
        /\ todo' = [todo EXCEPT ![d] = @ \ {<<h, r>>}] /\ at[d] = "clear" /\ <<h, r>> \in todo[d]
        /\ lost \subseteq lost'
    BY DEF ClearResource, FailClear, Due
  <1>2. \A e \in Deletions, g \in Makers : Removing(e, g)' <=> Removing(e, g)
    BY <1>1 DEF Removing
  <1>3. Removing(d, h)
    BY <1>1 DEF ResourceInv, Targets, Removing
  <1>4. /\ \A e \in Requests \ {d} : todo'[e] = todo[e]
        /\ todo'[d] = todo[d] \ {<<h, r>>}
    BY <1>1 DEF TypeInv, WorkOK, Requests, Deletions
  <1>5. Spoiled \subseteq Spoiled'
    BY <1>1 DEF Spoiled
  <1>6. \A g \in Makers \ {h} : cloud'[g] = cloud[g]
    BY DEF ClearResource, FailClear, TypeInv, WorkOK
  <1>7. cloud'[h] = cloud[h] \ {r} \/ (cloud'[h] = cloud[h] /\ h \in Spoiled')
    BY DEF ClearResource, FailClear, TypeInv, WorkOK, Spoiled
  <1>8. \A g \in Makers \ Spoiled' :
            /\ at[g] \in CloudStages => cloud'[g] = cloud[g] /\ ~Removing(d, g)
            /\ at[g] \in Late =>
                   /\ cloud'[g] \subseteq named[g]
                   /\ cloud'[g] = named[g] \/ \E e \in Deletions : Removing(e, g)
                   /\ Removing(d, g) => \A q \in cloud'[g] : <<g, q>> \in todo'[d]
    <2> SUFFICES ASSUME NEW g \in Makers \ Spoiled'
                 PROVE  /\ at[g] \in CloudStages => cloud'[g] = cloud[g] /\ ~Removing(d, g)
                        /\ at[g] \in Late =>
                             /\ cloud'[g] \subseteq named[g]
                             /\ cloud'[g] = named[g] \/ \E e \in Deletions : Removing(e, g)
                             /\ Removing(d, g) => \A q \in cloud'[g] : <<g, q>> \in todo'[d]
      OBVIOUS
    <2>1. g \notin Spoiled
      BY <1>5
    <2>2. at[g] \in CloudStages => ~Removing(d, g)
      BY <2>1 DEF ResourceInv, MakingInv
    <2>3. at[g] \in CloudStages => cloud'[g] = cloud[g]
      BY <1>3, <1>6, <2>2
    <2>4. at[g] \in Late => /\ cloud[g] \subseteq named[g]
                            /\ cloud[g] = named[g] \/ \E e \in Deletions : Removing(e, g)
                            /\ Removing(d, g) => \A q \in cloud[g] : <<g, q>> \in todo[d]
      BY <2>1 DEF ResourceInv, MadeInv
    <2>5. CASE g = h
      BY <1>3, <1>4, <1>7, <2>2, <2>3, <2>4, <2>5
    <2>6. CASE g # h
      BY <1>4, <1>6, <2>2, <2>3, <2>4, <2>6
    <2>7. QED
      BY <2>5, <2>6
  <1>9. \A g \in Makers : hub'[g] \in {hub[g], "none"} /\ cloud'[g] \subseteq cloud[g]
    BY <1>1, <1>6, <1>7
  <1>10. /\ \A g \in Makers : Removing(d, g) => at[g] \notin Early
         /\ \A g \in Makers, q \in Resources : <<g, q>> \in todo'[d] => g \in target[d]
         /\ at'[d] # "drop"
    BY <1>1, <1>4 DEF ResourceInv, Targets
  <1>11. d \in UserDeletions => acct[d] # "none" /\ \A g \in Makers :
             /\ Removing(d, g) => hub[g] \in {"none", acct[d]}
             /\ hub[g] # "none" /\ hub[g] = acct[d] => g \in target[d] \/ g \in overlapped
    BY <1>1 DEF ResourceInv, OwnHubs
  <1>12. QED
    BY <1>1, <1>2, <1>4, <1>5, <1>8, <1>9, <1>10, <1>11, DeletionResource

\* The rows of the hubs a deletion is about are deleted.
LEMMA RowsDropped ==
    ASSUME TypeInv, ResourceInv, NEW d \in Deletions, NEW H, NEW next \in {"count", "session"},
           at[d] = "drop", Drop(d, H, next),
           \A h \in Makers \cap H : h \in target[d] \/ h \in overlapped \/ hub[h] = "none",
           target[d] \subseteq H \/ (H = HubsOf(acct[d]) /\ d \in UserDeletions),
           UNCHANGED <<acct, cloud, mine, target, todo, lost, overlapped>>
    PROVE  ResourceInv'
  <1>0. "done" \in Ending \ {"clear", "drop"} /\ next \in Ending \ {"clear", "drop"} /\ next # "list"
    BY DEF Ending
  <1>1. CASE H \cap ticketed # {}
    <2>1. UNCHANGED <<hub, named>> /\ Go(d, "done") /\ refused' = refused \cup target[d]
      BY <1>1 DEF Drop
    <2>2. Spoiled \subseteq Spoiled' /\ \A h \in Makers : Removing(d, h) => h \in Spoiled'
      BY <2>1 DEF Spoiled, Removing
    <2>3. QED
      BY <1>0, <2>1, <2>2, DeletionQuiet
  <1>2. CASE H \cap ticketed = {}
    <2>1. /\ hub' = [h \in Makers |-> IF h \in H THEN "none" ELSE hub[h]]
          /\ named' = [h \in Makers |-> IF h \in H THEN {} ELSE named[h]]
          /\ Go(d, next) /\ Spoiled' = Spoiled
      BY <1>2 DEF Drop, Spoiled
    <2>2. at'[d] = next /\ \A r \in Requests \ {d} : at'[r] = at[r]
      BY <1>0, <2>1, DeletionGoes
    <2>3. Deletions \subseteq Requests
      BY DEF Requests, Deletions
    <2>4. \A e \in Deletions \ {d}, h \in Makers : Removing(e, h)' <=> Removing(e, h)
      BY <2>2, <2>3 DEF Removing
    <2>5. \A h \in Makers : ~Removing(d, h)'
      BY <2>2 DEF Removing
    <2>6. ASSUME NEW h \in Makers \ Spoiled
          PROVE  /\ at[h] \in CloudStages => hub'[h] = hub[h]
                 /\ at[h] \in Late => /\ cloud[h] \subseteq named'[h]
                                      /\ cloud[h] = named'[h] \/ \E e \in Deletions : Removing(e, h)'
      <3>1. h \in target[d] => Removing(d, h)
        BY DEF Removing
      <3>2. at[h] \in CloudStages => hub'[h] = hub[h]
        BY <2>1, <3>1 DEF ResourceInv, MakingInv, Spoiled
      <3>3. ASSUME at[h] \in Late, Removing(d, h)
            PROVE  cloud[h] = {}
        BY <3>3 DEF ResourceInv, MadeInv, Targets, TypeInv, WorkOK
      <3>4. ASSUME at[h] \in Late
            PROVE  cloud[h] \subseteq named'[h] /\ (cloud[h] = named'[h] \/ \E e \in Deletions : Removing(e, h)')
        <4>1. CASE h \in H /\ hub[h] # "none"
          BY <2>1, <3>1, <3>3, <3>4, <4>1 DEF Spoiled
        <4>2. CASE hub[h] = "none"
          <5>1. named[h] = {} /\ named'[h] = {}
            BY <2>1, <4>2 DEF TypeInv, HubOK
          <5>2. cloud[h] \subseteq named[h]
            BY <3>4 DEF ResourceInv, MadeInv
          <5>3. QED
            BY <5>1, <5>2
        <4>3. CASE h \notin H /\ hub[h] # "none"
          <5>1. named'[h] = named[h]
            BY <2>1, <4>3
          <5>2. cloud[h] \subseteq named[h] /\ (cloud[h] = named[h] \/ \E e \in Deletions : Removing(e, h))
            BY <3>4 DEF ResourceInv, MadeInv
          <5>3. ~Removing(d, h)
            BY <4>3 DEF HubsOf, Removing, ResourceInv, OwnHubs
          <5>4. QED
            BY <2>4, <5>1, <5>2, <5>3
        <4>4. QED
          BY <4>1, <4>2, <4>3
      <3>5. QED
        BY <3>2, <3>4
    <2>7. \A h \in Makers : hub'[h] \in {hub[h], "none"}
      BY <2>1
    <2>8. at'[d] \notin {"list", "clear", "drop"}
      BY <1>0, <2>2
    <2>9. QED
      BY <2>1, <2>2, <2>5, <2>6, <2>7, <2>8, DeletionResource
  <1>3. QED
    BY <1>1, <1>2

\* A deletion finds the hub H it is about, or lists a client's, with their resources on record.
LEMMA TargetsFound ==
    ASSUME TypeInv, SavedInv, ResourceInv, NEW d \in Deletions, NEW H \in SUBSET Makers,
           Go(d, "clear"), \A h \in H : hub[h] # "none",
           \A r \in Requests \ {d} : acct'[r] = acct[r],
           target' = [target EXCEPT ![d] = H],
           \A h \in H, r \in Resources : <<h, r>> \in todo'[d] <=> r \in named[h],
           todo'[d] \subseteq H \X Resources,
           \A r \in Requests \ {d} : todo'[r] = todo[r],
           overlapped' = overlapped \cup FoundEarly(H),
           UNCHANGED <<hub, named, cloud, mine, lost, refused>>,
           \A h \in Makers : ~Removing(d, h),
           d \in UserDeletions => H = {h \in Makers : hub[h] = acct'[d]} /\ acct'[d] # "none"
    PROVE  ResourceInv'
  <1>1. at'[d] = "clear" /\ \A r \in Requests \ {d} : at'[r] = at[r]
    BY DeletionGoes DEF Ending
  <1>2. Makers \subseteq Requests \ {d} /\ Deletions \subseteq Requests
    BY ProvisioningAssumption DEF Requests, Deletions
  <1>3. target'[d] = H /\ \A r \in Requests \ {d} : target'[r] = target[r]
    BY <1>2 DEF TypeInv, WorkOK
  <1>4. \A h \in Makers : Removing(d, h)' <=> h \in H
    BY <1>1, <1>3 DEF Removing
  <1>5. \A e \in Deletions \ {d}, h \in Makers : Removing(e, h)' <=> Removing(e, h)
    BY <1>1, <1>2, <1>3 DEF Removing
  <1>6. Spoiled \subseteq Spoiled' /\ overlapped \subseteq overlapped' /\ FoundEarly(H) \subseteq Spoiled'
    BY DEF Spoiled
  <1>7. \A h \in Makers : Removing(d, h)' => at[h] \notin Early
    BY <1>4 DEF SavedInv
  <1>8. \A h \in Makers \ Spoiled' : at[h] \in CloudStages => ~Removing(d, h)'
    BY <1>4, <1>6 DEF FoundEarly
  <1>9. \A h \in Makers \ Spoiled' : at[h] \in Late =>
            /\ cloud[h] \subseteq named[h]
            /\ cloud[h] = named[h] \/ \E e \in Deletions : Removing(e, h)'
            /\ Removing(d, h)' => \A r \in cloud[h] : <<h, r>> \in todo'[d]
    <2> SUFFICES ASSUME NEW h \in Makers \ Spoiled', at[h] \in Late
                 PROVE  /\ cloud[h] \subseteq named[h]
                        /\ cloud[h] = named[h] \/ \E e \in Deletions : Removing(e, h)'
                        /\ Removing(d, h)' => \A r \in cloud[h] : <<h, r>> \in todo'[d]
      OBVIOUS
    <2>1. cloud[h] \subseteq named[h] /\ (cloud[h] = named[h] \/ \E e \in Deletions : Removing(e, h))
      BY <1>6 DEF ResourceInv, MadeInv
    <2>2. cloud[h] \subseteq Resources
      BY DEF TypeInv, WorkOK
    <2>3. Removing(d, h)' => \A r \in cloud[h] : <<h, r>> \in todo'[d]
      BY <1>4, <2>1, <2>2
    <2>4. QED
      BY <1>5, <2>1, <2>3
  <1>10. \A h \in Makers, r \in Resources : <<h, r>> \in todo'[d] => h \in target'[d]
    BY <1>3
  <1>11. d \in UserDeletions => \A h \in Makers :
             /\ Removing(d, h)' => hub'[h] \in {"none", acct'[d]}
             /\ hub'[h] # "none" /\ hub'[h] = acct'[d] => h \in target'[d]
    BY <1>3, <1>4
  <1>12. QED
    BY <1>1, <1>2, <1>3, <1>6, <1>7, <1>8, <1>9, <1>10, <1>11, DeletionResource

LEMMA DeletionsResource ==
    ASSUME TypeInv, SavedInv, ResourceInv, NEW d \in Deletions,
           (d \in HubDeletions /\ DeleteHub(d)) \/ (d \in UserDeletions /\ DeleteUser(d))
    PROVE  ResourceInv'
  <1>0. /\ d \in Requests /\ acct \in [Requests -> Makers \cup {"none"}]
        /\ todo \in [Requests -> SUBSET (Makers \X Resources)] /\ named \in [Makers -> SUBSET Resources]
        /\ HubDeletions \cap UserDeletions = {} /\ "none" \notin Makers
    BY ProvisioningAssumption DEF Requests, Deletions, TypeInv, AcctOK, WorkOK, HubOK
  <1>1. ASSUME NEW h \in Makers, FindHub(d, h)
        PROVE  ResourceInv'
    <2>1. /\ Go(d, "clear") /\ hub[h] # "none" /\ target' = [target EXCEPT ![d] = {h}]
          /\ overlapped' = overlapped \cup FoundEarly({h}) /\ d \notin UserDeletions /\ at[d] = "new"
      BY <1>0, <1>1 DEF FindHub, GoWith, Begins
    <2>2. todo'[d] = {h} \X named[h] /\ \A r \in Requests \ {d} : todo'[r] = todo[r] /\ acct'[r] = acct[r]
      BY <1>0, <1>1 DEF FindHub, GoWith
    <2>3. UNCHANGED <<hub, named, cloud, mine, lost, refused>>
      BY <1>1 DEF FindHub
    <2>4. {h} \in SUBSET Makers /\ named[h] \subseteq Resources
      BY <1>0
    <2>5. \A g \in Makers : ~Removing(d, g)
      BY <2>1 DEF Removing
    <2>6. QED
      BY <2>1, <2>2, <2>3, <2>4, <2>5, TargetsFound
  <1>2. CASE d \in UserDeletions /\ ListHubs(d)
    <2> DEFINE H == HubsOf(acct[d])
    <2>1. /\ Go(d, "clear") /\ target' = [target EXCEPT ![d] = H] /\ at[d] = "list"
          /\ overlapped' = overlapped \cup FoundEarly(H) /\ acct' = acct
          /\ UNCHANGED <<hub, named, cloud, mine, lost, refused>>
      BY <1>2 DEF ListHubs
    <2>2. /\ todo'[d] = {p \in H \X Resources : p[2] \in named[p[1]]}
          /\ \A r \in Requests \ {d} : todo'[r] = todo[r]
      BY <1>0, <1>2 DEF ListHubs
    <2>3. acct[d] # "none"
      BY <1>2, <2>1 DEF ResourceInv, OwnHubs
    <2>4. H \in SUBSET Makers /\ (\A h \in H : hub[h] # "none") /\ H = {h \in Makers : hub[h] = acct[d]}
      BY <2>3 DEF HubsOf
    <2>5. \A h \in H, r \in Resources : <<h, r>> \in todo'[d] <=> r \in named[h]
      BY <2>2
    <2>6. todo'[d] \subseteq H \X Resources
      BY <2>2
    <2>7. \A g \in Makers : ~Removing(d, g)
      BY <2>1 DEF Removing
    <2> HIDE DEF H
    <2>8. \A r \in Requests \ {d} : acct'[r] = acct[r]
      BY <2>1
    <2>9. H = {h \in Makers : hub[h] = acct'[d]} /\ acct'[d] # "none"
      BY <2>1, <2>3, <2>4
    <2>10. H \in SUBSET Makers /\ \A h \in H : hub[h] # "none"
      BY <2>4
    <2>11. QED
      BY <2>1, <2>2, <2>5, <2>6, <2>7, <2>8, <2>9, <2>10, TargetsFound
  <1>3. ASSUME NEW h \in Makers, NEW r \in Resources, ClearResource(d, h, r) \/ FailClear(d, h, r)
        PROVE  ResourceInv'
    BY <1>3, ResourceCleared
  <1>4. CASE Cleared(d)
    <2>1. /\ Go(d, "drop") /\ at[d] = "clear" /\ todo[d] = {}
          /\ UNCHANGED <<hub, named, cloud, acct, mine, target, todo, lost, overlapped, refused>>
      BY <1>4 DEF Cleared
    <2>2. at'[d] = "drop" /\ \A r \in Requests \ {d} : at'[r] = at[r]
      BY <2>1, DeletionGoes DEF Ending
    <2>3. Spoiled' = Spoiled /\ Deletions \subseteq Requests
      BY <2>1 DEF Spoiled, Requests, Deletions
    <2>4. \A e \in Deletions, h \in Makers : Removing(e, h)' <=> Removing(e, h)
      BY <2>1, <2>2, <2>3 DEF Removing
    <2>5. \A h \in Makers \ Spoiled :
              /\ at[h] \in CloudStages => ~Removing(d, h)
              /\ at[h] \in Late => /\ cloud[h] \subseteq named[h]
                                   /\ cloud[h] = named[h] \/ \E e \in Deletions : Removing(e, h)
                                   /\ Removing(d, h) => \A r \in cloud[h] : <<h, r>> \in todo[d]
      BY DEF ResourceInv, MakingInv, MadeInv
    <2>6. \A h \in Makers : Removing(d, h) => at[h] \notin Early
      BY DEF ResourceInv, Targets
    <2>7. d \in UserDeletions => acct[d] # "none" /\ \A h \in Makers :
              /\ Removing(d, h) => hub[h] \in {"none", acct[d]}
              /\ hub[h] # "none" /\ hub[h] = acct[d] => h \in target[d] \/ h \in overlapped
      BY <2>1 DEF ResourceInv, OwnHubs
    <2>8. QED
      BY <2>1, <2>2, <2>3, <2>4, <2>5, <2>6, <2>7, DeletionResource
  <1>5. CASE DropHub(d)
    <2>1. /\ at[d] = "drop" /\ Drop(d, target[d], "count")
          /\ UNCHANGED <<acct, cloud, mine, target, todo, lost, overlapped>>
      BY <1>5 DEF DropHub
    <2>2. "count" \in {"count", "session"} /\ \A h \in Makers \cap target[d] : h \in target[d]
      OBVIOUS
    <2>3. QED
      BY <2>1, <2>2, RowsDropped
  <1>6. CASE DropHubs(d)
    <2>1. /\ at[d] = "drop" /\ Drop(d, HubsOf(acct[d]), "session") /\ d \in UserDeletions
          /\ UNCHANGED <<acct, cloud, mine, target, todo, lost, overlapped>>
      BY <1>6 DEF DropHubs
    <2>2. \A h \in Makers \cap HubsOf(acct[d]) : h \in target[d] \/ h \in overlapped \/ hub[h] = "none"
      BY <2>1 DEF HubsOf, ResourceInv, OwnHubs
    <2>3. QED
      BY <2>1, <2>2, RowsDropped
  <1>7. CASE CountHubs(d) \/ DropSession(d) \/ FindClientOf(d) \/ DropClient(d) \/ DropUser(d)
    <2>1. PICK s \in {"session", "done", "list", "dropclient", "dropuser"} :
              Go(d, s) /\ (s = "list" => acct'[d] # "none")
      BY <1>0, <1>7 DEF CountHubs, DropSession, FindClientOf, DropClient, DropUser, GoWith
    <2>2. s \in Ending \ {"clear", "drop"}
      BY DEF Ending
    <2>3. UNCHANGED <<hub, named, cloud, mine, target, todo, lost, overlapped, refused>>
      BY <1>7 DEF CountHubs, DropSession, FindClientOf, DropClient, DropUser
    <2>4. \A r \in Requests \ {d} : acct'[r] = acct[r]
      BY <1>0, <1>7 DEF CountHubs, DropSession, FindClientOf, DropClient, DropUser, GoWith
    <2>5. \A h \in Makers : ~Removing(d, h)
      BY <1>7 DEF CountHubs, DropSession, FindClientOf, DropClient, DropUser, Begins, Removing
    <2>6. Spoiled' = Spoiled
      BY <2>3 DEF Spoiled
    <2>7. QED
      BY <2>1, <2>2, <2>3, <2>4, <2>5, <2>6, DeletionQuiet
  <1>8. QED
    BY <1>0, <1>1, <1>2, <1>3, <1>4, <1>5, <1>6, <1>7 DEF DeleteHub, DeleteUser, ClearCloudflare

LEMMA NextResourceInv ==
  TypeInv /\ SavedInv /\ ResourceInv /\ [ProvisioningNext]_provisioningVars => ResourceInv'
  <1> SUFFICES ASSUME TypeInv, SavedInv, ResourceInv, [ProvisioningNext]_provisioningVars
               PROVE  ResourceInv'
    OBVIOUS
  <1>1. CASE UNCHANGED <<hub, named, cloud, at, acct, mine, target, todo, lost, overlapped, refused>>
    BY <1>1 DEF ResourceInv, NothingYet, Targets, OwnHubs, MakingInv, MadeInv, Removing, Spoiled
  <1>2. ASSUME NEW m \in Makers, FileTicket(m)
        PROVE  ResourceInv'
    BY <1>1, <1>2 DEF FileTicket
  <1>3. ASSUME NEW r \in Requests, FailQuery(r)
        PROVE  ResourceInv'
    <2>1. /\ UNCHANGED <<hub, named, cloud, acct, mine, target, todo, overlapped, refused>>
          /\ lost' = lost \cup Work(r) /\ at[r] # "clear"
      BY <1>3 DEF FailQuery
    <2>2. Spoiled \subseteq Spoiled' /\ Work(r) \subseteq Spoiled'
      BY <2>1 DEF Spoiled
    <2>3. PICK s \in {"session", "done"} : Go(r, s) /\ (s = "session" => at[r] = "record")
      BY <1>3 DEF FailQuery
    <2>4. CASE r \in Makers
      <3>1. s \in Late /\ s \notin Early /\ r \in Spoiled'
        BY <2>2, <2>4 DEF Late, Early, Work
      <3>2. QED
        BY <2>1, <2>2, <2>3, <2>4, <3>1, MakerResource
    <2>5. CASE r \notin Makers
      <3>1. r \in Deletions /\ \A h \in Makers : Removing(r, h) => h \in Spoiled'
        BY <2>2, <2>5 DEF Requests, Deletions, Removing, Work
      <3>2. s \in Ending \ {"clear", "drop"} /\ s # "list"
        BY DEF Ending
      <3>3. QED
        BY <2>1, <2>2, <2>3, <3>1, <3>2, DeletionQuiet
    <2>6. QED
      BY <2>4, <2>5
  <1>4. CASE RestartRequests
    <2>1. UNCHANGED <<hub, named, cloud, acct, mine, target, todo, overlapped, refused>> /\ lost \subseteq lost'
      BY <1>4 DEF RestartRequests
    <2>2. \A r \in Requests : at'[r] = IF Busy(r) THEN "done" ELSE at[r]
      BY <1>4 DEF RestartRequests
    <2>3. Makers \subseteq Requests /\ Deletions \subseteq Requests
      BY DEF Requests, Deletions
    <2>4. \A m \in Makers : Busy(m) => m \in lost'
      BY <1>4 DEF RestartRequests, Work, Requests
    <2>5. \A r \in Requests : (at'[r] = at[r] /\ at[r] \in {"new", "done"}) \/ (at'[r] = "done" /\ Busy(r))
      BY <2>2 DEF Busy
    <2>6. \A d \in Deletions, h \in Makers : ~Removing(d, h)'
      BY <2>3, <2>5 DEF Removing
    <2>7. \A d \in Deletions, h \in Makers : Removing(d, h) => h \in lost'
      <3> SUFFICES ASSUME NEW d \in Deletions, NEW h \in Makers, Removing(d, h)
                   PROVE  h \in lost'
        OBVIOUS
      <3>1. Busy(d) /\ d \in Requests /\ h \in Work(d)
        BY <2>3, ProvisioningAssumption DEF Busy, Removing, Work, Deletions
      <3>2. QED
        BY <1>4, <3>1 DEF RestartRequests
    <2>8. "done" \notin Early /\ "done" \notin CloudStages /\ "new" \notin CloudStages /\ "new" \in Early
      BY DEF Early, CloudStages
    <2>9. NothingYet'
      BY <2>1, <2>3, <2>5, <2>8 DEF ResourceInv, NothingYet
    <2>10. Targets' /\ OwnHubs'
      <3>1. \A d \in Deletions : at'[d] \notin {"list", "clear", "drop"}
        BY <2>3, <2>5
      <3>2. QED
        BY <2>6, <3>1 DEF Targets, OwnHubs, Deletions
    <2>11. MakingInv'
      BY <2>3, <2>5, <2>8 DEF MakingInv
    <2>12. MadeInv'
      <3> SUFFICES ASSUME NEW h \in Makers \ Spoiled', at'[h] \in Late
                   PROVE  cloud[h] = named[h]
        BY <2>1, <2>6 DEF MadeInv
      <3>1. h \notin lost' /\ h \in Makers \ Spoiled
        BY <2>1 DEF Spoiled
      <3>2. at[h] = at'[h]
        BY <2>3, <2>4, <2>5, <3>1
      <3>3. QED
        BY <2>7, <3>1, <3>2 DEF ResourceInv, MadeInv
    <2>13. QED
      BY <2>9, <2>10, <2>11, <2>12 DEF ResourceInv
  <1>5. CASE UNCHANGED provisioningVars
    BY <1>1, <1>5 DEF provisioningVars
  <1>6. ASSUME NEW m \in Makers, ProvisionClient(m) \/ \E kept \in BOOLEAN : FailCall(m, kept)
        PROVE  ResourceInv'
    BY <1>6, MakersResource
  <1>7. CASE (\E d \in HubDeletions : DeleteHub(d)) \/ \E d \in UserDeletions : DeleteUser(d)
    BY <1>7, DeletionsResource DEF Deletions
  <1>8. QED
    BY <1>2, <1>3, <1>4, <1>5, <1>6, <1>7 DEF ProvisioningNext

\* A hub's row names exactly the Cloudflare resources there are for it, but where a call failed,
\* a deletion came while they were made, or one was refused for a ticket about the hub.
THEOREM HubResourcesAreKept == ProvisioningSpec => []HubResourcesKept
  <1>1. SessionInv => SavedInv
    BY DEF SessionInv
  <1>2. ProvisioningSpec => [](TypeInv /\ SessionInv /\ ResourceInv)
    BY InitTypeInv, NextTypeInv, InitSessionInv, NextSessionInv, InitResourceInv, NextResourceInv,
       <1>1, PTL DEF ProvisioningSpec
  <1>3. TypeInv /\ SessionInv /\ ResourceInv => HubResourcesKept
    BY <1>1, ResourceInvSuffices
  <1>4. QED
    BY <1>2, <1>3, PTL
=============================================================================
