----------------------------- MODULE Provisioning -----------------------------
(***************************************************************************)
(* The making of a client with a hub, and the deletion of hubs and users:  *)
(*   provisioning/provisioning.service.ts      (provisionClient)           *)
(*   servers/servers.service.ts                (create, delete)            *)
(*   cloudflare/cloudflare.service.ts          (provisionServer, deletes)  *)
(*   clients/clients.service.ts, users/users.service.ts  (create, delete)  *)
(*                                                                         *)
(* Every request is a sequence of separate queries and of calls to         *)
(* Cloudflare's API, in no transaction, and any two of them interleave.    *)
(* The module is about one e-mail address: one user and one client at a    *)
(* time, told apart by the request that made them; a hub (a row of         *)
(* servers) has the name of the request that saves it.  Cloudflare is      *)
(* configured, with a reusable access policy.  Of the agent's session only *)
(* its existence is kept, AgentSessions has the rest.                      *)
(***************************************************************************)
EXTENDS Integers, FiniteSets

CONSTANTS
    Makers,         \* requests to provision the client, and the hubs they make
    HubDeletions,   \* requests DELETE /servers/:id
    UserDeletions,  \* requests DELETE /users/:id
    SubdomainOf,    \* the subdomain a request asks for
    Ticketed,       \* hubs the client may open a ticket about
    Outages,        \* failed queries, calls and restarts, a bound on their number
    Gangs           \* the sets of requests and outages that may meet

ASSUME ProvisioningAssumption ==
    /\ IsFiniteSet(Outages)
    /\ Makers \cap HubDeletions = {}
    /\ (Makers \cup HubDeletions) \cap UserDeletions = {}
    /\ Ticketed \subseteq Makers
    /\ "none" \notin Makers

VARIABLES
    user,      \* the row of users with the address, or "none"
    client,    \* that user's row of clients, or "none"
    hub,       \* the client a hub belongs to, or "none" where there is no row
    named,     \* Cloudflare's resources on record in a hub's row
    cloud,     \* Cloudflare's resources that there are for a hub
    session,   \* clients with a row in agent_sessions
    ticketed,  \* hubs that a ticket refers to
    gang,      \* who takes part in this behaviour
    at,        \* where a request is
    acct,      \* the user or client a request has found or made
    mine,      \* the resources whose making was answered to a request
    target,    \* hubs a deletion is about
    todo,      \* the resources a deletion is still to remove
    outages    \* the number of outages so far

\* History variables.
VARIABLES
    lost,        \* hubs whose making or deletion met an outage
    overlapped,  \* hubs a deletion found or swept before their resources were on record
    refused,     \* hubs whose deletion a ticket prevented
    raced        \* hubs saved while the session of their client was being deleted

rowVars     == <<user, client, hub, named, session, ticketed>>
requestVars == <<gang, at, acct, mine, target, todo>>
causeVars   == <<lost, overlapped, refused, raced>>

provisioningVars == <<rowVars, cloud, requestVars, outages, causeVars>>

Requests == Makers \cup HubDeletions \cup UserDeletions

Resources == {"tunnel", "dns", "app"}

\* Stages of a request that makes a hub from its row to the record of its resources.
CloudStages == {"tunnel", "config", "dns", "app", "record"}

HubsOf(c) == {h \in Makers : hub[h] = c}

ProvisioningInit ==
    /\ user = "none"
    /\ client = "none"
    /\ hub = [m \in Makers |-> "none"]
    /\ named = [m \in Makers |-> {}]
    /\ cloud = [m \in Makers |-> {}]
    /\ session = {}
    /\ ticketed = {}
    /\ gang \in Gangs
    /\ at = [r \in Requests |-> "new"]
    /\ acct = [r \in Requests |-> "none"]
    /\ mine = [m \in Makers |-> {}]
    /\ target = [r \in Requests |-> {}]
    /\ todo = [r \in Requests |-> {}]
    /\ outages = 0
    /\ lost = {}
    /\ overlapped = {}
    /\ refused = {}
    /\ raced = {}

\* A request goes on, having found c, and finds itself at s.
Go(r, s) == at' = [at EXCEPT ![r] = s]

GoWith(r, s, c) ==
    /\ Go(r, s)
    /\ acct' = [acct EXCEPT ![r] = c]

Begins(r) == r \in gang /\ at[r] = "new"

------------------------------------------------------------------------------
(* provisionClient(): the account *)

\* An administrator picked the client from a list, and it is found.
StartExisting(m) ==
    /\ Begins(m)
    /\ client # "none"
    /\ GoWith(m, "hub", client)
    /\ UNCHANGED <<rowVars, cloud, gang, mine, target, todo, outages, causeVars>>

\* findByEmail()
FindUser(m) ==
    /\ Begins(m)
    /\ IF user = "none" THEN GoWith(m, "check", "none") ELSE GoWith(m, "client", user)
    /\ UNCHANGED <<rowVars, cloud, gang, mine, target, todo, outages, causeVars>>

\* findByUserIdOptional()
FindClient(m) ==
    /\ at[m] = "client"
    /\ IF client # "none" /\ user = acct[m]
         THEN GoWith(m, "hub", client)
         ELSE Go(m, "link") /\ UNCHANGED acct
    /\ UNCHANGED <<rowVars, cloud, gang, mine, target, todo, outages, causeVars>>

\* createForUser() looks for the user once more.
LinkUser(m) ==
    /\ at[m] = "link"
    /\ Go(m, IF user = acct[m] THEN "addclient" ELSE "done")
    /\ UNCHANGED <<rowVars, cloud, gang, acct, mine, target, todo, outages, causeVars>>

\* UsersService.create() looks for the address once more; a 409 if it is taken.
CheckEmail(m) ==
    /\ at[m] = "check"
    /\ Go(m, IF user = "none" THEN "adduser" ELSE "done")
    /\ UNCHANGED <<rowVars, cloud, gang, acct, mine, target, todo, outages, causeVars>>

\* The address is unique.
AddUser(m) ==
    /\ at[m] = "adduser"
    /\ IF user = "none"
         THEN user' = m /\ GoWith(m, "addclient", m)
         ELSE Go(m, "done") /\ UNCHANGED <<user, acct>>
    /\ UNCHANGED <<client, hub, named, session, ticketed, cloud, gang, mine, target, todo,
                   outages, causeVars>>

\* A client refers to its user, and a user has one client at most.
AddClient(m) ==
    /\ at[m] = "addclient"
    /\ IF user = acct[m] /\ client = "none"
         THEN client' = m /\ GoWith(m, "hub", m)
         ELSE Go(m, "done") /\ UNCHANGED <<client, acct>>
    /\ UNCHANGED <<user, hub, named, session, ticketed, cloud, gang, mine, target, todo,
                   outages, causeVars>>

------------------------------------------------------------------------------
(* ServersService.create() and CloudflareService.provisionServer() *)

\* A deletion of the client's hubs is past their rows, or past their count, and its
\* session is next.
Sweeping(c) ==
    \E d \in HubDeletions \cup UserDeletions : at[d] = "session" /\ acct[d] = c

\* A user's deletion has listed the hubs of the client, and not removed their rows yet.
Listed(c) == \E d \in UserDeletions : at[d] \in {"clear", "drop"} /\ acct[d] = c

\* A hub refers to its client, and its subdomain is unique.
AddHub(m) ==
    /\ at[m] = "hub"
    /\ IF client = acct[m] /\ (\A h \in Makers : hub[h] # "none" => SubdomainOf[h] # SubdomainOf[m])
         THEN /\ hub' = [hub EXCEPT ![m] = client]
              /\ overlapped' = IF Listed(client) THEN overlapped \cup {m} ELSE overlapped
              /\ raced' = IF Sweeping(client) THEN raced \cup {m} ELSE raced
              /\ Go(m, "tunnel")
         ELSE Go(m, "done") /\ UNCHANGED <<hub, overlapped, raced>>
    /\ UNCHANGED <<user, client, named, session, ticketed, cloud, gang, acct, mine, target,
                   todo, outages, lost, refused>>

After == [tunnel |-> "config", dns |-> "app", app |-> "record"]

\* A resource is made; its id is kept in memory.
MakeResource(m) ==
    /\ at[m] \in Resources
    /\ cloud' = [cloud EXCEPT ![m] = @ \cup {at[m]}]
    /\ mine' = [mine EXCEPT ![m] = @ \cup {at[m]}]
    /\ Go(m, After[at[m]])
    /\ UNCHANGED <<rowVars, gang, acct, target, todo, outages, causeVars>>

\* The tunnel's ingress is set and its token read.
Configure(m) ==
    /\ at[m] = "config"
    /\ Go(m, "dns")
    /\ UNCHANGED <<rowVars, cloud, gang, acct, mine, target, todo, outages, causeVars>>

\* Mutant: the id of the DNS record is not written.
RecordTunnel(m) ==
    /\ at[m] = "record"
    /\ named' = [named EXCEPT ![m] = IF hub[m] = "none" THEN {} ELSE mine[m] \ {"dns"}]
    /\ Go(m, "session")
    /\ UNCHANGED <<user, client, hub, session, ticketed, cloud, gang, acct, mine, target, todo,
                   outages, causeVars>>

\* Mutant: they are written though the row is gone.
RecordAnyway(m) ==
    /\ at[m] = "record"
    /\ named' = [named EXCEPT ![m] = mine[m]]
    /\ Go(m, "session")
    /\ UNCHANGED <<user, client, hub, session, ticketed, cloud, gang, acct, mine, target, todo,
                   outages, causeVars>>

\* The ids of all of them are written to the row, if there still is one.
Record(m) ==
    /\ at[m] = "record"
    /\ named' = [named EXCEPT ![m] = IF hub[m] = "none" THEN {} ELSE mine[m]]
    /\ Go(m, "session")
    /\ UNCHANGED <<user, client, hub, session, ticketed, cloud, gang, acct, mine, target, todo,
                   outages, causeVars>>

------------------------------------------------------------------------------
(* provisionAgent() *)

FindSession(m) ==
    /\ at[m] = "session"
    /\ m \in Makers
    /\ Go(m, IF acct[m] \in session THEN "rotate" ELSE "addsession")
    /\ UNCHANGED <<rowVars, cloud, gang, acct, mine, target, todo, outages, causeVars>>

\* A session refers to its client, and a client has one at most.
AddSession(m) ==
    /\ at[m] = "addsession"
    /\ session' = IF client = acct[m] THEN session \cup {client} ELSE session
    /\ Go(m, "done")
    /\ UNCHANGED <<user, client, hub, named, ticketed, cloud, gang, acct, mine, target, todo,
                   outages, causeVars>>

\* The row is updated by the client's id, if there still is one.
RotateSession(m) ==
    /\ at[m] = "rotate"
    /\ Go(m, "done")
    /\ UNCHANGED <<rowVars, cloud, gang, acct, mine, target, todo, outages, causeVars>>

------------------------------------------------------------------------------
(* ServersService.delete() *)

FoundEarly(H) == {h \in H : at[h] \in CloudStages}

\* The hub is read, with the resources on record.
FindHub(d, h) ==
    /\ d \in HubDeletions
    /\ Begins(d)
    /\ hub[h] # "none"
    /\ GoWith(d, "clear", hub[h])
    /\ target' = [target EXCEPT ![d] = {h}]
    /\ todo' = [todo EXCEPT ![d] = {h} \X named[h]]
    /\ overlapped' = overlapped \cup FoundEarly({h})
    /\ UNCHANGED <<rowVars, cloud, gang, mine, outages, lost, refused, raced>>

\* The tunnel is deleted before the DNS record, and that before the access app.
Earlier(r) == CASE r = "tunnel" -> {} [] r = "dns" -> {"tunnel"} [] r = "app" -> {"tunnel", "dns"}

Due(d, h, r) ==
    /\ at[d] = "clear"
    /\ <<h, r>> \in todo[d]
    /\ \A q \in Earlier(r) : <<h, q>> \notin todo[d]

ClearResource(d, h, r) ==
    /\ Due(d, h, r)
    /\ cloud' = [cloud EXCEPT ![h] = @ \ {r}]
    /\ todo' = [todo EXCEPT ![d] = @ \ {<<h, r>>}]
    /\ UNCHANGED <<rowVars, gang, at, acct, mine, target, outages, causeVars>>

Cleared(d) ==
    /\ at[d] = "clear"
    /\ todo[d] = {}
    /\ Go(d, "drop")
    /\ UNCHANGED <<rowVars, cloud, gang, acct, mine, target, todo, outages, causeVars>>

\* The rows of H are deleted, which a ticket that refers to one of them prevents.
Drop(d, H, next) ==
    IF H \cap ticketed # {}
      THEN /\ refused' = refused \cup target[d]
           /\ Go(d, "done")
           /\ UNCHANGED <<hub, named>>
      ELSE /\ hub' = [h \in Makers |-> IF h \in H THEN "none" ELSE hub[h]]
           /\ named' = [h \in Makers |-> IF h \in H THEN {} ELSE named[h]]
           /\ Go(d, next)
           /\ UNCHANGED refused

DropHub(d) ==
    /\ d \in HubDeletions
    /\ at[d] = "drop"
    /\ Drop(d, target[d], "count")
    /\ UNCHANGED <<user, client, session, ticketed, cloud, gang, acct, mine, target, todo,
                   outages, lost, overlapped, raced>>

\* Mutant: the session goes with every hub.
CountNothing(d) ==
    /\ at[d] = "count"
    /\ Go(d, "session")
    /\ UNCHANGED <<rowVars, cloud, gang, acct, mine, target, todo, outages, causeVars>>

\* Are there other hubs of the client?
CountHubs(d) ==
    /\ at[d] = "count"
    /\ Go(d, IF HubsOf(acct[d]) = {} THEN "session" ELSE "done")
    /\ UNCHANGED <<rowVars, cloud, gang, acct, mine, target, todo, outages, causeVars>>

DropSession(d) ==
    /\ d \notin Makers
    /\ at[d] = "session"
    /\ session' = session \ {acct[d]}
    /\ Go(d, IF d \in HubDeletions THEN "done" ELSE "dropclient")
    /\ UNCHANGED <<user, client, hub, named, ticketed, cloud, gang, acct, mine, target, todo,
                   outages, causeVars>>

------------------------------------------------------------------------------
(* UsersService.delete() *)

FindClientOf(d) ==
    /\ d \in UserDeletions
    /\ Begins(d)
    /\ user # "none"
    /\ IF client = "none" THEN GoWith(d, "dropuser", "none") ELSE GoWith(d, "list", client)
    /\ UNCHANGED <<rowVars, cloud, gang, mine, target, todo, outages, causeVars>>

ListHubs(d) ==
    /\ at[d] = "list"
    /\ LET H == HubsOf(acct[d])
       IN  /\ target' = [target EXCEPT ![d] = H]
           /\ todo' = [todo EXCEPT ![d] = {p \in H \X Resources : p[2] \in named[p[1]]}]
           /\ overlapped' = overlapped \cup FoundEarly(H)
    /\ Go(d, "clear")
    /\ UNCHANGED <<rowVars, cloud, gang, acct, mine, outages, lost, refused, raced>>

DropHubs(d) ==
    /\ d \in UserDeletions
    /\ at[d] = "drop"
    /\ Drop(d, HubsOf(acct[d]), "session")
    /\ UNCHANGED <<user, client, session, ticketed, cloud, gang, acct, mine, target, todo,
                   outages, lost, overlapped, raced>>

\* Not while a hub or a session refers to it; the request fails then.
DropClient(d) ==
    /\ at[d] = "dropclient"
    /\ IF HubsOf(acct[d]) = {} /\ acct[d] \notin session
         THEN /\ client' = IF client = acct[d] THEN "none" ELSE client
              /\ Go(d, "dropuser")
         ELSE Go(d, "done") /\ UNCHANGED client
    /\ UNCHANGED <<user, hub, named, session, ticketed, cloud, gang, acct, mine, target, todo,
                   outages, causeVars>>

DropUser(d) ==
    /\ at[d] = "dropuser"
    /\ user' = IF client = "none" THEN "none" ELSE user
    /\ Go(d, "done")
    /\ UNCHANGED <<client, hub, named, session, ticketed, cloud, gang, acct, mine, target, todo,
                   outages, causeVars>>

------------------------------------------------------------------------------
(* Tickets and outages *)

\* createForClient(): a ticket names a hub of the client.
FileTicket(h) ==
    /\ h \in Ticketed \cap gang
    /\ hub[h] # "none"
    /\ h \notin ticketed
    /\ ticketed' = ticketed \cup {h}
    /\ UNCHANGED <<user, client, hub, named, session, cloud, requestVars, outages, causeVars>>

Outage == outages < Cardinality(Outages \cap gang) /\ outages' = outages + 1

\* A call to Cloudflare fails, or its answer does, and create() goes on without: an
\* access app is not required, and without a tunnel or its DNS record nothing is written.
FailCall(m, kept) ==
    /\ at[m] \in Resources \cup {"config"}
    /\ Outage
    /\ lost' = lost \cup {m}
    /\ cloud' = IF kept /\ at[m] # "config" THEN [cloud EXCEPT ![m] = @ \cup {at[m]}] ELSE cloud
    /\ Go(m, IF at[m] = "app" THEN "record" ELSE "session")
    /\ UNCHANGED <<rowVars, gang, acct, mine, target, todo, overlapped, refused, raced>>

\* A failed deletion of a resource is logged, and the next one begun.
FailClear(d, h, r) ==
    /\ Due(d, h, r)
    /\ Outage
    /\ lost' = lost \cup {h}
    /\ todo' = [todo EXCEPT ![d] = @ \ {<<h, r>>}]
    /\ UNCHANGED <<rowVars, cloud, gang, at, acct, mine, target, overlapped, refused, raced>>

\* What r is working on.
Work(r) == IF r \in Makers THEN {r} ELSE target[r]

Busy(r) == at[r] \notin {"new", "done"}

\* A query fails, and the request with it, but for the record of the resources.
FailQuery(r) ==
    /\ Busy(r)
    /\ at[r] \notin Resources \cup {"config", "clear"}
    /\ Outage
    /\ lost' = lost \cup Work(r)
    /\ Go(r, IF at[r] = "record" THEN "session" ELSE "done")
    /\ UNCHANGED <<rowVars, cloud, gang, acct, mine, target, todo, overlapped, refused, raced>>

\* The process restarts: every request ends where it is.
RestartRequests ==
    /\ \E r \in Requests : Busy(r)
    /\ Outage
    /\ lost' = lost \cup UNION {Work(r) : r \in {q \in Requests : Busy(q)}}
    /\ at' = [r \in Requests |-> IF Busy(r) THEN "done" ELSE at[r]]
    /\ UNCHANGED <<rowVars, cloud, gang, acct, mine, target, todo, overlapped, refused, raced>>

------------------------------------------------------------------------------

ProvisionClient(m) ==
    \/ StartExisting(m) \/ FindUser(m) \/ FindClient(m) \/ LinkUser(m)
    \/ CheckEmail(m) \/ AddUser(m) \/ AddClient(m)
    \/ AddHub(m) \/ MakeResource(m) \/ Configure(m) \/ Record(m)
    \/ FindSession(m) \/ AddSession(m) \/ RotateSession(m)

ClearCloudflare(d) ==
    \/ \E h \in Makers, r \in Resources : ClearResource(d, h, r) \/ FailClear(d, h, r)
    \/ Cleared(d)

DeleteHub(d) ==
    \/ \E h \in Makers : FindHub(d, h)
    \/ ClearCloudflare(d) \/ DropHub(d) \/ CountHubs(d) \/ DropSession(d)

DeleteUser(d) ==
    \/ FindClientOf(d) \/ ListHubs(d) \/ ClearCloudflare(d) \/ DropHubs(d)
    \/ DropSession(d) \/ DropClient(d) \/ DropUser(d)

ProvisioningNext ==
    \/ \E m \in Makers : ProvisionClient(m) \/ FileTicket(m)
    \/ \E m \in Makers, kept \in BOOLEAN : FailCall(m, kept)
    \/ \E d \in HubDeletions : DeleteHub(d)
    \/ \E d \in UserDeletions : DeleteUser(d)
    \/ \E r \in Requests : FailQuery(r)
    \/ RestartRequests

ProvisioningSpec == ProvisioningInit /\ [][ProvisioningNext]_provisioningVars

------------------------------------------------------------------------------
(* Properties *)

MakerStages ==
    {"client", "link", "check", "adduser", "addclient", "hub", "addsession", "rotate"}
        \cup CloudStages

DeletionStages == {"list", "clear", "drop", "count", "dropclient", "dropuser"}

ProvisioningTypeOK ==
    /\ user \in Makers \cup {"none"}
    /\ client \in Makers \cup {"none"}
    /\ client # "none" => user # "none"
    /\ hub \in [Makers -> {client} \cup {"none"}]
    /\ named \in [Makers -> SUBSET Resources]
    /\ cloud \in [Makers -> SUBSET Resources]
    /\ \A h \in Makers : hub[h] = "none" => named[h] = {}
    /\ session \subseteq {client} \ {"none"}
    /\ ticketed \subseteq {h \in Ticketed : hub[h] # "none"}
    /\ gang \in Gangs
    /\ at \in [Requests -> MakerStages \cup DeletionStages \cup {"new", "session", "done"}]
    /\ acct \in [Requests -> Makers \cup {"none"}]
    /\ mine \in [Makers -> SUBSET Resources]
    /\ target \in [Requests -> SUBSET Makers]
    /\ todo \in [Requests -> SUBSET (Makers \X Resources)]
    /\ lost \cup overlapped \cup refused \cup raced \subseteq Makers

\* Nobody is making h's resources or deleting it.
Settled(h) ==
    /\ at[h] \notin CloudStages
    /\ \A d \in HubDeletions \cup UserDeletions :
           at[d] \in {"clear", "drop"} => h \notin target[d]

\* A hub's row names exactly the tunnel, DNS record and access app there are for it, and
\* with the row they go, so none is left at Cloudflare that nobody knows of; but for a
\* call or query that failed, a deletion that came while they were made, and one that
\* removed them and was then refused for a ticket about the hub.
HubResourcesKept ==
    \A h \in Makers \ (lost \cup overlapped \cup refused) :
        Settled(h) => cloud[h] = named[h]

\* "Only tear it down once this was the client's last remaining hub": once it is made, a
\* hub has the session its agent connects by, unless the request failed or the hub was
\* saved after a deletion had counted none.
HubHasSession ==
    \A h \in Makers \ (lost \cup raced) :
        (hub[h] # "none" /\ at[h] = "done") => hub[h] \in session
=============================================================================
