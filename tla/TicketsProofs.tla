--------------------------- MODULE TicketsProofs ----------------------------
(***************************************************************************)
(* Theorems about Tickets, for any number of tickets, requests and runs of *)
(* the monitor that overlap in any way and fail at any point.              *)
(***************************************************************************)
EXTENDS Tickets, FiniteSetTheorems, TLAPS

USE DEF ticketVars, editVars, agentVars, monitorVars

(***************************************************************************)
(* Type correctness.                                                       *)
(***************************************************************************)

Changes == [ticket : Tickets, from : Statuses, to : Statuses]

\* A request that has found its ticket has a change in hand, and one that leads to
\* "new" comes from there.
EditInv ==
    \A e \in Edits : phase[e] # "new" =>
        /\ edit[e] \in Changes
        /\ edit[e].to = "new" => edit[e].from = "new"

TicketInv == TicketsTypeOK /\ EditInv

\* No way leads back to "new".
LEMMA NoWayToNew ==
    ASSUME NEW from \in Statuses, NEW to \in Statuses, Allowed(from, to), to = "new"
    PROVE  from = "new"
  BY DEF Allowed, Successors, Statuses

LEMMA InitTicketInv == TicketsInit => TicketInv
  <1> SUFFICES ASSUME TicketsInit
               PROVE  TicketInv
    OBVIOUS
  <1>1. /\ status \in [Tickets -> Statuses \cup {"none"}]
        /\ edit \in [Edits -> Changes \cup {NoEdit}]
        /\ phase \in [Edits -> {"new", "write", "message", "done"}]
        /\ \A e \in Edits : phase[e] = "new"
    BY DEF TicketsInit
  <1>2. /\ stage \in [Runs -> Stages]
        /\ list \in [Runs -> SUBSET Alerts]
    BY DEF TicketsInit, Stages
  <1>3. QED
    BY <1>1, <1>2 DEF TicketsInit, TicketInv, TicketsTypeOK, EditInv, Changes

\* A ticket that exists goes on to exist.
LEMMA CreatedGrow ==
    ASSUME TicketsTypeOK, NEW t \in Tickets, NEW s \in Statuses, Put(t, s)
    PROVE  /\ status' \in [Tickets -> Statuses \cup {"none"}]
           /\ Created' = Created \cup {t}
           /\ Alerts \subseteq Alerts'
  BY DEF TicketsTypeOK, Put, Created, Alerts, Statuses

LEMMA CreatedStay ==
    ASSUME UNCHANGED status
    PROVE  Created' = Created /\ Alerts' = Alerts
  BY DEF Created, Alerts

LEMMA NextTicketInv ==
  TicketInv /\ [TicketsNext]_ticketsVars => TicketInv'
  <1> SUFFICES ASSUME TicketInv, [TicketsNext]_ticketsVars
               PROVE  TicketInv'
    OBVIOUS
  <1> USE DEF TicketInv
  <1>1. ASSUME NEW t \in Tickets, CreateTicket(t)
        PROVE  TicketInv'
    <2>1. "new" \in Statuses
      BY DEF Statuses
    <2>2. QED
      BY <1>1, <2>1, CreatedGrow DEF CreateTicket, TicketsTypeOK, EditInv
  <1>2. ASSUME NEW e \in Edits, NEW t \in Tickets, NEW s \in Statuses, EditFind(e, t, s)
        PROVE  TicketInv'
    <2>1. status[t] \in Statuses /\ (s = "new" => status[t] = "new")
      BY <1>2, NoWayToNew DEF EditFind, Created, TicketsTypeOK
    <2>2. edit'[e] = [ticket |-> t, from |-> status[t], to |-> s] /\ edit'[e] \in Changes
      BY <1>2, <2>1 DEF EditFind, TicketsTypeOK, Changes
    <2>3. \A x \in Edits \ {e} : edit'[x] = edit[x] /\ phase'[x] = phase[x]
      BY <1>2 DEF EditFind, TicketsTypeOK
    <2>4. EditInv'
      BY <2>1, <2>2, <2>3 DEF EditInv
    <2>5. edit' \in [Edits -> Changes \cup {NoEdit}]
      BY <1>2, <2>2, <2>3 DEF EditFind, TicketsTypeOK, Changes
    <2>6. TicketsTypeOK'
      BY <1>2, <2>2, <2>3, <2>5, CreatedStay DEF EditFind, TicketsTypeOK, Changes
    <2>7. QED
      BY <2>4, <2>6
  <1>3. ASSUME NEW e \in Edits, EditWrite(e)
        PROVE  TicketInv'
    <2>1. edit[e] \in Changes
      BY <1>3 DEF EditWrite, EditInv
    <2>2. edit[e].ticket \in Tickets /\ edit[e].to \in Statuses
      BY <2>1 DEF Changes
    <2>3. QED
      BY <1>3, <2>2, CreatedGrow DEF EditWrite, TicketsTypeOK, EditInv
  <1>4. ASSUME NEW e \in Edits, EditMessage(e)
        PROVE  TicketInv'
    BY <1>4, CreatedStay DEF EditMessage, TicketsTypeOK, EditInv
  <1>5. ASSUME NEW e \in Edits, FailEdit(e)
        PROVE  TicketInv'
    <2>1. edit[e].ticket \in Created /\ failures' \in Nat
      BY <1>5 DEF FailEdit, TicketsTypeOK
    <2>2. blurred' \subseteq Created
      BY <1>5, <2>1 DEF FailEdit, TicketsTypeOK
    <2>3. phase' \in [Edits -> {"new", "write", "message", "done"}]
      BY <1>5 DEF FailEdit, TicketsTypeOK
    <2>4. trail' \subseteq {x \in Edits : phase'[x] = "done"}
      BY <1>5 DEF FailEdit, TicketsTypeOK
    <2>5. \A x \in Edits : phase'[x] # "new" => phase[x] # "new"
      BY <1>5 DEF FailEdit, TicketsTypeOK
    <2>6. QED
      <3>1. EditInv'
        BY <1>5, <2>5 DEF FailEdit, EditInv
      <3>2. TicketsTypeOK'
        BY <1>5, <2>1, <2>2, <2>3, <2>4, <2>5, CreatedStay DEF FailEdit, TicketsTypeOK
      <3>3. QED
        BY <3>1, <3>2
  <1>6. ASSUME Beat \/ SocketCloses \/ FallSilent
        PROVE  TicketInv'
    <2>1. /\ conn' \in {"connected", "closed", "marked"}
          /\ silent' \in BOOLEAN
          /\ silences' \in Nat
      <3>1. silences \in Nat => silences + 1 \in Nat
        OBVIOUS
      <3>2. QED
        BY <1>6, <3>1 DEF Beat, SocketCloses, FallSilent, TicketsTypeOK
    <2>2. UNCHANGED <<ticketVars, editVars, monitorVars, failures>>
      BY <1>6 DEF Beat, SocketCloses, FallSilent
    <2>3. QED
      BY <2>1, <2>2, CreatedStay DEF TicketsTypeOK, EditInv
  <1>7. ASSUME NEW m \in Runs, FindStale(m) \/ MarkOffline(m) \/ RaiseFind(m) \/ FindOnline(m)
        PROVE  TicketInv'
    BY <1>7, CreatedStay DEF FindStale, MarkOffline, RaiseFind, FindOnline, Enter, Stages,
       TicketsTypeOK, EditInv
  <1>8. ASSUME NEW m \in Runs, ResolveFind(m)
        PROVE  TicketInv'
    BY <1>8, CreatedStay DEF ResolveFind, NewAlerts, Enter, Stages, TicketsTypeOK, EditInv
  <1>9. ASSUME NEW m \in Runs, NEW t \in Tickets, RaiseSave(m, t)
        PROVE  TicketInv'
    <2>1. "new" \in Statuses
      BY DEF Statuses
    <2>2. QED
      BY <1>9, <2>1, CreatedGrow DEF RaiseSave, Enter, Stages, TicketsTypeOK, EditInv
  <1>10. ASSUME NEW m \in Runs, NEW t \in Tickets, Resolve(m, t)
         PROVE  TicketInv'
    <2>1. "resolved" \in Statuses /\ t \in Alerts
      BY <1>10 DEF Resolve, Statuses, TicketsTypeOK
    <2>2. t \in Created
      BY <2>1 DEF Alerts
    <2>3. list' \in [Runs -> SUBSET Alerts]
      BY <1>10 DEF Resolve, TicketsTypeOK
    <2>4. stage' \in [Runs -> Stages]
      BY <1>10 DEF Resolve, Enter, Stages, TicketsTypeOK
    <2>5. QED
      BY <1>10, <2>1, <2>2, <2>3, <2>4, CreatedGrow DEF Resolve, TicketsTypeOK, EditInv
  <1>11. ASSUME NEW m \in Runs, FailRun(m)
         PROVE  TicketInv'
    BY <1>11, CreatedStay DEF FailRun, Enter, Stages, TicketsTypeOK, EditInv
  <1>12. CASE RestartBackend
    BY <1>12, CreatedStay DEF RestartBackend, Stages, TicketsTypeOK, EditInv
  <1>13. CASE UNCHANGED ticketsVars
    BY <1>13, CreatedStay DEF ticketsVars, TicketsTypeOK, EditInv
  <1>14. QED
    BY <1>1, <1>2, <1>3, <1>4, <1>5, <1>6, <1>7, <1>8, <1>9, <1>10, <1>11, <1>12, <1>13
       DEF TicketsNext, UpdateStatus, CheckAgentHealth

\* Every reachable state is type correct.
THEOREM TicketsTypeCorrect == TicketsSpec => []TicketsTypeOK
  <1>1. TicketInv => TicketsTypeOK
    BY DEF TicketInv
  <1>2. QED
    BY <1>1, InitTicketInv, NextTicketInv, PTL DEF TicketsSpec

(***************************************************************************)
(* Silence is reported once.                                               *)
(***************************************************************************)

Untouched == NewAlerts \ blurred

\* Unless two runs met there, one at most is about to raise an alert, and then there is
\* none nobody has touched.
AlertInv ==
    ~doubled =>
        /\ \A t, u \in Untouched : t = u
        /\ \A m, n \in Runs : stage[m] = "create" /\ stage[n] = "create" => m = n
        /\ \A m \in Runs : stage[m] = "create" => Untouched = {}

\* A step that adds no alert and brings no run to the point of raising one.
LEMMA QuietStep ==
    ASSUME AlertInv, UNCHANGED doubled, Untouched' \subseteq Untouched,
           \A m \in Runs : stage'[m] = "create" => stage[m] = "create"
    PROVE  AlertInv'
  BY DEF AlertInv

\* A ticket that gets another status than "new", or whose status nobody had looked at.
LEMMA NoNewAlert ==
    ASSUME TicketsTypeOK, NEW t \in Tickets, NEW s \in Statuses, Put(t, s),
           s = "new" => t \notin AutoTickets \/ t \in blurred' \/ status[t] = "new",
           blurred \subseteq blurred'
    PROVE  Untouched' \subseteq Untouched
  BY DEF TicketsTypeOK, Put, Untouched, NewAlerts, Alerts, Created, Statuses

LEMMA NextAlertInv ==
  TicketInv /\ AlertInv /\ [TicketsNext]_ticketsVars => AlertInv'
  <1> SUFFICES ASSUME TicketInv, AlertInv, [TicketsNext]_ticketsVars
               PROVE  AlertInv'
    OBVIOUS
  <1> USE DEF TicketInv
  <1>1. ASSUME NEW t \in Tickets, CreateTicket(t)
        PROVE  AlertInv'
    <2>1. "new" \in Statuses
      BY DEF Statuses
    <2>2. QED
      BY <1>1, <2>1, NoNewAlert, QuietStep DEF CreateTicket
  <1>2. ASSUME NEW e \in Edits, NEW t \in Tickets, NEW s \in Statuses, EditFind(e, t, s)
        PROVE  AlertInv'
    BY <1>2, QuietStep DEF EditFind, Untouched, NewAlerts, Alerts, Created
  <1>3. ASSUME NEW e \in Edits, EditWrite(e)
        PROVE  AlertInv'
    <2>1. edit[e].ticket \in Tickets /\ edit[e].to \in Statuses
      BY <1>3 DEF EditWrite, EditInv, Changes
    <2>2. edit[e].to = "new" => edit[e].ticket \in blurred' \/ status[edit[e].ticket] = "new"
      BY <1>3 DEF EditWrite, EditInv
    <2>3. blurred \subseteq blurred' /\ UNCHANGED <<doubled, stage>>
      BY <1>3 DEF EditWrite
    <2>4. Untouched' \subseteq Untouched
      BY <1>3, <2>1, <2>2, <2>3, NoNewAlert DEF EditWrite
    <2>5. QED
      BY <2>3, <2>4, QuietStep
  <1>4. ASSUME NEW e \in Edits, EditMessage(e) \/ FailEdit(e)
        PROVE  AlertInv'
    BY <1>4, QuietStep DEF EditMessage, FailEdit, Untouched, NewAlerts, Alerts, Created
  <1>5. CASE Beat \/ SocketCloses \/ FallSilent
    BY <1>5, QuietStep DEF Beat, SocketCloses, FallSilent, Untouched, NewAlerts, Alerts, Created
  <1>6. ASSUME NEW m \in Runs,
               FindStale(m) \/ MarkOffline(m) \/ FindOnline(m) \/ ResolveFind(m) \/ FailRun(m)
        PROVE  AlertInv'
    <2>1. \A n \in Runs : stage'[n] = "create" => stage[n] = "create"
      BY <1>6 DEF FindStale, MarkOffline, FindOnline, ResolveFind, FailRun, Enter, TicketsTypeOK
    <2>2. UNCHANGED <<status, blurred, doubled>>
      BY <1>6 DEF FindStale, MarkOffline, FindOnline, ResolveFind, FailRun
    <2>3. QED
      BY <2>1, <2>2, QuietStep DEF Untouched, NewAlerts, Alerts, Created
  <1>7. ASSUME NEW m \in Runs, RaiseFind(m)
        PROVE  AlertInv'
    <2>1. Untouched' = Untouched
      BY <1>7 DEF RaiseFind, Untouched, NewAlerts, Alerts, Created
    <2>2. CASE OpenAlerts = {}
      <3>1. Untouched = {}
        BY <2>2 DEF OpenAlerts, Untouched, NewAlerts, Alerts, OpenStatuses
      <3>2. \A n \in Runs : stage'[n] = "create" => n = m \/ stage[n] = "create"
        BY <1>7, <2>2 DEF RaiseFind, Enter, TicketsTypeOK
      <3>3. ~doubled' => ~doubled /\ \A n \in Runs \ {m} : stage[n] # "create"
        BY <1>7, <2>2 DEF RaiseFind
      <3>4. QED
        BY <2>1, <3>1, <3>2, <3>3 DEF AlertInv
    <2>3. CASE OpenAlerts # {}
      <3>1. \A n \in Runs : stage'[n] = "create" => stage[n] = "create"
        BY <1>7, <2>3 DEF RaiseFind, Enter, TicketsTypeOK
      <3>2. QED
        BY <1>7, <2>1, <2>3, <3>1, QuietStep DEF RaiseFind
    <2>4. QED
      BY <2>2, <2>3
  <1>8. ASSUME NEW m \in Runs, NEW t \in Tickets, RaiseSave(m, t)
        PROVE  AlertInv'
    <2>1. Untouched' \subseteq Untouched \cup {t}
      BY <1>8 DEF RaiseSave, Put, Untouched, NewAlerts, Alerts, Created, TicketsTypeOK
    <2>2. \A n \in Runs : stage'[n] = "create" => n # m /\ stage[n] = "create"
      BY <1>8 DEF RaiseSave, Enter, TicketsTypeOK
    <2>3. stage[m] = "create" /\ UNCHANGED doubled
      BY <1>8 DEF RaiseSave
    <2>4. QED
      BY <2>1, <2>2, <2>3 DEF AlertInv
  <1>9. ASSUME NEW m \in Runs, NEW t \in Tickets, Resolve(m, t)
        PROVE  AlertInv'
    <2>1. "resolved" \in Statuses
      BY DEF Statuses
    <2>2. \A n \in Runs : stage'[n] = "create" => stage[n] = "create"
      BY <1>9 DEF Resolve, Enter, TicketsTypeOK
    <2>3. blurred \subseteq blurred' /\ UNCHANGED doubled
      BY <1>9 DEF Resolve
    <2>4. Untouched' \subseteq Untouched
      BY <1>9, <2>1, <2>3, NoNewAlert DEF Resolve
    <2>5. QED
      BY <2>2, <2>3, <2>4, QuietStep
  <1>10. CASE RestartBackend
    <2>1. \A n \in Runs : stage'[n] = "create" => stage[n] = "create"
      BY <1>10 DEF RestartBackend
    <2>2. Untouched' \subseteq Untouched /\ UNCHANGED doubled
      BY <1>10 DEF RestartBackend, Untouched, NewAlerts, Alerts, Created
    <2>3. QED
      BY <2>1, <2>2, QuietStep
  <1>11. CASE UNCHANGED ticketsVars
    BY <1>11, QuietStep DEF ticketsVars, Untouched, NewAlerts, Alerts, Created
  <1>12. QED
    BY <1>1, <1>2, <1>3, <1>4, <1>5, <1>6, <1>7, <1>8, <1>9, <1>10, <1>11
       DEF TicketsNext, UpdateStatus, CheckAgentHealth

\* Silence is reported once: of the alerts nobody has touched there is one at most, unless
\* two runs of the monitor looked for it at the same time.
THEOREM SilenceIsReportedOnce == TicketsSpec => []OneNewAlert
  <1>1. TicketsInit => AlertInv
    <2>1. TicketsInit => Untouched = {}
      BY DEF TicketsInit, Untouched, NewAlerts, Alerts, Created
    <2>2. TicketsInit => \A m \in Runs : stage[m] # "create"
      BY DEF TicketsInit
    <2>3. QED
      BY <2>1, <2>2 DEF AlertInv
  <1>2. AlertInv => OneNewAlert
    BY DEF AlertInv, OneNewAlert, Untouched
  <1>3. QED
    BY <1>1, <1>2, InitTicketInv, NextTicketInv, NextAlertInv, PTL DEF TicketsSpec

(***************************************************************************)
(* The trail of a ticket leads to its status.                              *)
(***************************************************************************)

\* Changes of t that are on record or about to be.
Counted == trail \cup {e \in Edits : phase[e] = "message"}

Of(t) == {e \in Counted : edit[e].ticket = t}

From(t, s) == {e \in Of(t) : edit[e].from = s}

To(t, s) == {e \in Of(t) : edit[e].to = s}

\* Status s of t was left as often as it was reached.
Balanced(t, s) ==
    Cardinality(To(t, s)) + Bit(s = "new") + Bit(s = "resolved" /\ t \in settled)
        = Cardinality(From(t, s)) + Bit(s = status[t]) + Bit(s = "new" /\ t \in settled)

Accounted(t) ==
    /\ \A s \in Statuses : Balanced(t, s)
    /\ t \in settled => status[t] # "new"

TrailInv == \A t \in Created \ blurred : Accounted(t)

LEMMA CountedTypes ==
    ASSUME TicketInv
    PROVE  /\ Counted \subseteq Edits
           /\ \A e \in Counted : edit[e] \in Changes /\ edit[e].ticket \in Created
           /\ \A t, s : /\ IsFiniteSet(From(t, s)) /\ Cardinality(From(t, s)) \in Nat
                        /\ IsFiniteSet(To(t, s)) /\ Cardinality(To(t, s)) \in Nat
  <1>1. Counted \subseteq Edits /\ \A e \in Counted : phase[e] # "new"
    BY DEF TicketInv, TicketsTypeOK, Counted
  <1>2. \A e \in Counted : edit[e] \in Changes /\ edit[e].ticket \in Created
    BY <1>1 DEF TicketInv, TicketsTypeOK, EditInv
  <1>3. \A t, s : From(t, s) \in SUBSET Edits /\ To(t, s) \in SUBSET Edits
    BY <1>1 DEF From, To, Of
  <1>4. \A S \in SUBSET Edits : IsFiniteSet(S) /\ Cardinality(S) \in Nat
    BY TicketsAssumption, FS_Subset, FS_CardinalityType
  <1>5. QED
    BY <1>1, <1>2, <1>3, <1>4

\* A step that leaves a ticket and its changes alone.
LEMMA TicketStays ==
    ASSUME NEW t, Accounted(t), Of(t)' = Of(t), \A e \in Of(t) : edit'[e] = edit[e],
           status'[t] = status[t], t \in settled' <=> t \in settled
    PROVE  Accounted(t)'
  <1>1. \A s : From(t, s)' = From(t, s) /\ To(t, s)' = To(t, s)
    BY DEF From, To
  <1>2. QED
    BY <1>1 DEF Accounted, Balanced

\* A ticket just created has no changes.
LEMMA NewTicket ==
    ASSUME NEW t, Of(t)' = {}, status'[t] = "new", t \notin settled'
    PROVE  (\A s \in Statuses : Balanced(t, s)') /\ Accounted(t)'
  <1>1. \A s : From(t, s)' = {} /\ To(t, s)' = {}
    BY DEF From, To
  <1>2. QED
    BY <1>1, FS_EmptySet DEF Accounted, Balanced, Bit

\* A change of t is written over the status it had found.
LEMMA ChangeCounts ==
    ASSUME TicketInv, NEW e \in Edits, e \notin Counted, NEW t, NEW from, NEW to,
           edit[e] = [ticket |-> t, from |-> from, to |-> to], Accounted(t),
           Of(t)' = Of(t) \cup {e}, edit' = edit, settled' = settled,
           status[t] = from, status'[t] = to, to # from, to # "new"
    PROVE  Accounted(t)'
  <1>1. ASSUME NEW s
        PROVE  From(t, s)' = IF s = from THEN From(t, s) \cup {e} ELSE From(t, s)
    BY DEF From
  <1>2. ASSUME NEW s
        PROVE  To(t, s)' = IF s = to THEN To(t, s) \cup {e} ELSE To(t, s)
    BY DEF To
  <1>3. \A s : e \notin From(t, s) /\ e \notin To(t, s)
    BY DEF From, To, Of
  <1>4. ASSUME NEW s
        PROVE  /\ Cardinality(From(t, s)) \in Nat
               /\ Cardinality(To(t, s)) \in Nat
               /\ Cardinality(From(t, s) \cup {e}) = Cardinality(From(t, s)) + 1
               /\ Cardinality(To(t, s) \cup {e}) = Cardinality(To(t, s)) + 1
    BY <1>3, CountedTypes, FS_AddElement
  <1>5. ASSUME NEW s \in Statuses
        PROVE  Balanced(t, s)'
    <2>1. Balanced(t, s)
      BY DEF Accounted
    <2>2. Cardinality(From(t, s)') = Cardinality(From(t, s)) + Bit(s = from)
      <3>1. CASE s = from
        BY <1>1, <1>4, <3>1 DEF Bit
      <3>2. CASE s # from
        <4>1. From(t, s)' = From(t, s)
          BY <1>1, <3>2
        <4>2. \A k \in Nat : k = k + Bit(s = from)
          BY <3>2 DEF Bit
        <4>3. QED
          BY <1>4, <4>1, <4>2
      <3>3. QED
        BY <3>1, <3>2
    <2>3. Cardinality(To(t, s)') = Cardinality(To(t, s)) + Bit(s = to)
      <3>1. CASE s = to
        BY <1>2, <1>4, <3>1 DEF Bit
      <3>2. CASE s # to
        <4>1. To(t, s)' = To(t, s)
          BY <1>2, <3>2
        <4>2. \A k \in Nat : k = k + Bit(s = to)
          BY <3>2 DEF Bit
        <4>3. QED
          BY <1>4, <4>1, <4>2
      <3>3. QED
        BY <3>1, <3>2
    <2>4. /\ Cardinality(From(t, s)) \in Nat
          /\ Cardinality(To(t, s)) \in Nat
      BY <1>4
    <2>5. QED
      BY <2>1, <2>2, <2>3, <2>4 DEF Balanced, Bit
  <1>6. t \in settled' => status'[t] # "new"
    OBVIOUS
  <1>7. QED
    BY <1>5, <1>6 DEF Accounted

\* The monitor resolves a ticket that is new.
LEMMA SettledCounts ==
    ASSUME TicketInv, NEW t \in Created, Accounted(t), Of(t)' = Of(t), edit' = edit,
           status[t] = "new", status'[t] = "resolved", t \in settled'
    PROVE  Accounted(t)'
  <1>1. \A s : From(t, s)' = From(t, s) /\ To(t, s)' = To(t, s)
    BY DEF From, To
  <1>2. \A s : Cardinality(From(t, s)) \in Nat /\ Cardinality(To(t, s)) \in Nat
    BY CountedTypes
  <1>3. t \notin settled
    BY DEF Accounted
  <1>4. ASSUME NEW s \in Statuses
        PROVE  Balanced(t, s)'
    <2>1. Balanced(t, s)
      BY DEF Accounted
    <2>2. QED
      BY <2>1, <1>1, <1>2, <1>3 DEF Balanced, Bit
  <1>5. QED
    BY <1>4 DEF Accounted

\* A step that leaves every ticket that is not blurred alone.
LEMMA QuietTrail ==
    ASSUME TrailInv, Counted' = Counted, \A e \in Counted : edit'[e] = edit[e],
           UNCHANGED <<status, settled>>, blurred \subseteq blurred'
    PROVE  TrailInv'
  <1> SUFFICES ASSUME NEW t \in (Created \ blurred)'
               PROVE  Accounted(t)'
    BY DEF TrailInv
  <1>1. t \in Created \ blurred
    BY DEF Created
  <1>2. Of(t)' = Of(t) /\ \A e \in Of(t) : edit'[e] = edit[e]
    BY DEF Of
  <1>3. QED
    BY <1>1, <1>2, TicketStays DEF TrailInv

\* A ticket is created.
LEMMA TicketBorn ==
    ASSUME TicketInv, TrailInv, NEW t \in Tickets, status[t] = "none", Put(t, "new"),
           UNCHANGED <<blurred, editVars, settled>>
    PROVE  TrailInv'
  <1> SUFFICES ASSUME NEW u \in (Created \ blurred)'
               PROVE  Accounted(u)'
    BY DEF TrailInv
  <1>1. /\ t \notin Created
        /\ t \notin settled
        /\ status'[t] = "new"
        /\ u # t => u \in Created /\ status'[u] = status[u]
    BY DEF TicketInv, TicketsTypeOK, Put, Created, Alerts
  <1>2. Counted' = Counted
    BY DEF Counted
  <1>3. CASE u = t
    <2>1. Of(t)' = {}
      BY <1>1, <1>2, CountedTypes DEF Of
    <2>2. QED
      BY <1>1, <1>3, <2>1, NewTicket
  <1>4. CASE u # t
    <2>1. Of(u)' = Of(u)
      BY <1>2 DEF Of
    <2>2. QED
      BY <1>1, <1>4, <2>1, TicketStays DEF TrailInv
  <1>5. QED
    BY <1>3, <1>4

\* A request writes the status it wants.
LEMMA WrittenTrail ==
    ASSUME TicketInv, TrailInv, NEW e \in Edits, EditWrite(e)
    PROVE  TrailInv'
  <1> DEFINE T == edit[e].ticket
  <1> SUFFICES ASSUME NEW u \in (Created \ blurred)'
               PROVE  Accounted(u)'
    BY DEF TrailInv
  <1>1. edit[e] \in Changes /\ edit[e].ticket \in Created /\ edit' = edit /\ settled' = settled
    BY DEF EditWrite, TicketInv, TicketsTypeOK, EditInv
  <1>2. e \notin Counted
    BY DEF EditWrite, TicketInv, TicketsTypeOK, Counted
  <1>3. /\ Counted' = Counted \cup (IF edit[e].to = edit[e].from THEN {} ELSE {e})
    BY DEF EditWrite, TicketInv, TicketsTypeOK, Counted
  <1>4. /\ status'[T] = edit[e].to
        /\ u # T => status'[u] = status[u]
        /\ u \in Created
    BY <1>1 DEF EditWrite, Put, TicketInv, TicketsTypeOK, Created
  <1>5. u \in Created \ blurred /\ Accounted(u)
    BY <1>4 DEF EditWrite, TrailInv
  <1>6. CASE u # T
    <2>1. Of(u)' = Of(u)
      BY <1>1, <1>3, <1>6 DEF Of
    <2>2. QED
      BY <1>1, <1>4, <1>5, <1>6, <2>1, TicketStays
  <1>7. CASE u = T
    <2>1. status[u] = edit[e].from
      BY <1>7 DEF EditWrite
    <2>2. CASE edit[e].to = edit[e].from
      <3>1. Of(u)' = Of(u)
        BY <1>1, <1>3, <2>2 DEF Of
      <3>2. QED
        BY <1>1, <1>4, <1>5, <1>7, <2>1, <2>2, <3>1, TicketStays
    <2>3. CASE edit[e].to # edit[e].from
      <3>1. Of(u)' = Of(u) \cup {e}
        BY <1>1, <1>3, <1>7, <2>3 DEF Of
      <3>2. edit[e].to # "new"
        BY <2>3 DEF EditWrite, TicketInv, EditInv
      <3>3. edit[e] = [ticket |-> u, from |-> edit[e].from, to |-> edit[e].to]
        BY <1>1, <1>7 DEF Changes
      <3>4. PICK from, to : from = edit[e].from /\ to = edit[e].to
        OBVIOUS
      <3>5. status[u] = from /\ status'[u] = to /\ to # from /\ to # "new"
        BY <1>4, <1>7, <2>1, <2>3, <3>2, <3>4
      <3>6. QED
        BY <1>1, <1>2, <1>5, <3>1, <3>3, <3>4, <3>5, ChangeCounts
    <2>4. QED
      BY <2>2, <2>3
  <1>8. QED
    BY <1>6, <1>7

\* A request whose message is not saved.
LEMMA LostTrail ==
    ASSUME TicketInv, TrailInv, NEW L, L \subseteq {e \in Edits : phase[e] = "message"},
           Counted' = Counted \ L, UNCHANGED <<status, edit, settled>>,
           blurred' = blurred \cup {edit[e].ticket : e \in L}
    PROVE  TrailInv'
  <1> SUFFICES ASSUME NEW u \in (Created \ blurred)'
               PROVE  Accounted(u)'
    BY DEF TrailInv
  <1>1. u \in Created \ blurred /\ \A e \in L : edit[e].ticket # u
    BY DEF Created
  <1>2. Of(u)' = Of(u)
    BY <1>1 DEF Of
  <1>3. QED
    BY <1>1, <1>2, TicketStays DEF TrailInv

\* The monitor resolves a ticket.
LEMMA ResolvedTrail ==
    ASSUME TicketInv, TrailInv, NEW m \in Runs, NEW t \in Tickets, Resolve(m, t)
    PROVE  TrailInv'
  <1> SUFFICES ASSUME NEW u \in (Created \ blurred)'
               PROVE  Accounted(u)'
    BY DEF TrailInv
  <1>1. t \in Created
    BY DEF Resolve, TicketInv, TicketsTypeOK, Alerts
  <1>2. /\ status'[t] = "resolved"
        /\ u # t => status'[u] = status[u]
        /\ u \in Created
    BY <1>1 DEF Resolve, Put, TicketInv, TicketsTypeOK, Created
  <1>3. Counted' = Counted /\ edit' = edit
    BY DEF Resolve, Counted
  <1>4. Of(u)' = Of(u)
    BY <1>3 DEF Of
  <1>5. u \in Created \ blurred /\ Accounted(u)
    BY <1>2 DEF Resolve, TrailInv
  <1>6. CASE u = t /\ status[t] = "new"
    <2>1. t \in settled'
      BY <1>6 DEF Resolve
    <2>2. QED
      BY <1>2, <1>3, <1>4, <1>5, <1>6, <2>1, SettledCounts
  <1>7. CASE ~(u = t /\ status[t] = "new")
    <2>1. status'[u] = status[u]
      BY <1>2, <1>7 DEF Resolve
    <2>2. u \in settled' <=> u \in settled
      BY <1>7 DEF Resolve
    <2>3. QED
      BY <1>3, <1>4, <1>5, <2>1, <2>2, TicketStays
  <1>8. QED
    BY <1>6, <1>7

LEMMA NextTrailInv ==
  TicketInv /\ TrailInv /\ [TicketsNext]_ticketsVars => TrailInv'
  <1> SUFFICES ASSUME TicketInv, TrailInv, [TicketsNext]_ticketsVars
               PROVE  TrailInv'
    OBVIOUS
  <1>1. ASSUME NEW t \in Tickets, CreateTicket(t)
        PROVE  TrailInv'
    BY <1>1, TicketBorn DEF CreateTicket
  <1>2. ASSUME NEW e \in Edits, NEW t \in Tickets, NEW s \in Statuses, EditFind(e, t, s)
        PROVE  TrailInv'
    <2>1. e \notin Counted /\ Counted' = Counted
      BY <1>2 DEF EditFind, TicketInv, TicketsTypeOK, Counted
    <2>2. \A x \in Counted : edit'[x] = edit[x]
      BY <1>2, <2>1, CountedTypes DEF EditFind, TicketInv, TicketsTypeOK
    <2>3. QED
      BY <1>2, <2>1, <2>2, QuietTrail DEF EditFind
  <1>3. ASSUME NEW e \in Edits, EditWrite(e)
        PROVE  TrailInv'
    BY <1>3, WrittenTrail
  <1>4. ASSUME NEW e \in Edits, EditMessage(e)
        PROVE  TrailInv'
    <2>1. Counted' = Counted
      BY <1>4 DEF EditMessage, TicketInv, TicketsTypeOK, Counted
    <2>2. QED
      BY <1>4, <2>1, QuietTrail DEF EditMessage
  <1>5. ASSUME NEW e \in Edits, FailEdit(e)
        PROVE  TrailInv'
    <2>1. CASE phase[e] = "write"
      <3>1. Counted' = Counted
        BY <1>5, <2>1 DEF FailEdit, TicketInv, TicketsTypeOK, Counted
      <3>2. QED
        BY <1>5, <2>1, <3>1, QuietTrail DEF FailEdit
    <2>2. CASE phase[e] = "message"
      <3>1. Counted' = Counted \ {e}
        BY <1>5, <2>2 DEF FailEdit, TicketInv, TicketsTypeOK, Counted
      <3>2. blurred' = blurred \cup {edit[x].ticket : x \in {e}}
        BY <1>5, <2>2 DEF FailEdit
      <3>3. QED
        BY <1>5, <2>2, <3>1, <3>2, LostTrail DEF FailEdit
    <2>3. QED
      BY <1>5, <2>1, <2>2 DEF FailEdit
  <1>6. ASSUME UNCHANGED <<ticketVars, editVars, settled>>
        PROVE  TrailInv'
    BY <1>6, QuietTrail DEF Counted
  <1>7. ASSUME NEW m \in Runs, NEW t \in Tickets, RaiseSave(m, t)
        PROVE  TrailInv'
    BY <1>7, TicketBorn DEF RaiseSave
  <1>8. ASSUME NEW m \in Runs, NEW t \in Tickets, Resolve(m, t)
        PROVE  TrailInv'
    BY <1>8, ResolvedTrail
  <1>9. CASE RestartBackend
    <2> DEFINE L == {e \in Edits : phase[e] = "message"}
    <2>1. Counted' = Counted \ L
      BY <1>9 DEF RestartBackend, TicketInv, TicketsTypeOK, Counted
    <2>2. blurred' = blurred \cup {edit[x].ticket : x \in L}
      BY <1>9 DEF RestartBackend
    <2>3. UNCHANGED <<status, edit, settled>> /\ L \subseteq {e \in Edits : phase[e] = "message"}
      BY <1>9 DEF RestartBackend
    <2> HIDE DEF L
    <2>4. QED
      BY <2>1, <2>2, <2>3, LostTrail
  <1>10. ASSUME NEW m \in Runs,
                \/ FindStale(m) \/ MarkOffline(m) \/ RaiseFind(m) \/ FindOnline(m)
                \/ ResolveFind(m) \/ FailRun(m)
         PROVE  TrailInv'
    BY <1>6, <1>10 DEF FindStale, MarkOffline, RaiseFind, FindOnline, ResolveFind, FailRun
  <1>11. CASE Beat \/ SocketCloses \/ FallSilent
    BY <1>6, <1>11 DEF Beat, SocketCloses, FallSilent
  <1>12. CASE UNCHANGED ticketsVars
    BY <1>6, <1>12 DEF ticketsVars
  <1>13. QED
    BY <1>1, <1>2, <1>3, <1>4, <1>5, <1>7, <1>8, <1>9, <1>10, <1>11, <1>12
       DEF TicketsNext, UpdateStatus, CheckAgentHealth

\* When no message about a ticket is on its way, what counts is what is on record.
LEMMA CountedOnRecord ==
    ASSUME TicketInv, NEW t, \A e \in Edits : ~(phase[e] = "message" /\ edit[e].ticket = t)
    PROVE  \A s : Reached(t, s) = To(t, s) /\ Left(t, s) = From(t, s)
  BY DEF Reached, Left, To, From, Of, Counted

\* "Keeps the audit trail meaningful": the changes on record lead from "new" to the
\* ticket's status, unless it was written over unread or a message was lost.
THEOREM TrailsAddUp == TicketsSpec => []TrailAddsUp
  <1>1. TicketsInit => TrailInv
    BY DEF TicketsInit, TrailInv, Created
  <1>2. TicketInv /\ TrailInv => TrailAddsUp
    BY CountedOnRecord DEF TrailInv, Accounted, Balanced, TrailAddsUp
  <1>3. QED
    BY <1>1, <1>2, InitTicketInv, NextTicketInv, NextTrailInv, PTL DEF TicketsSpec

(***************************************************************************)
(* The table of transitions.                                               *)
(***************************************************************************)

\* A ticket goes from status to status as the table allows, or from "new" to "resolved"
\* by the monitor; never otherwise but over a status that was not read.  So a closed
\* ticket stays closed, for the table has no way out.
ChangesFollowTable ==
    [][\A t \in Created : status'[t] # status[t] =>
          \/ status'[t] \in Successors[status[t]]
          \/ status[t] = "new" /\ status'[t] = "resolved" /\ t \in settled'
          \/ t \in blurred']_ticketsVars

\* The change a request is about to write was allowed when it read the ticket.
AllowedInv == \A e \in Edits : phase[e] = "write" => Allowed(edit[e].from, edit[e].to)

LEMMA NextAllowedInv ==
    TicketInv /\ AllowedInv /\ [TicketsNext]_ticketsVars => AllowedInv'
  <1> SUFFICES ASSUME TicketInv, AllowedInv, [TicketsNext]_ticketsVars
               PROVE  AllowedInv'
    OBVIOUS
  <1> USE DEF TicketInv, TicketsTypeOK, AllowedInv
  <1>1. ASSUME NEW e \in Edits, NEW t \in Tickets, NEW s \in Statuses, EditFind(e, t, s)
        PROVE  AllowedInv'
    <2>1. edit' = [edit EXCEPT ![e] = [ticket |-> t, from |-> status[t], to |-> s]]
      BY <1>1 DEF EditFind
    <2>2. edit'[e].from = status[t] /\ edit'[e].to = s /\ Allowed(status[t], s)
      BY <1>1, <2>1 DEF EditFind
    <2>3. \A x \in Edits \ {e} : edit'[x] = edit[x] /\ phase'[x] = phase[x]
      BY <1>1 DEF EditFind
    <2>4. QED
      BY <2>2, <2>3
  <1>2. ASSUME edit' = edit, \A e \in Edits : phase'[e] \in {phase[e], "message", "done"}
        PROVE  AllowedInv'
    BY <1>2
  <1>3. ASSUME NEW e \in Edits, EditWrite(e) \/ EditMessage(e) \/ FailEdit(e)
        PROVE  AllowedInv'
    BY <1>2, <1>3 DEF EditWrite, EditMessage, FailEdit
  <1>4. CASE RestartBackend
    BY <1>2, <1>4 DEF RestartBackend
  <1>5. CASE UNCHANGED editVars
    BY <1>2, <1>5
  <1>6. ASSUME NEW t \in Tickets, CreateTicket(t)
        PROVE  AllowedInv'
    BY <1>5, <1>6 DEF CreateTicket
  <1>7. ASSUME NEW m \in Runs, CheckAgentHealth(m) \/ FailRun(m)
        PROVE  AllowedInv'
    BY <1>5, <1>7 DEF CheckAgentHealth, FindStale, MarkOffline, RaiseFind, FindOnline, ResolveFind,
                      RaiseSave, Resolve, FailRun
  <1>8. CASE Beat \/ SocketCloses \/ FallSilent \/ UNCHANGED ticketsVars
    BY <1>5, <1>8 DEF Beat, SocketCloses, FallSilent, ticketsVars
  <1>9. QED
    BY <1>1, <1>3, <1>4, <1>6, <1>7, <1>8 DEF TicketsNext, UpdateStatus

\* updateStatus() checks the table and writes by id, and the monitor does not look at
\* the table at all: the status follows it all the same, but for what was written blind.
THEOREM StatusFollowsTable == TicketsSpec => ChangesFollowTable
  <1> DEFINE Change(t) == status'[t] # status[t] =>
          \/ status'[t] \in Successors[status[t]]
          \/ status[t] = "new" /\ status'[t] = "resolved" /\ t \in settled'
          \/ t \in blurred'
             Changed == \A t \in Created : Change(t)
  <1>1. TicketsInit => AllowedInv
    BY DEF TicketsInit, AllowedInv
  <1>2. ASSUME TicketInv, AllowedInv, [TicketsNext]_ticketsVars
        PROVE  Changed
    <2>1. \A t \in Tickets : \A s : Put(t, s) => \A u \in Tickets \ {t} : status'[u] = status[u]
      BY <1>2 DEF TicketInv, TicketsTypeOK, Put
    <2>2. ASSUME NEW e \in Edits, EditWrite(e)
          PROVE  Changed
      <3> DEFINE t == edit[e].ticket
      <3>1. t \in Tickets /\ edit[e] \in Changes /\ Put(t, edit[e].to)
        BY <1>2, <2>2 DEF EditWrite, TicketInv, EditInv, Changes
      <3>2. status'[t] = edit[e].to
        BY <1>2, <3>1 DEF TicketInv, TicketsTypeOK, Put
      <3>3. CASE status[t] = edit[e].from
        <4>1. Allowed(status[t], status'[t])
          BY <1>2, <2>2, <3>2, <3>3 DEF AllowedInv, EditWrite
        <4>2. QED
          BY <2>1, <3>1, <4>1 DEF Allowed, Created
      <3>4. CASE status[t] # edit[e].from
        BY <2>1, <2>2, <3>1, <3>4 DEF EditWrite, Created
      <3>5. QED
        BY <3>3, <3>4
    <2>3. ASSUME NEW m \in Runs, NEW t \in Tickets, Resolve(m, t)
          PROVE  Changed
      <3>1. status'[t] = "resolved" /\ \A u \in Tickets \ {t} : status'[u] = status[u]
        BY <1>2, <2>1, <2>3 DEF Resolve, TicketInv, TicketsTypeOK, Put
      <3>2. Change(t)
        BY <2>3, <3>1 DEF Resolve
      <3>3. QED
        BY <3>1, <3>2 DEF Created
    <2>4. ASSUME NEW t \in Tickets, status[t] = "none", Put(t, "new")
          PROVE  Changed
      BY <2>1, <2>4 DEF Created
    <2>5. CASE UNCHANGED status
      BY <2>5
    <2>6. ASSUME NEW t \in Tickets, CreateTicket(t)
          PROVE  Changed
      BY <2>4, <2>6 DEF CreateTicket
    <2>7. ASSUME NEW m \in Runs, NEW t \in Tickets, RaiseSave(m, t)
          PROVE  Changed
      BY <2>4, <2>7 DEF RaiseSave
    <2>8. ASSUME NEW e \in Edits,
                 \/ \E t \in Tickets, s \in Statuses : EditFind(e, t, s)
                 \/ EditMessage(e) \/ FailEdit(e)
          PROVE  Changed
      BY <2>5, <2>8 DEF EditFind, EditMessage, FailEdit
    <2>9. ASSUME NEW m \in Runs,
                 \/ FindStale(m) \/ MarkOffline(m) \/ RaiseFind(m) \/ FindOnline(m)
                 \/ ResolveFind(m) \/ FailRun(m)
          PROVE  Changed
      BY <2>5, <2>9 DEF FindStale, MarkOffline, RaiseFind, FindOnline, ResolveFind, FailRun
    <2>10. CASE Beat \/ SocketCloses \/ FallSilent \/ RestartBackend \/ UNCHANGED ticketsVars
      BY <2>5, <2>10 DEF Beat, SocketCloses, FallSilent, RestartBackend, ticketsVars
    <2>11. QED
      BY <1>2, <2>2, <2>3, <2>6, <2>7, <2>8, <2>9, <2>10
         DEF TicketsNext, UpdateStatus, CheckAgentHealth
  <1>3. TicketInv /\ AllowedInv /\ [TicketsNext]_ticketsVars => [Changed]_ticketsVars
    BY <1>2
  <1>4. QED
    BY <1>1, <1>3, InitTicketInv, NextTicketInv, NextAllowedInv, PTL
       DEF TicketsSpec, ChangesFollowTable
=============================================================================
