------------------------ MODULE AgentSessionsProofs -------------------------
(***************************************************************************)
(* Theorems about AgentSessions, for any number of sockets, requests,      *)
(* readers of the link, templates and mishaps, whoever of them meet.       *)
(***************************************************************************)
EXTENDS AgentSessions, TLAPS

USE DEF rowVars, sockVars, adminVars, linkVars, histVars

(***************************************************************************)
(* Type correctness.                                                       *)
(***************************************************************************)

Handlers == Sockets \cup Admins

Marks == [slug : Templates \cup {None}, found : BOOLEAN, row : Rows]

Numbers == 0..issued

\* TypeOK, in three parts.
RowOK ==
    /\ row \in Rows
    /\ ~row.exists => row = NoRow
    /\ row.exists => row.id # 0
    /\ made \in Nat
    /\ hub \in BOOLEAN
    /\ serverOnline \in BOOLEAN

SocketOK ==
    /\ agents \in Sockets \cup {None}
    /\ up \subseteq Sockets
    /\ jwt \in [Sockets -> Numbers]
    /\ reg \in [Sockets -> RegStages]
    /\ stored \in [Sockets -> [link : Numbers, applied : SUBSET Templates]]
    /\ todo \in [Sockets -> SUBSET Templates]
    /\ off \in [Sockets -> OffStages]

RequestOK ==
    /\ admin \in [Admins -> AdminStages]
    /\ num \in [Admins -> Numbers]
    /\ reader \in [Readers -> {"new", "read", "done"}]
    /\ held \in [Readers -> [link : Numbers, token : Numbers]]
    /\ issued \in Nat
    /\ disclosed \subseteq Numbers
    /\ faults \in Nat
    /\ cast \in Casts

HistoryOK ==
    /\ newest \in Sockets \cup {None}
    /\ ghosts \subseteq Sockets
    /\ escaped \subseteq Sockets
    /\ misled \in BOOLEAN
    /\ clobbered \in BOOLEAN
    /\ before \in [Readers -> SUBSET Readers]
    /\ sent \subseteq Templates

\* A handler that marks a template has read a row.
MarkOK ==
    /\ mark \in [Handlers -> Marks]
    /\ \A h \in Handlers :
         /\ mark[h] # NoMark => mark[h].slug \in Templates
         /\ mark[h].found => mark[h].row.exists /\ mark[h].row.id # 0

TypeInv == RowOK /\ SocketOK /\ RequestOK /\ HistoryOK /\ MarkOK

LEMMA TypeInvSuffices == TypeInv => TypeOK
  BY DEF TypeInv, RowOK, SocketOK, RequestOK, HistoryOK, MarkOK, TypeOK, Handlers, Marks, Numbers

\* The types grow with the numbers issued and the rows made.
LEMMA TypesGrow ==
    ASSUME made \in Nat, issued \in Nat, made' \in Nat, issued' \in Nat,
           made <= made', issued <= issued'
    PROVE  Rows \subseteq Rows' /\ Numbers \subseteq Numbers' /\ Marks \subseteq Marks'
  <1>1. 0..made \subseteq 0..made' /\ 0..issued \subseteq 0..issued'
    OBVIOUS
  <1>2. Rows \subseteq Rows'
    BY <1>1 DEF Rows
  <1>3. QED
    BY <1>1, <1>2 DEF Numbers, Marks

LEMMA NoRowIsARow ==
    ASSUME made \in Nat, issued \in Nat
    PROVE  /\ NoRow \in Rows
           /\ ~NoRow.exists
           /\ NoRow.id = 0 /\ NoRow.link = 0 /\ NoRow.applied = {}
           /\ 0 \in Numbers
           /\ NoMark \in Marks /\ ~NoMark.found /\ NoMark.slug = None
           /\ NothingStored \in [link : Numbers, applied : SUBSET Templates]
  <1>1. 0 \in 0..made /\ 0 \in 0..issued
    OBVIOUS
  <1>2. NoRow \in Rows
    BY <1>1 DEF Rows, NoRow
  <1>3. NoMark \in Marks
    BY <1>2 DEF NoMark, Marks
  <1>4. NothingStored \in [link : Numbers, applied : SUBSET Templates] /\ 0 \in Numbers
    BY <1>1 DEF Numbers, NothingStored
  <1>5. ~NoRow.exists /\ NoRow.id = 0 /\ NoRow.link = 0 /\ NoRow.applied = {}
    BY DEF NoRow
  <1>6. ~NoMark.found /\ NoMark.slug = None
    BY DEF NoMark
  <1>7. QED
    BY <1>2, <1>3, <1>4, <1>5, <1>6

LEMMA InitTypeInv == Init => TypeInv
  <1> SUFFICES ASSUME Init
               PROVE  TypeInv
    OBVIOUS
  <1>1. made = 0 /\ issued = 0
    BY DEF Init
  <1>2. RowOK
    <2>1. NoRow \in Rows /\ ~NoRow.exists
      BY <1>1, NoRowIsARow
    <2>2. row = NoRow /\ hub = TRUE /\ serverOnline = FALSE
      BY DEF Init
    <2>3. made \in Nat
      BY <1>1
    <2>4. QED
      BY <2>1, <2>2, <2>3 DEF RowOK
  <1>3. SocketOK
    BY <1>1, NoRowIsARow DEF Init, SocketOK, RegStages, OffStages
  <1>4. RequestOK
    BY <1>1, NoRowIsARow DEF Init, RequestOK, AdminStages, Numbers
  <1>5. HistoryOK
    BY DEF Init, HistoryOK
  <1>6. MarkOK
    BY <1>1, NoRowIsARow DEF Init, MarkOK, Handlers
  <1>7. QED
    BY <1>2, <1>3, <1>4, <1>5, <1>6 DEF TypeInv

\* Rows that a handler writes.
LEMMA RowsWritten ==
    ASSUME NEW r \in Rows, made \in Nat, issued \in Nat
    PROVE  /\ \A b \in BOOLEAN : [r EXCEPT !.connected = b] \in Rows
           /\ \A b, c \in BOOLEAN : [r EXCEPT !.connected = b, !.enrolled = c] \in Rows
           /\ [r EXCEPT !.link = 0] \in Rows
           /\ [r EXCEPT !.consent = TRUE] \in Rows
           /\ \A t \in Templates : [r EXCEPT !.applied = @ \cup {t}] \in Rows
           /\ \A n \in Numbers : [r EXCEPT !.token = n, !.link = n, !.connected = FALSE] \in Rows
  <1>1. 0 \in 0..issued
    BY DEF Numbers
  <1>2. r.applied \in SUBSET Templates
    BY DEF Rows
  <1>3. QED
    BY <1>1, <1>2 DEF Rows, Numbers

\* A step that issues nothing and makes no row leaves the types as they are.
LEMMA TypesStay ==
    ASSUME UNCHANGED <<made, issued>>
    PROVE  Rows' = Rows /\ Numbers' = Numbers /\ Marks' = Marks
  BY DEF Rows, Numbers, Marks

LEMMA RowStays ==
    ASSUME TypeInv, UNCHANGED <<rowVars, issued>>
    PROVE  RowOK'
  BY TypesStay DEF TypeInv, RowOK

LEMMA SocketsStay ==
    ASSUME TypeInv, UNCHANGED <<sockVars, made, issued>>
    PROVE  SocketOK'
  BY TypesStay DEF TypeInv, SocketOK

LEMMA RequestsStay ==
    ASSUME TypeInv, UNCHANGED <<adminVars, linkVars, disclosed, faults, cast, made>>
    PROVE  RequestOK'
  BY TypesStay DEF TypeInv, RequestOK

LEMMA HistoryStays ==
    ASSUME TypeInv, UNCHANGED histVars
    PROVE  HistoryOK'
  BY DEF TypeInv, HistoryOK

LEMMA MarksStay ==
    ASSUME TypeInv, UNCHANGED mark, Marks \subseteq Marks'
    PROVE  MarkOK'
  BY DEF TypeInv, MarkOK

\* A missing row is updated to nothing.
LEMMA EmptyRowOff ==
    ASSUME made \in Nat, issued \in Nat
    PROVE  [NoRow EXCEPT !.connected = FALSE] = NoRow
  <1>1. NoRow \in Rows /\ NoRow.connected = FALSE
    <2>1. NoRow.connected = FALSE
      BY DEF NoRow
    <2>2. QED
      BY <2>1, NoRowIsARow
  <1>2. \A r \in Rows : r.connected = FALSE => [r EXCEPT !.connected = FALSE] = r
    BY DEF Rows
  <1>3. QED
    BY <1>1, <1>2

LEMMA FaultsGrow ==
    ASSUME TypeInv, faults' = faults + 1
    PROVE  faults' \in Nat
  BY DEF TypeInv, RequestOK

\* A socket that closes.
LEMMA ClosedTypes ==
    ASSUME TypeInv, NEW k \in Sockets, Close(k)
    PROVE  /\ agents' \in Sockets \cup {None}
           /\ up' \subseteq Sockets
           /\ off' \in [Sockets -> OffStages]
  BY DEF TypeInv, SocketOK, Close, OffStages

\* What handleDisconnect() and the heartbeats write.
LEMMA DisconnectTypes ==
    ASSUME TypeInv, NEW k \in Sockets,
           Disconnect(k) \/ HandleDisconnect(k) \/ Heartbeat(k)
    PROVE  TypeInv'
  <1> USE TypesStay, RowStays, SocketsStay, RequestsStay, HistoryStays, MarksStay, RowsWritten
  <1>1. CASE Disconnect(k)
    <2>1. SocketOK'
      BY <1>1, ClosedTypes DEF Disconnect, TypeInv, SocketOK
    <2>2. QED
      BY <1>1, <2>1 DEF Disconnect, TypeInv
  <1>2. ASSUME row.exists, row' = [row EXCEPT !.connected = TRUE], UNCHANGED <<made, hub, serverOnline, issued>>
        PROVE  RowOK'
    BY <1>2 DEF TypeInv, RowOK, RequestOK, Rows
  <1>3. CASE Heartbeat(k)
    BY <1>2, <1>3 DEF Heartbeat, TypeInv
  <1>4. CASE OffRow(k)
    <2>1. RowOK'
      <3>1. row' \in Rows /\ row'.exists = row.exists /\ row'.id = row.id
        <4>1. row \in Rows
          BY DEF TypeInv, RowOK
        <4>2. row' = [row EXCEPT !.connected = FALSE] /\ made' = made /\ issued' = issued
          BY <1>4 DEF OffRow, linkVars, adminVars
        <4>3. [row EXCEPT !.connected = FALSE] \in Rows
          BY <4>1 DEF Rows
        <4>4. row' \in Rows
          BY <4>2, <4>3
        <4>5. row'.exists = row.exists /\ row'.id = row.id
          BY <4>1, <4>2 DEF Rows
        <4>6. QED
          BY <4>4, <4>5
      <3>2. ~row.exists => row' = NoRow
        BY <1>4, EmptyRowOff DEF OffRow, TypeInv, RowOK, RequestOK
      <3>3. QED
        BY <1>4, <3>1, <3>2 DEF OffRow, TypeInv, RowOK
    <2>2. SocketOK'
      BY <1>4 DEF OffRow, TypeInv, SocketOK, OffStages
    <2>3. QED
      BY <1>4, <2>1, <2>2 DEF OffRow, TypeInv
  <1>5. CASE OffServers(k)
    <2>1. RowOK' /\ SocketOK'
      BY <1>5 DEF OffServers, TypeInv, RowOK, SocketOK, OffStages
    <2>2. HistoryOK'
      BY <1>5 DEF OffServers, TypeInv, HistoryOK
    <2>3. QED
      BY <1>5, <2>1, <2>2 DEF OffServers, TypeInv
  <1>6. CASE FailDisconnect(k)
    <2>1. SocketOK' /\ HistoryOK'
      BY <1>6 DEF FailDisconnect, TypeInv, SocketOK, HistoryOK, OffStages
    <2>2. faults' \in Nat
      BY <1>6, FaultsGrow DEF FailDisconnect
    <2>3. RequestOK'
      BY <1>6, <2>2 DEF FailDisconnect, TypeInv, RequestOK
    <2>4. QED
      BY <1>6, <2>1, <2>3 DEF FailDisconnect, TypeInv
  <1>7. QED
    BY <1>1, <1>3, <1>4, <1>5, <1>6 DEF HandleDisconnect

\* A row is made.
LEMMA NewRowTypes ==
    ASSUME TypeInv, NEW n \in Numbers, NEW b \in BOOLEAN, NewRow(n, b), issued' = issued
    PROVE  /\ row' \in Rows' /\ row'.exists /\ row'.id # 0
           /\ made' \in Nat /\ made <= made'
           /\ sent' = {}
  <1>1. made \in Nat /\ issued \in Nat
    BY DEF TypeInv, RowOK, RequestOK
  <1>2. made' = made + 1 /\ sent' = {}
    BY DEF NewRow
  <1>3. made' \in Nat /\ made <= made' /\ made + 1 \in 0..made' /\ made + 1 # 0
    BY <1>1, <1>2
  <1>4. row' = [exists |-> TRUE, id |-> made + 1, token |-> n, link |-> n, consent |-> FALSE,
                connected |-> b, enrolled |-> b, applied |-> {}]
    BY DEF NewRow, NoRow
  <1>5. n \in 0..issued'
    BY DEF Numbers
  <1>6. row' \in Rows'
    BY <1>3, <1>4, <1>5 DEF Rows
  <1>7. QED
    BY <1>2, <1>3, <1>4, <1>6

\* A handler forgets its mark, or is given one.
LEMMA UnmarkedTypes ==
    ASSUME TypeInv, NEW h \in Handlers, mark' = [mark EXCEPT ![h] = NoMark],
           UNCHANGED <<made, issued>>
    PROVE  MarkOK'
  <1>1. NoMark \in Marks /\ ~NoMark.found
    BY NoRowIsARow DEF TypeInv, RowOK, RequestOK
  <1>2. QED
    BY <1>1, TypesStay DEF TypeInv, MarkOK

LEMMA EmittedTypes ==
    ASSUME TypeInv, NEW h \in Handlers, NEW t \in Templates,
           Emit(h, t) \/ UNCHANGED <<sent, mark>>,
           UNCHANGED <<made, issued, newest, ghosts, escaped, misled, clobbered, before>>
    PROVE  MarkOK' /\ HistoryOK'
  <1>1. NoRow \in Rows /\ ~NoRow.exists /\ NoMark.slug = None
    BY NoRowIsARow DEF TypeInv, RowOK, RequestOK
  <1>2. HistoryOK'
    BY DEF Emit, TypeInv, HistoryOK
  <1>3. CASE Emit(h, t)
    <2>1. [slug |-> t, found |-> FALSE, row |-> NoRow] \in Marks
      BY <1>1 DEF Marks
    <2>2. mark' = [mark EXCEPT ![h] = [slug |-> t, found |-> FALSE, row |-> NoRow]]
      BY <1>3 DEF Emit
    <2>3. QED
      BY <1>1, <1>2, <2>1, <2>2, TypesStay DEF TypeInv, MarkOK
  <1>4. CASE UNCHANGED <<sent, mark>>
    BY <1>2, <1>4, TypesStay DEF TypeInv, MarkOK
  <1>5. QED
    BY <1>3, <1>4

\* What handleRegister() writes.
LEMMA RegisterTypes ==
    ASSUME TypeInv, NEW k \in Sockets, HandleRegister(k)
    PROVE  TypeInv'
  <1> USE TypesStay, RowStays, SocketsStay, RequestsStay, HistoryStays, MarksStay
  <1>1. ASSUME NEW t \in disclosed, ReadSession(k, t)
        PROVE  TypeInv'
    <2>1. t \in Numbers /\ row.link \in Numbers /\ row.applied \in SUBSET Templates
      BY DEF TypeInv, RequestOK, RowOK, Rows, Numbers
    <2>2. jwt' \in [Sockets -> Numbers]
      BY <1>1, <2>1 DEF ReadSession, TypeInv, SocketOK
    <2>3. stored' \in [Sockets -> [link : Numbers, applied : SUBSET Templates]]
      BY <1>1, <2>1 DEF ReadSession, TypeInv, SocketOK
    <2>4. reg' \in [Sockets -> RegStages]
      BY <1>1 DEF ReadSession, TypeInv, SocketOK, RegStages
    <2>5. /\ agents' \in Sockets \cup {None}
          /\ up' \subseteq Sockets
          /\ off' \in [Sockets -> OffStages]
      BY <1>1, ClosedTypes DEF ReadSession, TypeInv, SocketOK
    <2>6. SocketOK'
      BY <1>1, <2>2, <2>3, <2>4, <2>5 DEF ReadSession, TypeInv, SocketOK
    <2>7. HistoryOK'
      BY <1>1 DEF ReadSession, TypeInv, HistoryOK
    <2>8. QED
      BY <1>1, <2>6, <2>7 DEF ReadSession, TypeInv
  <1>2. CASE Accept(k)
    <2>1. SocketOK'
      BY <1>2 DEF Accept, TypeInv, SocketOK, RegStages
    <2>2. HistoryOK'
      BY <1>2 DEF Accept, TypeInv, HistoryOK
    <2>3. QED
      BY <1>2, <2>1, <2>2 DEF Accept, TypeInv
  <1>3. CASE Connect(k)
    <2>1. made \in Nat /\ issued \in Nat /\ 0 \in Numbers /\ issued' = issued
      BY <1>3, NoRowIsARow DEF Connect, TypeInv, RowOK, RequestOK
    <2>2. CASE row.exists
      <3>1. RowOK'
        BY <1>3, <2>2 DEF Connect, TypeInv, RowOK, Rows
      <3>2. SocketOK'
        BY <1>3, <2>2 DEF Connect, TypeInv, SocketOK, RegStages
      <3>3. QED
        BY <1>3, <2>2, <3>1, <3>2 DEF Connect, TypeInv
    <2>3. CASE ~row.exists
      <3>1. NewRow(0, TRUE)
        BY <1>3, <2>3 DEF Connect
      <3>2. /\ row' \in Rows' /\ row'.exists /\ row'.id # 0
            /\ made' \in Nat /\ made <= made' /\ sent' = {}
        BY <2>1, <3>1, NewRowTypes
      <3>3. Rows \subseteq Rows' /\ Numbers' = Numbers /\ Marks \subseteq Marks'
        BY <2>1, <3>2, TypesGrow DEF Numbers
      <3>4. RowOK'
        BY <1>3, <3>2 DEF Connect, TypeInv, RowOK
      <3>5. SocketOK'
        BY <1>3, <3>3 DEF Connect, TypeInv, SocketOK, RegStages
      <3>6. RequestOK'
        BY <1>3, <3>3 DEF Connect, TypeInv, RequestOK
      <3>7. HistoryOK'
        BY <1>3, <3>2 DEF Connect, TypeInv, HistoryOK
      <3>8. QED
        BY <1>3, <3>3, <3>4, <3>5, <3>6, <3>7 DEF Connect, TypeInv
    <2>4. QED
      BY <2>2, <2>3
  <1>4. CASE ServersOn(k)
    <2>1. RowOK' /\ SocketOK'
      BY <1>4 DEF ServersOn, TypeInv, RowOK, SocketOK, RegStages
    <2>2. HistoryOK'
      BY <1>4 DEF ServersOn, TypeInv, HistoryOK
    <2>3. QED
      BY <1>4, <2>1, <2>2 DEF ServersOn, TypeInv
  <1>5. CASE ClearLink(k)
    <2>1. SocketOK'
      <3>1. NothingStored \in [link : Numbers, applied : SUBSET Templates]
        BY NoRowIsARow DEF TypeInv, RowOK, RequestOK
      <3>2. QED
        BY <1>5, <3>1 DEF ClearLink, TypeInv, SocketOK, RegStages
    <2>2. RowOK'
      <3>1. made \in Nat /\ issued \in Nat /\ 0 \in 0..issued
        BY DEF TypeInv, RowOK, RequestOK
      <3>2. row' \in Rows /\ row'.exists = row.exists /\ row'.id = row.id
        BY <1>5, <3>1 DEF ClearLink, TypeInv, RowOK, Rows
      <3>3. ~row.exists => row' = NoRow
        <4>1. [NoRow EXCEPT !.link = 0] = NoRow
          <5>1. NoRow \in Rows /\ NoRow.link = 0
            BY <3>1, NoRowIsARow
          <5>2. \A r \in Rows : r.link = 0 => [r EXCEPT !.link = 0] = r
            BY DEF Rows
          <5>3. QED
            BY <5>1, <5>2
        <4>2. QED
          BY <1>5, <4>1 DEF ClearLink, TypeInv, RowOK
      <3>4. QED
        BY <1>5, <3>2, <3>3 DEF ClearLink, TypeInv, RowOK
    <2>3. QED
      BY <1>5, <2>1, <2>2 DEF ClearLink, TypeInv
  <1>6. CASE FinishRegister(k)
    <2>1. SocketOK'
      BY <1>6 DEF FinishRegister, TypeInv, SocketOK, RegStages
    <2>2. QED
      BY <1>6, <2>1 DEF FinishRegister, TypeInv
  <1>7. ASSUME NEW t \in Templates, RegisterTemplate(k, t)
        PROVE  TypeInv'
    <2>1. SocketOK'
      BY <1>7 DEF RegisterTemplate, TypeInv, SocketOK
    <2>2. MarkOK' /\ HistoryOK'
      BY <1>7, EmittedTypes DEF RegisterTemplate, Handlers
    <2>3. QED
      BY <1>7, <2>1, <2>2 DEF RegisterTemplate, TypeInv
  <1>8. CASE FailRegister(k)
    <2>1. faults' \in Nat
      BY <1>8, FaultsGrow DEF FailRegister
    <2>2. NothingStored \in [link : Numbers, applied : SUBSET Templates]
      BY NoRowIsARow DEF TypeInv, RowOK, RequestOK
    <2>3. SocketOK'
      BY <1>8, <2>2 DEF FailRegister, TypeInv, SocketOK, RegStages
    <2>4. RequestOK'
      BY <1>8, <2>1 DEF FailRegister, TypeInv, RequestOK
    <2>5. HistoryOK'
      BY <1>8 DEF FailRegister, TypeInv, HistoryOK
    <2>6. MarkOK'
      BY <1>8, UnmarkedTypes DEF FailRegister, Handlers
    <2>7. QED
      BY <1>8, <2>3, <2>4, <2>5, <2>6 DEF FailRegister, TypeInv
  <1>9. QED
    BY <1>1, <1>2, <1>3, <1>4, <1>5, <1>6, <1>7, <1>8 DEF HandleRegister

\* markApplied().
LEMMA MarkTypes ==
    ASSUME TypeInv, NEW h \in Handlers, MarkFind(h) \/ MarkSave(h) \/ MarkCollide(h)
    PROVE  TypeInv'
  <1> USE TypesStay, RowStays, SocketsStay, RequestsStay, HistoryStays, MarksStay
  <1>1. Marked(h) => admin' \in [Admins -> AdminStages] /\ (UNCHANGED <<made, issued>> => MarkOK')
    BY UnmarkedTypes DEF Marked, TypeInv, RequestOK, AdminStages
  <1>2. CASE MarkFind(h)
    <2>1. RequestOK'
      BY <1>1, <1>2 DEF MarkFind, TypeInv, RequestOK
    <2>2. MarkOK'
      <3>1. CASE row.exists /\ mark[h].slug \notin row.applied
        <4>1. row \in Rows /\ row.id # 0 /\ mark[h] \in Marks /\ mark[h].slug \in Templates
          BY <1>2, <3>1 DEF MarkFind, TypeInv, RowOK, MarkOK
        <4>2. mark' = [mark EXCEPT ![h] = [mark[h] EXCEPT !.found = TRUE, !.row = row]]
          BY <1>2, <3>1, <4>1 DEF MarkFind, TypeInv, MarkOK, Marks
        <4>3. /\ [mark[h] EXCEPT !.found = TRUE, !.row = row] \in Marks
              /\ [mark[h] EXCEPT !.found = TRUE, !.row = row].slug = mark[h].slug
              /\ [mark[h] EXCEPT !.found = TRUE, !.row = row].row = row
          BY <4>1 DEF Marks
        <4>4. UNCHANGED <<made, issued>>
          BY <1>2 DEF MarkFind
        <4>5. QED
          BY <3>1, <4>1, <4>2, <4>3, <4>4 DEF TypeInv, MarkOK
      <3>2. CASE ~(row.exists /\ mark[h].slug \notin row.applied)
        BY <1>1, <1>2, <3>2 DEF MarkFind
      <3>3. QED
        BY <3>1, <3>2
    <2>3. QED
      BY <1>2, <2>1, <2>2 DEF MarkFind, TypeInv
  <1>3. CASE MarkSave(h)
    <2>1. /\ mark[h].row \in Rows /\ mark[h].row.exists /\ mark[h].row.id # 0
          /\ mark[h].slug \in Templates
      BY <1>3, NoRowIsARow DEF MarkSave, TypeInv, MarkOK, Marks, RowOK, RequestOK
    <2>2. RowOK'
      <3>1. mark[h].row.applied \cup {mark[h].slug} \in SUBSET Templates
        BY <2>1 DEF Rows
      <3>2. row' \in Rows /\ row'.exists = mark[h].row.exists /\ row'.id = mark[h].row.id
        BY <1>3, <2>1, <3>1 DEF MarkSave, Rows
      <3>3. QED
        BY <1>3, <2>1, <3>2 DEF MarkSave, TypeInv, RowOK
    <2>3. RequestOK' /\ MarkOK'
      BY <1>1, <1>3 DEF MarkSave, TypeInv, RequestOK
    <2>4. HistoryOK'
      BY <1>3 DEF MarkSave, TypeInv, HistoryOK
    <2>5. QED
      BY <1>3, <2>2, <2>3, <2>4 DEF MarkSave, TypeInv
  <1>4. CASE MarkCollide(h)
    <2>1. RequestOK' /\ MarkOK'
      BY <1>1, <1>4 DEF MarkCollide, TypeInv, RequestOK
    <2>2. SocketOK'
      BY <1>4 DEF MarkCollide, TypeInv, SocketOK, RegStages
    <2>3. QED
      BY <1>4, <2>1, <2>2 DEF MarkCollide, TypeInv
  <1>5. QED
    BY <1>2, <1>3, <1>4

\* Administrators' requests.
LEMMA AdminTypes ==
    ASSUME TypeInv, NEW a \in Admins, HandleAdmin(a)
    PROVE  TypeInv'
  <1> USE TypesStay, RowStays, SocketsStay, RequestsStay, HistoryStays, MarksStay
  <1>0. made \in Nat /\ issued \in Nat /\ 0 \in Numbers
    BY NoRowIsARow DEF TypeInv, RowOK, RequestOK
  <1>1. CASE Provision(a)
    <2>1. issued' = issued + 1 /\ num' = [num EXCEPT ![a] = issued + 1] /\ made' = made
      BY <1>1 DEF Provision, Generate
    <2>2. issued' \in Nat /\ issued + 1 \in Numbers' /\ made <= made' /\ issued <= issued'
      BY <1>0, <2>1 DEF Numbers
    <2>3. Rows \subseteq Rows' /\ Numbers \subseteq Numbers' /\ Marks \subseteq Marks'
      BY <1>0, <2>1, <2>2, TypesGrow
    <2>4. RowOK'
      BY <1>1, <2>3 DEF Provision, TypeInv, RowOK
    <2>5. agents' \in Sockets \cup {None} /\ up' \subseteq Sockets /\ off' \in [Sockets -> OffStages]
      <3>1. agents \in up => agents \in Sockets
        BY DEF TypeInv, SocketOK
      <3>2. QED
        BY <1>1, <3>1, ClosedTypes DEF Provision, TypeInv, SocketOK
    <2>6. SocketOK'
      <3>1. jwt' \in [Sockets -> Numbers']
        BY <1>1, <2>3 DEF Provision, TypeInv, SocketOK
      <3>2. stored' \in [Sockets -> [link : Numbers', applied : SUBSET Templates]]
        BY <1>1, <2>3 DEF Provision, TypeInv, SocketOK
      <3>3. QED
        BY <1>1, <2>5, <3>1, <3>2 DEF Provision, TypeInv, SocketOK
    <2>7. RequestOK'
      <3>1. num' \in [Admins -> Numbers']
        BY <2>1, <2>2, <2>3 DEF TypeInv, RequestOK
      <3>2. admin' \in [Admins -> AdminStages]
        BY <1>1 DEF Provision, TypeInv, RequestOK, AdminStages
      <3>3. held' \in [Readers -> [link : Numbers', token : Numbers']] /\ disclosed' \subseteq Numbers'
        BY <1>1, <2>3 DEF Provision, TypeInv, RequestOK
      <3>4. QED
        BY <1>1, <2>2, <3>1, <3>2, <3>3 DEF Provision, TypeInv, RequestOK
    <2>8. HistoryOK'
      BY <1>1 DEF Provision, TypeInv, HistoryOK
    <2>9. QED
      BY <1>1, <2>3, <2>4, <2>6, <2>7, <2>8 DEF Provision, TypeInv
  <1>2. CASE Reissue(a)
    <2>1. RequestOK'
      BY <1>2 DEF Reissue, TypeInv, RequestOK, AdminStages
    <2>2. QED
      BY <1>2, <2>1 DEF Reissue, TypeInv
  <1>3. CASE CreateRow(a)
    <2>1. admin' \in [Admins -> AdminStages] /\ num' \in [Admins -> Numbers] /\ num[a] \in Numbers
      BY <1>0, <1>3 DEF CreateRow, TypeInv, RequestOK, AdminStages
    <2>2. CASE row.exists
      <3>1. RequestOK'
        BY <1>3, <2>1, <2>2 DEF CreateRow, TypeInv, RequestOK
      <3>2. QED
        BY <1>3, <2>2, <3>1 DEF CreateRow, TypeInv
    <2>3. CASE ~row.exists
      <3>1. NewRow(num[a], FALSE) /\ disclosed' = disclosed \cup {num[a]} /\ issued' = issued
        BY <1>3, <2>3 DEF CreateRow
      <3>2. /\ row' \in Rows' /\ row'.exists /\ row'.id # 0
            /\ made' \in Nat /\ made <= made' /\ sent' = {}
        BY <2>1, <3>1, NewRowTypes
      <3>3. Rows \subseteq Rows' /\ Numbers' = Numbers /\ Marks \subseteq Marks'
        BY <1>0, <3>1, <3>2, TypesGrow DEF Numbers
      <3>4. RowOK'
        BY <1>3, <3>2 DEF CreateRow, TypeInv, RowOK
      <3>5. SocketOK'
        BY <1>3, <3>3 DEF CreateRow, TypeInv, SocketOK
      <3>6. RequestOK'
        BY <1>3, <2>1, <3>1, <3>3 DEF CreateRow, TypeInv, RequestOK
      <3>7. HistoryOK'
        BY <1>3, <3>2 DEF CreateRow, TypeInv, HistoryOK
      <3>8. QED
        BY <1>3, <3>3, <3>4, <3>5, <3>6, <3>7 DEF CreateRow, TypeInv
    <2>4. QED
      BY <2>2, <2>3
  <1>4. CASE RotateRow(a)
    <2>1. admin' \in [Admins -> AdminStages] /\ num' \in [Admins -> Numbers] /\ num[a] \in Numbers
      BY <1>0, <1>4 DEF RotateRow, TypeInv, RequestOK, AdminStages
    <2>2. RequestOK'
      BY <1>4, <2>1 DEF RotateRow, TypeInv, RequestOK
    <2>3. row' \in Rows /\ row'.exists = row.exists /\ row'.id = row.id /\ (~row.exists => row' = row)
      BY <1>4, <2>1 DEF RotateRow, TypeInv, RowOK, Rows, Numbers
    <2>4. RowOK'
      BY <1>4, <2>3 DEF RotateRow, TypeInv, RowOK
    <2>5. QED
      BY <1>4, <2>2, <2>4 DEF RotateRow, TypeInv
  <1>5. CASE DeleteSession(a)
    <2>1. NoRow \in Rows /\ ~NoRow.exists
      BY NoRowIsARow DEF TypeInv, RowOK, RequestOK
    <2>2. RowOK'
      BY <1>5, <2>1 DEF DeleteSession, TypeInv, RowOK
    <2>3. RequestOK'
      BY <1>5 DEF DeleteSession, TypeInv, RequestOK, AdminStages
    <2>4. HistoryOK'
      BY <1>5 DEF DeleteSession, TypeInv, HistoryOK
    <2>5. QED
      BY <1>5, <2>2, <2>3, <2>4 DEF DeleteSession, TypeInv
  <1>6. ASSUME NEW t \in Templates, ApplyGoldenTemplate(a, t)
        PROVE  TypeInv'
    <2>1. RequestOK'
      BY <1>6 DEF ApplyGoldenTemplate, TypeInv, RequestOK, AdminStages
    <2>2. MarkOK' /\ HistoryOK'
      BY <1>6, EmittedTypes DEF ApplyGoldenTemplate, Handlers
    <2>3. QED
      BY <1>6, <2>1, <2>2 DEF ApplyGoldenTemplate, TypeInv
  <1>7. CASE FailAdmin(a)
    <2>1. faults' \in Nat
      BY <1>7, FaultsGrow DEF FailAdmin
    <2>2. RequestOK'
      BY <1>0, <1>7, <2>1 DEF FailAdmin, TypeInv, RequestOK, AdminStages
    <2>3. HistoryOK'
      BY <1>7 DEF FailAdmin, TypeInv, HistoryOK
    <2>4. MarkOK'
      BY <1>7, UnmarkedTypes DEF FailAdmin, Handlers
    <2>5. QED
      BY <1>7, <2>2, <2>3, <2>4 DEF FailAdmin, TypeInv
  <1>8. CASE AddHub(a) \/ DropHub(a) \/ KeepSession(a)
    <2>1. RowOK'
      BY <1>8 DEF AddHub, DropHub, KeepSession, TypeInv, RowOK
    <2>2. RequestOK'
      BY <1>8 DEF AddHub, DropHub, KeepSession, TypeInv, RequestOK, AdminStages
    <2>3. HistoryOK'
      BY <1>8 DEF AddHub, DropHub, KeepSession, TypeInv, HistoryOK
    <2>4. QED
      BY <1>8, <2>1, <2>2, <2>3 DEF AddHub, DropHub, KeepSession, TypeInv
  <1>9. QED
    BY <1>1, <1>2, <1>3, <1>4, <1>5, <1>6, <1>7, <1>8 DEF HandleAdmin

\* The install link, heartbeats over HTTP, and restarts.
LEMMA LinkTypes ==
    ASSUME TypeInv, (\E r \in Readers : ReadLink(r) \/ ConsumeLink(r)) \/ Consent \/ ServerHeartbeat
    PROVE  TypeInv'
  <1> USE TypesStay, RowStays, SocketsStay, RequestsStay, HistoryStays, MarksStay
  <1>1. ASSUME NEW r \in Readers, ReadLink(r)
        PROVE  TypeInv'
    <2>1. row.link \in Numbers /\ row.token \in Numbers
      BY DEF TypeInv, RowOK, Rows, Numbers
    <2>2. RequestOK'
      BY <1>1, <2>1 DEF ReadLink, TypeInv, RequestOK
    <2>3. HistoryOK'
      BY <1>1 DEF ReadLink, TypeInv, HistoryOK
    <2>4. QED
      BY <1>1, <2>2, <2>3 DEF ReadLink, TypeInv
  <1>2. ASSUME NEW r \in Readers, ConsumeLink(r)
        PROVE  TypeInv'
    <2>1. held[r].token \in Numbers /\ 0 \in 0..issued
      BY NoRowIsARow DEF TypeInv, RequestOK, RowOK, Numbers
    <2>2. RequestOK'
      BY <1>2, <2>1 DEF ConsumeLink, TypeInv, RequestOK
    <2>3. row' \in Rows /\ row'.exists = row.exists /\ row'.id = row.id
      BY <1>2, <2>1 DEF ConsumeLink, TypeInv, RowOK, Rows
    <2>4. ~row.exists => row' = NoRow
      <3>1. [NoRow EXCEPT !.link = 0] = NoRow
        <4>1. NoRow \in Rows /\ NoRow.link = 0
          BY NoRowIsARow DEF TypeInv, RowOK, RequestOK
        <4>2. \A s \in Rows : s.link = 0 => [s EXCEPT !.link = 0] = s
          BY DEF Rows
        <4>3. QED
          BY <4>1, <4>2
      <3>2. QED
        BY <1>2, <3>1 DEF ConsumeLink, TypeInv, RowOK
    <2>5. RowOK'
      BY <1>2, <2>3, <2>4 DEF ConsumeLink, TypeInv, RowOK
    <2>6. QED
      BY <1>2, <2>2, <2>5 DEF ConsumeLink, TypeInv
  <1>3. CASE Consent
    <2>1. row.exists
      BY <1>3, NoRowIsARow DEF Consent, TypeInv, RowOK, RequestOK
    <2>2. row' \in Rows /\ row'.exists = row.exists /\ row'.id = row.id
      BY <1>3 DEF Consent, TypeInv, RowOK, Rows
    <2>3. RowOK'
      BY <1>3, <2>1, <2>2 DEF Consent, TypeInv, RowOK
    <2>4. QED
      BY <1>3, <2>3 DEF Consent, TypeInv
  <1>4. CASE ServerHeartbeat
    <2>1. RowOK' /\ HistoryOK'
      BY <1>4 DEF ServerHeartbeat, TypeInv, RowOK, HistoryOK
    <2>2. QED
      BY <1>4, <2>1 DEF ServerHeartbeat, TypeInv
  <1>5. QED
    BY <1>1, <1>2, <1>3, <1>4

LEMMA RestartTypes ==
    ASSUME TypeInv, Restart
    PROVE  TypeInv'
  <1>1. /\ 0 \in Numbers /\ NoMark \in Marks /\ ~NoMark.found
        /\ NothingStored \in [link : Numbers, applied : SUBSET Templates]
    BY NoRowIsARow DEF TypeInv, RowOK, RequestOK
  <1>2. faults' \in Nat
    BY FaultsGrow DEF Restart
  <1>3. UNCHANGED <<rowVars, made, issued>>
    BY DEF Restart
  <1>4. SocketOK'
    BY <1>1, <1>3, TypesStay DEF Restart, TypeInv, SocketOK, RegStages, OffStages
  <1>5. RequestOK'
    BY <1>1, <1>2, <1>3, TypesStay DEF Restart, TypeInv, RequestOK, AdminStages
  <1>6. HistoryOK'
    BY DEF Restart, TypeInv, RowOK, HistoryOK
  <1>7. MarkOK'
    BY <1>1, <1>3, TypesStay DEF Restart, MarkOK, Handlers
  <1>8. QED
    BY <1>3, <1>4, <1>5, <1>6, <1>7, RowStays DEF TypeInv

LEMMA NextTypeInv == TypeInv /\ [Next]_vars => TypeInv'
  <1> SUFFICES ASSUME TypeInv, [Next]_vars
               PROVE  TypeInv'
    OBVIOUS
  <1>1. CASE UNCHANGED vars
    <2>1. UNCHANGED <<rowVars, sockVars, adminVars, mark, linkVars, disclosed, faults, cast, histVars>>
      BY <1>1 DEF vars
    <2>2. Marks \subseteq Marks'
      BY <2>1, TypesStay
    <2>3. QED
      BY <2>1, <2>2, RowStays, SocketsStay, RequestsStay, HistoryStays, MarksStay DEF TypeInv
  <1>2. QED
    BY <1>1, DisconnectTypes, RegisterTypes, AdminTypes, MarkTypes, LinkTypes, RestartTypes
       DEF Next, Handlers

\* Every reachable state is type correct.
THEOREM TypeCorrect == Spec => []TypeOK
  BY InitTypeInv, NextTypeInv, TypeInvSuffices, PTL DEF Spec

(***************************************************************************)
(* The map and the sockets.                                                *)
(***************************************************************************)

Mapped == NewestIsMapped /\ OnlyGhostsAreDead

\* The handlers that touch the map or close a socket.
MapSteps ==
    \/ \E k \in Sockets : \/ Disconnect(k) \/ Accept(k)
                          \/ \E t \in disclosed : ReadSession(k, t)
    \/ \E a \in Admins : Provision(a)
    \/ Restart

LEMMA OtherSteps ==
    ASSUME [Next]_vars, ~MapSteps
    PROVE  UNCHANGED <<agents, up, newest, ghosts>>
  <1>1. CASE UNCHANGED vars
    BY <1>1 DEF vars
  <1>2. ASSUME NEW k \in Sockets, HandleDisconnect(k) \/ Heartbeat(k)
        PROVE  UNCHANGED <<agents, up, newest, ghosts>>
    BY <1>2 DEF HandleDisconnect, OffRow, OffServers, FailDisconnect, Heartbeat
  <1>3. ASSUME NEW k \in Sockets, HandleRegister(k)
        PROVE  UNCHANGED <<agents, up, newest, ghosts>>
    BY <1>3 DEF MapSteps, HandleRegister, Connect, ServersOn, ClearLink, FinishRegister,
       RegisterTemplate, FailRegister
  <1>4. ASSUME NEW a \in Admins, HandleAdmin(a)
        PROVE  UNCHANGED <<agents, up, newest, ghosts>>
    BY <1>4 DEF MapSteps, HandleAdmin, Reissue, CreateRow, RotateRow, AddHub, DropHub,
       KeepSession, DeleteSession, ApplyGoldenTemplate, FailAdmin
  <1>5. ASSUME NEW h \in Handlers, MarkFind(h) \/ MarkSave(h) \/ MarkCollide(h)
        PROVE  UNCHANGED <<agents, up, newest, ghosts>>
    BY <1>5 DEF MarkFind, MarkSave, MarkCollide
  <1>6. ASSUME (\E r \in Readers : ReadLink(r) \/ ConsumeLink(r)) \/ Consent \/ ServerHeartbeat
        PROVE  UNCHANGED <<agents, up, newest, ghosts>>
    BY <1>6 DEF ReadLink, ConsumeLink, Consent, ServerHeartbeat
  <1>7. QED
    BY <1>1, <1>2, <1>3, <1>4, <1>5, <1>6 DEF Next, MapSteps, Handlers

LEMMA CloseKeepsMap ==
    ASSUME Mapped, NEW k \in Sockets, Close(k), UNCHANGED <<newest, ghosts>>
    PROVE  Mapped'
  BY DEF Mapped, NewestIsMapped, OnlyGhostsAreDead, Close

LEMMA NextMapped == TypeInv /\ Mapped /\ [Next]_vars => Mapped'
  <1> SUFFICES ASSUME TypeInv, Mapped, [Next]_vars
               PROVE  Mapped'
    OBVIOUS
  <1>1. ASSUME NEW k \in Sockets, Disconnect(k)
        PROVE  Mapped'
    BY <1>1, CloseKeepsMap DEF Disconnect
  <1>2. ASSUME NEW k \in Sockets, NEW t \in disclosed, ReadSession(k, t)
        PROVE  Mapped'
    BY <1>2, CloseKeepsMap DEF ReadSession, Mapped, NewestIsMapped, OnlyGhostsAreDead
  <1>3. ASSUME NEW k \in Sockets, Accept(k)
        PROVE  Mapped'
    BY <1>3 DEF Accept, Mapped, NewestIsMapped, OnlyGhostsAreDead
  <1>4. ASSUME NEW a \in Admins, Provision(a)
        PROVE  Mapped'
    <2>1. UNCHANGED <<newest, ghosts>>
      BY <1>4 DEF Provision
    <2>2. CASE row.exists /\ agents \in up
      <3>1. agents \in Sockets /\ Close(agents)
        BY <1>4, <2>2 DEF Provision, TypeInv, SocketOK
      <3>2. QED
        BY <2>1, <3>1, CloseKeepsMap
    <2>3. CASE row.exists /\ agents \notin up
      BY <1>4, <2>1, <2>3 DEF Provision, Mapped, NewestIsMapped, OnlyGhostsAreDead
    <2>4. CASE ~row.exists
      BY <1>4, <2>1, <2>4 DEF Provision, Mapped, NewestIsMapped, OnlyGhostsAreDead
    <2>5. QED
      BY <2>2, <2>3, <2>4
  <1>5. CASE Restart
    <2>1. None \notin up'
      BY <1>5, AgentAssumption DEF Restart, TypeInv, SocketOK
    <2>2. QED
      BY <1>5, <2>1 DEF Restart, Mapped, NewestIsMapped, OnlyGhostsAreDead
  <1>6. CASE ~MapSteps
    BY <1>6, OtherSteps DEF Mapped, NewestIsMapped, OnlyGhostsAreDead
  <1>7. QED
    BY <1>1, <1>2, <1>3, <1>4, <1>5, <1>6 DEF MapSteps

LEMMA InitMapped == Init => Mapped
  BY AgentAssumption DEF Init, Mapped, NewestIsMapped, OnlyGhostsAreDead

\* While the socket that registered last is connected, the map holds it.
THEOREM NewestStaysMapped == Spec => []NewestIsMapped
  <1>1. Mapped => NewestIsMapped
    BY DEF Mapped
  <1>2. QED
    BY <1>1, InitTypeInv, NextTypeInv, InitMapped, NextMapped, PTL DEF Spec

\* isConnected() tells the truth, but for sockets that closed while they registered.
THEOREM DeadSocketsLeave == Spec => []OnlyGhostsAreDead
  <1>1. Mapped => OnlyGhostsAreDead
    BY DEF Mapped
  <1>2. QED
    BY <1>1, InitTypeInv, NextTypeInv, InitMapped, NextMapped, PTL DEF Spec

(***************************************************************************)
(* Who marks a template.                                                   *)
(***************************************************************************)

\* A handler marks a template only where it has emitted one.
Marking ==
    /\ \A k \in Sockets : mark[k] # NoMark => reg[k] = "templates"
    /\ \A a \in Admins : mark[a] # NoMark => admin[a] = "template"

LEMMA InitMarking == Init => Marking
  BY DEF Init, Marking

LEMMA FoundIsMarked ==
    ASSUME TypeInv, NEW h \in Handlers, mark[h].found
    PROVE  mark[h] # NoMark
  BY NoRowIsARow DEF TypeInv, RowOK, RequestOK

\* A step that leaves the marks, and where the handlers that have one are.
LEMMA MarkingStays ==
    ASSUME Marking, UNCHANGED mark,
           \A k \in Sockets : reg[k] = "templates" => reg'[k] = "templates",
           \A a \in Admins : admin[a] = "template" => admin'[a] = "template"
    PROVE  Marking'
  BY DEF Marking

\* A step at whose end h has no mark.
LEMMA MarkingDrops ==
    ASSUME TypeInv, Marking, NEW h \in Handlers, mark' = [mark EXCEPT ![h] = NoMark],
           \A k \in Sockets \ {h} : reg[k] = "templates" => reg'[k] = "templates",
           \A a \in Admins \ {h} : admin[a] = "template" => admin'[a] = "template"
    PROVE  Marking'
  BY AgentAssumption DEF Marking, TypeInv, MarkOK, Handlers

LEMMA NextMarking == TypeInv /\ Marking /\ [Next]_vars => Marking'
  <1> SUFFICES ASSUME TypeInv, Marking, [Next]_vars
               PROVE  Marking'
    OBVIOUS
  <1> USE MarkingStays
  <1>1. ASSUME NEW k \in Sockets, Disconnect(k) \/ HandleDisconnect(k) \/ Heartbeat(k)
        PROVE  Marking'
    BY <1>1 DEF Disconnect, HandleDisconnect, OffRow, OffServers, FailDisconnect, Heartbeat
  <1>2. ASSUME NEW k \in Sockets, HandleRegister(k)
        PROVE  Marking'
    <2>1. CASE (\E t \in disclosed : ReadSession(k, t)) \/ Accept(k) \/ Connect(k) \/ ServersOn(k)
               \/ ClearLink(k)
      <3>1. \A q \in Sockets : reg[q] = "templates" => reg'[q] = "templates"
        BY <2>1 DEF ReadSession, Accept, Connect, ServersOn, ClearLink, TypeInv, SocketOK
      <3>2. UNCHANGED <<mark, admin>>
        BY <2>1 DEF ReadSession, Accept, Connect, ServersOn, ClearLink
      <3>3. QED
        BY <3>1, <3>2
    <2>2. CASE FinishRegister(k)
      <3>1. mark[k] = NoMark /\ UNCHANGED <<mark, admin>>
        BY <2>2 DEF FinishRegister
      <3>2. \A q \in Sockets \ {k} : reg'[q] = reg[q]
        BY <2>2 DEF FinishRegister, TypeInv, SocketOK
      <3>3. QED
        BY <3>1, <3>2 DEF Marking
    <2>3. ASSUME NEW t \in Templates, RegisterTemplate(k, t)
          PROVE  Marking'
      <3>1. reg[k] = "templates" /\ UNCHANGED <<reg, admin>>
        BY <2>3 DEF RegisterTemplate
      <3>2. \A h \in Handlers \ {k} : mark'[h] = mark[h]
        BY <2>3 DEF RegisterTemplate, Emit, TypeInv, MarkOK
      <3>3. QED
        BY <3>1, <3>2, AgentAssumption DEF Marking, Handlers
    <2>4. CASE FailRegister(k)
      <3>1. \A q \in Sockets \ {k} : reg'[q] = reg[q]
        BY <2>4 DEF FailRegister, TypeInv, SocketOK
      <3>2. QED
        BY <2>4, <3>1, MarkingDrops DEF FailRegister, Handlers
    <2>5. QED
      BY <1>2, <2>1, <2>2, <2>3, <2>4 DEF HandleRegister
  <1>3. ASSUME NEW a \in Admins, HandleAdmin(a)
        PROVE  Marking'
    <2>1. CASE \/ Provision(a) \/ Reissue(a) \/ CreateRow(a) \/ RotateRow(a)
               \/ AddHub(a) \/ DropHub(a) \/ KeepSession(a) \/ DeleteSession(a)
      <3>1. \A b \in Admins : admin[b] = "template" => admin'[b] = "template"
        BY <2>1 DEF Provision, Reissue, CreateRow, RotateRow, AddHub, DropHub, KeepSession,
           DeleteSession, TypeInv, RequestOK
      <3>2. UNCHANGED <<mark, reg>>
        BY <2>1 DEF Provision, Reissue, CreateRow, RotateRow, AddHub, DropHub, KeepSession,
           DeleteSession
      <3>3. QED
        BY <3>1, <3>2
    <2>2. ASSUME NEW t \in Templates, ApplyGoldenTemplate(a, t)
          PROVE  Marking'
      <3>1. admin'[a] = "template" /\ UNCHANGED reg /\ (\A b \in Admins \ {a} : admin'[b] = admin[b])
        BY <2>2 DEF ApplyGoldenTemplate, TypeInv, RequestOK
      <3>2. \A h \in Handlers \ {a} : mark'[h] = mark[h]
        BY <2>2 DEF ApplyGoldenTemplate, Emit, TypeInv, MarkOK
      <3>3. QED
        BY <3>1, <3>2, AgentAssumption DEF Marking, Handlers
    <2>3. CASE FailAdmin(a)
      <3>1. \A b \in Admins \ {a} : admin'[b] = admin[b]
        BY <2>3 DEF FailAdmin, TypeInv, RequestOK
      <3>2. QED
        BY <2>3, <3>1, MarkingDrops DEF FailAdmin, Handlers
    <2>4. QED
      BY <1>3, <2>1, <2>2, <2>3 DEF HandleAdmin
  <1>4. ASSUME NEW h \in Handlers, MarkFind(h) \/ MarkSave(h) \/ MarkCollide(h)
        PROVE  Marking'
    <2>1. \A k \in Sockets \ {h} : reg'[k] = reg[k]
      BY <1>4 DEF MarkFind, MarkSave, MarkCollide
    <2>2. CASE Marked(h)
      <3>1. \A a \in Admins \ {h} : admin'[a] = admin[a]
        BY <2>2 DEF Marked
      <3>2. QED
        BY <2>1, <2>2, <3>1, MarkingDrops DEF Marked
    <2>3. CASE ~Marked(h)
      <3>1. MarkFind(h) /\ UNCHANGED <<reg, admin>> /\ mark[h] # NoMark
        BY <1>4, <2>3 DEF MarkFind, MarkSave, MarkCollide
      <3>2. \A x \in Handlers \ {h} : mark'[x] = mark[x]
        BY <2>3, <3>1 DEF MarkFind, TypeInv, MarkOK
      <3>3. QED
        BY <3>1, <3>2 DEF Marking, Handlers
    <2>4. QED
      BY <2>2, <2>3
  <1>5. CASE (\E r \in Readers : ReadLink(r) \/ ConsumeLink(r)) \/ Consent \/ ServerHeartbeat
    BY <1>5 DEF ReadLink, ConsumeLink, Consent, ServerHeartbeat
  <1>6. CASE Restart
    BY <1>6 DEF Restart, Marking
  <1>7. CASE UNCHANGED vars
    BY <1>7 DEF vars
  <1>8. QED
    BY <1>1, <1>2, <1>3, <1>4, <1>5, <1>6, <1>7 DEF Next, Handlers

(***************************************************************************)
(* What the server shows.                                                  *)
(***************************************************************************)

Quiet ==
    \A k \in Sockets : reg[k] \notin {"accepted", "connected"} /\ off[k] = "no"

\* ServerShowsAgent, which is inductive.
Shown == hub => misled \/ (Quiet => (serverOnline <=> agents # None))

LEMMA ShownSuffices == TypeInv /\ Shown => ServerShowsAgent
  BY DEF TypeInv, RowOK, Shown, Quiet, ServerShowsAgent

\* A step that writes none of it and ends no handler's work.
LEMMA ShownStays ==
    ASSUME Shown, misled => misled', UNCHANGED <<hub, serverOnline, agents>>, Quiet' => Quiet
    PROVE  Shown'
  BY DEF Shown

LEMMA CloseShown ==
    ASSUME TypeInv, Shown, NEW k \in Sockets, Close(k), UNCHANGED <<hub, serverOnline, misled>>,
           \A q \in Sockets : reg'[q] = reg[q] \/ (reg[q] = "new" /\ reg'[q] = "refused")
    PROVE  Shown'
  <1>1. CASE agents = k
    <2>1. off'[k] = "row"
      BY <1>1 DEF Close, TypeInv, SocketOK
    <2>2. ~Quiet'
      BY <2>1 DEF Quiet
    <2>3. QED
      BY <2>2 DEF Shown
  <1>2. CASE agents # k
    BY <1>2, ShownStays DEF Close, Quiet
  <1>3. QED
    BY <1>1, <1>2

LEMMA NextShown == TypeInv /\ Marking /\ Shown /\ [Next]_vars => Shown'
  <1> SUFFICES ASSUME TypeInv, Marking, Shown, [Next]_vars
               PROVE  Shown'
    OBVIOUS
  <1>1. ASSUME NEW k \in Sockets, Disconnect(k)
        PROVE  Shown'
    BY <1>1, CloseShown DEF Disconnect
  <1>2. ASSUME NEW k \in Sockets, HandleDisconnect(k) \/ Heartbeat(k)
        PROVE  Shown'
    <2>1. CASE OffRow(k)
      <3>1. off'[k] = "servers"
        BY <2>1 DEF OffRow, TypeInv, SocketOK
      <3>2. QED
        BY <3>1 DEF Quiet, Shown
    <2>2. CASE OffServers(k)
      BY <2>2 DEF OffServers, Shown
    <2>3. CASE FailDisconnect(k)
      BY <2>3 DEF FailDisconnect, Shown
    <2>4. CASE Heartbeat(k)
      BY <2>4, ShownStays DEF Heartbeat, Quiet
    <2>5. QED
      BY <1>2, <2>1, <2>2, <2>3, <2>4 DEF HandleDisconnect
  <1>3. ASSUME NEW k \in Sockets, HandleRegister(k)
        PROVE  Shown'
    <2>1. ASSUME NEW t \in disclosed, ReadSession(k, t)
          PROVE  Shown'
      <3>1. UNCHANGED <<hub, serverOnline, misled>>
        BY <2>1 DEF ReadSession
      <3>2. CASE Close(k)
        <4>1. \A q \in Sockets : reg'[q] = reg[q] \/ (reg[q] = "new" /\ reg'[q] = "refused") \/ reg'[q] = "read"
          BY <2>1 DEF ReadSession, TypeInv, SocketOK
        <4>2. CASE agents = k
          <5>1. off'[k] = "row"
            BY <3>2, <4>2 DEF Close, TypeInv, SocketOK
          <5>2. QED
            BY <5>1 DEF Quiet, Shown
        <4>3. CASE agents # k
          <5>1. UNCHANGED <<agents, off>>
            BY <3>2, <4>3 DEF Close
          <5>2. Quiet' => Quiet
            BY <2>1, <5>1 DEF Quiet, ReadSession, TypeInv, SocketOK
          <5>3. QED
            BY <3>1, <5>1, <5>2, ShownStays
        <4>4. QED
          BY <4>2, <4>3
      <3>3. CASE UNCHANGED <<agents, off>>
        <4>1. Quiet' => Quiet
          BY <2>1, <3>3 DEF Quiet, ReadSession, TypeInv, SocketOK
        <4>2. QED
          BY <3>1, <3>3, <4>1, ShownStays
      <3>4. QED
        BY <2>1, <3>2, <3>3 DEF ReadSession
    <2>2. CASE Accept(k)
      <3>1. reg'[k] = "accepted"
        BY <2>2 DEF Accept, TypeInv, SocketOK
      <3>2. QED
        BY <3>1 DEF Quiet, Shown
    <2>3. CASE Connect(k)
      <3>1. reg'[k] = "connected"
        BY <2>3 DEF Connect, TypeInv, SocketOK
      <3>2. QED
        BY <3>1 DEF Quiet, Shown
    <2>4. CASE ServersOn(k)
      BY <2>4 DEF ServersOn, Shown
    <2>5. CASE ClearLink(k) \/ FinishRegister(k)
      <3>1. Quiet' => Quiet
        BY <2>5 DEF ClearLink, FinishRegister, Quiet, TypeInv, SocketOK
      <3>2. UNCHANGED <<hub, serverOnline, agents, misled>>
        BY <2>5 DEF ClearLink, FinishRegister
      <3>3. QED
        BY <3>1, <3>2, ShownStays
    <2>6. ASSUME NEW t \in Templates, RegisterTemplate(k, t)
          PROVE  Shown'
      BY <2>6, ShownStays DEF RegisterTemplate, Quiet
    <2>7. CASE FailRegister(k)
      <3>1. CASE reg[k] \in {"accepted", "connected"}
        BY <2>7, <3>1 DEF FailRegister, Shown
      <3>2. CASE reg[k] \notin {"accepted", "connected"}
        <4>1. Quiet' => Quiet
          BY <2>7, <3>2 DEF FailRegister, Quiet, TypeInv, SocketOK
        <4>2. UNCHANGED <<hub, serverOnline, agents>> /\ (misled => misled')
          BY <2>7 DEF FailRegister
        <4>3. QED
          BY <4>1, <4>2, ShownStays
      <3>3. QED
        BY <3>1, <3>2
    <2>8. QED
      BY <1>3, <2>1, <2>2, <2>3, <2>4, <2>5, <2>6, <2>7 DEF HandleRegister
  <1>4. ASSUME NEW a \in Admins, HandleAdmin(a)
        PROVE  Shown'
    <2>1. CASE Provision(a)
      <3>1. UNCHANGED <<hub, serverOnline, reg>> /\ (misled => misled')
        BY <2>1 DEF Provision
      <3>2. CASE row.exists /\ agents \in up
        <4>1. agents \in Sockets /\ Close(agents) /\ misled' = misled
          BY <2>1, <3>2 DEF Provision, TypeInv, SocketOK
        <4>2. QED
          BY <3>1, <4>1, CloseShown
      <3>3. CASE row.exists /\ agents \notin up
        <4>1. agents' = None /\ off' = off /\ misled' = (misled \/ agents # None)
          BY <2>1, <3>3 DEF Provision
        <4>2. CASE agents = None
          BY <3>1, <4>1, <4>2, ShownStays DEF Quiet
        <4>3. CASE agents # None
          BY <4>1, <4>3 DEF Shown
        <4>4. QED
          BY <4>2, <4>3
      <3>4. CASE ~row.exists
        BY <2>1, <3>1, <3>4, ShownStays DEF Provision, Quiet
      <3>5. QED
        BY <3>2, <3>3, <3>4
    <2>2. CASE AddHub(a) \/ DropHub(a)
      BY <2>2 DEF AddHub, DropHub, Shown
    <2>3. CASE \/ Reissue(a) \/ CreateRow(a) \/ RotateRow(a) \/ KeepSession(a) \/ DeleteSession(a)
               \/ FailAdmin(a)
      <3>1. UNCHANGED <<reg, off, agents, hub, serverOnline, misled>>
        BY <2>3 DEF Reissue, CreateRow, RotateRow, KeepSession, DeleteSession, FailAdmin
      <3>2. QED
        BY <3>1, ShownStays DEF Quiet
    <2>4. ASSUME NEW t \in Templates, ApplyGoldenTemplate(a, t)
          PROVE  Shown'
      BY <2>4, ShownStays DEF ApplyGoldenTemplate, Quiet
    <2>5. QED
      BY <1>4, <2>1, <2>2, <2>3, <2>4 DEF HandleAdmin
  <1>5. ASSUME NEW h \in Handlers, MarkFind(h) \/ MarkSave(h) \/ MarkCollide(h)
        PROVE  Shown'
    <2>1. UNCHANGED <<hub, serverOnline, agents, misled, off>>
      BY <1>5 DEF MarkFind, MarkSave, MarkCollide
    <2>2. Quiet' => Quiet
      <3>1. CASE UNCHANGED reg
        BY <2>1, <3>1 DEF Quiet
      <3>2. CASE MarkCollide(h)
        <4>1. mark[h] # NoMark
          BY <3>2, FoundIsMarked DEF MarkCollide
        <4>2. h \in Sockets => reg[h] = "templates"
          BY <4>1 DEF Marking
        <4>3. QED
          BY <2>1, <3>2, <4>2 DEF MarkCollide, Quiet
      <3>3. QED
        BY <1>5, <3>1, <3>2 DEF MarkFind, MarkSave
    <2>3. QED
      BY <2>1, <2>2, ShownStays
  <1>6. CASE (\E r \in Readers : ReadLink(r) \/ ConsumeLink(r)) \/ Consent \/ ServerHeartbeat
    <2>1. CASE ServerHeartbeat
      BY <2>1 DEF ServerHeartbeat, Shown
    <2>2. QED
      BY <1>6, <2>1, ShownStays DEF ReadLink, ConsumeLink, Consent, Quiet
  <1>7. CASE Restart
    BY <1>7 DEF Restart, Shown, TypeInv, RowOK
  <1>8. CASE UNCHANGED vars
    BY <1>8, ShownStays DEF vars, Quiet
  <1>9. QED
    BY <1>1, <1>2, <1>3, <1>4, <1>5, <1>6, <1>7, <1>8 DEF Next, Handlers

\* Once the handlers have ended, a client's hub is shown online exactly while an agent is
\* registered, but for the cases in misled: heartbeats over HTTP are among them.
THEOREM ServerTellsTruth == Spec => []ServerShowsAgent
  <1>1. Init => Shown
    BY DEF Init, Shown
  <1>2. QED
    BY <1>1, InitTypeInv, NextTypeInv, InitMarking, NextMarking, NextShown, ShownSuffices, PTL
       DEF Spec

(***************************************************************************)
(* The install link.                                                       *)
(***************************************************************************)

\* A number generated but not yet in the row is nobody's link.
Fresh ==
    \A a \in Admins : num[a] # 0 =>
        /\ row.link # num[a]
        /\ \A r \in Readers : held[r].link # num[a]
        /\ \A b \in Admins \ {a} : num[b] # num[a]

\* A link that was answered is gone from the row.
Consumed == \A q \in Readers : Answered(q) => row.link # held[q].link

\* Who presents a link later has another.
Later ==
    \A r \in Readers : \A q \in before[r] :
        /\ reader[r] # "new"
        => Answered(q) /\ held[q].link # held[r].link

\* A reader that has begun holds a link.
Holding == \A r \in Readers : reader[r] # "new" => held[r].link # 0

LinkInv == clobbered \/ (Fresh /\ Consumed /\ Later /\ Holding)

LEMMA LinkInvSuffices == LinkInv => LinkReadOnce
  BY DEF LinkInv, Later, LinkReadOnce, Answered

LEMMA InitLinkInv == Init => LinkInv
  <1> SUFFICES ASSUME Init
               PROVE  Fresh /\ Consumed /\ Later /\ Holding
    BY DEF LinkInv
  <1>1. Fresh
    BY DEF Init, Fresh
  <1>2. \A r \in Readers : reader[r] = "new" /\ before[r] = {}
    BY DEF Init
  <1>3. QED
    BY <1>1, <1>2 DEF Consumed, Later, Holding, Answered

\* A step that puts no other link in the row than one just generated.
LEMMA LinkStays ==
    ASSUME TypeInv, LinkInv, clobbered => clobbered', UNCHANGED <<held, before>>,
           row'.link \in {row.link, 0},
           \A a \in Admins : num'[a] \in {num[a], 0},
           \A r \in Readers : reader'[r] = reader[r] \/ (reader[r] = "read" /\ reader'[r] = "new")
    PROVE  LinkInv'
  <1> SUFFICES ASSUME ~clobbered
               PROVE  LinkInv'
    BY DEF LinkInv
  <1>1. Fresh /\ Consumed /\ Later /\ Holding
    BY DEF LinkInv
  <1>2. \A r \in Readers : reader'[r] # "new" => reader'[r] = reader[r]
    OBVIOUS
  <1>3. \A r \in Readers : Answered(r)' <=> Answered(r)
    BY DEF Answered
  <1>4. \A r \in Readers : Answered(r) => held[r].link # 0
    BY DEF Answered
  <1>5. Fresh'
    BY <1>1 DEF Fresh
  <1>6. Consumed'
    BY <1>1, <1>3, <1>4 DEF Consumed
  <1>7. Later'
    <2> SUFFICES ASSUME NEW r \in Readers, NEW q \in before[r], reader'[r] # "new"
                 PROVE  Answered(q)' /\ held[q].link # held[r].link
      BY DEF Later
    <2>1. Answered(q) /\ held[q].link # held[r].link
      BY <1>1, <1>2 DEF Later
    <2>2. q \in Readers
      BY DEF TypeInv, HistoryOK
    <2>3. QED
      BY <1>3, <2>1, <2>2
  <1>8. Holding'
    BY <1>1, <1>2 DEF Holding
  <1>9. QED
    BY <1>5, <1>6, <1>7, <1>8 DEF LinkInv

\* The number a request generated becomes the row's token and link.
LEMMA LinkIssued ==
    ASSUME TypeInv, LinkInv, NEW a \in Admins, num[a] # 0, row'.link = num[a],
           num' = [num EXCEPT ![a] = 0], UNCHANGED <<clobbered, held, before, reader>>
    PROVE  LinkInv'
  <1> SUFFICES ASSUME ~clobbered
               PROVE  LinkInv'
    BY DEF LinkInv
  <1>1. Fresh /\ Consumed /\ Later /\ Holding
    BY DEF LinkInv
  <1>2. num'[a] = 0 /\ \A b \in Admins \ {a} : num'[b] = num[b]
    BY DEF TypeInv, RequestOK
  <1>3. Fresh'
    BY <1>1, <1>2 DEF Fresh
  <1>4. Consumed'
    BY <1>1 DEF Fresh, Consumed, Answered
  <1>5. Later' /\ Holding'
    BY <1>1 DEF Later, Holding, Answered
  <1>6. QED
    BY <1>3, <1>4, <1>5 DEF LinkInv

\* A request generates a number that was never there before.
LEMMA LinkGenerated ==
    ASSUME TypeInv, LinkInv, NEW a \in Admins, Generate(a),
           UNCHANGED <<row, clobbered, held, before, reader>>
    PROVE  LinkInv'
  <1> SUFFICES ASSUME ~clobbered
               PROVE  LinkInv'
    BY DEF LinkInv
  <1>1. Fresh /\ Consumed /\ Later /\ Holding
    BY DEF LinkInv
  <1>2. \A n \in Numbers : n # issued + 1
    BY DEF TypeInv, RequestOK, Numbers
  <1>3. num'[a] = issued + 1 /\ \A b \in Admins \ {a} : num'[b] = num[b]
    BY DEF Generate, TypeInv, RequestOK
  <1>4. row.link \in Numbers
    BY DEF TypeInv, RowOK, Rows, Numbers
  <1>5. \A r \in Readers : held[r].link \in Numbers
    BY DEF TypeInv, RequestOK
  <1>6. \A b \in Admins : num[b] \in Numbers
    BY DEF TypeInv, RequestOK
  <1>7. Fresh'
    BY <1>1, <1>2, <1>3, <1>4, <1>5, <1>6 DEF Fresh
  <1>8. Consumed' /\ Later' /\ Holding'
    BY <1>1 DEF Consumed, Later, Holding, Answered
  <1>9. QED
    BY <1>7, <1>8 DEF LinkInv

LEMMA LinkRead ==
    ASSUME TypeInv, LinkInv, NEW r \in Readers, ReadLink(r)
    PROVE  LinkInv'
  <1> SUFFICES ASSUME ~clobbered
               PROVE  LinkInv'
    BY DEF ReadLink, LinkInv
  <1>1. Fresh /\ Consumed /\ Later /\ Holding
    BY DEF LinkInv
  <1>2. /\ held'[r] = [link |-> row.link, token |-> row.token]
        /\ reader[r] = "new" /\ reader'[r] = "read"
        /\ before'[r] = {q \in Readers : Answered(q)}
    BY DEF ReadLink, TypeInv, RequestOK, HistoryOK
  <1>3. \A q \in Readers \ {r} : held'[q] = held[q] /\ reader'[q] = reader[q] /\ before'[q] = before[q]
    BY DEF ReadLink, TypeInv, RequestOK, HistoryOK
  <1>4. ~Answered(r) /\ \A q \in Readers : Answered(q)' <=> Answered(q)
    BY <1>2, <1>3 DEF Answered
  <1>5. row.link # 0 /\ UNCHANGED <<row, num>>
    BY DEF ReadLink
  <1>6. Fresh'
    BY <1>1, <1>2, <1>3, <1>5 DEF Fresh
  <1>7. Consumed'
    BY <1>1, <1>3, <1>4, <1>5 DEF Consumed
  <1>8. Later'
    <2> SUFFICES ASSUME NEW q \in Readers, NEW p \in before'[q], reader'[q] # "new"
                 PROVE  Answered(p)' /\ held'[p].link # held'[q].link
      BY DEF Later
    <2>1. CASE q = r
      <3>1. p \in Readers /\ Answered(p) /\ p # r
        BY <1>2, <1>4, <2>1
      <3>2. row.link # held[p].link
        BY <1>1, <3>1 DEF Consumed
      <3>3. QED
        BY <1>2, <1>3, <1>4, <2>1, <3>1, <3>2
    <2>2. CASE q # r
      <3>1. p \in Readers /\ Answered(p) /\ held[p].link # held[q].link
        BY <1>1, <1>3, <2>2 DEF Later, TypeInv, HistoryOK
      <3>2. QED
        BY <1>3, <1>4, <2>2, <3>1
    <2>3. QED
      BY <2>1, <2>2
  <1>9. Holding'
    BY <1>1, <1>2, <1>3, <1>5 DEF Holding
  <1>10. QED
    BY <1>6, <1>7, <1>8, <1>9 DEF LinkInv

LEMMA LinkConsumed ==
    ASSUME TypeInv, LinkInv, NEW r \in Readers, ConsumeLink(r)
    PROVE  LinkInv'
  <1> SUFFICES ASSUME ~clobbered
               PROVE  LinkInv'
    BY DEF ConsumeLink, LinkInv
  <1>1. Fresh /\ Consumed /\ Later /\ Holding
    BY DEF LinkInv
  <1>2. reader[r] = "read" /\ reader'[r] = "done" /\ \A q \in Readers \ {r} : reader'[q] = reader[q]
    BY DEF ConsumeLink, TypeInv, RequestOK
  <1>3. UNCHANGED <<held, before, num>>
    BY DEF ConsumeLink
  <1>4. row'.link = IF row.link = held[r].link THEN 0 ELSE row.link
    BY DEF ConsumeLink, TypeInv, RowOK, Rows
  <1>5. held[r].link # 0
    BY <1>1, <1>2 DEF Holding
  <1>6. \A q \in Readers \ {r} : Answered(q)' <=> Answered(q)
    BY <1>2, <1>3 DEF Answered
  <1>7. \A q \in Readers : Answered(q) => Answered(q)' /\ held[q].link # 0
    BY <1>2, <1>3 DEF Answered
  <1>8. Fresh'
    BY <1>1, <1>3, <1>4 DEF Fresh
  <1>9. Consumed'
    <2> SUFFICES ASSUME NEW q \in Readers, Answered(q)'
                 PROVE  row'.link # held[q].link
      BY <1>3 DEF Consumed
    <2>1. CASE q = r
      BY <1>4, <1>5, <2>1
    <2>2. CASE q # r
      BY <1>1, <1>4, <1>6, <1>7, <2>2 DEF Consumed
    <2>3. QED
      BY <2>1, <2>2
  <1>10. Later'
    <2> SUFFICES ASSUME NEW q \in Readers, NEW p \in before[q], reader'[q] # "new"
                 PROVE  Answered(p)' /\ held[p].link # held[q].link
      BY <1>3 DEF Later
    <2>1. p \in Readers /\ reader[q] # "new"
      BY <1>2 DEF TypeInv, HistoryOK
    <2>2. QED
      BY <1>1, <1>7, <2>1 DEF Later
  <1>11. Holding'
    BY <1>1, <1>2, <1>3 DEF Holding
  <1>12. QED
    BY <1>8, <1>9, <1>10, <1>11 DEF LinkInv

LEMMA NextLinkInv == TypeInv /\ LinkInv /\ [Next]_vars => LinkInv'
  <1> SUFFICES ASSUME TypeInv, LinkInv, [Next]_vars
               PROVE  LinkInv'
    OBVIOUS
  <1>0. row \in Rows /\ NoRow.link = 0
    BY NoRowIsARow DEF TypeInv, RowOK, RequestOK
  <1>1. ASSUME NEW k \in Sockets, Disconnect(k) \/ HandleDisconnect(k) \/ Heartbeat(k)
        PROVE  LinkInv'
    <2>1. UNCHANGED <<num, linkVars, clobbered, before>>
      BY <1>1 DEF Disconnect, HandleDisconnect, OffRow, OffServers, FailDisconnect, Heartbeat
    <2>2. row'.link = row.link
      BY <1>0, <1>1 DEF Disconnect, HandleDisconnect, OffRow, OffServers, FailDisconnect, Heartbeat, Rows
    <2>3. QED
      BY <2>1, <2>2, LinkStays
  <1>2. ASSUME NEW k \in Sockets, HandleRegister(k)
        PROVE  LinkInv'
    <2>1. UNCHANGED <<num, linkVars, clobbered, before>>
      BY <1>2 DEF HandleRegister, ReadSession, Accept, Connect, ServersOn, ClearLink,
         FinishRegister, RegisterTemplate, FailRegister
    <2>2. row'.link \in {row.link, 0}
      <3>1. CASE Connect(k)
        BY <1>0, <3>1 DEF Connect, NewRow, NoRow, Rows
      <3>2. CASE ClearLink(k)
        BY <1>0, <3>2 DEF ClearLink, Rows
      <3>3. CASE ~(Connect(k) \/ ClearLink(k))
        BY <1>2, <3>3 DEF HandleRegister, ReadSession, Accept, ServersOn, FinishRegister,
           RegisterTemplate, FailRegister
      <3>4. QED
        BY <3>1, <3>2, <3>3
    <2>3. QED
      BY <2>1, <2>2, LinkStays
  <1>3. ASSUME NEW a \in Admins, HandleAdmin(a)
        PROVE  LinkInv'
    <2>1. UNCHANGED <<linkVars, clobbered, before>>
      BY <1>3 DEF HandleAdmin, Provision, Reissue, CreateRow, RotateRow, AddHub, DropHub,
         KeepSession, DeleteSession, ApplyGoldenTemplate, FailAdmin
    <2>2. CASE Provision(a)
      BY <2>1, <2>2, LinkGenerated DEF Provision
    <2>3. ASSUME num' = [num EXCEPT ![a] = 0]
          PROVE  \A b \in Admins : num'[b] \in {num[b], 0}
      BY <2>3 DEF TypeInv, RequestOK
    <2>4. CASE CreateRow(a) \/ RotateRow(a)
      <3>1. num' = [num EXCEPT ![a] = 0]
        BY <2>4 DEF CreateRow, RotateRow
      <3>2. CASE row' = row
        BY <2>1, <2>3, <3>1, <3>2, LinkStays
      <3>3. CASE row' # row
        <4>1. row'.link = num[a]
          BY <1>0, <2>4, <3>3 DEF CreateRow, RotateRow, NewRow, NoRow, Rows
        <4>2. CASE num[a] = 0
          BY <2>1, <2>3, <3>1, <4>1, <4>2, LinkStays
        <4>3. CASE num[a] # 0
          BY <2>1, <3>1, <4>1, <4>3, LinkIssued
        <4>4. QED
          BY <4>2, <4>3
      <3>4. QED
        BY <3>2, <3>3
    <2>5. CASE DeleteSession(a)
      <3>1. row'.link = 0 /\ UNCHANGED num
        BY <1>0, <2>5 DEF DeleteSession
      <3>2. QED
        BY <2>1, <3>1, LinkStays
    <2>6. CASE \/ Reissue(a) \/ AddHub(a) \/ DropHub(a) \/ KeepSession(a)
               \/ \E t \in Templates : ApplyGoldenTemplate(a, t)
      <3>1. UNCHANGED <<row, num>>
        BY <2>6 DEF Reissue, AddHub, DropHub, KeepSession, ApplyGoldenTemplate
      <3>2. QED
        BY <2>1, <3>1, LinkStays
    <2>7. CASE FailAdmin(a)
      <3>1. row' = row /\ num' = [num EXCEPT ![a] = 0]
        BY <2>7 DEF FailAdmin
      <3>2. QED
        BY <2>1, <2>3, <3>1, LinkStays
    <2>8. QED
      BY <1>3, <2>2, <2>4, <2>5, <2>6, <2>7 DEF HandleAdmin
  <1>4. ASSUME NEW h \in Handlers, MarkFind(h) \/ MarkSave(h) \/ MarkCollide(h)
        PROVE  LinkInv'
    <2>1. UNCHANGED <<num, linkVars, before>> /\ (clobbered => clobbered')
      <3>1. UNCHANGED <<num, linkVars, before>>
        BY <1>4 DEF MarkFind, MarkSave, MarkCollide
      <3>2. clobbered => clobbered'
        BY <1>4, Zenon DEF MarkFind, MarkSave, MarkCollide
      <3>3. QED
        BY <3>1, <3>2
    <2>2. CASE clobbered'
      BY <2>2 DEF LinkInv
    <2>3. CASE ~clobbered'
      <3>1. row'.link = row.link
        BY <1>0, <1>4, <2>3 DEF MarkFind, MarkSave, MarkCollide, Rows
      <3>2. QED
        BY <2>1, <3>1, LinkStays
    <2>4. QED
      BY <2>2, <2>3
  <1>5. CASE Consent \/ ServerHeartbeat
    <2>1. row'.link = row.link /\ UNCHANGED <<num, linkVars, clobbered, before>>
      BY <1>0, <1>5 DEF Consent, ServerHeartbeat, Rows
    <2>2. QED
      BY <2>1, LinkStays
  <1>6. CASE Restart
    <2>1. UNCHANGED <<row, held, clobbered, before>> /\ \A a \in Admins : num'[a] = 0
      BY <1>6 DEF Restart
    <2>2. \A r \in Readers : reader'[r] = reader[r] \/ (reader[r] = "read" /\ reader'[r] = "new")
      BY <1>6 DEF Restart
    <2>3. QED
      BY <2>1, <2>2, LinkStays
  <1>7. CASE UNCHANGED vars
    BY <1>7, LinkStays DEF vars
  <1>8. QED
    BY <1>1, <1>2, <1>3, <1>4, <1>5, <1>6, <1>7, LinkRead, LinkConsumed DEF Next, Handlers

\* Whoever presents a link after its secrets were handed out gets nothing, unless a
\* stale save has put the link back.
THEOREM LinkIsReadOnce == Spec => []LinkReadOnce
  BY InitTypeInv, NextTypeInv, InitLinkInv, NextLinkInv, LinkInvSuffices, PTL DEF Spec

(***************************************************************************)
(* An old token is shut out.                                               *)
(***************************************************************************)

Rotating == \E a \in Admins : admin[a] = "rotate"

\* A socket that was let in, and that no rotation or deletion has missed.
Welcome(k) == k \notin escaped /\ (reg[k] = "read" \/ (k = agents /\ k \in up))

\* Such a socket has the row's token, and there is none while the token is replaced.
TokenInv ==
    \A k \in Sockets : Welcome(k) =>
        /\ ~Rotating
        /\ (row.exists /\ row.token \in {0, jwt[k]}) \/ clobbered

\* A socket in the map has been let in.
LetIn == agents # None => reg[agents] \notin {"new", "refused", "read"}

LEMMA TokenInvSuffices ==
    ASSUME TypeInv, TokenInv
    PROVE  OldTokenOut
  <1> SUFFICES ASSUME agents \in up \ escaped
               PROVE  row.token \in {0, jwt[agents]} \/ clobbered
    BY DEF OldTokenOut
  <1>1. agents \in Sockets /\ Welcome(agents)
    BY DEF Welcome, TypeInv, SocketOK
  <1>2. QED
    BY <1>1 DEF TokenInv

LEMMA InitToken == Init => TokenInv /\ LetIn
  <1> SUFFICES ASSUME Init
               PROVE  TokenInv /\ LetIn
    OBVIOUS
  <1>1. agents = None /\ \A k \in Sockets : reg[k] = "new"
    BY DEF Init
  <1>2. QED
    BY <1>1, AgentAssumption DEF TokenInv, LetIn, Welcome

\* A step after which nobody is welcome who was not, that starts no rotation and leaves
\* the token alone.
LEMMA TokenStays ==
    ASSUME TokenInv, \A k \in Sockets : Welcome(k)' => Welcome(k) /\ jwt'[k] = jwt[k],
           Rotating' => Rotating, clobbered => clobbered',
           row.exists => row'.exists /\ row'.token \in {0, row.token}
    PROVE  TokenInv'
  BY DEF TokenInv

LEMMA NextLetIn == TypeInv /\ LetIn /\ [Next]_vars => LetIn'
  <1> SUFFICES ASSUME TypeInv, LetIn, [Next]_vars, agents' # None
               PROVE  reg'[agents'] \notin {"new", "refused", "read"}
    BY DEF LetIn
  <1>1. ASSUME NEW k \in Sockets, Accept(k)
        PROVE  reg'[agents'] \notin {"new", "refused", "read"}
    BY <1>1 DEF Accept, TypeInv, SocketOK
  <1>2. ASSUME agents' = agents,
               \A k \in Sockets : reg[k] \notin {"new", "refused", "read"} =>
                                      reg'[k] \notin {"new", "refused", "read"}
        PROVE  reg'[agents'] \notin {"new", "refused", "read"}
    BY <1>2 DEF LetIn, TypeInv, SocketOK
  <1>3. ASSUME NEW k \in Sockets, HandleRegister(k), ~Accept(k)
        PROVE  \A q \in Sockets : reg[q] \notin {"new", "refused", "read"} =>
                                      reg'[q] \notin {"new", "refused", "read"}
    BY <1>3 DEF HandleRegister, ReadSession, Connect, ServersOn, ClearLink, FinishRegister,
       RegisterTemplate, FailRegister, TypeInv, SocketOK
  <1>4. ASSUME NEW k \in Sockets, HandleRegister(k), ~Accept(k)
        PROVE  agents' \in {agents, None}
    BY <1>4 DEF HandleRegister, ReadSession, Close, Connect, ServersOn, ClearLink, FinishRegister,
       RegisterTemplate, FailRegister
  <1>5. ASSUME NEW k \in Sockets, Disconnect(k) \/ HandleDisconnect(k) \/ Heartbeat(k)
        PROVE  agents' \in {agents, None} /\ reg' = reg
    BY <1>5 DEF Disconnect, Close, HandleDisconnect, OffRow, OffServers, FailDisconnect, Heartbeat
  <1>6. ASSUME NEW a \in Admins, HandleAdmin(a)
        PROVE  agents' \in {agents, None} /\ reg' = reg
    BY <1>6 DEF HandleAdmin, Provision, Close, Reissue, CreateRow, RotateRow, AddHub, DropHub,
       KeepSession, DeleteSession, ApplyGoldenTemplate, FailAdmin
  <1>7. ASSUME NEW h \in Handlers, MarkFind(h) \/ MarkSave(h) \/ MarkCollide(h)
        PROVE  reg'[agents'] \notin {"new", "refused", "read"}
    <2>1. agents' = agents /\ \A k \in Sockets : reg'[k] \in {reg[k], "done"}
      BY <1>7 DEF MarkFind, MarkSave, MarkCollide
    <2>2. QED
      BY <1>2, <2>1
  <1>8. CASE (\E r \in Readers : ReadLink(r) \/ ConsumeLink(r)) \/ Consent \/ ServerHeartbeat
    BY <1>2, <1>8 DEF ReadLink, ConsumeLink, Consent, ServerHeartbeat
  <1>9. CASE Restart
    BY <1>9 DEF Restart
  <1>10. CASE UNCHANGED vars
    BY <1>2, <1>10 DEF vars
  <1>11. QED
    BY <1>1, <1>2, <1>3, <1>4, <1>5, <1>6, <1>7, <1>8, <1>9, <1>10 DEF Next, Handlers

\* Nobody is welcome who was not, for a step that lets nobody in.
LEMMA WelcomeStays ==
    ASSUME agents' \in {agents, None}, None \notin Sockets, up' \subseteq up, escaped \subseteq escaped',
           \A k \in Sockets : reg'[k] = "read" => reg[k] = "read"
    PROVE  \A k \in Sockets : Welcome(k)' => Welcome(k)
  BY DEF Welcome

LEMMA NextToken == TypeInv /\ LetIn /\ TokenInv /\ [Next]_vars => TokenInv'
  <1> SUFFICES ASSUME TypeInv, LetIn, TokenInv, [Next]_vars
               PROVE  TokenInv'
    OBVIOUS
  <1>0. None \notin Sockets /\ row \in Rows
    BY AgentAssumption DEF TypeInv, RowOK
  <1>1. ASSUME NEW k \in Sockets, Disconnect(k) \/ HandleDisconnect(k) \/ Heartbeat(k)
        PROVE  TokenInv'
    <2>1. /\ agents' \in {agents, None} /\ up' \subseteq up
          /\ UNCHANGED <<reg, jwt, escaped, admin, clobbered>>
      BY <1>1 DEF Disconnect, Close, HandleDisconnect, OffRow, OffServers, FailDisconnect, Heartbeat
    <2>2. row'.exists = row.exists /\ row'.token = row.token
      BY <1>0, <1>1 DEF Disconnect, HandleDisconnect, OffRow, OffServers, FailDisconnect, Heartbeat, Rows
    <2>3. \A q \in Sockets : Welcome(q)' => Welcome(q)
      BY <1>0, <2>1, WelcomeStays
    <2>4. QED
      BY <2>1, <2>2, <2>3, TokenStays DEF Rotating
  <1>2. ASSUME NEW k \in Sockets, NEW t \in disclosed, ReadSession(k, t)
        PROVE  TokenInv'
    <2>1. UNCHANGED <<row, admin, clobbered>> /\ reg[k] = "new" /\ reg'[k] \in {"read", "refused"}
      BY <1>2 DEF ReadSession, TypeInv, SocketOK
    <2>2. /\ agents' \in {agents, None} /\ up' \subseteq up /\ escaped \subseteq escaped'
          /\ \A q \in Sockets \ {k} : reg'[q] = reg[q] /\ jwt'[q] = jwt[q]
      BY <1>2 DEF ReadSession, Close, TypeInv, SocketOK
    <2>3. \A q \in Sockets \ {k} : Welcome(q)' => Welcome(q)
      BY <1>0, <2>2 DEF Welcome
    <2>4. agents' # k
      BY <1>0, <2>1, <2>2 DEF LetIn
    <2>5. Welcome(k)' => ~Rotating /\ row.exists /\ row.token \in {0, jwt'[k]}
      <3>1. CASE row.exists /\ row.token \in {0, t}
        <4>1. jwt'[k] = t
          BY <1>2, <3>1 DEF ReadSession, TypeInv, SocketOK
        <4>2. Rotating => k \in escaped'
          BY <1>2, <3>1 DEF ReadSession, Rotating
        <4>3. QED
          BY <3>1, <4>1, <4>2 DEF Welcome
      <3>2. CASE ~(row.exists /\ row.token \in {0, t})
        <4>1. reg'[k] = "refused"
          BY <1>2, <3>2 DEF ReadSession, TypeInv, SocketOK
        <4>2. QED
          BY <2>4, <4>1 DEF Welcome
      <3>3. QED
        BY <3>1, <3>2
    <2>6. Rotating' <=> Rotating
      BY <2>1 DEF Rotating
    <2>7. ASSUME NEW q \in Sockets, Welcome(q)'
          PROVE  ~Rotating' /\ ((row'.exists /\ row'.token \in {0, jwt'[q]}) \/ clobbered')
      BY <2>1, <2>2, <2>3, <2>5, <2>6, <2>7 DEF TokenInv
    <2>8. QED
      BY <2>7 DEF TokenInv
  <1>3. ASSUME NEW k \in Sockets, Accept(k)
        PROVE  TokenInv'
    <2>1. UNCHANGED <<row, admin, clobbered, jwt, up, escaped>> /\ agents' = k /\ reg[k] = "read"
      BY <1>3 DEF Accept
    <2>2. \A q \in Sockets : reg'[q] = "read" => reg[q] = "read"
      BY <1>3 DEF Accept, TypeInv, SocketOK
    <2>3. \A q \in Sockets : Welcome(q)' => Welcome(q)
      BY <2>1, <2>2 DEF Welcome
    <2>4. QED
      BY <2>1, <2>3, TokenStays DEF Rotating
  <1>4. ASSUME NEW k \in Sockets, HandleRegister(k), ~Accept(k),
               ~\E t \in disclosed : ReadSession(k, t)
        PROVE  TokenInv'
    <2>1. UNCHANGED <<admin, clobbered, jwt, up, escaped, agents>>
      BY <1>4 DEF HandleRegister, Connect, ServersOn, ClearLink, FinishRegister,
         RegisterTemplate, FailRegister
    <2>2. \A q \in Sockets : reg'[q] = "read" => reg[q] = "read"
      BY <1>4 DEF HandleRegister, Connect, ServersOn, ClearLink, FinishRegister,
         RegisterTemplate, FailRegister, TypeInv, SocketOK
    <2>3. row.exists => row'.exists /\ row'.token = row.token
      BY <1>0, <1>4 DEF HandleRegister, Connect, ServersOn, ClearLink, FinishRegister,
         RegisterTemplate, FailRegister, Rows
    <2>4. \A q \in Sockets : Welcome(q)' => Welcome(q)
      BY <2>1, <2>2 DEF Welcome
    <2>5. QED
      BY <2>1, <2>3, <2>4, TokenStays DEF Rotating
  <1>5. ASSUME NEW a \in Admins, HandleAdmin(a)
        PROVE  TokenInv'
    <2>1. /\ agents' \in {agents, None} /\ up' \subseteq up /\ escaped \subseteq escaped'
          /\ UNCHANGED <<reg, jwt, clobbered>>
      BY <1>5 DEF HandleAdmin, Provision, Close, Reissue, CreateRow, RotateRow, AddHub, DropHub,
         KeepSession, DeleteSession, ApplyGoldenTemplate, FailAdmin
    <2>2. \A k \in Sockets : Welcome(k)' => Welcome(k) /\ jwt'[k] = jwt[k]
      BY <1>0, <2>1, WelcomeStays
    <2>3. ASSUME row' = row, Rotating' => Rotating
          PROVE  TokenInv'
      BY <2>1, <2>2, <2>3, TokenStays
    <2>4. CASE Provision(a)
      <3>1. CASE row.exists
        <4>1. \A k \in Sockets : reg[k] = "read" => k \in escaped'
          BY <2>4, <3>1 DEF Provision
        <4>2. agents' = None
          BY <2>4, <3>1 DEF Provision, Close
        <4>3. \A k \in Sockets : ~Welcome(k)'
          BY <1>0, <2>1, <4>1, <4>2 DEF Welcome
        <4>4. QED
          BY <4>3 DEF TokenInv
      <3>2. CASE ~row.exists
        <4>1. row' = row /\ admin' = [admin EXCEPT ![a] = "create"]
          BY <2>4, <3>2 DEF Provision
        <4>2. Rotating' => Rotating
          BY <4>1 DEF Rotating, TypeInv, RequestOK
        <4>3. QED
          BY <2>3, <4>1, <4>2
      <3>3. QED
        BY <3>1, <3>2
    <2>5. CASE CreateRow(a)
      <3>1. Rotating' => Rotating
        BY <2>5 DEF CreateRow, Rotating, TypeInv, RequestOK
      <3>2. CASE row.exists
        BY <2>3, <2>5, <3>1, <3>2 DEF CreateRow
      <3>3. CASE ~row.exists
        BY <2>1, <2>2, <3>1, <3>3, TokenStays
      <3>4. QED
        BY <3>2, <3>3
    <2>6. CASE RotateRow(a)
      <3>1. Rotating
        BY <2>6 DEF RotateRow, Rotating
      <3>2. \A k \in Sockets : ~Welcome(k)'
        BY <2>2, <3>1 DEF TokenInv
      <3>3. QED
        BY <3>2 DEF TokenInv
    <2>7. CASE DeleteSession(a)
      <3>1. CASE row.exists
        <4>1. agents' = agents /\ \A k \in Sockets : reg[k] \notin {"new", "refused"} => k \in escaped'
          BY <2>7, <3>1 DEF DeleteSession
        <4>2. \A k \in Sockets : ~Welcome(k)'
          BY <1>0, <2>1, <4>1 DEF Welcome, LetIn
        <4>3. QED
          BY <4>2 DEF TokenInv
      <3>2. CASE ~row.exists
        <4>1. row' = row
          BY <2>7, <3>2 DEF DeleteSession, TypeInv, RowOK
        <4>2. Rotating' => Rotating
          BY <2>7 DEF DeleteSession, Rotating, TypeInv, RequestOK
        <4>3. QED
          BY <2>3, <4>1, <4>2
      <3>3. QED
        BY <3>1, <3>2
    <2>8. CASE \/ Reissue(a) \/ AddHub(a) \/ DropHub(a) \/ KeepSession(a) \/ FailAdmin(a)
               \/ \E t \in Templates : ApplyGoldenTemplate(a, t)
      <3>1. row' = row /\ \A b \in Admins : admin'[b] = "rotate" => admin[b] = "rotate"
        BY <2>8 DEF Reissue, AddHub, DropHub, KeepSession, FailAdmin, ApplyGoldenTemplate,
           TypeInv, RequestOK
      <3>2. QED
        BY <2>3, <3>1 DEF Rotating
    <2>9. QED
      BY <1>5, <2>4, <2>5, <2>6, <2>7, <2>8 DEF HandleAdmin
  <1>6. ASSUME NEW h \in Handlers, MarkFind(h) \/ MarkSave(h) \/ MarkCollide(h)
        PROVE  TokenInv'
    <2>1. UNCHANGED <<jwt, agents, up, escaped>>
      BY <1>6 DEF MarkFind, MarkSave, MarkCollide
    <2>2. clobbered => clobbered'
      BY <1>6, Zenon DEF MarkFind, MarkSave, MarkCollide
    <2>3. Rotating' => Rotating
      BY <1>6 DEF MarkFind, MarkSave, MarkCollide, Marked, Rotating
    <2>4. \A k \in Sockets : reg'[k] = "read" => reg[k] = "read"
      BY <1>6 DEF MarkFind, MarkSave, MarkCollide
    <2>5. \A k \in Sockets : Welcome(k)' => Welcome(k) /\ jwt'[k] = jwt[k]
      BY <2>1, <2>4 DEF Welcome
    <2>6. CASE clobbered'
      BY <2>3, <2>5, <2>6 DEF TokenInv
    <2>7. CASE ~clobbered'
      <3>1. row'.exists = row.exists /\ row'.token = row.token
        BY <1>0, <1>6, <2>7 DEF MarkFind, MarkSave, MarkCollide, Rows
      <3>2. QED
        BY <2>2, <2>3, <2>5, <3>1, TokenStays
    <2>8. QED
      BY <2>6, <2>7
  <1>7. CASE (\E r \in Readers : ReadLink(r) \/ ConsumeLink(r)) \/ Consent \/ ServerHeartbeat
    <2>1. UNCHANGED <<reg, jwt, agents, up, escaped, admin, clobbered>>
      BY <1>7 DEF ReadLink, ConsumeLink, Consent, ServerHeartbeat
    <2>2. row'.exists = row.exists /\ row'.token = row.token
      BY <1>0, <1>7 DEF ReadLink, ConsumeLink, Consent, ServerHeartbeat, Rows
    <2>3. QED
      BY <2>1, <2>2, TokenStays DEF Welcome, Rotating
  <1>8. CASE Restart
    <2>1. agents' = None /\ \A k \in Sockets : reg'[k] # "read"
      BY <1>8 DEF Restart
    <2>2. QED
      BY <1>0, <2>1 DEF Welcome, TokenInv
  <1>9. CASE UNCHANGED vars
    BY <1>9, TokenStays DEF vars, Welcome, Rotating
  <1>10. QED
    BY <1>1, <1>2, <1>3, <1>4, <1>5, <1>6, <1>7, <1>8, <1>9 DEF Next, Handlers, HandleRegister

\* After a rotation no reachable agent holds an older JWT, but for those in escaped.
THEOREM OldTokenShutOut == Spec => []OldTokenOut
  BY InitTypeInv, NextTypeInv, InitToken, NextLetIn, NextToken, TokenInvSuffices, PTL DEF Spec

(***************************************************************************)
(* Golden templates.                                                       *)
(***************************************************************************)

\* h is about to put t on record, in the row there is.
Pending(h, t) == mark[h].slug = t /\ (mark[h].found => mark[h].row.id = row.id)

OnRecord(t) == t \in row.applied \/ \E h \in Handlers : Pending(h, t)

TemplateInv == clobbered \/ (row.exists => \A t \in sent : OnRecord(t))

LEMMA TemplateInvSuffices ==
    ASSUME TypeInv, TemplateInv
    PROVE  TemplatesOnRecord
  <1> SUFFICES ASSUME row.exists, \A h \in Handlers : mark[h] = NoMark, ~clobbered, NEW t \in sent
               PROVE  t \in row.applied
    BY DEF TemplatesOnRecord, Handlers
  <1>1. t # None /\ NoMark.slug = None
    BY AgentAssumption, NoRowIsARow DEF TypeInv, HistoryOK, RowOK, RequestOK
  <1>2. QED
    BY <1>1 DEF TemplateInv, OnRecord, Pending

LEMMA InitTemplates == Init => TemplateInv
  BY DEF Init, TemplateInv

\* A step that emits nothing and takes nothing off record.
LEMMA TemplatesStay ==
    ASSUME TemplateInv, clobbered => clobbered', row'.exists => row.exists,
           row.exists => row'.id = row.id /\ row.applied \subseteq row'.applied,
           UNCHANGED <<mark, sent>>
    PROVE  TemplateInv'
  BY DEF TemplateInv, OnRecord, Pending

\* Handler h has no mark left, and what it had is on record or was never emitted.
LEMMA TemplateDropped ==
    ASSUME TypeInv, TemplateInv, NEW h \in Handlers, mark' = [mark EXCEPT ![h] = NoMark],
           clobbered => clobbered', row'.exists => row.exists,
           row.exists => row'.id = row.id /\ row.applied \subseteq row'.applied,
           sent' \subseteq sent,
           row.exists /\ Pending(h, mark[h].slug) => mark[h].slug \in row'.applied \/ mark[h].slug \notin sent'
    PROVE  TemplateInv'
  <1> SUFFICES ASSUME ~clobbered, row'.exists, NEW t \in sent'
               PROVE  OnRecord(t)'
    BY DEF TemplateInv
  <1>1. OnRecord(t)
    BY DEF TemplateInv
  <1>2. ASSUME NEW x \in Handlers \ {h}, Pending(x, t)
        PROVE  Pending(x, t)'
    BY <1>2 DEF Pending, TypeInv, MarkOK
  <1>3. CASE Pending(h, t)
    BY <1>3 DEF Pending, OnRecord
  <1>4. QED
    BY <1>1, <1>2, <1>3 DEF OnRecord

\* A template is emitted by a handler that has no mark.
LEMMA TemplateEmitted ==
    ASSUME TypeInv, TemplateInv, NEW h \in Handlers, NEW t \in Templates, Emit(h, t),
           mark[h] = NoMark, UNCHANGED <<row, clobbered>>
    PROVE  TemplateInv'
  <1> SUFFICES ASSUME ~clobbered, row.exists, NEW u \in sent'
               PROVE  OnRecord(u)'
    BY DEF TemplateInv
  <1>1. mark'[h] = [slug |-> t, found |-> FALSE, row |-> NoRow] /\ sent' = sent \cup {t}
    BY DEF Emit, TypeInv, MarkOK
  <1>2. \A x \in Handlers \ {h} : mark'[x] = mark[x]
    BY DEF Emit, TypeInv, MarkOK
  <1>3. \A v \in sent : ~Pending(h, v)
    BY AgentAssumption, NoRowIsARow DEF Pending, TypeInv, HistoryOK, RowOK, RequestOK
  <1>4. CASE u = t
    <2>1. Pending(h, u)'
      BY <1>1, <1>4 DEF Pending
    <2>2. QED
      BY <2>1 DEF OnRecord
  <1>5. CASE u # t
    <2>1. u \in sent /\ OnRecord(u)
      BY <1>1, <1>5 DEF TemplateInv
    <2>2. QED
      BY <1>2, <1>3, <2>1 DEF OnRecord, Pending
  <1>6. QED
    BY <1>4, <1>5

LEMMA NextTemplates == TypeInv /\ Marking /\ TemplateInv /\ [Next]_vars => TemplateInv'
  <1> SUFFICES ASSUME TypeInv, Marking, TemplateInv, [Next]_vars
               PROVE  TemplateInv'
    OBVIOUS
  <1>0. row \in Rows
    BY DEF TypeInv, RowOK
  <1>1. ASSUME NEW k \in Sockets, Disconnect(k) \/ HandleDisconnect(k) \/ Heartbeat(k)
        PROVE  TemplateInv'
    <2>1. row'.exists = row.exists /\ row'.id = row.id /\ row'.applied = row.applied
      BY <1>0, <1>1 DEF Disconnect, HandleDisconnect, OffRow, OffServers, FailDisconnect, Heartbeat, Rows
    <2>2. UNCHANGED <<mark, sent, clobbered>>
      BY <1>1 DEF Disconnect, HandleDisconnect, OffRow, OffServers, FailDisconnect, Heartbeat
    <2>3. QED
      BY <2>1, <2>2, TemplatesStay
  <1>2. ASSUME NEW k \in Sockets, HandleRegister(k)
        PROVE  TemplateInv'
    <2>1. CASE Connect(k) /\ ~row.exists
      <3>1. sent' = {}
        BY <2>1 DEF Connect, NewRow
      <3>2. QED
        BY <3>1 DEF TemplateInv
    <2>2. CASE Connect(k) /\ row.exists
      <3>1. row'.exists = row.exists /\ row'.id = row.id /\ row'.applied = row.applied
        BY <1>0, <2>2 DEF Connect, Rows
      <3>2. QED
        BY <2>2, <3>1, TemplatesStay DEF Connect
    <2>3. CASE \/ (\E t \in disclosed : ReadSession(k, t))
               \/ Accept(k) \/ ServersOn(k) \/ ClearLink(k) \/ FinishRegister(k)
      <3>1. row'.exists = row.exists /\ row'.id = row.id /\ row'.applied = row.applied
        BY <1>0, <2>3 DEF ReadSession, Accept, ServersOn, ClearLink, FinishRegister, Rows
      <3>2. UNCHANGED <<mark, sent, clobbered>>
        BY <2>3 DEF ReadSession, Accept, ServersOn, ClearLink, FinishRegister
      <3>3. QED
        BY <3>1, <3>2, TemplatesStay
    <2>4. ASSUME NEW t \in Templates, RegisterTemplate(k, t)
          PROVE  TemplateInv'
      <3>1. mark[k] = NoMark /\ UNCHANGED <<row, clobbered>>
        BY <2>4 DEF RegisterTemplate
      <3>2. CASE Emit(k, t)
        BY <3>1, <3>2, TemplateEmitted DEF Handlers
      <3>3. CASE UNCHANGED <<sent, mark>>
        BY <3>1, <3>3, TemplatesStay
      <3>4. QED
        BY <2>4, <3>2, <3>3 DEF RegisterTemplate
    <2>5. CASE FailRegister(k)
      <3>1. mark' = [mark EXCEPT ![k] = NoMark] /\ sent' = sent \ {mark[k].slug} /\ UNCHANGED <<row, clobbered>>
        BY <2>5 DEF FailRegister
      <3>2. QED
        BY <3>1, TemplateDropped DEF Handlers
    <2>6. QED
      BY <1>2, <2>1, <2>2, <2>3, <2>4, <2>5 DEF HandleRegister
  <1>3. ASSUME NEW a \in Admins, HandleAdmin(a)
        PROVE  TemplateInv'
    <2>1. CASE CreateRow(a) /\ ~row.exists
      <3>1. sent' = {}
        BY <2>1 DEF CreateRow, NewRow
      <3>2. QED
        BY <3>1 DEF TemplateInv
    <2>2. CASE \/ Provision(a) \/ Reissue(a) \/ RotateRow(a) \/ (CreateRow(a) /\ row.exists)
               \/ AddHub(a) \/ DropHub(a) \/ KeepSession(a)
      <3>1. row'.exists = row.exists /\ row'.id = row.id /\ row'.applied = row.applied
        BY <1>0, <2>2 DEF Provision, Reissue, RotateRow, CreateRow, AddHub, DropHub, KeepSession,
           Rows
      <3>2. UNCHANGED <<mark, sent, clobbered>>
        BY <2>2 DEF Provision, Reissue, RotateRow, CreateRow, AddHub, DropHub, KeepSession
      <3>3. QED
        BY <3>1, <3>2, TemplatesStay
    <2>3. CASE DeleteSession(a)
      <3>1. ~row'.exists
        BY <2>3, NoRowIsARow DEF DeleteSession, TypeInv, RowOK, RequestOK
      <3>2. QED
        BY <3>1 DEF TemplateInv
    <2>4. ASSUME NEW t \in Templates, ApplyGoldenTemplate(a, t)
          PROVE  TemplateInv'
      <3>1. mark[a] = NoMark /\ Emit(a, t) /\ UNCHANGED <<row, clobbered>>
        BY <2>4 DEF ApplyGoldenTemplate, Marking
      <3>2. QED
        BY <3>1, TemplateEmitted DEF Handlers
    <2>5. CASE FailAdmin(a)
      <3>1. mark' = [mark EXCEPT ![a] = NoMark] /\ sent' = sent \ {mark[a].slug} /\ UNCHANGED <<row, clobbered>>
        BY <2>5 DEF FailAdmin
      <3>2. QED
        BY <3>1, TemplateDropped DEF Handlers
    <2>6. QED
      BY <1>3, <2>1, <2>2, <2>3, <2>4, <2>5 DEF HandleAdmin
  <1>4. ASSUME NEW h \in Handlers, MarkFind(h)
        PROVE  TemplateInv'
    <2>1. UNCHANGED <<row, sent, clobbered>>
      BY <1>4 DEF MarkFind
    <2>2. CASE row.exists /\ mark[h].slug \notin row.applied
      <3>1. mark'[h].slug = mark[h].slug /\ mark'[h].row = row
        BY <1>4, <2>2 DEF MarkFind, TypeInv, MarkOK, Marks
      <3>2. \A x \in Handlers \ {h} : mark'[x] = mark[x]
        BY <1>4, <2>2 DEF MarkFind, TypeInv, MarkOK
      <3>3. \A t : \A x \in Handlers : Pending(x, t) => Pending(x, t)'
        BY <2>1, <3>1, <3>2 DEF Pending
      <3>4. QED
        BY <2>1, <3>3 DEF TemplateInv, OnRecord
    <2>3. CASE ~(row.exists /\ mark[h].slug \notin row.applied)
      BY <1>4, <2>1, <2>3, TemplateDropped DEF MarkFind, Marked
    <2>4. QED
      BY <2>2, <2>3
  <1>5. ASSUME NEW h \in Handlers, MarkSave(h)
        PROVE  TemplateInv'
    <2>1. CASE clobbered'
      BY <2>1 DEF TemplateInv
    <2>2. CASE ~clobbered'
      <3>1. ~clobbered /\ row = mark[h].row
        BY <1>5, <2>2 DEF MarkSave
      <3>2. row' = [row EXCEPT !.applied = @ \cup {mark[h].slug}]
        BY <1>5, <3>1 DEF MarkSave
      <3>3. row'.exists = row.exists /\ row'.id = row.id /\ row'.applied = row.applied \cup {mark[h].slug}
        BY <1>0, <3>2 DEF Rows
      <3>4. mark' = [mark EXCEPT ![h] = NoMark] /\ sent' = sent
        BY <1>5 DEF MarkSave, Marked
      <3>5. QED
        BY <3>1, <3>3, <3>4, TemplateDropped
    <2>3. QED
      BY <2>1, <2>2
  <1>6. ASSUME NEW h \in Handlers, MarkCollide(h)
        PROVE  TemplateInv'
    <2>1. ~Pending(h, mark[h].slug)
      BY <1>6 DEF MarkCollide, Pending
    <2>2. mark' = [mark EXCEPT ![h] = NoMark] /\ UNCHANGED <<row, sent, clobbered>>
      BY <1>6 DEF MarkCollide, Marked
    <2>3. QED
      BY <2>1, <2>2, TemplateDropped
  <1>7. CASE (\E r \in Readers : ReadLink(r) \/ ConsumeLink(r)) \/ Consent \/ ServerHeartbeat
    <2>1. row'.exists = row.exists /\ row'.id = row.id /\ row'.applied = row.applied
      BY <1>0, <1>7 DEF ReadLink, ConsumeLink, Consent, ServerHeartbeat, Rows
    <2>2. UNCHANGED <<mark, sent, clobbered>>
      BY <1>7 DEF ReadLink, ConsumeLink, Consent, ServerHeartbeat
    <2>3. QED
      BY <2>1, <2>2, TemplatesStay
  <1>8. CASE Restart
    <2>1. UNCHANGED <<row, clobbered>> /\ sent' = sent \ {mark[h].slug : h \in Handlers}
      BY <1>8 DEF Restart, Handlers
    <2>2. QED
      BY <2>1 DEF TemplateInv, OnRecord, Pending
  <1>9. CASE UNCHANGED vars
    BY <1>9, TemplatesStay DEF vars
  <1>10. QED
    BY <1>1, <1>2, <1>3, <1>4, <1>5, <1>6, <1>7, <1>8, <1>9 DEF Next, Handlers

\* A template emitted to the agent is on record once its handler has ended, unless a
\* stale save has dropped it.
THEOREM TemplatesAreOnRecord == Spec => []TemplatesOnRecord
  BY InitTypeInv, NextTypeInv, InitMarking, NextMarking, InitTemplates, NextTemplates,
     TemplateInvSuffices, PTL DEF Spec
=============================================================================
