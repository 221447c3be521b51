--------------------------- MODULE PlatformProofs ----------------------------
(***************************************************************************)
(* Theorems about three of the components that MCPlatform checks,          *)
(* AuditLedger, Diagnostics and TelegramSender, and about the five         *)
(* together.                                                               *)
(***************************************************************************)
EXTENDS MCPlatform, TicketsProofs, ProvisioningProofs, TLAPS

(***************************************************************************)
(* The chain of AuditLedger, for any number of calls and failures.  The    *)
(* events' types and metadata are of no concern to it.                     *)
(***************************************************************************)

Writing == {"save", "alert", "commit"}

\* Rows are numbered from a sequence that never gives a number twice.
Numbered ==
    /\ nextSeq \in Nat
    /\ \A e \in events : e.seq \in Nat /\ e.seq < nextSeq
    /\ \A e, f \in events : e.seq = f.seq => e = f

\* The lock: who is past it is its holder, and so alone.
LockHeld ==
    /\ step \in [Appends -> {"new", "lock", "last", "done"} \cup Writing]
    /\ DOMAIN prevHash = Appends
    /\ DOMAIN draft = Appends
    /\ \A a \in Appends : InTransaction(a) => holder = a

Heads(p) ==
    \/ events = {} /\ p = NoHash
    \/ \E e \in events : Last(e) /\ p = e.hash

\* What the holder has found is still the last hash.
LastKnown == \A a \in Appends : step[a] \in Writing => Heads(prevHash[a])

\* A row not committed yet is numbered after all that are.
DraftIsNext ==
    \A a \in Appends : step[a] \in {"alert", "commit"} =>
        /\ draft[a].seq \in Nat
        /\ draft[a].seq < nextSeq
        /\ draft[a].prev = prevHash[a]
        /\ \A e \in events : e.seq < draft[a].seq

ChainInv == Numbered /\ LockHeld /\ LastKnown /\ DraftIsNext /\ ChainLinked

LEMMA InitChainInv == LedgerInit => ChainInv
  BY LedgerAssumption DEF LedgerInit, ChainInv, Numbered, LockHeld, LastKnown, DraftIsNext,
     ChainLinked, InTransaction, Writing

\* Two calls are never past the lock together.
LEMMA OnlyHolder ==
    ASSUME LockHeld, NEW a \in Appends, NEW b \in Appends, InTransaction(a), InTransaction(b)
    PROVE  a = b
  BY DEF LockHeld

\* A row that names the last hash, and is numbered after the last, keeps the chain.
LEMMA CommitKeepsChain ==
    ASSUME Numbered, ChainLinked, NEW d, events' = events \cup {d}, d.seq \in Nat,
           d.seq < nextSeq, nextSeq' = nextSeq, Heads(d.prev), \A e \in events : e.seq < d.seq
    PROVE  Numbered' /\ ChainLinked'
  <1>1. Numbered'
    BY DEF Numbered
  <1>2. \A e, f \in events : Precedes(e, f) => Precedes(e, f)'
    BY DEF Precedes, Numbered
  <1>3. \A f \in events : (f.prev = NoHash /\ \A e \in events : f.seq <= e.seq)
                            => \A e \in events' : f.seq <= e.seq
    BY DEF Numbered
  <1>4. CASE events = {} /\ d.prev = NoHash
    <2>1. events' = {d} /\ d.seq <= d.seq
      BY <1>4
    <2>2. QED
      BY <1>1, <2>1, <1>4 DEF ChainLinked
  <1>5. CASE \E e \in events : Last(e) /\ d.prev = e.hash
    <2>1. PICK e \in events : Last(e) /\ d.prev = e.hash
      BY <1>5
    <2>2. Precedes(e, d)'
      BY <2>1 DEF Last, Precedes, Numbered
    <2>3. \A f \in events : \/ f.prev = NoHash /\ \A g \in events' : f.seq <= g.seq
                            \/ \E g \in events' : Precedes(g, f)' /\ f.prev = g.hash
      BY <1>2, <1>3 DEF ChainLinked
    <2>4. QED
      BY <1>1, <2>1, <2>2, <2>3 DEF ChainLinked
  <1>6. QED
    BY <1>1, <1>4, <1>5 DEF Heads

\* Nothing is committed: the events, and what they say of each other, stay.
LEMMA EventsStay ==
    ASSUME events' = events
    PROVE  /\ ChainLinked => ChainLinked'
           /\ \A p : Heads(p) => Heads(p)'
  BY DEF ChainLinked, Precedes, Heads, Last

\* The row of the holder is committed, and it is done with or records once more.
LEMMA CommitInv ==
    ASSUME ChainInv, NEW a \in Appends, step[a] = "commit", Committed(a), nextSeq' = nextSeq,
           NEW s \in {"done", "lock"}, Step(a, s), draft' = [draft EXCEPT ![a] = NoDraft],
           prevHash' = prevHash
    PROVE  ChainInv'
  <1> USE DEF ChainInv
  <1>1. Numbered' /\ ChainLinked'
    <2>1. Heads(draft[a].prev)
      BY DEF LastKnown, DraftIsNext, Writing
    <2>2. QED
      BY <2>1, CommitKeepsChain DEF Committed, DraftIsNext
  <1>2. \A b \in Appends : ~InTransaction(b)'
    <2>1. \A b \in Appends \ {a} : ~InTransaction(b)
      BY OnlyHolder DEF InTransaction
    <2>2. QED
      BY <2>1 DEF InTransaction, Step, LockHeld
  <1>3. LockHeld'
    BY <1>2 DEF LockHeld, Step
  <1>4. LastKnown' /\ DraftIsNext'
    BY <1>2 DEF LastKnown, DraftIsNext, InTransaction, Writing
  <1>5. QED
    BY <1>1, <1>3, <1>4

LEMMA NextChainInv == ChainInv /\ [LedgerNext]_ledgerVars => ChainInv'
  <1> SUFFICES ASSUME ChainInv, [LedgerNext]_ledgerVars
               PROVE  ChainInv'
    OBVIOUS
  <1> USE DEF ChainInv
  <1>1. ASSUME NEW a \in Appends, NEW type, NEW meta, Call(a, type, meta)
        PROVE  ChainInv'
    BY <1>1, EventsStay DEF Call, Step, Numbered, LockHeld, LastKnown, DraftIsNext,
       InTransaction, Writing
  <1>2. ASSUME NEW a \in Appends, Lock(a)
        PROVE  ChainInv'
    BY <1>2, EventsStay, LedgerAssumption DEF Lock, Step, Numbered, LockHeld, LastKnown,
       DraftIsNext, InTransaction, Writing
  <1>3. ASSUME NEW a \in Appends, FindLast(a)
        PROVE  ChainInv'
    <2>1. Heads(prevHash'[a])
      BY <1>3 DEF FindLast, Heads, LockHeld
    <2>2. QED
      BY <1>3, <2>1, EventsStay DEF FindLast, Step, Numbered, LockHeld, LastKnown, DraftIsNext,
         InTransaction, Writing
  <1>4. ASSUME NEW a \in Appends, Save(a)
        PROVE  ChainInv'
    <2>1. /\ draft'[a].seq = nextSeq
          /\ draft'[a].prev = prevHash[a]
      BY <1>4 DEF Save, LockHeld
    <2>2. \A b \in Appends \ {a} : draft'[b] = draft[b] /\ step'[b] = step[b]
      BY <1>4 DEF Save, Step, LockHeld
    <2>3. step' \in [Appends -> {"new", "lock", "last", "done"} \cup Writing]
      BY <1>4 DEF Save, Step, LockHeld, Writing
    <2>4. LockHeld'
      BY <1>4, <2>2, <2>3 DEF Save, LockHeld, InTransaction
    <2>5. Numbered'
      BY <1>4 DEF Save, Numbered
    <2>6. DraftIsNext'
      BY <1>4, <2>1, <2>2 DEF Save, DraftIsNext, Numbered
    <2>7. LastKnown'
      BY <1>4, <2>2, EventsStay DEF Save, LastKnown, Writing
    <2>8. QED
      BY <1>4, <2>4, <2>5, <2>6, <2>7, EventsStay DEF Save
  <1>5. ASSUME NEW a \in Appends, QueueAlert(a)
        PROVE  ChainInv'
    BY <1>5, EventsStay DEF QueueAlert, Step, Numbered, LockHeld, LastKnown, DraftIsNext,
       InTransaction, Writing
  <1>6. ASSUME NEW a \in Appends, Commit(a)
        PROVE  ChainInv'
    BY <1>6, CommitInv DEF Commit
  <1>7. ASSUME NEW a \in Appends, FailAppend(a)
        PROVE  ChainInv'
    <2>1. CASE step[a] = "commit" /\ Committed(a)
      BY <1>7, <2>1, CommitInv DEF FailAppend
    <2>2. CASE holder' = None /\ UNCHANGED events
      <3>1. \A b \in Appends : ~InTransaction(b)'
        BY <1>7, OnlyHolder DEF FailAppend, InTransaction, Step, LockHeld
      <3>2. LockHeld'
        BY <1>7, <3>1 DEF FailAppend, LockHeld, Step
      <3>3. Numbered' /\ LastKnown' /\ DraftIsNext'
        BY <1>7, <2>2, <3>1 DEF FailAppend, Numbered, LastKnown, DraftIsNext, InTransaction, Writing
      <3>4. QED
        BY <2>2, <3>2, <3>3, EventsStay
    <2>3. QED
      BY <1>7, <2>1, <2>2 DEF FailAppend
  <1>8. CASE RestartLedger
    BY <1>8, EventsStay DEF RestartLedger, Numbered, LockHeld, LastKnown, DraftIsNext,
       InTransaction, Writing
  <1>9. CASE UNCHANGED ledgerVars
    BY <1>9, EventsStay DEF ledgerVars, callVars, Numbered, LockHeld, LastKnown, DraftIsNext,
       InTransaction
  <1>10. QED
    BY <1>1, <1>2, <1>3, <1>4, <1>5, <1>6, <1>7, <1>8, <1>9 DEF LedgerNext, AppendEvent

\* A row stays one as numbers are drawn and hashes recorded.
LEMMA EventRowStays ==
    ASSUME NEW r, NEW m \in Nat, NEW n \in Nat, m <= n, NEW G, NEW H, G \subseteq H,
           IsRow(r, m, G)
    PROVE  IsRow(r, n, H)
  <1>1. r.seq \in 1..(n - 1) /\ r.prev \in H
    BY DEF IsRow
  <1>2. QED
    BY <1>1 DEF IsRow

LEMMA HashesAreKept ==
    ASSUME events \subseteq events'
    PROVE  Hashes \subseteq Hashes'
  BY DEF Hashes

\* What a commit leaves on record are rows.
LEMMA CommitTypes ==
    ASSUME LedgerTypeOK, NEW a \in Appends, step[a] = "commit", Committed(a), nextSeq' = nextSeq
    PROVE  /\ Hashes \subseteq Hashes'
           /\ (\A e \in events : IsRow(e, nextSeq, Hashes))'
  <1>1. events' = events \cup {draft[a]} /\ IsRow(draft[a], nextSeq, Hashes)
    BY DEF Committed, LedgerTypeOK
  <1>2. Hashes \subseteq Hashes'
    BY <1>1, HashesAreKept
  <1>3. ASSUME NEW e \in events'
        PROVE  IsRow(e, nextSeq, Hashes')
    <2>1. IsRow(e, nextSeq, Hashes) /\ nextSeq \in Nat
      BY <1>1, <1>3 DEF LedgerTypeOK
    <2>2. QED
      BY <1>2, <2>1, EventRowStays
  <1>4. QED
    BY <1>2, <1>3

LEMMA NextLedgerTypes == LedgerTypeOK /\ [LedgerNext]_ledgerVars => LedgerTypeOK'
  <1> SUFFICES ASSUME LedgerTypeOK, [LedgerNext]_ledgerVars
               PROVE  LedgerTypeOK'
    OBVIOUS
  <1> USE LedgerAssumption
  <1>0. ASSUME UNCHANGED events
        PROVE  Hashes' = Hashes
    BY <1>0 DEF Hashes
  <1>1. ASSUME NEW a \in Appends, NEW type \in EventTypes, NEW meta \in Metadata[type],
               Call(a, type, meta)
        PROVE  LedgerTypeOK'
    <2>1. step[a] = "new" /\ step' = [step EXCEPT ![a] = "lock"]
          /\ kind' = [kind EXCEPT ![a] = [type |-> type, meta |-> meta, alert |-> type = "security_anomaly"]]
          /\ UNCHANGED <<events, nextSeq, holder, prevHash, draft, breaks>>
      BY <1>1 DEF Call, Step
    <2>2. Hashes' = Hashes
      BY <1>0, <2>1
    <2>3. step'[a] = "lock" /\ Given(kind'[a]) /\ kind' = [b \in Appends |-> kind'[b]]
          /\ \A b \in Appends \ {a} : step'[b] = step[b] /\ kind'[b] = kind[b]
      BY <2>1 DEF LedgerTypeOK, Given
    <2>4. \A b \in Appends : IF step'[b] = "new" THEN kind'[b] = NoKind ELSE Given(kind'[b])
      BY <2>3 DEF LedgerTypeOK
    <2>5. \A b \in Appends : IF step'[b] \in {"alert", "commit"} THEN IsRow(draft[b], nextSeq, Hashes)
                                                                 ELSE draft[b] = NoDraft
      BY <2>1, <2>3 DEF LedgerTypeOK
    <2>6. QED
      BY <2>1, <2>2, <2>3, <2>4, <2>5 DEF LedgerTypeOK, Steps
  <1>2. ASSUME NEW a \in Appends, Lock(a) \/ QueueAlert(a)
        PROVE  LedgerTypeOK'
    <2>1. Hashes' = Hashes
      BY <1>0, <1>2 DEF Lock, QueueAlert
    <2>2. QED
      BY <1>2, <2>1 DEF Lock, QueueAlert, Step, LedgerTypeOK, Steps
  <1>3. ASSUME NEW a \in Appends, FindLast(a)
        PROVE  LedgerTypeOK'
    <2>1. prevHash' \in [Appends -> Hashes]
      BY <1>3 DEF FindLast, LedgerTypeOK, Hashes
    <2>2. Hashes' = Hashes
      BY <1>0, <1>3 DEF FindLast
    <2>3. QED
      BY <1>3, <2>1, <2>2 DEF FindLast, Step, LedgerTypeOK, Steps
  <1>4. ASSUME NEW a \in Appends, Save(a)
        PROVE  LedgerTypeOK'
    <2>1. nextSeq \in Nat \ {0} /\ nextSeq' = nextSeq + 1 /\ nextSeq \in 1..(nextSeq' - 1)
      BY <1>4 DEF Save, LedgerTypeOK
    <2>2. Hashes' = Hashes /\ UNCHANGED <<events, holder, kind, prevHash, breaks>>
      BY <1>0, <1>4 DEF Save
    <2>3. IsRow(draft'[a], nextSeq', Hashes)
      <3>1. step[a] = "save" /\ prevHash[a] \in Hashes
        BY <1>4 DEF Save, LedgerTypeOK
      <3>2. Given(kind[a])
        BY <3>1 DEF LedgerTypeOK
      <3>3. draft'[a] = [by |-> a, type |-> kind[a].type, meta |-> Stored(kind[a].meta), seq |-> nextSeq,
                         prev |-> prevHash[a],
                         hash |-> ComputeHash(a, kind[a].type, kind[a].meta, prevHash[a])]
        BY <1>4 DEF Save, LedgerTypeOK
      <3>4. QED
        BY <2>1, <3>1, <3>2, <3>3 DEF IsRow, Given
    <2>4. step'[a] \in {"alert", "commit"} /\ step' \in [Appends -> Steps]
          /\ \A b \in Appends \ {a} : step'[b] = step[b]
      BY <1>4 DEF Save, Step, LedgerTypeOK, Steps
    <2>5. draft' = [b \in Appends |-> draft'[b]]
          /\ \A b \in Appends \ {a} : draft'[b] = draft[b]
      BY <1>4 DEF Save, LedgerTypeOK
    <2>6. \A r : IsRow(r, nextSeq, Hashes) => IsRow(r, nextSeq', Hashes)
      <3>1. nextSeq \in Nat /\ nextSeq' \in Nat /\ nextSeq <= nextSeq' /\ Hashes \subseteq Hashes
        BY <2>1
      <3>2. QED
        BY <3>1, EventRowStays
    <2>7. \A b \in Appends : IF step'[b] = "new" THEN kind[b] = NoKind ELSE Given(kind[b])
      BY <1>4, <2>4 DEF Save, LedgerTypeOK
    <2>8. \A b \in Appends : IF step'[b] \in {"alert", "commit"} THEN IsRow(draft'[b], nextSeq', Hashes)
                                                                 ELSE draft'[b] = NoDraft
      BY <2>3, <2>4, <2>5, <2>6 DEF LedgerTypeOK
    <2>9. \A e \in events : IsRow(e, nextSeq', Hashes)
      BY <2>6 DEF LedgerTypeOK
    <2>10. QED
      BY <2>1, <2>2, <2>4, <2>5, <2>7, <2>8, <2>9 DEF LedgerTypeOK
  <1>5. ASSUME NEW a \in Appends, Commit(a)
        PROVE  LedgerTypeOK'
    <2>1. step[a] = "commit" /\ Committed(a) /\ nextSeq' = nextSeq
      BY <1>5 DEF Commit
    <2>2. Hashes \subseteq Hashes' /\ (\A e \in events : IsRow(e, nextSeq, Hashes))'
      BY <2>1, CommitTypes
    <2>3. step' = [step EXCEPT ![a] = "done"] /\ draft' = [draft EXCEPT ![a] = NoDraft]
          /\ holder' = None /\ UNCHANGED <<nextSeq, kind, prevHash, breaks>>
      BY <1>5, <2>1 DEF Commit, Committed, Step
    <2>4. QED
      <3>1. step' \in [Appends -> Steps] /\ prevHash' \in [Appends -> Hashes']
            /\ draft' = [b \in Appends |-> draft'[b]]
        BY <2>2, <2>3 DEF LedgerTypeOK, Steps
      <3>2. \A b \in Appends : IF step'[b] = "new" THEN kind[b] = NoKind ELSE Given(kind[b])
        BY <2>1, <2>3 DEF LedgerTypeOK
      <3>3. \A b \in Appends : IF step'[b] \in {"alert", "commit"} THEN IsRow(draft'[b], nextSeq, Hashes')
                                                                   ELSE draft'[b] = NoDraft
        <4>1. ASSUME NEW b \in Appends, step'[b] \in {"alert", "commit"}
              PROVE  IsRow(draft'[b], nextSeq, Hashes')
          <5>1. IsRow(draft[b], nextSeq, Hashes) /\ draft'[b] = draft[b] /\ nextSeq \in Nat
            BY <2>3, <4>1 DEF LedgerTypeOK
          <5>2. QED
            BY <2>2, <5>1, EventRowStays
        <4>2. ASSUME NEW b \in Appends, step'[b] \notin {"alert", "commit"}
              PROVE  draft'[b] = NoDraft
          BY <2>1, <2>3, <4>2 DEF LedgerTypeOK
        <4>3. QED
          BY <4>1, <4>2
      <3>4. QED
        BY <2>2, <2>3, <3>1, <3>2, <3>3 DEF LedgerTypeOK
  <1>6. ASSUME NEW a \in Appends, FailAppend(a)
        PROVE  LedgerTypeOK'
    <2>1. step[a] \in {"last", "save", "alert", "commit"} /\ holder' = None
          /\ breaks' \in 0..MaxBreaks /\ UNCHANGED <<nextSeq, prevHash>>
      BY <1>6 DEF FailAppend, InTransaction, Committed, LedgerTypeOK
    <2>2. Hashes \subseteq Hashes' /\ (\A e \in events : IsRow(e, nextSeq, Hashes))'
      <3>1. CASE UNCHANGED events
        BY <1>0, <2>1, <3>1 DEF LedgerTypeOK
      <3>2. CASE step[a] = "commit" /\ Committed(a)
        BY <2>1, <3>2, CommitTypes
      <3>3. QED
        BY <1>6, <3>1, <3>2 DEF FailAppend
    <2>3. step' \in [Appends -> Steps] /\ step'[a] \in {"lock", "done"}
          /\ \A b \in Appends \ {a} : step'[b] = step[b]
      BY <1>6 DEF FailAppend, Step, LedgerTypeOK, Steps
    <2>4. kind' = [kind EXCEPT ![a].alert = FALSE] /\ draft' = [draft EXCEPT ![a] = NoDraft]
      BY <1>6 DEF FailAppend
    <2>5. Given(kind[a])
      BY <2>1 DEF LedgerTypeOK
    <2>6. Given(kind'[a]) /\ kind' = [b \in Appends |-> kind'[b]]
          /\ \A b \in Appends \ {a} : kind'[b] = kind[b]
      BY <2>4, <2>5 DEF LedgerTypeOK, Given
    <2>7. draft'[a] = NoDraft /\ draft' = [b \in Appends |-> draft'[b]]
          /\ \A b \in Appends \ {a} : draft'[b] = draft[b]
      BY <2>4 DEF LedgerTypeOK
    <2>8. prevHash' \in [Appends -> Hashes']
      BY <2>1, <2>2 DEF LedgerTypeOK
    <2>9. \A b \in Appends : IF step'[b] = "new" THEN kind'[b] = NoKind ELSE Given(kind'[b])
      BY <2>3, <2>6 DEF LedgerTypeOK
    <2>10. \A b \in Appends : IF step'[b] \in {"alert", "commit"} THEN IsRow(draft'[b], nextSeq, Hashes')
                                                                  ELSE draft'[b] = NoDraft
      <3>1. ASSUME NEW b \in Appends, step'[b] \in {"alert", "commit"}
            PROVE  IsRow(draft'[b], nextSeq, Hashes')
        <4>1. IsRow(draft[b], nextSeq, Hashes) /\ draft'[b] = draft[b] /\ nextSeq \in Nat
          BY <2>3, <2>7, <3>1 DEF LedgerTypeOK
        <4>2. QED
          BY <2>2, <4>1, EventRowStays
      <3>2. ASSUME NEW b \in Appends, step'[b] \notin {"alert", "commit"}
            PROVE  draft'[b] = NoDraft
        BY <2>3, <2>7, <3>2 DEF LedgerTypeOK
      <3>3. QED
        BY <3>1, <3>2
    <2>11. QED
      BY <2>1, <2>2, <2>3, <2>6, <2>7, <2>8, <2>9, <2>10 DEF LedgerTypeOK
  <1>7. CASE RestartLedger
    <2>1. Hashes' = Hashes
      BY <1>0, <1>7 DEF RestartLedger
    <2>2. \A b \in Appends : step'[b] \in {"new", "done"} /\ (step'[b] = "new" <=> step[b] = "new")
      BY <1>7 DEF RestartLedger
    <2>3. \A b \in Appends : IF step'[b] = "new" THEN kind[b] = NoKind ELSE Given(kind[b])
      BY <2>2 DEF LedgerTypeOK
    <2>4. step' \in [Appends -> Steps]
      BY <1>7 DEF RestartLedger, Steps
    <2>5. QED
      BY <1>7, <2>1, <2>2, <2>3, <2>4 DEF RestartLedger, LedgerTypeOK
  <1>8. CASE UNCHANGED ledgerVars
    <2>1. Hashes' = Hashes
      BY <1>0, <1>8 DEF ledgerVars
    <2>2. QED
      BY <1>8, <2>1 DEF ledgerVars, callVars, LedgerTypeOK
  <1>9. QED
    BY <1>1, <1>2, <1>3, <1>4, <1>5, <1>6, <1>7, <1>8 DEF LedgerNext, AppendEvent

\* The ledger's rows, calls, drafts and lock have their types: a row on record hashes the
\* event its call was given over a hash on record.
THEOREM LedgerTypeCorrect == LedgerSpec => []LedgerTypeOK
  <1>1. LedgerInit => LedgerTypeOK
    BY LedgerAssumption DEF LedgerInit, LedgerTypeOK, Steps, Hashes
  <1>2. QED
    BY <1>1, NextLedgerTypes, PTL DEF LedgerSpec

\* "prevHash never races under concurrent writes", whichever calls overlap, fail, have
\* their answer lost, or are repeated.
THEOREM ChainIsLinked == LedgerSpec => []ChainLinked
  <1>1. ChainInv => ChainLinked
    BY DEF ChainInv
  <1>2. QED
    BY <1>1, InitChainInv, NextChainInv, PTL DEF LedgerSpec

(***************************************************************************)
(* The ledger implements HashChain.                                        *)
(***************************************************************************)

Tip == IF events = {} THEN NoHash ELSE (CHOOSE e \in events : Last(e)).hash

Chain == INSTANCE HashChain WITH chain <- events, tip <- Tip

LEMMA TipIs ==
    ASSUME Numbered, NEW e \in events, Last(e)
    PROVE  Tip = e.hash
  <1>1. \A f \in events : Last(f) => f = e
    BY DEF Last, Numbered
  <1>2. (CHOOSE f \in events : Last(f)) = e
    BY <1>1
  <1>3. QED
    BY <1>2 DEF Tip

\* What is committed is numbered after all the others, and names the tip.
LEMMA CommitExtends ==
    ASSUME ChainInv, Numbered', NEW a \in Appends, step[a] = "commit", Committed(a)
    PROVE  Chain!Next
  <1> DEFINE row == draft[a]
  <1>1. /\ row.prev = prevHash[a] /\ row.seq \in Nat
        /\ \A e \in events : e.seq < row.seq
    BY DEF ChainInv, DraftIsNext
  <1>2. row.prev = Tip
    BY <1>1, TipIs DEF ChainInv, LastKnown, Writing, Heads, Tip
  <1>3. events' = events \cup {row} /\ row \notin events
    BY <1>1 DEF Committed, ChainInv, Numbered
  <1>4. Tip' = row.hash
    <2>1. \A f \in events' : (\A g \in events' : g.seq <= f.seq) <=> f = row
      BY <1>1, <1>3 DEF ChainInv, Numbered
    <2>2. (CHOOSE f \in events' : Last(f)') = row
      BY <1>3, <2>1 DEF Last
    <2>3. QED
      BY <1>3, <2>2 DEF Tip
  <1>5. QED
    BY <1>1, <1>2, <1>3, <1>4 DEF Chain!Next, Chain!Extend

\* The ledger is append-only and never forks: each step of it adds one row that names the
\* last, or adds nothing, whichever calls overlap, fail, are repeated or rolled back, and
\* whenever the process ends.
THEOREM LedgerIsHashChain == LedgerSpec => Chain!Spec
  <1>1. LedgerInit => Chain!Init
    BY DEF LedgerInit, Chain!Init, Tip
  <1>2. ASSUME ChainInv, ChainInv', [LedgerNext]_ledgerVars
        PROVE  [Chain!Next]_Chain!vars
    <2>1. CASE UNCHANGED events
      BY <2>1 DEF Chain!vars, Tip, Last
    <2>2. CASE \E a \in Appends : step[a] = "commit" /\ Committed(a)
      BY <1>2, <2>2, CommitExtends DEF ChainInv
    <2>3. events' = events \/ \E a \in Appends : step[a] = "commit" /\ Committed(a)
      BY <1>2 DEF LedgerNext, AppendEvent, Call, Lock, FindLast, Save, QueueAlert, Commit,
         FailAppend, RestartLedger, ledgerVars
    <2>4. QED
      BY <2>1, <2>2, <2>3
  <1>3. QED
    BY <1>1, <1>2, InitChainInv, NextChainInv, PTL DEF LedgerSpec, Chain!Spec

(***************************************************************************)
(* The question to the agent, for any number of views and any homes.  Of   *)
(* the views past their question exactly one may be unanswered, and it is  *)
(* the one whose question is pending: whatever replaces or removes the     *)
(* pending entry answers its view in the same step.                        *)
(***************************************************************************)

WireInv ==
    /\ viewing \in [Views -> {"new", "servers", "session", "done"}]
    /\ answer \in [Views -> {"waiting", "offline", "null", "up", "down"}]
    /\ pending \in Views \cup {"none"}
    /\ timers \subseteq Views
    /\ reports \in Seq({"up", "down"})

WaiterInv ==
    /\ WireInv
    /\ \A v \in Views :
          /\ viewing[v] \in {"new", "servers"} => answer[v] = "waiting"
          /\ viewing[v] = "done" => answer[v] # "waiting"
    /\ WaitersAreServed

LEMMA InitWaiterInv == DiagnosticsInit => WaiterInv
  BY DEF DiagnosticsInit, WaiterInv, WireInv, WaitersAreServed, Waiting, Open

\* A step that settles nothing and asks nothing.
LEMMA WaitersStay ==
    ASSUME WaiterInv, UNCHANGED <<viewing, answer, pending, timers>>,
           reports' \in Seq({"up", "down"})
    PROVE  WaiterInv'
  BY DEF WaiterInv, WireInv, WaitersAreServed, Waiting, Open

LEMMA NextWaiterInv == WaiterInv /\ [DiagnosticsNext]_diagnosticsVars => WaiterInv'
  <1> SUFFICES ASSUME WaiterInv, [DiagnosticsNext]_diagnosticsVars
               PROVE  WaiterInv'
    OBVIOUS
  <1> USE DiagnosticsAssumption
      DEF WaiterInv, WireInv, WaitersAreServed, Waiting, Open, homeVars, wireVars, viewVars
  <1>1. CASE AgentConnects \/ RowsFollow \/ HomeAssistantFlips
    BY <1>1, WaitersStay DEF AgentConnects, RowsFollow, HomeAssistantFlips
  <1>2. CASE AgentDisconnects
    BY <1>2, WaitersStay DEF AgentDisconnects
  <1>3. CASE AgentReports
    <2>1. reports' \in Seq({"up", "down"})
      BY <1>3 DEF AgentReports
    <2>2. QED
      BY <1>3, <2>1, WaitersStay DEF AgentReports
  <1>4. CASE ReportArrives
    <2>1. Head(reports) \in {"up", "down"} /\ reports' \in Seq({"up", "down"})
      BY <1>4 DEF ReportArrives
    <2>2. QED
      BY <1>4, <2>1 DEF ReportArrives
  <1>5. ASSUME NEW v \in Views, ReadServers(v)
        PROVE  WaiterInv'
    BY <1>5 DEF ReadServers
  <1>6. ASSUME NEW v \in Views, Ask(v)
        PROVE  WaiterInv'
    <2>1. CASE socket
      BY <1>6, <2>1 DEF Ask
    <2>2. CASE ~socket
      BY <1>6, <2>2 DEF Ask
    <2>3. QED
      BY <2>1, <2>2
  <1>7. ASSUME NEW v \in Views, ReadSession(v)
        PROVE  WaiterInv'
    BY <1>7 DEF ReadSession
  <1>8. ASSUME NEW v \in Views, TimerFires(v)
        PROVE  WaiterInv'
    BY <1>8 DEF TimerFires
  <1>9. ASSUME NEW v \in Views, Judge(v)
        PROVE  WaiterInv'
    BY <1>9 DEF Judge
  <1>10. CASE UNCHANGED diagnosticsVars
    BY <1>10 DEF diagnosticsVars
  <1>11. QED
    BY <1>1, <1>2, <1>3, <1>4, <1>5, <1>6, <1>7, <1>8, <1>9, <1>10 DEF DiagnosticsNext, View

\* A view that waits for the agent is the one whose question is pending, and its
\* timeout is armed: however views supersede each other, reports come late or twice
\* and timers fire, none is left waiting and none is settled by another's timer.
THEOREM AllWaitersAreServed == DiagnosticsSpec => []WaitersAreServed
  <1>1. WaiterInv => WaitersAreServed
    BY DEF WaiterInv
  <1>2. QED
    BY <1>1, InitWaiterInv, NextWaiterInv, PTL DEF DiagnosticsSpec

(***************************************************************************)
(* The cause the page names, for any number of views and any homes.        *)
(***************************************************************************)

LEMMA RootCauseOrderIs ==
    /\ Len(RootCauseOrder) = 10
    /\ RootCauseOrder[1] = "client" /\ RootCauseOrder[2] = "hub"
    /\ RootCauseOrder[3] = "provisioning" /\ RootCauseOrder[4] = "agent"
    /\ RootCauseOrder[5] = "server" /\ RootCauseOrder[6] = "homeAssistant"
    /\ RootCauseOrder[7] = "cloudflare" /\ RootCauseOrder[8] = "resources"
    /\ RootCauseOrder[9] = "supportAccess" /\ RootCauseOrder[10] = "templates"
  BY DEF RootCauseOrder

\* First() is what its name says.
LEMMA FirstHit ==
    ASSUME NEW checks, NEW severity, NEW k \in 1..10, checks[RootCauseOrder[k]] = severity,
           \A j \in 1..(k - 1) : checks[RootCauseOrder[j]] # severity
    PROVE  First(checks, severity) = RootCauseOrder[k]
  <1> DEFINE hits == {i \in 1..Len(RootCauseOrder) : checks[RootCauseOrder[i]] = severity}
  <1>1. k \in hits /\ \A j \in hits : k <= j
    BY RootCauseOrderIs
  <1>2. \A i \in hits : (\A j \in hits : i <= j) => i = k
    BY <1>1
  <1>3. (CHOOSE i \in hits : \A j \in hits : i <= j) = k
    BY <1>1, <1>2
  <1>4. QED
    BY <1>1, <1>3 DEF First

LEMMA LeastOfTen ==
    ASSUME NEW S, S \subseteq 1..10, S # {}
    PROVE  \E i \in S : \A j \in S : i <= j
  <1> SUFFICES ASSUME \A i \in S : \E j \in S : ~(i <= j)
               PROVE  S = {}
    OBVIOUS
  <1>1. 1 \notin S
    OBVIOUS
  <1>2. 2 \notin S
    BY <1>1
  <1>3. 3 \notin S
    BY <1>1, <1>2
  <1>4. 4 \notin S
    BY <1>1, <1>2, <1>3
  <1>5. 5 \notin S
    BY <1>1, <1>2, <1>3, <1>4
  <1>6. 6 \notin S
    BY <1>1, <1>2, <1>3, <1>4, <1>5
  <1>7. 7 \notin S
    BY <1>1, <1>2, <1>3, <1>4, <1>5, <1>6
  <1>8. 8 \notin S
    BY <1>1, <1>2, <1>3, <1>4, <1>5, <1>6, <1>7
  <1>9. 9 \notin S
    BY <1>1, <1>2, <1>3, <1>4, <1>5, <1>6, <1>7, <1>8
  <1>10. 10 \notin S
    BY <1>1, <1>2, <1>3, <1>4, <1>5, <1>6, <1>7, <1>8, <1>9
  <1>11. QED
    BY <1>1, <1>2, <1>3, <1>4, <1>5, <1>6, <1>7, <1>8, <1>9, <1>10

LEMMA FirstIsHit ==
    ASSUME NEW checks, NEW severity, First(checks, severity) # "none"
    PROVE  \E k \in 1..10 : /\ First(checks, severity) = RootCauseOrder[k]
                           /\ checks[RootCauseOrder[k]] = severity
  <1> DEFINE hits == {i \in 1..Len(RootCauseOrder) : checks[RootCauseOrder[i]] = severity}
  <1>1. hits # {} /\ hits \subseteq 1..10
    BY RootCauseOrderIs DEF First
  <1>2. \E i \in hits : \A j \in hits : i <= j
    <2> HIDE DEF hits
    <2>1. QED
      BY <1>1, LeastOfTen
  <1>3. (CHOOSE i \in hits : \A j \in hits : i <= j) \in hits
    BY <1>2
  <1>4. QED
    BY <1>1, <1>3 DEF First

\* An error is the cause if nothing before it in the order is one.
LEMMA ErrorIsCause ==
    ASSUME NEW checks, NEW k \in 1..10, checks[RootCauseOrder[k]] = "error",
           \A j \in 1..(k - 1) : checks[RootCauseOrder[j]] # "error"
    PROVE  RootCause(checks) = RootCauseOrder[k]
  <1>1. First(checks, "error") = RootCauseOrder[k]
    BY FirstHit
  <1>2. RootCauseOrder[k] # "none"
    BY RootCauseOrderIs
  <1>3. QED
    BY <1>1, <1>2 DEF RootCause

\* Whatever the cause, its check has found a problem.
LEMMA CauseHasProblem ==
    ASSUME NEW checks, RootCause(checks) # "none"
    PROVE  \E k \in 1..10 : /\ RootCause(checks) = RootCauseOrder[k]
                           /\ checks[RootCauseOrder[k]] \in {"error", "warning"}
  BY FirstIsHit DEF RootCause

\* What the agent reports of a home.
Link(h) == IF h.ha THEN "up" ELSE "down"

\* What a view may hear of a home that stays as it is.
Answers(h) == IF h.online THEN {"waiting", "null", Link(h)} ELSE {"offline"}

\* A view that nothing disturbs sees the home as it is: what it has read is the home's
\* state, what it has heard is what the agent reports of it, and so is whatever may
\* still be delivered while its question is pending.
SeesHome(v) ==
    /\ v \in Open => got[v].home = home /\ socket = home.online
    /\ viewing[v] \in {"new", "servers"} => got[v].session = Nothing
    /\ viewing[v] = "session" => got[v].session \in {Nothing, got[v].home.install}
    /\ viewing[v] = "done" => got[v].session = got[v].home.install
    /\ viewing[v] \in {"session", "done"} => answer[v] \in Answers(got[v].home)
    /\ pending = v => \A i \in 1..Len(reports) : reports[i] = Link(got[v].home)

GotInv ==
    /\ Consistent(home)
    /\ socket \in BOOLEAN
    /\ got \in [Views -> [home : HomeStates, session : Installs \cup {Nothing}]]
    /\ \A v \in Views : Consistent(got[v].home)
    /\ disturbed \subseteq Views
    /\ asks \in Nat

BlameInv == WaiterInv /\ GotInv /\ \A v \in Views \ disturbed : SeesHome(v)

LEMMA InitBlameInv == DiagnosticsInit => BlameInv
  <1> SUFFICES ASSUME DiagnosticsInit
               PROVE  BlameInv
    OBVIOUS
  <1>1. WaiterInv
    BY InitWaiterInv
  <1>2. Consistent(home) /\ home \in HomeStates /\ socket \in BOOLEAN
    BY DiagnosticsAssumption DEF DiagnosticsInit, Consistent, HomeStates
  <1>3. \A v \in Views : got[v] = [home |-> home, session |-> Nothing]
    BY DEF DiagnosticsInit
  <1>4. GotInv
    BY <1>2, <1>3 DEF DiagnosticsInit, GotInv
  <1>5. \A v \in Views : SeesHome(v)
    BY <1>3, DiagnosticsAssumption DEF DiagnosticsInit, SeesHome, Open
  <1>6. QED
    BY <1>1, <1>4, <1>5 DEF BlameInv

\* Who is pending waits, past its question.
LEMMA PendingWaits ==
    ASSUME WaiterInv, NEW v \in Views, pending = v \/ v \in timers
    PROVE  pending = v /\ v \in Open /\ viewing[v] = "session" /\ answer[v] = "waiting"
  BY DiagnosticsAssumption DEF WaiterInv, WireInv, WaitersAreServed, Waiting

\* The home, or its socket, changes: the open views are disturbed, and the others do not
\* look at it.
LEMMA HomeMoves ==
    ASSUME BlameInv, WaiterInv', disturbed' = disturbed \cup Open, UNCHANGED viewVars,
           pending' = pending, asks' \in Nat, Consistent(home'), socket' \in BOOLEAN
    PROVE  BlameInv'
  <1>1. UNCHANGED <<viewing, got, answer>> /\ Open' = Open
    BY DEF viewVars, Open
  <1>2. GotInv'
    BY <1>1 DEF BlameInv, GotInv, Open
  <1>3. ASSUME NEW v \in Views \ disturbed'
        PROVE  SeesHome(v)'
    <2>1. v \notin Open /\ SeesHome(v)
      BY <1>3 DEF BlameInv
    <2>2. pending # v
      BY <2>1, <1>3, PendingWaits DEF BlameInv
    <2>3. QED
      BY <1>1, <2>1, <2>2 DEF SeesHome
  <1>4. QED
    BY <1>2, <1>3 DEF BlameInv

LEMMA FlippedHome ==
    ASSUME Consistent(home), NEW h,
           \/ h = [home EXCEPT !.ha = ~@]
           \/ h = [home EXCEPT !.online = TRUE, !.install = "connected",
                               !.server = ServerTurns("online")]
           \/ h = [home EXCEPT !.online = FALSE, !.server = ServerTurns("recent")]
    PROVE  Consistent(h)
  <1>1. ServerTurns("online") \in {"none", "online"} /\ ServerTurns("recent") \in {"none", "recent"}
    BY DEF ServerTurns
  <1>2. CASE h = [home EXCEPT !.ha = ~@]
    BY <1>2 DEF Consistent, HomeStates
  <1>3. CASE h = [home EXCEPT !.online = TRUE, !.install = "connected",
                              !.server = ServerTurns("online")]
    BY <1>1, <1>3 DEF Consistent, HomeStates, Installs
  <1>4. CASE h = [home EXCEPT !.online = FALSE, !.server = ServerTurns("recent")]
    BY <1>1, <1>4 DEF Consistent, HomeStates
  <1>5. QED
    BY <1>2, <1>3, <1>4

LEMMA NextBlameInv == BlameInv /\ [DiagnosticsNext]_diagnosticsVars => BlameInv'
  <1> SUFFICES ASSUME BlameInv, [DiagnosticsNext]_diagnosticsVars
               PROVE  BlameInv'
    OBVIOUS
  <1>0. WaiterInv /\ WaiterInv'
    BY NextWaiterInv DEF BlameInv
  <1>a. GotInv
    BY DEF BlameInv
  <1>b. \A v \in Views \ disturbed : SeesHome(v)
    BY DEF BlameInv
  <1>1. CASE AgentConnects \/ AgentDisconnects
    <2>1. /\ disturbed' = disturbed \cup Open /\ UNCHANGED <<viewVars, home, pending>>
          /\ asks' \in {asks, 0} /\ socket' \in {TRUE, FALSE}
      BY <1>1 DEF AgentConnects, AgentDisconnects, Change, wireVars, viewVars
    <2>2. asks' \in Nat /\ Consistent(home')
      BY <1>a, <2>1 DEF GotInv
    <2>3. QED
      BY <1>0, <2>1, <2>2, HomeMoves
  <1>2. CASE RowsFollow \/ HomeAssistantFlips
    <2>1. /\ disturbed' = disturbed \cup Open /\ UNCHANGED <<viewVars, socket, pending, asks>>
      BY <1>2 DEF RowsFollow, HomeAssistantFlips, Change, wireVars
    <2>2. Consistent(home')
      BY <1>2, <1>a, FlippedHome DEF RowsFollow, HomeAssistantFlips, GotInv
    <2>3. QED
      BY <1>0, <1>a, <2>1, <2>2, HomeMoves DEF GotInv
  <1>3. CASE AgentReports
    <2>1. /\ UNCHANGED <<home, socket, pending, viewing, got, answer, disturbed>>
          /\ asks' \in Nat /\ reports' = Append(reports, Link(home)) /\ reports \in Seq({"up", "down"})
      BY <1>0, <1>3, <1>a DEF AgentReports, homeVars, viewVars, GotInv, Link, WaiterInv, WireInv
    <2>2. GotInv'
      BY <1>a, <2>1 DEF GotInv
    <2>3. ASSUME NEW v \in Views \ disturbed'
          PROVE  SeesHome(v)'
      <3>1. SeesHome(v) /\ Open' = Open
        BY <1>b, <2>1, <2>3 DEF Open
      <3>2. ASSUME pending = v
            PROVE  \A i \in 1..Len(reports') : reports'[i] = Link(got[v].home)
        <4>1. got[v].home = home
          BY <1>0, <3>1, <3>2, PendingWaits DEF SeesHome
        <4>2. \A i \in 1..Len(reports) : reports[i] = Link(home)
          BY <3>1, <3>2, <4>1 DEF SeesHome
        <4>3. QED
          BY <2>1, <4>1, <4>2
      <3>3. QED
        BY <2>1, <3>1, <3>2 DEF SeesHome
    <2>4. QED
      BY <1>0, <2>2, <2>3 DEF BlameInv
  <1>4. CASE ReportArrives
    <2>1. /\ UNCHANGED <<home, socket, asks, viewing, got, disturbed>> /\ pending' = "none"
          /\ answer' = [v \in Views |-> IF v = pending THEN Head(reports) ELSE answer[v]]
          /\ reports \in Seq({"up", "down"}) /\ reports # <<>>
      BY <1>0, <1>4 DEF ReportArrives, homeVars, WaiterInv, WireInv
    <2>2. GotInv'
      BY <1>a, <2>1 DEF GotInv
    <2>3. ASSUME NEW v \in Views \ disturbed'
          PROVE  SeesHome(v)'
      <3>1. SeesHome(v) /\ Open' = Open /\ pending' # v
        BY <1>b, <2>1, <2>3, DiagnosticsAssumption DEF Open
      <3>2. CASE v = pending
        <4>1. answer[v] = "waiting" /\ viewing[v] = "session"
          BY <1>0, <3>2, PendingWaits
        <4>2. got[v].home.online
          BY <3>1, <4>1 DEF SeesHome, Answers
        <4>3. Head(reports) = Link(got[v].home)
          BY <2>1, <3>1, <3>2 DEF SeesHome
        <4>4. answer'[v] \in Answers(got[v].home)
          BY <2>1, <3>2, <4>2, <4>3 DEF Answers
        <4>5. QED
          BY <2>1, <3>1, <4>4 DEF SeesHome
      <3>3. CASE v # pending
        BY <2>1, <3>1, <3>3 DEF SeesHome
      <3>4. QED
        BY <3>2, <3>3
    <2>4. QED
      BY <1>0, <2>2, <2>3 DEF BlameInv
  <1>5. ASSUME NEW w \in Views, ReadServers(w)
        PROVE  BlameInv'
    <2>1. /\ UNCHANGED <<home, socket, asks, pending, reports, answer>>
          /\ disturbed \subseteq disturbed' /\ disturbed' \subseteq Views
          /\ socket # home.online => w \in disturbed'
          /\ viewing' = [viewing EXCEPT ![w] = "servers"] /\ got' = [got EXCEPT ![w].home = home]
          /\ viewing[w] = "new"
      BY <1>5, <1>a DEF ReadServers, homeVars, wireVars, GotInv
    <2>2. home \in HomeStates /\ viewing \in [Views -> {"new", "servers", "session", "done"}]
      BY <1>0, <1>a DEF GotInv, Consistent, WaiterInv, WireInv
    <2>3. /\ got'[w].home = home /\ got'[w].session = got[w].session
          /\ \A v \in Views \ {w} : got'[v] = got[v]
      BY <1>a, <2>1 DEF GotInv
    <2>4. GotInv'
      BY <1>a, <2>1, <2>2, <2>3 DEF GotInv
    <2>5. ASSUME NEW v \in Views \ disturbed'
          PROVE  SeesHome(v)'
      <3>1. SeesHome(v)
        BY <1>b, <2>1, <2>5
      <3>2. CASE v = w
        <4>1. pending # w /\ viewing'[w] = "servers" /\ socket = home.online
          BY <1>0, <2>1, <2>2, <2>5, <3>2, PendingWaits
        <4>2. QED
          BY <2>1, <2>3, <3>1, <3>2, <4>1 DEF SeesHome
      <3>3. CASE v # w
        <4>1. viewing'[v] = viewing[v] /\ got'[v] = got[v]
          BY <2>1, <2>2, <2>3, <3>3
        <4>2. QED
          BY <2>1, <3>1, <4>1 DEF SeesHome, Open
      <3>4. QED
        BY <3>2, <3>3
    <2>6. QED
      BY <1>0, <2>4, <2>5 DEF BlameInv
  <1>6. ASSUME NEW w \in Views, Ask(w)
        PROVE  BlameInv'
    <2>1. /\ UNCHANGED <<home, socket, reports, got>> /\ asks' \in Nat
          /\ viewing' = [viewing EXCEPT ![w] = "session"] /\ viewing[w] = "servers"
          /\ disturbed \subseteq disturbed' /\ disturbed' \subseteq Views /\ w \in Open
      BY <1>6, <1>a DEF Ask, homeVars, GotInv, Met, Open
    <2>2. /\ viewing \in [Views -> {"new", "servers", "session", "done"}]
          /\ answer \in [Views -> {"waiting", "offline", "null", "up", "down"}]
          /\ answer[w] = "waiting"
      BY <1>0, <2>1 DEF WaiterInv, WireInv
    <2>3. GotInv'
      BY <1>a, <2>1 DEF GotInv
    <2>4. ASSUME NEW v \in Views \ disturbed'
          PROVE  SeesHome(v)'
      <3>1. SeesHome(v)
        BY <1>b, <2>1, <2>4
      <3>2. /\ v \in Open' <=> v \in Open
            /\ viewing'[v] = IF v = w THEN "session" ELSE viewing[v]
        BY <2>1, <2>2 DEF Open
      <3>3. CASE socket
        <4>1. /\ pending' = w
              /\ answer' = [u \in Views |-> IF u = pending THEN "null" ELSE answer[u]]
              /\ disturbed' = disturbed \cup Met
          BY <1>6, <3>3 DEF Ask
        <4>2. pending # w
          BY <1>0, <2>1, PendingWaits
        <4>3. CASE v = w
          <5>1. reports = <<>> /\ answer'[v] = "waiting"
            BY <2>1, <2>2, <2>4, <4>1, <4>2, <4>3 DEF Met
          <5>2. got[v].home.online /\ got[v].session = Nothing
            BY <2>1, <3>1, <3>3, <4>3 DEF SeesHome
          <5>3. answer'[v] \in Answers(got[v].home)
            BY <5>1, <5>2 DEF Answers
          <5>4. QED
            BY <2>1, <3>1, <3>2, <4>1, <4>3, <5>1, <5>2, <5>3 DEF SeesHome
        <4>4. CASE v = pending
          <5>1. answer[v] = "waiting" /\ viewing[v] = "session" /\ answer'[v] = "null" /\ v # w
            BY <1>0, <4>1, <4>2, <4>4, PendingWaits
          <5>2. answer'[v] \in Answers(got[v].home)
            BY <3>1, <5>1 DEF SeesHome, Answers
          <5>3. QED
            BY <2>1, <3>1, <3>2, <4>1, <5>1, <5>2 DEF SeesHome
        <4>5. CASE v # w /\ v # pending
          <5>1. answer'[v] = answer[v] /\ pending' # v
            BY <4>1, <4>5
          <5>2. QED
            BY <2>1, <3>1, <3>2, <4>5, <5>1 DEF SeesHome
        <4>6. QED
          BY <4>3, <4>4, <4>5
      <3>4. CASE ~socket
        <4>1. pending' = pending /\ answer' = [answer EXCEPT ![w] = "offline"]
          BY <1>6, <3>4 DEF Ask
        <4>2. CASE v = w
          <5>1. answer'[v] = "offline" /\ pending # w
            BY <1>0, <2>1, <2>2, <4>1, <4>2, PendingWaits
          <5>2. ~got[v].home.online /\ got[v].session = Nothing
            BY <2>1, <3>1, <3>4, <4>2 DEF SeesHome
          <5>3. answer'[v] \in Answers(got[v].home)
            BY <5>1, <5>2 DEF Answers
          <5>4. QED
            BY <2>1, <3>1, <3>2, <4>1, <4>2, <5>1, <5>2, <5>3 DEF SeesHome
        <4>3. CASE v # w
          <5>1. answer'[v] = answer[v]
            BY <2>2, <4>1, <4>3
          <5>2. QED
            BY <2>1, <3>1, <3>2, <4>1, <4>3, <5>1 DEF SeesHome
        <4>4. QED
          BY <4>2, <4>3
      <3>5. QED
        BY <3>3, <3>4
    <2>5. QED
      BY <1>0, <2>3, <2>4 DEF BlameInv
  <1>7. ASSUME NEW w \in Views, ReadSession(w)
        PROVE  BlameInv'
    <2>1. /\ UNCHANGED <<home, socket, asks, pending, reports, viewing, answer, disturbed>>
          /\ got' = [got EXCEPT ![w].session = home.install]
          /\ viewing[w] = "session" /\ home.install \in Installs
      BY <1>7, <1>a DEF ReadSession, homeVars, wireVars, GotInv, Consistent, HomeStates
    <2>2. /\ got'[w].home = got[w].home /\ got'[w].session = home.install
          /\ \A v \in Views \ {w} : got'[v] = got[v]
      BY <1>a, <2>1 DEF GotInv
    <2>3. GotInv'
      BY <1>a, <2>1, <2>2 DEF GotInv
    <2>4. ASSUME NEW v \in Views \ disturbed'
          PROVE  SeesHome(v)'
      <3>1. SeesHome(v) /\ Open' = Open
        BY <1>b, <2>1, <2>4 DEF Open
      <3>2. CASE v = w
        <4>1. w \in Open
          BY <2>1 DEF Open
        <4>2. QED
          BY <2>1, <2>2, <3>1, <3>2, <4>1 DEF SeesHome
      <3>3. CASE v # w
        BY <2>1, <2>2, <3>1, <3>3 DEF SeesHome
      <3>4. QED
        BY <3>2, <3>3
    <2>5. QED
      BY <1>0, <2>3, <2>4 DEF BlameInv
  <1>8. ASSUME NEW w \in Views, TimerFires(w)
        PROVE  BlameInv'
    <2>1. /\ UNCHANGED <<home, socket, asks, reports, viewing, got, disturbed>>
          /\ pending' = "none" /\ answer' = [answer EXCEPT ![w] = "null"] /\ w \in timers
      BY <1>8 DEF TimerFires, homeVars
    <2>2. answer \in [Views -> {"waiting", "offline", "null", "up", "down"}]
      BY <1>0 DEF WaiterInv, WireInv
    <2>3. GotInv'
      BY <1>a, <2>1 DEF GotInv
    <2>4. ASSUME NEW v \in Views \ disturbed'
          PROVE  SeesHome(v)'
      <3>1. SeesHome(v) /\ Open' = Open /\ pending' # v
        BY <1>b, <2>1, <2>4, DiagnosticsAssumption DEF Open
      <3>2. CASE v = w
        <4>1. answer[v] = "waiting" /\ viewing[v] = "session" /\ answer'[v] = "null"
          BY <1>0, <2>1, <2>2, <3>2, PendingWaits
        <4>2. answer'[v] \in Answers(got[v].home)
          BY <3>1, <4>1 DEF SeesHome, Answers
        <4>3. QED
          BY <2>1, <3>1, <4>1, <4>2 DEF SeesHome
      <3>3. CASE v # w
        <4>1. answer'[v] = answer[v]
          BY <2>1, <2>2, <3>3
        <4>2. QED
          BY <2>1, <3>1, <4>1 DEF SeesHome
      <3>4. QED
        BY <3>2, <3>3
    <2>5. QED
      BY <1>0, <2>3, <2>4 DEF BlameInv
  <1>9. ASSUME NEW w \in Views, Judge(w)
        PROVE  BlameInv'
    <2>1. /\ UNCHANGED <<home, socket, asks, pending, reports, got, answer, disturbed>>
          /\ viewing' = [viewing EXCEPT ![w] = "done"]
          /\ viewing[w] = "session" /\ got[w].session # Nothing /\ answer[w] # "waiting"
      BY <1>9 DEF Judge, homeVars, wireVars
    <2>2. viewing \in [Views -> {"new", "servers", "session", "done"}]
      BY <1>0 DEF WaiterInv, WireInv
    <2>3. GotInv'
      BY <1>a, <2>1 DEF GotInv
    <2>4. ASSUME NEW v \in Views \ disturbed'
          PROVE  SeesHome(v)'
      <3>1. SeesHome(v)
        BY <1>b, <2>1, <2>4
      <3>2. CASE v = w
        <4>1. viewing'[v] = "done" /\ v \notin Open' /\ pending # v
          BY <1>0, <2>1, <2>2, <3>2, PendingWaits DEF Open
        <4>2. QED
          BY <2>1, <3>1, <3>2, <4>1 DEF SeesHome
      <3>3. CASE v # w
        <4>1. viewing'[v] = viewing[v] /\ (v \in Open' <=> v \in Open)
          BY <2>1, <2>2, <3>3 DEF Open
        <4>2. QED
          BY <2>1, <3>1, <4>1 DEF SeesHome
      <3>4. QED
        BY <3>2, <3>3
    <2>5. QED
      BY <1>0, <2>3, <2>4 DEF BlameInv
  <1>10. CASE UNCHANGED diagnosticsVars
    <2>1. /\ UNCHANGED <<home, socket, asks, pending, reports, viewing, got, answer, disturbed>>
      BY <1>10 DEF diagnosticsVars, homeVars, wireVars, viewVars
    <2>2. GotInv' /\ \A v \in Views \ disturbed' : SeesHome(v)'
      BY <1>a, <1>b, <2>1 DEF GotInv, SeesHome, Open
    <2>3. QED
      BY <1>0, <2>2 DEF BlameInv
  <1>11. QED
    BY <1>1, <1>2, <1>3, <1>4, <1>5, <1>6, <1>7, <1>8, <1>9, <1>10 DEF DiagnosticsNext, View

\* What the checks find of a consistent home, from which the answer heard is a possible one.
LEMMA FoundIs ==
    ASSUME NEW v \in Views, NEW h, NEW a, Consistent(h), a \in Answers(h), a # "waiting",
           got[v].home = h, got[v].session = h.install, answer[v] = a
    PROVE  /\ Found(v)["client"] = CheckClient(got[v])
           /\ Found(v)["hub"] = CheckHub(got[v])
           /\ Found(v)["provisioning"] = CheckProvisioning(got[v])
           /\ Found(v)["agent"] = CheckAgent(got[v], a)
           /\ Found(v)["server"] = CheckServer(got[v])
           /\ Found(v)["homeAssistant"] = CheckHomeAssistant(a)
  BY DEF Found

\* The cases of a fault behind a hub that is in order.
LEMMA FaultIs ==
    ASSUME NEW h, Consistent(h), h.active, h.server = "none" \/ h.linked
    PROVE  /\ h.install = "expired" => Fault(h) = "provisioning"
           /\ h.install \in {"unknown", "pending", "connected"} /\ ~h.online => Fault(h) = "agent"
           /\ h.online /\ h.server = "offline" => Fault(h) = "server"
           /\ h.online /\ h.server # "offline" /\ ~h.ha => Fault(h) = "homeAssistant"
           /\ ~h.online /\ h.install = "none" => Fault(h) = "none"
           /\ h.online /\ h.server # "offline" /\ h.ha => Fault(h) = "none"
  <1>1. /\ h.online => h.install = "connected"
        /\ h.online \in BOOLEAN /\ h.ha \in BOOLEAN
    BY DEF Consistent, HomeStates
  <1>2. Fault(h) = CASE h.install = "expired" -> "provisioning"
                     [] h.install \in {"unknown", "pending", "connected"} /\ ~h.online -> "agent"
                     [] h.online /\ h.server = "offline" -> "server"
                     [] h.online /\ h.server # "offline" /\ ~h.ha -> "homeAssistant"
                     [] OTHER -> "none"
    BY DEF Fault
  <1>3. QED
    BY <1>1, <1>2

LEMMA BlamesFault ==
    ASSUME NEW v \in Views, NEW h, NEW a, Consistent(h), a \in Answers(h), a # "waiting",
           got[v].home = h, got[v].session = h.install, answer[v] = a,
           Fault(h) # "none", ~(Fault(h) = "homeAssistant" /\ a = "null")
    PROVE  RootCause(Found(v)) = Fault(h)
  <1> DEFINE found == Found(v)
  <1>1. /\ found["client"] = CheckClient(got[v]) /\ found["hub"] = CheckHub(got[v])
        /\ found["provisioning"] = CheckProvisioning(got[v])
        /\ found["agent"] = CheckAgent(got[v], a) /\ found["server"] = CheckServer(got[v])
        /\ found["homeAssistant"] = CheckHomeAssistant(a)
    BY FoundIs
  <1> HIDE DEF found
  <1>2. /\ h.install \in Installs
        /\ h.online => h.install = "connected"
        /\ h.server \in {"none", "unknown", "online", "recent", "offline"}
    BY DEF Consistent, HomeStates
  <1>3. CASE ~h.active
    <2>1. Fault(h) = "client" /\ found["client"] = "error"
      BY <1>1, <1>3 DEF Fault, CheckClient
    <2>2. QED
      BY <2>1, ErrorIsCause, RootCauseOrderIs DEF found
  <1>4. CASE h.active /\ h.server # "none" /\ ~h.linked
    <2>1. Fault(h) = "hub" /\ found["client"] # "error" /\ found["hub"] = "error"
      BY <1>1, <1>4 DEF Fault, CheckClient, CheckHub
    <2>2. QED
      BY <2>1, ErrorIsCause, RootCauseOrderIs DEF found
  <1>5. CASE h.active /\ (h.server = "none" \/ h.linked)
    <2>1. found["client"] # "error" /\ found["hub"] # "error"
      BY <1>1, <1>5 DEF CheckClient, CheckHub
    <2>2. CASE h.install = "expired"
      <3>1. Fault(h) = "provisioning" /\ found["provisioning"] = "error"
        BY <1>1, <1>2, <1>5, <2>2, FaultIs DEF CheckProvisioning
      <3>2. QED
        BY <2>1, <3>1, ErrorIsCause, RootCauseOrderIs DEF found
    <2>3. CASE h.install \in {"unknown", "pending", "connected"} /\ ~h.online
      <3>1. Fault(h) = "agent" /\ found["provisioning"] # "error"
        BY <1>1, <1>5, <2>3, FaultIs DEF CheckProvisioning
      <3>2. a = "offline" /\ found["agent"] = "error"
        BY <1>1, <2>3 DEF Answers, CheckAgent
      <3>3. QED
        BY <2>1, <3>1, <3>2, ErrorIsCause, RootCauseOrderIs DEF found
    <2>4. CASE h.online /\ h.server = "offline"
      <3>1. Fault(h) = "server" /\ found["provisioning"] # "error"
        BY <1>1, <1>2, <1>5, <2>4, FaultIs DEF CheckProvisioning
      <3>2. a # "offline"
        BY <2>4 DEF Answers, Link
      <3>3. found["agent"] # "error" /\ found["server"] = "error"
        BY <1>1, <1>2, <2>4, <3>2 DEF CheckAgent, CheckServer
      <3>4. QED
        BY <2>1, <3>1, <3>3, ErrorIsCause, RootCauseOrderIs DEF found
    <2>5. CASE h.online /\ h.server # "offline" /\ ~h.ha
      <3>1. Fault(h) = "homeAssistant" /\ found["provisioning"] # "error"
        BY <1>1, <1>2, <1>5, <2>5, FaultIs DEF CheckProvisioning
      <3>2. a = "down"
        BY <2>5, <3>1 DEF Answers, Link
      <3>3. /\ found["agent"] # "error" /\ found["server"] # "error"
            /\ found["homeAssistant"] = "error"
        <4>1. h.install = "connected" /\ h.server \in {"none", "unknown", "online", "recent"}
          BY <1>2, <2>5
        <4>2. found["agent"] # "error"
          BY <1>1, <3>2, <4>1 DEF CheckAgent
        <4>3. found["server"] # "error"
          BY <1>1, <4>1 DEF CheckServer
        <4>4. found["homeAssistant"] = "error"
          BY <1>1, <3>2 DEF CheckHomeAssistant, HasReport
        <4>5. QED
          BY <4>2, <4>3, <4>4
      <3>4. QED
        BY <2>1, <3>1, <3>3, ErrorIsCause, RootCauseOrderIs DEF found
    <2>6. QED
      BY <1>2, <1>5, <2>2, <2>3, <2>4, <2>5, FaultIs DEF Installs
  <1>6. QED
    BY <1>3, <1>4, <1>5

LEMMA BlamesNoLink ==
    ASSUME NEW v \in Views, NEW h, NEW a, Consistent(h), a \in Answers(h), a # "waiting",
           got[v].home = h, got[v].session = h.install, answer[v] = a,
           Fault(h) = "none" \/ (Fault(h) = "homeAssistant" /\ a = "null")
    PROVE  RootCause(Found(v)) \in {"server", "cloudflare", "resources", "supportAccess",
                                    "templates", "none"}
                                     \cup (IF a = "null" THEN {"agent"} ELSE {})
  <1> DEFINE found == Found(v)
  <1>1. /\ found["client"] = CheckClient(got[v]) /\ found["hub"] = CheckHub(got[v])
        /\ found["provisioning"] = CheckProvisioning(got[v])
        /\ found["agent"] = CheckAgent(got[v], a) /\ found["homeAssistant"] = CheckHomeAssistant(a)
    BY FoundIs
  <1> HIDE DEF found
  <1>2. /\ h.install \in Installs
        /\ h.online => h.install = "connected"
        /\ h.online \in BOOLEAN /\ h.ha \in BOOLEAN
    BY DEF Consistent, HomeStates
  <1>3. h.active /\ (h.server = "none" \/ h.linked)
    BY DEF Fault
  <1>4. h.install = "none" \/ (h.install = "connected" /\ h.online /\ h.server # "offline")
    BY <1>2, <1>3, FaultIs DEF Installs
  <1>5. found["client"] = "ok" /\ found["hub"] \notin {"error", "warning"}
    BY <1>1, <1>3 DEF CheckClient, CheckHub
  <1>6. found["provisioning"] \notin {"error", "warning"}
    BY <1>1, <1>4 DEF CheckProvisioning
  <1>7. found["agent"] \in {"error", "warning"} => a = "null"
    BY <1>1, <1>4 DEF CheckAgent, Answers, Link
  <1>8. found["homeAssistant"] \notin {"error", "warning"}
    <2>1. CASE h.online
      <3>1. h.ha \/ a = "null"
        BY <1>2, <1>3, <1>4, <2>1, FaultIs
      <3>2. a \in {"null", "up"}
        BY <2>1, <3>1 DEF Answers, Link
      <3>3. QED
        BY <1>1, <3>2 DEF CheckHomeAssistant, HasReport
    <2>2. CASE ~h.online
      BY <1>1, <2>2 DEF Answers, CheckHomeAssistant, HasReport
    <2>3. QED
      BY <2>1, <2>2
  <1>9. RootCause(found) # "none" =>
          \E k \in 1..10 : /\ RootCause(found) = RootCauseOrder[k]
                          /\ found[RootCauseOrder[k]] \in {"error", "warning"}
    BY CauseHasProblem
  <1>10. QED
    BY <1>5, <1>6, <1>7, <1>8, <1>9, RootCauseOrderIs DEF found

\* A view that nothing disturbs names the link of the chain that is broken, in whatever
\* state a home may be, whichever views supersede each other and whatever arrives or not.
THEOREM BlameIsFounded == DiagnosticsSpec => []BlameHasReason
  <1>1. ASSUME BlameInv
        PROVE  BlameHasReason
    <2>1. ASSUME NEW v \in Views \ disturbed, viewing[v] = "done"
          PROVE  /\ Consistent(got[v].home) /\ answer[v] \in Answers(got[v].home)
                 /\ answer[v] # "waiting" /\ got[v].session = got[v].home.install
      BY <1>1, <2>1 DEF BlameInv, GotInv, SeesHome, WaiterInv
    <2>2. ASSUME NEW v \in Views \ disturbed, viewing[v] = "done"
          PROVE  LET cause == RootCause(Found(v))
                     fault == Fault(got[v].home)
                 IN  IF fault # "none" /\ ~(fault = "homeAssistant" /\ answer[v] = "null")
                       THEN cause = fault
                       ELSE cause \in {"server", "cloudflare", "resources", "supportAccess",
                                       "templates", "none"}
                              \cup (IF answer[v] = "null" THEN {"agent"} ELSE {})
      <3>1. v \in Views
        OBVIOUS
      <3>2. CASE Fault(got[v].home) # "none" /\ ~(Fault(got[v].home) = "homeAssistant" /\ answer[v] = "null")
        BY <2>1, <2>2, <3>1, <3>2, BlamesFault
      <3>3. CASE ~(Fault(got[v].home) # "none" /\ ~(Fault(got[v].home) = "homeAssistant" /\ answer[v] = "null"))
        BY <2>1, <2>2, <3>1, <3>3, BlamesNoLink
      <3>4. QED
        BY <3>2, <3>3
    <2>3. QED
      BY <2>2 DEF BlameHasReason
  <1>2. QED
    BY <1>1, InitBlameInv, NextBlameInv, PTL DEF DiagnosticsSpec

(***************************************************************************)
(* A send ends within its budget.                                          *)
(***************************************************************************)

\* A call begins with time left, but for a late pause; after a pause there is enough for one.
BudgetInv ==
    /\ sending = "call" => elapsed <= SendBudget - MinAttempt + MaxLate
    /\ sending = "pause" => elapsed + pause + MinAttempt <= SendBudget
    /\ SendWithinBudget

SenderLimits ==
    /\ SendBudget = 45 /\ SendTimeout = 10 /\ MinAttempt = 3
    /\ SendMaxAttempts = 3 /\ MaxRetryAfter = 30 /\ RetryPause = 2

LEMMA LimitsAreThese == SenderLimits
  BY DEF SenderLimits, SendBudget, SendTimeout, MinAttempt, SendMaxAttempts, MaxRetryAfter, RetryPause

\* However late its timer, a call ends in time.
LEMMA CallEndsInTime ==
    ASSUME SenderTypeOK, BudgetInv, sending = "call", NEW now \in CallEnds
    PROVE  now \in Nat /\ now <= SendBudget + MaxLate
  BY LimitsAreThese, SenderAssumption
     DEF SenderLimits, SenderTypeOK, BudgetInv, SendWithinBudget, CallEnds, Timeout, Least

LEMMA SenderRetries ==
    ASSUME SenderTypeOK, BudgetInv, sending = "call", attempt < SendMaxAttempts,
           NEW now \in CallEnds, NEW wait \in 0..MaxRetryAfter, NEW asPlain \in BOOLEAN,
           RetryIn(now, wait, asPlain)
    PROVE  SenderTypeOK' /\ BudgetInv'
  <1>1. now \in Nat /\ now <= SendBudget + MaxLate
    BY CallEndsInTime
  <1>2. elapsed' = now /\ plain' = asPlain /\ asPlain \in BOOLEAN
    BY DEF RetryIn
  <1>3. CASE now + wait + MinAttempt > SendBudget
    BY <1>1, <1>2, <1>3 DEF RetryIn, SenderTypeOK, BudgetInv, SendWithinBudget
  <1>4. CASE ~(now + wait + MinAttempt > SendBudget)
    <2>1. /\ attempt' = attempt + 1 /\ pause' = wait
          /\ sending' = IF wait = 0 THEN "call" ELSE "pause"
      BY <1>4 DEF RetryIn
    <2>2. now + wait <= SendBudget - MinAttempt /\ MaxLate \in Nat
      BY <1>1, <1>4, LimitsAreThese, SenderAssumption DEF SenderLimits
    <2>3. SenderTypeOK'
      BY <1>1, <1>2, <2>1, LimitsAreThese DEF SenderLimits, SenderTypeOK
    <2>4. BudgetInv'
      BY <1>1, <1>2, <2>1, <2>2, LimitsAreThese DEF SenderLimits, BudgetInv, SendWithinBudget
    <2>5. QED
      BY <2>3, <2>4
  <1>5. QED
    BY <1>3, <1>4

LEMMA NextBudgetInv ==
  SenderTypeOK /\ BudgetInv /\ [SenderNext]_senderVars => SenderTypeOK' /\ BudgetInv'
  <1> SUFFICES ASSUME SenderTypeOK, BudgetInv, [SenderNext]_senderVars
               PROVE  SenderTypeOK' /\ BudgetInv'
    OBVIOUS
  <1>1. ASSUME NEW now \in CallEnds, sending = "call",
               Accepted(now) \/ GiveUp(now)
        PROVE  SenderTypeOK' /\ BudgetInv'
    <2>1. now \in Nat /\ now <= SendBudget + MaxLate
      BY <1>1, CallEndsInTime
    <2>2. elapsed' = now /\ sending' \in {"sent", "failed"} /\ UNCHANGED <<attempt, plain, pause>>
      BY <1>1 DEF Accepted, GiveUp
    <2>3. QED
      BY <2>1, <2>2 DEF SenderTypeOK, BudgetInv, SendWithinBudget
  <1>2. ASSUME NEW now \in CallEnds, NEW after \in RetryAfters, RateLimited(now, after)
        PROVE  SenderTypeOK' /\ BudgetInv'
    <2>1. sending = "call" /\ after \in Nat /\ attempt \in Nat /\ plain \in BOOLEAN
      BY <1>2, SenderAssumption DEF RateLimited, SenderTypeOK
    <2>2. CASE attempt >= SendMaxAttempts \/ after > MaxRetryAfter
      BY <1>1, <1>2, <2>1, <2>2 DEF RateLimited
    <2>3. CASE ~(attempt >= SendMaxAttempts \/ after > MaxRetryAfter)
      <3>1. RetryIn(now, after, plain)
        BY <1>2, <2>3 DEF RateLimited
      <3>2. attempt < SendMaxAttempts /\ after \in 0..MaxRetryAfter
        BY <2>1, <2>3, LimitsAreThese DEF SenderLimits
      <3>3. QED
        BY <2>1, <3>1, <3>2, SenderRetries
    <2>4. QED
      BY <2>2, <2>3
  <1>3. ASSUME NEW now \in CallEnds, Rejected(now)
        PROVE  SenderTypeOK' /\ BudgetInv'
    <2>1. sending = "call" /\ attempt \in Nat
      BY <1>3 DEF Rejected, SenderTypeOK
    <2>2. CASE attempt >= SendMaxAttempts
      BY <1>1, <1>3, <2>1, <2>2 DEF Rejected
    <2>3. CASE ~(attempt >= SendMaxAttempts)
      <3>1. PICK wait \in {RetryPause, 0} : RetryIn(now, wait, TRUE)
        BY <1>3, <2>3 DEF Rejected
      <3>2. attempt < SendMaxAttempts /\ wait \in 0..MaxRetryAfter
        BY <2>1, <2>3, LimitsAreThese DEF SenderLimits
      <3>3. QED
        BY <2>1, <3>1, <3>2, SenderRetries
    <2>4. QED
      BY <2>2, <2>3
  <1>4. ASSUME NEW late \in 0..MaxLate, WakeUp(late)
        PROVE  SenderTypeOK' /\ BudgetInv'
    <2>1. /\ sending = "pause" /\ sending' = "call" /\ elapsed' = elapsed + pause + late
          /\ UNCHANGED <<attempt, plain, pause>>
      BY <1>4 DEF WakeUp
    <2>2. /\ late \in Nat /\ late <= MaxLate /\ elapsed \in Nat /\ pause \in Nat /\ MaxLate \in Nat
          /\ elapsed + pause + MinAttempt <= SendBudget
      BY <2>1, LimitsAreThese, SenderAssumption DEF SenderLimits, SenderTypeOK, BudgetInv
    <2>3. QED
      BY <2>1, <2>2, LimitsAreThese DEF SenderLimits, SenderTypeOK, BudgetInv, SendWithinBudget
  <1>5. CASE UNCHANGED senderVars
    BY <1>5 DEF senderVars, SenderTypeOK, BudgetInv, SendWithinBudget
  <1>6. QED
    BY <1>1, <1>2, <1>3, <1>4, <1>5 DEF SenderNext, Accepted

LEMMA InitBudgetInv == SenderInit => SenderTypeOK /\ BudgetInv
  <1> SUFFICES ASSUME SenderInit
               PROVE  SenderTypeOK /\ BudgetInv
    OBVIOUS
  <1>1. plain \in BOOLEAN /\ sending = "call" /\ attempt = 1 /\ pause = 0 /\ elapsed = 0
    BY Zenon DEF SenderInit
  <1>2. SenderTypeOK
    BY <1>1, LimitsAreThese DEF SenderLimits, SenderTypeOK
  <1>3. MaxLate \in Nat
    BY LimitsAreThese, SenderAssumption DEF SenderLimits
  <1>4. BudgetInv
    BY <1>1, <1>3, LimitsAreThese DEF SenderLimits, BudgetInv, SendWithinBudget
  <1>5. QED
    BY <1>2, <1>4

\* "The whole call fits one 45s budget", but for the lateness of one timer, whatever Telegram
\* answers and when: what MaxHold takes of a claim's lease is bounded.
THEOREM SendsAreTimely == SenderSpec => []SendWithinBudget
  <1>1. BudgetInv => SendWithinBudget
    BY DEF BudgetInv
  <1>2. QED
    BY <1>1, InitBudgetInv, NextBudgetInv, PTL DEF SenderSpec

(***************************************************************************)
(* The five components together.                                           *)
(***************************************************************************)

LEMMA InitTypes == DiagnosticsInit => DiagnosticsTypeOK
  <1>1. DiagnosticsInit => changes = 0 /\ disturbed = {} /\ BlameInv
    BY InitBlameInv DEF DiagnosticsInit
  <1>2. QED
    BY <1>1, DiagnosticsAssumption
       DEF BlameInv, GotInv, WaiterInv, WireInv, DiagnosticsTypeOK

LEMMA NextTypes ==
  DiagnosticsTypeOK /\ BlameInv' /\ [DiagnosticsNext]_diagnosticsVars => DiagnosticsTypeOK'
  <1> SUFFICES ASSUME DiagnosticsTypeOK, BlameInv', [DiagnosticsNext]_diagnosticsVars
               PROVE  DiagnosticsTypeOK'
    OBVIOUS
  <1>1. changes' = changes \/ (changes < MaxChanges /\ changes' = changes + 1)
    BY DEF DiagnosticsNext, View, AgentConnects, AgentDisconnects, RowsFollow, HomeAssistantFlips,
       Change, AgentReports, ReportArrives, ReadServers, Ask, ReadSession, TimerFires, Judge,
       diagnosticsVars, homeVars
  <1>2. changes' \in 0..MaxChanges
    BY <1>1, DiagnosticsAssumption DEF DiagnosticsTypeOK
  <1>3. QED
    BY <1>2 DEF BlameInv, GotInv, WaiterInv, WireInv, DiagnosticsTypeOK

\* The page's requests, the gateway's one pending question and the wire have their types,
\* and a home stays consistent.
THEOREM DiagnosticsTypeCorrect == DiagnosticsSpec => []DiagnosticsTypeOK
  BY InitTypes, NextTypes, InitBlameInv, NextBlameInv, PTL DEF DiagnosticsSpec

LEMMA PlatformInit ==
  Init => TicketsInit /\ ProvisioningInit /\ DiagnosticsInit /\ LedgerInit /\ SenderInit
  BY DEF Init

LEMMA PlatformStep ==
  [Next]_platformVars =>
    /\ [TicketsNext]_ticketsVars /\ [ProvisioningNext]_provisioningVars
    /\ [DiagnosticsNext]_diagnosticsVars /\ [LedgerNext]_ledgerVars /\ [SenderNext]_senderVars
  BY DEF Next, platformVars

\* What MCPlatform checks in one run is each of the five components: its behaviours are
\* theirs.
THEOREM PlatformIsItsParts ==
  Spec => /\ TicketsSpec /\ ProvisioningSpec /\ DiagnosticsSpec
          /\ LedgerSpec /\ SenderSpec
  BY PlatformInit, PlatformStep, PTL
     DEF Spec, TicketsSpec, ProvisioningSpec, DiagnosticsSpec, LedgerSpec, SenderSpec

\* Every variable of the five components has its type.
THEOREM PlatformTypesCorrect == Spec => []TypesOK
  <1>1. SenderSpec => []SenderTypeOK
    BY InitBudgetInv, NextBudgetInv, PTL DEF SenderSpec
  <1>2. QED
    BY <1>1, PlatformIsItsParts, TicketsTypeCorrect, ProvisioningTypeCorrect,
       DiagnosticsTypeCorrect, LedgerTypeCorrect, PTL DEF TypesOK

\* All that the run checks of the five components' safety holds of them together: a
\* behaviour of one leaves what the others promise as it is.
THEOREM PlatformIsSafe ==
  Spec => [](/\ TrailAddsUp /\ OneNewAlert /\ HubResourcesKept /\ HubHasSession
             /\ WaitersAreServed /\ BlameHasReason /\ ChainLinked /\ SendWithinBudget)
  BY PlatformIsItsParts, TrailsAddUp, SilenceIsReportedOnce, HubResourcesAreKept,
     HubsHaveSessions, AllWaitersAreServed, BlameIsFounded, ChainIsLinked, SendsAreTimely, PTL
=============================================================================
