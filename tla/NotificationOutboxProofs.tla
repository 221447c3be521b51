----------------------- MODULE NotificationOutboxProofs ----------------------
(***************************************************************************)
(* Theorems about NotificationOutbox, for every value of its constants.    *)
(***************************************************************************)
EXTENDS NotificationOutbox, FiniteSetTheorems, TLAPS

USE DEF Holding, Stored

(***************************************************************************)
(* The operators the model is built from.                                  *)
(***************************************************************************)

\* The policy of any event type is well formed, the default one included.
LEMMA PolicyForType ==
    ASSUME NEW e
    PROVE  /\ PolicyFor(e).priority \in 0..3
           /\ PolicyFor(e).maxAttempts \in Nat \ {0}
           /\ PolicyFor(e).backoff \in Seq(Nat)
  BY PolicyAssumption DEF PolicyFor

\* The backoff after the k-th failed attempt is a time to wait: the index into
\* backoffMinutes never leaves the list.
LEMMA BackoffType ==
    ASSUME NEW e, NEW k \in Nat \ {0}
    PROVE  Backoff(e, k) \in Nat
  <1> DEFINE b == PolicyFor(e).backoff
  <1>1. b \in Seq(Nat)
    BY PolicyForType
  <1>2. CASE b = <<>>
    BY <1>2 DEF Backoff
  <1>3. CASE b # <<>>
    <2>1. Len(b) \in Nat \ {0}
      BY <1>1, <1>3
    <2>2. (IF k < Len(b) THEN k ELSE Len(b)) \in 1..Len(b)
      BY <2>1
    <2>3. QED
      BY <1>1, <1>3, <2>2 DEF Backoff
  <1>4. QED
    BY <1>2, <1>3

\* Every attempt has an outcome.
LEMMA OutcomeOfType ==
    ASSUME NEW ok, NEW k, NEW max
    PROVE  OutcomeOf(ok, k, max) \in Outcomes
  BY DEF OutcomeOf, Outcomes

(***************************************************************************)
(* Type correctness.  TypeOK is not inductive: the pass counter stays in   *)
(* range because a pass ends before it overflows, and the backoff is read  *)
(* at an attempt number of at least 1.                                     *)
(***************************************************************************)

Busy(d) == pc[d] \in {"claim", "deliver", "record"}

TypeInv ==
    /\ TypeOK
    /\ \A d \in Dispatchers :
          /\ Busy(d) => handled[d] < MaxPerTick
          /\ Holding(d) => att[d] >= 1

LEMMA InitTypeInv == Init => TypeInv
  <1> SUFFICES ASSUME Init
               PROVE  TypeInv
    OBVIOUS
  <1>1. TypeOK
    BY TimingAssumption, ProcessAssumption DEF Init, TypeOK, Statuses, Outcomes
  <1>2. QED
    BY <1>1 DEF Init, TypeInv, Busy

LEMMA NextTypeInv == TypeInv /\ [Next]_vars => TypeInv'
  <1> SUFFICES ASSUME TypeInv, [Next]_vars
               PROVE  TypeInv'
    OBVIOUS
  <1> USE TimingAssumption, ProcessAssumption
      DEF TypeInv, TypeOK, Busy, tableVars, claimVars, tickVars, telegram
  <1>1. ASSUME NEW n \in Notifications, NEW e \in EventTypes, Enqueue(n, e)
        PROVE  TypeInv'
    BY <1>1 DEF Enqueue, Statuses
  <1>2. ASSUME NEW d \in Dispatchers, StartTick(d)
        PROVE  TypeInv'
    BY <1>2 DEF StartTick
  <1>3. ASSUME NEW d \in Dispatchers, RefuseTick(d)
        PROVE  TypeInv'
    BY <1>3 DEF RefuseTick
  <1>4. ASSUME NEW d \in Dispatchers, ClaimNothing(d)
        PROVE  TypeInv'
    BY <1>4 DEF ClaimNothing
  <1>5. ASSUME NEW d \in Dispatchers, NEW n \in Notifications, Claim(d, n)
        PROVE  TypeInv'
    <2>1. /\ status' \in [Notifications -> Statuses]
          /\ attempts' \in [Notifications -> Nat]
          /\ leaseLeft' \in [Notifications -> -1..Lease]
      BY <1>5 DEF Claim, Statuses
    <2>2. /\ pc' \in [Dispatchers -> {"idle", "claim", "deliver", "record", "passEnd"}]
          /\ row' \in [Dispatchers -> Notifications \cup {None}]
          /\ att' \in [Dispatchers -> Nat]
          /\ hold' \in [Dispatchers -> Nat]
          /\ owed' \in [Dispatchers -> BOOLEAN]
      BY <1>5 DEF Claim
    <2>3. \A x \in Dispatchers :
             /\ row'[x] # None <=> Holding(x)'
             /\ outcome'[x] # None <=> pc'[x] = "record"
             /\ Busy(x)' => handled'[x] < MaxPerTick
             /\ Holding(x)' => att'[x] >= 1
      BY <1>5 DEF Claim
    <2>4. UNCHANGED <<kind, dueIn, history, outcome, rerun, handled, sends, delivered, faults>>
      BY <1>5 DEF Claim
    <2>5. QED
      BY <2>1, <2>2, <2>3, <2>4
  <1>6. ASSUME NEW d \in Dispatchers, EndPass(d)
        PROVE  TypeInv'
    BY <1>6 DEF EndPass
  <1>7. ASSUME NEW d \in Dispatchers, Abandon(d)
        PROVE  TypeInv'
    BY <1>7 DEF Abandon, Outcomes
  <1>8. ASSUME NEW d \in Dispatchers, NEW accept \in BOOLEAN, NEW ok \in BOOLEAN, Send(d, accept, ok)
        PROVE  TypeInv'
    <2>1. OutcomeOf(ok, att[d], Limit(row[d])) \in Outcomes
      BY OutcomeOfType
    <2>2. OutcomeOf(ok, att[d], Limit(row[d])) # None
      BY <2>1 DEF Outcomes
    <2>3. /\ pc' \in [Dispatchers -> {"idle", "claim", "deliver", "record", "passEnd"}]
          /\ outcome' \in [Dispatchers -> Outcomes \cup {None}]
          /\ sends' \in [Notifications -> Nat]
      BY <1>8, <2>1 DEF Send
    <2>4. delivered' \in [Notifications -> BOOLEAN]
      BY <1>8 DEF Send
    <2>5. \A x \in Dispatchers :
             /\ row'[x] # None <=> Holding(x)'
             /\ outcome'[x] # None <=> pc'[x] = "record"
             /\ Busy(x)' => handled'[x] < MaxPerTick
             /\ Holding(x)' => att'[x] >= 1
      BY <1>8, <2>2 DEF Send
    <2>6. UNCHANGED <<tableVars, row, att, hold, rerun, handled, owed, faults>>
      BY <1>8 DEF Send
    <2>7. QED
      BY <2>3, <2>4, <2>5, <2>6
  <1>9. ASSUME NEW d \in Dispatchers, Record(d)
        PROVE  TypeInv'
    <2> DEFINE n == row[d]
               o == outcome[d]
    <2>1. /\ n \in Notifications
          /\ o \in Outcomes
          /\ att[d] \in Nat \ {0}
          /\ handled[d] < MaxPerTick
      BY <1>9 DEF Record
    <2>2. history' \in [Notifications -> Seq(Outcomes)]
      BY <1>9, <2>1 DEF Record
    <2>3. status' \in [Notifications -> Statuses]
      BY <1>9, <2>1 DEF Record, Statuses, Outcomes
    <2>4. dueIn' \in [Notifications -> Int]
      <3>1. Backoff(kind[n], att[d]) \in Int
        BY <2>1, BackoffType
      <3>2. QED
        BY <1>9, <2>1, <3>1 DEF Record
    <2>5. leaseLeft' \in [Notifications -> -1..Lease]
      BY <1>9, <2>1 DEF Record
    <2>6. handled' \in [Dispatchers -> 0..MaxPerTick]
      BY <1>9, <2>1 DEF Record
    <2>7. \A x \in Dispatchers : Busy(x)' => handled'[x] < MaxPerTick
      BY <1>9, <2>1 DEF Record
    <2>8. /\ pc' \in [Dispatchers -> {"idle", "claim", "deliver", "record", "passEnd"}]
          /\ row' \in [Dispatchers -> Notifications \cup {None}]
          /\ att' \in [Dispatchers -> Nat]
          /\ outcome' \in [Dispatchers -> Outcomes \cup {None}]
          /\ hold' \in [Dispatchers -> Nat]
      BY <1>9 DEF Record
    <2>9. \A x \in Dispatchers :
             /\ row'[x] # None <=> Holding(x)'
             /\ outcome'[x] # None <=> pc'[x] = "record"
             /\ Holding(x)' => att'[x] >= 1
      BY <1>9 DEF Record
    <2>10. /\ UNCHANGED <<kind, attempts, rerun, sends, delivered, owed, faults>>
      BY <1>9 DEF Record
    <2>11. QED
      BY <2>2, <2>3, <2>4, <2>5, <2>6, <2>7, <2>8, <2>9, <2>10
  <1>10. ASSUME NEW d \in Dispatchers, Drop(d), rerun' \in [Dispatchers -> BOOLEAN]
         PROVE  TypeInv'
    BY <1>10 DEF Drop
  <1>11. CASE Purge
    BY <1>11 DEF Purge, Statuses
  <1>12. CASE Elapse
    <2>1. dueIn' \in [Notifications -> Int]
      BY <1>12 DEF Elapse
    <2>2. leaseLeft' \in [Notifications -> -1..Lease]
      BY <1>12 DEF Elapse
    <2>3. hold' \in [Dispatchers -> Nat]
      BY <1>12 DEF Elapse
    <2>4. UNCHANGED <<kind, status, attempts, history, row, att, outcome, tickVars, telegram, faults>>
      BY <1>12 DEF Elapse
    <2>5. QED
      BY <2>1, <2>2, <2>3, <2>4
  <1>13. CASE UNCHANGED vars
    BY <1>13 DEF vars
  <1>14. ASSUME NEW d \in Dispatchers, DatabaseError(d) \/ Crash(d)
         PROVE  TypeInv'
    <2>1. Drop(d) /\ rerun' \in [Dispatchers -> BOOLEAN]
      BY <1>14 DEF DatabaseError, Crash
    <2>2. QED
      BY <1>10, <2>1
  <1> HIDE DEF TypeInv, TypeOK, Busy, tableVars, claimVars, tickVars, telegram
  <1>15. QED
    BY <1>1, <1>2, <1>3, <1>4, <1>5, <1>6, <1>7, <1>8, <1>9, <1>11, <1>12, <1>13, <1>14
       DEF Next, Claims, Deliver

\* Type correctness of the outbox, for any policy, timing and number of
\* dispatchers and rows.
THEOREM TypeCorrect == Spec => []TypeOK
  <1>1. TypeInv => TypeOK
    BY DEF TypeInv
  <1>2. QED
    BY InitTypeInv, NextTypeInv, <1>1, PTL DEF Spec

LEMMA TypeInvariant == Spec => []TypeInv
  BY InitTypeInv, NextTypeInv, PTL DEF Spec

(***************************************************************************)
(* No kick is lost.  While a refused tick is owed, rerun remembers it,     *)
(* except between the end of a pass that reset rerun and the claim that    *)
(* the next pass begins with.                                              *)
(***************************************************************************)

KickInv ==
    \A d \in Dispatchers :
        owed[d] => pc[d] # "idle" /\ (pc[d] # "claim" => rerun[d])

\* A kick that finds a tick running is answered by another look at the queue.
THEOREM KicksAreNotLost == Spec => []NoLostKick
  <1>1. Init => KickInv
    BY DEF Init, KickInv
  <1>2. TypeInv /\ KickInv /\ [Next]_vars => KickInv'
    <2> SUFFICES ASSUME TypeOK, KickInv, [Next]_vars
                 PROVE  KickInv'
      BY DEF TypeInv
    <2> USE DEF KickInv, TypeOK, tableVars, claimVars, tickVars, telegram
    <2>1. ASSUME NEW d \in Dispatchers, StartTick(d) \/ RefuseTick(d) \/ ClaimNothing(d)
          PROVE  KickInv'
      BY <2>1 DEF StartTick, RefuseTick, ClaimNothing
    <2>8. ASSUME NEW d \in Dispatchers, EndPass(d)
          PROVE  KickInv'
      BY <2>8 DEF EndPass
    <2>2. ASSUME NEW d \in Dispatchers, NEW n \in Notifications, Claim(d, n)
          PROVE  KickInv'
      BY <2>2 DEF Claim
    <2>3. ASSUME NEW d \in Dispatchers, Abandon(d) \/ Record(d)
          PROVE  KickInv'
      BY <2>3 DEF Abandon, Record
    <2>4. ASSUME NEW d \in Dispatchers, NEW accept \in BOOLEAN, NEW ok \in BOOLEAN, Send(d, accept, ok)
          PROVE  KickInv'
      BY <2>4 DEF Send
    <2>5. ASSUME NEW d \in Dispatchers, DatabaseError(d) \/ Crash(d)
          PROVE  KickInv'
      BY <2>5 DEF DatabaseError, Crash, Drop
    <2>6. ASSUME UNCHANGED <<pc, rerun, owed>>
          PROVE  KickInv'
      BY <2>6
    <2> HIDE DEF KickInv, TypeOK
    <2>7. QED
      BY <2>1, <2>2, <2>3, <2>4, <2>5, <2>6, <2>8
         DEF Next, Claims, Deliver, Enqueue, Purge, Elapse, vars
  <1>3. KickInv => NoLostKick
    BY DEF KickInv, NoLostKick
  <1>4. QED
    BY <1>1, <1>2, <1>3, TypeInvariant, PTL DEF Spec

(***************************************************************************)
(* Exclusive claims.  As long as a claim is recorded within the lease, the *)
(* row a dispatcher holds is still leased: what is left of the lease and   *)
(* the time since the claim add up to Lease, so no claim() can pick it.    *)
(***************************************************************************)

ClaimInv ==
    \A d \in Dispatchers :
        Holding(d) =>
            /\ status[row[d]] = "processing"
            /\ att[d] = attempts[row[d]]
            /\ leaseLeft[row[d]] + hold[d] = Lease
            /\ hold[d] <= MaxHold

LeaseInv == ClaimInv /\ ExclusiveClaim

LEMMA InitLeaseInv == Init => LeaseInv
  BY DEF Init, LeaseInv, ClaimInv, ExclusiveClaim

\* A step that claims nothing and settles nothing keeps every claim that is
\* still held as it was.
ClaimsStay ==
    /\ UNCHANGED <<status, attempts, leaseLeft>>
    /\ \A d \in Dispatchers :
          Holding(d)' =>
              /\ Holding(d)
              /\ row'[d] = row[d]
              /\ att'[d] = att[d]
              /\ hold'[d] = hold[d]

LEMMA ClaimsStayLeaseInv == LeaseInv /\ ClaimsStay => LeaseInv'
  BY DEF LeaseInv, ClaimInv, ExclusiveClaim, ClaimsStay

\* Such are the steps of tick() and deliver(), an error and a crash.
LEMMA TickKeepsClaims ==
    ASSUME TypeOK, NEW d \in Dispatchers,
           \/ StartTick(d) \/ RefuseTick(d) \/ ClaimNothing(d) \/ EndPass(d)
           \/ Deliver(d) \/ DatabaseError(d) \/ Crash(d)
    PROVE  ClaimsStay
  <1> USE DEF TypeOK, ClaimsStay, tableVars, claimVars, tickVars, telegram
  <1>1. CASE StartTick(d)
    BY <1>1 DEF StartTick
  <1>2. CASE RefuseTick(d)
    BY <1>2 DEF RefuseTick
  <1>3. CASE ClaimNothing(d)
    BY <1>3 DEF ClaimNothing
  <1>4. CASE EndPass(d)
    BY <1>4 DEF EndPass
  <1>5. CASE Abandon(d)
    BY <1>5 DEF Abandon
  <1>6. ASSUME NEW accept \in BOOLEAN, NEW ok \in BOOLEAN, Send(d, accept, ok)
        PROVE  ClaimsStay
    BY <1>6 DEF Send
  <1>7. CASE Drop(d)
    BY <1>7 DEF Drop
  <1> HIDE DEF TypeOK, ClaimsStay
  <1>8. QED
    BY <1>1, <1>2, <1>3, <1>4, <1>5, <1>6, <1>7 DEF Deliver, DatabaseError, Crash

\* The others keep their claims when d takes a row that nobody holds.
LEMMA ClaimKeepsLeaseInv ==
    ASSUME MaxHold <= Lease, TypeOK, LeaseInv,
           NEW d \in Dispatchers, NEW n \in Notifications, Claim(d, n)
    PROVE  LeaseInv'
  <1>1. \A x \in Dispatchers : Holding(x) => row[x] # n
    BY TimingAssumption DEF Claim, Claimable, LeaseInv, ClaimInv, TypeOK
  <1>2. \A x \in Dispatchers :
           x # d /\ Holding(x)' =>
               /\ Holding(x)
               /\ row'[x] = row[x]
               /\ att'[x] = att[x]
               /\ hold'[x] = hold[x]
    BY DEF Claim, TypeOK
  <1>3. row'[d] = n /\ att'[d] = attempts[n] + 1 /\ hold'[d] = 0
    BY DEF Claim, TypeOK
  <1>4. /\ status'[n] = "processing"
        /\ attempts'[n] = attempts[n] + 1
        /\ leaseLeft'[n] = Lease
        /\ \A m \in Notifications \ {n} :
              status'[m] = status[m] /\ attempts'[m] = attempts[m] /\ leaseLeft'[m] = leaseLeft[m]
    BY DEF Claim, TypeOK
  <1>5. ExclusiveClaim'
    BY <1>1, <1>2, <1>3 DEF LeaseInv, ExclusiveClaim
  <1>6. \A x \in Dispatchers : Holding(x) => row[x] \in Notifications
    BY DEF TypeOK
  <1>7. ClaimInv'
    BY <1>1, <1>2, <1>3, <1>4, <1>6, TimingAssumption DEF LeaseInv, ClaimInv
  <1>8. QED
    BY <1>5, <1>7 DEF LeaseInv

\* A record changes the row of its own dispatcher only, and lets go of it.
LEMMA RecordKeepsLeaseInv ==
    ASSUME TypeOK, LeaseInv, NEW d \in Dispatchers, Record(d)
    PROVE  LeaseInv'
  <1>1. \A x \in Dispatchers :
           Holding(x)' =>
               /\ x # d
               /\ Holding(x)
               /\ row'[x] = row[x]
               /\ att'[x] = att[x]
               /\ hold'[x] = hold[x]
    BY DEF Record, TypeOK
  <1>2. \A m \in Notifications \ {row[d]} :
           status'[m] = status[m] /\ attempts'[m] = attempts[m] /\ leaseLeft'[m] = leaseLeft[m]
    BY DEF Record, TypeOK
  <1>3. Holding(d)
    BY DEF Record
  <1>4. \A x \in Dispatchers : Holding(x) => row[x] \in Notifications
    BY DEF TypeOK
  <1>5. ExclusiveClaim'
    BY <1>1 DEF LeaseInv, ExclusiveClaim
  <1>6. ClaimInv'
    BY <1>1, <1>2, <1>3, <1>4 DEF LeaseInv, ClaimInv, ExclusiveClaim
  <1>7. QED
    BY <1>5, <1>6 DEF LeaseInv

\* Time takes from the lease what it adds to the hold.
LEMMA ElapseKeepsLeaseInv ==
    ASSUME MaxHold <= Lease, TypeOK, LeaseInv, Elapse
    PROVE  LeaseInv'
  <1>1. \A x \in Dispatchers :
           Holding(x)' => Holding(x) /\ row'[x] = row[x] /\ att'[x] = att[x] /\ hold'[x] = hold[x] + 1
    BY DEF Elapse, tickVars, TypeOK
  <1>2. \A x \in Dispatchers : Holding(x) => row[x] \in Notifications /\ hold[x] < MaxHold
    BY DEF Elapse, TypeOK
  <1>3. \A m \in Notifications :
           /\ status'[m] = status[m]
           /\ attempts'[m] = attempts[m]
           /\ leaseLeft[m] >= 0 => leaseLeft'[m] = leaseLeft[m] - 1
    BY DEF Elapse
  <1>4. ExclusiveClaim'
    BY <1>1 DEF LeaseInv, ExclusiveClaim
  <1>5. ClaimInv'
    <2> SUFFICES ASSUME NEW x \in Dispatchers, Holding(x)'
                 PROVE  /\ status'[row'[x]] = "processing"
                        /\ att'[x] = attempts'[row'[x]]
                        /\ leaseLeft'[row'[x]] + hold'[x] = Lease
                        /\ hold'[x] <= MaxHold
      BY DEF ClaimInv
    <2>1. /\ hold[x] \in Nat
          /\ leaseLeft[row[x]] \in Int
          /\ leaseLeft[row[x]] + hold[x] = Lease
      BY <1>1, <1>2 DEF LeaseInv, ClaimInv, TypeOK
    <2>2. leaseLeft[row[x]] >= 0
      BY <1>1, <1>2, <2>1, TimingAssumption
    <2>3. QED
      BY <1>1, <1>2, <1>3, <2>1, <2>2, TimingAssumption DEF LeaseInv, ClaimInv
  <1>6. QED
    BY <1>4, <1>5 DEF LeaseInv

LEMMA NextLeaseInv ==
    ASSUME MaxHold <= Lease
    PROVE  TypeInv /\ LeaseInv /\ [Next]_vars => LeaseInv'
  <1> SUFFICES ASSUME TypeOK, LeaseInv, [Next]_vars
               PROVE  LeaseInv'
    BY DEF TypeInv
  <1>1. ASSUME NEW n \in Notifications, NEW e \in EventTypes, Enqueue(n, e)
        PROVE  LeaseInv'
    <2>1. \A x \in Dispatchers : Holding(x) => row[x] # n
      BY <1>1 DEF Enqueue, LeaseInv, ClaimInv
    <2>2. QED
      BY <1>1, <2>1 DEF Enqueue, claimVars, tickVars, LeaseInv, ClaimInv, ExclusiveClaim, TypeOK
  <1>2. ASSUME NEW d \in Dispatchers,
               \/ StartTick(d) \/ RefuseTick(d) \/ ClaimNothing(d) \/ EndPass(d)
               \/ Deliver(d) \/ DatabaseError(d) \/ Crash(d)
        PROVE  LeaseInv'
    BY <1>2, TickKeepsClaims, ClaimsStayLeaseInv
  <1>3. ASSUME NEW d \in Dispatchers, NEW n \in Notifications, Claim(d, n)
        PROVE  LeaseInv'
    BY <1>3, ClaimKeepsLeaseInv
  <1>4. ASSUME NEW d \in Dispatchers, Record(d)
        PROVE  LeaseInv'
    BY <1>4, RecordKeepsLeaseInv
  <1>5. CASE Purge
    BY <1>5 DEF Purge, claimVars, tickVars, LeaseInv, ClaimInv, ExclusiveClaim, TypeOK
  <1>6. CASE Elapse
    BY <1>6, ElapseKeepsLeaseInv
  <1>7. CASE UNCHANGED vars
    BY <1>7, ClaimsStayLeaseInv DEF vars, tableVars, claimVars, tickVars, ClaimsStay
  <1>8. QED
    BY <1>1, <1>2, <1>3, <1>4, <1>5, <1>6, <1>7 DEF Next, Claims

\* Dispatchers that record within the lease never work on the same row, for
\* any number of them and any lease.
THEOREM ClaimsAreExclusive ==
    ASSUME MaxHold <= Lease
    PROVE  Spec => []ExclusiveClaim
  <1>1. LeaseInv => ExclusiveClaim
    BY DEF LeaseInv
  <1>2. TypeInv /\ LeaseInv /\ [Next]_vars => LeaseInv'
    BY NextLeaseInv
  <1>3. QED
    BY <1>1, <1>2, InitLeaseInv, TypeInvariant, PTL DEF Spec

(***************************************************************************)
(* Verdicts.  No timing is assumed here: whoever records, and however      *)
(* late, carries a result that was true of the row, and what makes it true *)
(* (a delivery, attempts spent) is never undone.                           *)
(***************************************************************************)

VerdictInv ==
    /\ \A n \in Notifications :
          status[n] = "none" =>
              kind[n] = None /\ attempts[n] = 0 /\ sends[n] = 0 /\ ~delivered[n]
    /\ \A d \in Dispatchers :
          /\ Holding(d) => status[row[d]] # "none" /\ att[d] <= attempts[row[d]]
          /\ outcome[d] = "sent" => delivered[row[d]]
          /\ outcome[d] = "failed" => att[d] >= Limit(row[d])
    /\ NoFalseVerdict

LEMMA InitVerdictInv == Init => VerdictInv
  BY ProcessAssumption DEF Init, VerdictInv, NoFalseVerdict

LEMMA NextVerdictInv == TypeInv /\ VerdictInv /\ [Next]_vars => VerdictInv'
  <1> SUFFICES ASSUME TypeOK, VerdictInv, [Next]_vars
               PROVE  VerdictInv'
    BY DEF TypeInv
  <1> USE DEF Limit
  <1>1. ASSUME NEW n \in Notifications, NEW e \in EventTypes, Enqueue(n, e)
        PROVE  VerdictInv'
    <2>1. \A d \in Dispatchers : Holding(d) => row[d] # n
      BY <1>1 DEF Enqueue, VerdictInv
    <2>2. \A m \in Notifications \ {n} : kind'[m] = kind[m] /\ status'[m] = status[m]
      BY <1>1 DEF Enqueue, TypeOK
    <2>3. status'[n] = "pending"
      BY <1>1 DEF Enqueue, TypeOK
    <2>4. UNCHANGED <<attempts, sends, delivered, pc, row, att, outcome>>
      BY <1>1 DEF Enqueue, claimVars, tickVars, telegram
    <2>5. \A d \in Dispatchers : outcome[d] \in {"sent", "failed"} => Holding(d) /\ row[d] \in Notifications
      BY ProcessAssumption DEF TypeOK
    <2>6. NoFalseVerdict'
      BY <2>2, <2>3, <2>4 DEF VerdictInv, NoFalseVerdict
    <2>7. \A d \in Dispatchers :
             /\ Holding(d)' => status'[row'[d]] # "none" /\ att'[d] <= attempts'[row'[d]]
             /\ outcome'[d] = "sent" => delivered'[row'[d]]
      BY <2>1, <2>2, <2>4, <2>5 DEF VerdictInv, TypeOK
    <2>8. \A d \in Dispatchers : outcome'[d] = "failed" => att'[d] >= Limit(row[d])'
      BY <2>1, <2>2, <2>4, <2>5 DEF VerdictInv
    <2>9. QED
      BY <2>2, <2>3, <2>4, <2>6, <2>7, <2>8 DEF VerdictInv
  <1>2. ASSUME NEW d \in Dispatchers,
               \/ StartTick(d) \/ RefuseTick(d) \/ ClaimNothing(d) \/ EndPass(d)
        PROVE  VerdictInv'
    <2>1. /\ UNCHANGED <<tableVars, claimVars, telegram>>
          /\ \A x \in Dispatchers : Holding(x)' <=> Holding(x)
      BY <1>2 DEF StartTick, RefuseTick, ClaimNothing, EndPass, TypeOK
    <2>2. QED
      BY <2>1 DEF tableVars, claimVars, telegram, VerdictInv, NoFalseVerdict
  <1>3. ASSUME NEW d \in Dispatchers, NEW n \in Notifications, Claim(d, n)
        PROVE  VerdictInv'
    <2>1. /\ UNCHANGED <<kind, outcome, sends, delivered>>
          /\ status[n] # "none"
          /\ outcome[d] = None
      BY <1>3 DEF Claim, Claimable, telegram, TypeOK
    <2>2. /\ status'[n] = "processing" /\ attempts'[n] = attempts[n] + 1
          /\ \A m \in Notifications \ {n} : status'[m] = status[m] /\ attempts'[m] = attempts[m]
      BY <1>3 DEF Claim, TypeOK
    <2>3. /\ row'[d] = n /\ att'[d] = attempts[n] + 1
          /\ \A x \in Dispatchers \ {d} :
                /\ row'[x] = row[x] /\ att'[x] = att[x]
                /\ Holding(x)' <=> Holding(x)
      BY <1>3 DEF Claim, TypeOK
    <2>4. \A x \in Dispatchers : Holding(x) => row[x] \in Notifications
      BY DEF TypeOK
    <2>5. \A m \in Notifications : attempts[m] \in Nat /\ Limit(m) \in Nat
      BY PolicyForType DEF TypeOK
    <2>6. NoFalseVerdict'
      BY <2>1, <2>2, <2>5 DEF VerdictInv, NoFalseVerdict
    <2>7. \A x \in Dispatchers :
             Holding(x)' => status'[row'[x]] # "none" /\ att'[x] <= attempts'[row'[x]]
      <3>1. \A x \in Dispatchers : att[x] \in Nat
        BY DEF TypeOK
      <3>2. QED
        BY <2>2, <2>3, <2>4, <2>5, <3>1 DEF VerdictInv
    <2>8. \A x \in Dispatchers :
             /\ outcome'[x] = "sent" => delivered'[row'[x]]
             /\ outcome'[x] = "failed" => att'[x] >= Limit(row[x])'
      BY <2>1, <2>3, ProcessAssumption DEF VerdictInv
    <2>9. \A m \in Notifications : status'[m] = "none" => status[m] = "none" /\ m # n
      BY <2>1, <2>2
    <2>10. QED
      BY <2>1, <2>2, <2>6, <2>7, <2>8, <2>9 DEF VerdictInv
  <1>4. ASSUME NEW d \in Dispatchers, Abandon(d)
        PROVE  VerdictInv'
    <2>1. /\ UNCHANGED <<tableVars, telegram, row, att>>
          /\ outcome'[d] = "failed" /\ att[d] >= Limit(row[d])
          /\ \A x \in Dispatchers : Holding(x)' <=> Holding(x)
          /\ \A x \in Dispatchers \ {d} : outcome'[x] = outcome[x]
      BY <1>4, PolicyForType DEF Abandon, Exhausted, TypeOK
    <2>2. QED
      BY <2>1 DEF tableVars, telegram, VerdictInv, NoFalseVerdict
  <1>5. ASSUME NEW d \in Dispatchers, NEW accept \in BOOLEAN, NEW ok \in BOOLEAN, Send(d, accept, ok)
        PROVE  VerdictInv'
    <2>1. /\ UNCHANGED <<tableVars, row, att>>
          /\ \A x \in Dispatchers : Holding(x)' <=> Holding(x)
          /\ \A x \in Dispatchers \ {d} : outcome'[x] = outcome[x]
          /\ Holding(d) /\ row[d] \in Notifications
      BY <1>5 DEF Send, TypeOK
    <2>2. /\ outcome'[d] = "sent" => ok
          /\ outcome'[d] = "failed" => att[d] >= Limit(row[d])
      BY <1>5 DEF Send, OutcomeOf, TypeOK
    <2>3. \A m \in Notifications \ {row[d]} : sends'[m] = sends[m] /\ delivered'[m] = delivered[m]
      BY <1>5 DEF Send, TypeOK
    <2>4. delivered'[row[d]] = (delivered[row[d]] \/ accept)
      BY <1>5, <2>1 DEF Send, TypeOK
    <2>5. ok => accept
      BY <1>5 DEF Send
    <2>6. \A x \in Dispatchers : outcome[x] = "sent" => row[x] \in Notifications
      BY ProcessAssumption DEF TypeOK
    <2>7. \A m \in Notifications : delivered[m] => delivered'[m]
      BY <2>3, <2>4
    <2>8. NoFalseVerdict'
      BY <2>1, <2>7 DEF tableVars, VerdictInv, NoFalseVerdict
    <2>9. \A x \in Dispatchers : outcome'[x] = "sent" => delivered'[row'[x]]
      BY <2>1, <2>2, <2>4, <2>5, <2>6, <2>7 DEF VerdictInv
    <2>10. \A x \in Dispatchers : outcome'[x] = "failed" => att'[x] >= Limit(row[x])'
      BY <2>1, <2>2 DEF tableVars, VerdictInv
    <2>11. \A m \in Notifications :
              status'[m] = "none" => m # row[d] /\ status[m] = "none"
      BY <2>1 DEF tableVars, VerdictInv
    <2>12. QED
      BY <2>1, <2>3, <2>8, <2>9, <2>10, <2>11 DEF tableVars, VerdictInv
  <1>6. ASSUME NEW d \in Dispatchers, Record(d)
        PROVE  VerdictInv'
    <2>1. /\ UNCHANGED <<kind, attempts, sends, delivered>>
          /\ Holding(d) /\ row[d] \in Notifications /\ outcome[d] \in Outcomes
      BY <1>6, ProcessAssumption DEF Record, telegram, TypeOK
    <2>2. /\ status'[row[d]] = IF outcome[d] = "retry" THEN "pending" ELSE outcome[d]
          /\ \A m \in Notifications \ {row[d]} : status'[m] = status[m]
      BY <1>6, <2>1 DEF Record, TypeOK
    <2>3. /\ ~Holding(d)' /\ outcome'[d] = None
          /\ \A x \in Dispatchers \ {d} :
                /\ row'[x] = row[x] /\ att'[x] = att[x] /\ outcome'[x] = outcome[x]
                /\ Holding(x)' <=> Holding(x)
      BY <1>6 DEF Record, TypeOK
    <2>4. status'[row[d]] \in {"pending", "sent", "failed"}
      BY <2>1, <2>2 DEF Outcomes
    <2>5. \A m \in Notifications :
             /\ status'[m] = "none" => status[m] = "none"
             /\ status'[m] \in {"sent", "purged"} => delivered[m]
             /\ status'[m] = "failed" => attempts[m] >= Limit(m)
      BY <2>1, <2>2, <2>4, PolicyForType DEF VerdictInv, NoFalseVerdict, TypeOK, Outcomes
    <2>6. \A x \in Dispatchers : Holding(x) => row[x] \in Notifications
      BY DEF TypeOK
    <2>7. \A x \in Dispatchers \ {d} : Holding(x) => status'[row[x]] # "none"
      BY <2>5, <2>6 DEF VerdictInv
    <2>8. QED
      BY <2>1, <2>3, <2>5, <2>7, ProcessAssumption DEF VerdictInv, NoFalseVerdict
  <1>7. ASSUME NEW d \in Dispatchers, DatabaseError(d) \/ Crash(d)
        PROVE  VerdictInv'
    <2>1. /\ UNCHANGED <<tableVars, telegram>>
          /\ ~Holding(d)' /\ outcome'[d] = None
          /\ \A x \in Dispatchers \ {d} :
                /\ row'[x] = row[x] /\ att'[x] = att[x] /\ outcome'[x] = outcome[x]
                /\ Holding(x)' <=> Holding(x)
      BY <1>7 DEF DatabaseError, Crash, Drop, TypeOK
    <2>2. QED
      BY <2>1, ProcessAssumption DEF tableVars, telegram, VerdictInv, NoFalseVerdict
  <1>8. CASE Purge
    <2>1. UNCHANGED <<kind, attempts, sends, delivered, pc, row, att, outcome>>
      BY <1>8 DEF Purge, claimVars, tickVars, telegram
    <2>2. \A m \in Notifications :
             status'[m] = status[m] \/ (status[m] = "sent" /\ status'[m] = "purged")
      BY <1>8 DEF Purge
    <2>3. \A d \in Dispatchers : Holding(d) => row[d] \in Notifications
      BY DEF TypeOK
    <2>4. QED
      BY <2>1, <2>2, <2>3 DEF VerdictInv, NoFalseVerdict
  <1>9. CASE Elapse \/ UNCHANGED vars
    <2>1. UNCHANGED <<kind, status, attempts, sends, delivered, pc, row, att, outcome>>
      BY <1>9 DEF Elapse, vars, tableVars, claimVars, tickVars, telegram
    <2>2. QED
      BY <2>1 DEF VerdictInv, NoFalseVerdict
  <1>10. QED
    BY <1>1, <1>2, <1>3, <1>4, <1>5, <1>6, <1>7, <1>8, <1>9 DEF Next, Claims, Deliver

\* At-least-once, for any timing: what the table calls sent was accepted by
\* Telegram, and what it calls failed had all its attempts.
THEOREM VerdictsAreTrue == Spec => []NoFalseVerdict
  <1>1. VerdictInv => NoFalseVerdict
    BY DEF VerdictInv
  <1>2. QED
    BY <1>1, InitVerdictInv, NextVerdictInv, TypeInvariant, PTL DEF Spec

(***************************************************************************)
(* Sends.  A dispatcher that has yet to send holds an attempt for which    *)
(* nothing was sent, so the sends never run ahead of the attempts.         *)
(***************************************************************************)

SendsInv ==
    /\ \A n \in Notifications : sends[n] <= attempts[n] /\ sends[n] <= Limit(n)
    /\ \A d \in Dispatchers : pc[d] = "deliver" => sends[row[d]] < att[d]

LEMMA InitSendsInv == Init => SendsInv
  <1>1. \A n \in Notifications : Limit(n) \in Nat \ {0}
    BY PolicyForType DEF Limit
  <1>2. QED
    BY <1>1 DEF Init, SendsInv

LEMMA NextSendsInv == TypeInv /\ LeaseInv /\ VerdictInv /\ SendsInv /\ [Next]_vars => SendsInv'
  <1> SUFFICES ASSUME TypeOK, LeaseInv, VerdictInv, SendsInv, [Next]_vars
               PROVE  SendsInv'
    BY DEF TypeInv
  <1>0. /\ \A m \in Notifications : attempts[m] \in Nat /\ sends[m] \in Nat /\ Limit(m) \in Nat \ {0} /\ Limit(m)' \in Nat \ {0}
        /\ \A x \in Dispatchers : att[x] \in Nat
        /\ \A x \in Dispatchers : pc[x] = "deliver" => row[x] \in Notifications
    BY PolicyForType DEF TypeOK, Limit
  <1>1. ASSUME NEW n \in Notifications, NEW e \in EventTypes, Enqueue(n, e)
        PROVE  SendsInv'
    <2>1. UNCHANGED <<attempts, sends, pc, row, att>>
      BY <1>1 DEF Enqueue, claimVars, tickVars, telegram
    <2>2. sends[n] = 0
      BY <1>1 DEF Enqueue, VerdictInv
    <2>3. \A m \in Notifications \ {n} : Limit(m)' = Limit(m)
      BY <1>1 DEF Enqueue, Limit, TypeOK
    <2>4. QED
      BY <1>0, <2>1, <2>2, <2>3 DEF SendsInv
  <1>2. ASSUME NEW d \in Dispatchers, NEW n \in Notifications, Claim(d, n)
        PROVE  SendsInv'
    <2>1. UNCHANGED <<kind, sends>>
      BY <1>2 DEF Claim, telegram
    <2>2. \A m \in Notifications : attempts'[m] >= attempts[m] /\ Limit(m)' = Limit(m) /\ attempts'[m] \in Nat
      BY <1>2, <1>0 DEF Claim, TypeOK, Limit
    <2>3. row'[d] = n /\ att'[d] = attempts[n] + 1
      BY <1>2 DEF Claim, TypeOK
    <2>4. \A x \in Dispatchers \ {d} : row'[x] = row[x] /\ att'[x] = att[x] /\ pc'[x] = pc[x]
      BY <1>2 DEF Claim, TypeOK
    <2>5. QED
      BY <1>0, <2>1, <2>2, <2>3, <2>4 DEF SendsInv
  <1>3. ASSUME NEW d \in Dispatchers, NEW accept \in BOOLEAN, NEW ok \in BOOLEAN, Send(d, accept, ok)
        PROVE  SendsInv'
    <2>1. /\ pc[d] = "deliver" /\ pc'[d] = "record" /\ row[d] \in Notifications
          /\ att[d] <= Limit(row[d])
          /\ \A x \in Dispatchers \ {d} : pc'[x] = pc[x]
      BY <1>3, <1>0 DEF Send, Exhausted, TypeOK
    <2>2. UNCHANGED <<kind, attempts, row, att>>
      BY <1>3 DEF Send, tableVars
    <2>3. /\ sends'[row[d]] = sends[row[d]] + 1
          /\ \A m \in Notifications \ {row[d]} : sends'[m] = sends[m]
      BY <1>3, <2>1 DEF Send, TypeOK
    <2>4. \A x \in Dispatchers \ {d} : pc[x] = "deliver" => row[x] # row[d]
      BY <2>1 DEF LeaseInv, ExclusiveClaim
    <2>5. att[d] = attempts[row[d]]
      BY <2>1 DEF LeaseInv, ClaimInv
    <2>6. \A m \in Notifications : Limit(m)' = Limit(m)
      BY <2>2 DEF Limit
    <2>7. QED
      BY <1>0, <2>1, <2>2, <2>3, <2>4, <2>5, <2>6 DEF SendsInv
  <1>4. ASSUME UNCHANGED <<kind, attempts, sends>>,
               \A x \in Dispatchers :
                  pc'[x] = "deliver" => pc[x] = "deliver" /\ row'[x] = row[x] /\ att'[x] = att[x]
        PROVE  SendsInv'
    BY <1>4 DEF SendsInv, Limit
  <1>5. ASSUME NEW d \in Dispatchers,
               \/ StartTick(d) \/ RefuseTick(d) \/ ClaimNothing(d) \/ EndPass(d)
        PROVE  SendsInv'
    <2>1. \A x \in Dispatchers : pc'[x] = "deliver" => pc[x] = "deliver"
      BY <1>5 DEF StartTick, RefuseTick, ClaimNothing, EndPass, TypeOK
    <2>2. UNCHANGED <<tableVars, claimVars, telegram>>
      BY <1>5 DEF StartTick, RefuseTick, ClaimNothing, EndPass
    <2>3. QED
      BY <1>4, <2>1, <2>2 DEF tableVars, claimVars, telegram
  <1>6. ASSUME NEW d \in Dispatchers, Abandon(d) \/ Record(d) \/ Drop(d)
        PROVE  SendsInv'
    <2>1. \A x \in Dispatchers :
             pc'[x] = "deliver" => pc[x] = "deliver" /\ row'[x] = row[x] /\ att'[x] = att[x]
      BY <1>6 DEF Abandon, Record, Drop, TypeOK
    <2>2. UNCHANGED <<kind, attempts, sends>>
      BY <1>6 DEF Abandon, Record, Drop, tableVars, telegram
    <2>3. QED
      BY <1>4, <2>1, <2>2
  <1>7. CASE Purge \/ Elapse \/ UNCHANGED vars
    <2>1. UNCHANGED <<kind, attempts, sends, pc, row, att>>
      BY <1>7 DEF Purge, Elapse, vars, tableVars, claimVars, tickVars, telegram
    <2>2. QED
      BY <1>4, <2>1
  <1>8. QED
    BY <1>1, <1>2, <1>3, <1>5, <1>6, <1>7 DEF Next, Claims, Deliver, DatabaseError, Crash

\* What the theorems below rest on.
OutboxInv == TypeInv /\ LeaseInv /\ VerdictInv /\ SendsInv

LEMMA OutboxInvariant ==
    ASSUME MaxHold <= Lease
    PROVE  Spec => []OutboxInv
  <1>1. Init => OutboxInv
    BY InitTypeInv, InitLeaseInv, InitVerdictInv, InitSendsInv DEF OutboxInv
  <1>2. OutboxInv /\ [Next]_vars => OutboxInv'
    BY NextTypeInv, NextLeaseInv, NextVerdictInv, NextSendsInv DEF OutboxInv
  <1>3. QED
    BY <1>1, <1>2, PTL DEF Spec

(***************************************************************************)
(* Sends when claims outlive their lease.  Several dispatchers may then    *)
(* hold one row, each with an attempt of its own: what has been sent and   *)
(* what may still be sent by those who hold the row is counted together.   *)
(***************************************************************************)

\* The dispatchers about to send row n.
Senders(n) == {d \in Dispatchers : pc[d] = "deliver" /\ row[d] = n /\ att[d] <= Limit(n)}

CountInv ==
    \A n \in Notifications :
        /\ sends[n] + Cardinality(Senders(n)) <= attempts[n]
        /\ sends[n] + Cardinality(Senders(n)) <= Limit(n)

LEMMA SendersCount ==
    ASSUME IsFiniteSet(Dispatchers), NEW S \in SUBSET Dispatchers
    PROVE  IsFiniteSet(S) /\ Cardinality(S) \in Nat
  BY FS_Subset, FS_CardinalityType

LEMMA InitCountInv == Init => CountInv
  <1> SUFFICES ASSUME Init, NEW n \in Notifications
               PROVE  /\ sends[n] + Cardinality(Senders(n)) <= attempts[n]
                      /\ sends[n] + Cardinality(Senders(n)) <= Limit(n)
    BY DEF CountInv
  <1>1. Senders(n) = {}
    BY DEF Init, Senders
  <1>2. Cardinality(Senders(n)) = 0
    BY <1>1, FS_EmptySet
  <1>3. Limit(n) \in Nat \ {0}
    BY PolicyForType DEF Limit
  <1>4. QED
    BY <1>2, <1>3 DEF Init

\* A step by which nobody starts to send, and nothing is sent or counted.
LEMMA SendersLeave ==
    ASSUME IsFiniteSet(Dispatchers), TypeOK, CountInv, UNCHANGED <<kind, attempts, sends>>,
           \A x \in Dispatchers :
              pc'[x] = "deliver" => pc[x] = "deliver" /\ row'[x] = row[x] /\ att'[x] = att[x]
    PROVE  CountInv'
  <1> SUFFICES ASSUME NEW n \in Notifications
               PROVE  /\ sends[n] + Cardinality(Senders(n)') <= attempts[n]
                      /\ sends[n] + Cardinality(Senders(n)') <= Limit(n)
    BY DEF CountInv, Limit
  <1>1. Senders(n)' \subseteq Senders(n)
    BY DEF Senders, Limit
  <1>2. Senders(n) \in SUBSET Dispatchers /\ Senders(n)' \in SUBSET Dispatchers
    BY DEF Senders
  <1>3. /\ Cardinality(Senders(n)) \in Nat /\ Cardinality(Senders(n)') \in Nat
        /\ Cardinality(Senders(n)') <= Cardinality(Senders(n))
    BY <1>1, <1>2, SendersCount, FS_Subset
  <1>4. sends[n] \in Nat /\ attempts[n] \in Nat /\ Limit(n) \in Nat
    BY PolicyForType DEF TypeOK, Limit
  <1>5. QED
    BY <1>3, <1>4 DEF CountInv

LEMMA NextCountInv ==
    ASSUME IsFiniteSet(Dispatchers)
    PROVE  TypeInv /\ VerdictInv /\ CountInv /\ [Next]_vars => CountInv'
  <1> SUFFICES ASSUME TypeOK, VerdictInv, CountInv, [Next]_vars
               PROVE  CountInv'
    BY DEF TypeInv
  <1>0. /\ \A m \in Notifications :
              /\ attempts[m] \in Nat /\ sends[m] \in Nat
              /\ Limit(m) \in Nat \ {0} /\ Limit(m)' \in Nat \ {0}
              /\ Senders(m) \in SUBSET Dispatchers /\ Senders(m)' \in SUBSET Dispatchers
              /\ IsFiniteSet(Senders(m)) /\ Cardinality(Senders(m)) \in Nat
        /\ \A x \in Dispatchers : att[x] \in Nat
        /\ \A x \in Dispatchers : pc[x] = "deliver" => row[x] \in Notifications
    <2>1. \A m \in Notifications : Senders(m) \in SUBSET Dispatchers /\ Senders(m)' \in SUBSET Dispatchers
      BY DEF Senders
    <2>2. QED
      BY <2>1, SendersCount, PolicyForType DEF TypeOK, Limit
  <1>1. ASSUME NEW n \in Notifications, NEW e \in EventTypes, Enqueue(n, e)
        PROVE  CountInv'
    <2>1. UNCHANGED <<attempts, sends, pc, row, att>>
      BY <1>1 DEF Enqueue, claimVars, tickVars, telegram
    <2>2. status[n] = "none" /\ sends[n] = 0 /\ attempts[n] = 0
      BY <1>1 DEF Enqueue, VerdictInv
    <2>3. Cardinality(Senders(n)') = 0
      <3>1. \A d \in Dispatchers : pc[d] = "deliver" => row[d] # n
        BY <2>2 DEF VerdictInv
      <3>2. Senders(n)' = {}
        BY <2>1, <3>1 DEF Senders
      <3>3. QED
        BY <3>2, FS_EmptySet
    <2>4. \A m \in Notifications \ {n} : Limit(m)' = Limit(m) /\ Senders(m)' = Senders(m)
      BY <1>1, <2>1 DEF Enqueue, Limit, Senders, TypeOK
    <2>5. QED
      BY <1>0, <2>1, <2>2, <2>3, <2>4 DEF CountInv
  <1>2. ASSUME NEW d \in Dispatchers, NEW n \in Notifications, Claim(d, n)
        PROVE  CountInv'
    <2>1. UNCHANGED <<kind, sends>> /\ \A m \in Notifications : Limit(m)' = Limit(m)
      BY <1>2 DEF Claim, telegram, Limit
    <2>2. /\ pc[d] = "claim" /\ pc'[d] = "deliver" /\ row'[d] = n /\ att'[d] = attempts[n] + 1
          /\ \A x \in Dispatchers \ {d} : row'[x] = row[x] /\ att'[x] = att[x] /\ pc'[x] = pc[x]
      BY <1>2 DEF Claim, TypeOK
    <2>3. /\ attempts'[n] = attempts[n] + 1
          /\ \A m \in Notifications \ {n} : attempts'[m] = attempts[m]
      BY <1>2 DEF Claim, TypeOK
    <2>4. \A m \in Notifications \ {n} : Senders(m)' = Senders(m)
      BY <2>1, <2>2 DEF Senders
    <2>5. CASE attempts[n] + 1 <= Limit(n)
      <3>1. Senders(n)' = Senders(n) \cup {d} /\ d \notin Senders(n)
        BY <2>1, <2>2, <2>5 DEF Senders
      <3>2. Cardinality(Senders(n)') = Cardinality(Senders(n)) + 1
        BY <1>0, <3>1, FS_AddElement
      <3>3. QED
        BY <1>0, <2>1, <2>3, <2>4, <2>5, <3>2 DEF CountInv
    <2>6. CASE ~(attempts[n] + 1 <= Limit(n))
      <3>1. Senders(n)' = Senders(n)
        BY <2>1, <2>2, <2>6 DEF Senders
      <3>2. QED
        BY <1>0, <2>1, <2>3, <2>4, <3>1 DEF CountInv
    <2>7. QED
      BY <2>5, <2>6
  <1>3. ASSUME NEW d \in Dispatchers, NEW accept \in BOOLEAN, NEW ok \in BOOLEAN, Send(d, accept, ok)
        PROVE  CountInv'
    <2>1. /\ pc[d] = "deliver" /\ pc'[d] = "record" /\ att[d] <= Limit(row[d])
          /\ \A x \in Dispatchers \ {d} : pc'[x] = pc[x]
      BY <1>3, <1>0 DEF Send, Exhausted, TypeOK
    <2>2. UNCHANGED <<kind, attempts, row, att>> /\ \A m \in Notifications : Limit(m)' = Limit(m)
      BY <1>3 DEF Send, tableVars, Limit
    <2>3. PICK n \in Notifications : n = row[d]
      BY <1>0, <2>1
    <2>4. /\ sends'[n] = sends[n] + 1
          /\ \A m \in Notifications \ {n} : sends'[m] = sends[m]
      BY <1>3, <2>3 DEF Send, TypeOK
    <2>5. Senders(n)' = Senders(n) \ {d} /\ d \in Senders(n)
      BY <2>1, <2>2, <2>3 DEF Senders
    <2>6. \A m \in Notifications \ {n} : Senders(m)' = Senders(m)
      BY <2>1, <2>2, <2>3 DEF Senders
    <2>7. Cardinality(Senders(n)') = Cardinality(Senders(n)) - 1
      BY <1>0, <2>5, FS_RemoveElement
    <2>8. QED
      BY <1>0, <2>2, <2>4, <2>6, <2>7 DEF CountInv
  <1>4. ASSUME NEW d \in Dispatchers,
               \/ StartTick(d) \/ RefuseTick(d) \/ ClaimNothing(d) \/ EndPass(d)
        PROVE  CountInv'
    <2>1. \A x \in Dispatchers : pc'[x] = "deliver" => pc[x] = "deliver"
      BY <1>4 DEF StartTick, RefuseTick, ClaimNothing, EndPass, TypeOK
    <2>2. UNCHANGED <<tableVars, claimVars, telegram>>
      BY <1>4 DEF StartTick, RefuseTick, ClaimNothing, EndPass
    <2>3. QED
      BY <2>1, <2>2, SendersLeave DEF tableVars, claimVars, telegram
  <1>5. ASSUME NEW d \in Dispatchers, Abandon(d) \/ Record(d) \/ Drop(d)
        PROVE  CountInv'
    <2>1. \A x \in Dispatchers :
             pc'[x] = "deliver" => pc[x] = "deliver" /\ row'[x] = row[x] /\ att'[x] = att[x]
      BY <1>5 DEF Abandon, Record, Drop, TypeOK
    <2>2. UNCHANGED <<kind, attempts, sends>>
      BY <1>5 DEF Abandon, Record, Drop, tableVars, telegram
    <2>3. QED
      BY <2>1, <2>2, SendersLeave
  <1>6. CASE Purge \/ Elapse \/ UNCHANGED vars
    <2>1. UNCHANGED <<kind, attempts, sends, pc, row, att>>
      BY <1>6 DEF Purge, Elapse, vars, tableVars, claimVars, tickVars, telegram
    <2>2. QED
      BY <2>1, SendersLeave
  <1>7. QED
    BY <1>1, <1>2, <1>3, <1>4, <1>5, <1>6 DEF Next, Claims, Deliver, DatabaseError, Crash

\* Telegram is never asked more often than the policy's maxAttempts, whatever
\* crashes, and however long a send is stuck past the lease of its claim.
THEOREM StuckSendsAreBounded ==
    ASSUME IsFiniteSet(Dispatchers)
    PROVE  Spec => []SendsWithinPolicy
  <1>1. TypeInv /\ CountInv => SendsWithinPolicy
    <2> SUFFICES ASSUME TypeInv, CountInv, NEW n \in Notifications
                 PROVE  sends[n] <= Limit(n)
      BY DEF SendsWithinPolicy
    <2>1. Senders(n) \in SUBSET Dispatchers
      BY DEF Senders
    <2>2. Cardinality(Senders(n)) \in Nat /\ sends[n] \in Nat /\ Limit(n) \in Nat
      BY <2>1, SendersCount, PolicyForType DEF TypeInv, TypeOK, Limit
    <2>3. QED
      BY <2>2 DEF CountInv
  <1>2. QED
    BY <1>1, InitTypeInv, NextTypeInv, InitVerdictInv, NextVerdictInv, InitCountInv,
       NextCountInv, PTL DEF Spec

(***************************************************************************)
(* The record of the attempts.  An attempt is counted by the claim and     *)
(* written by the record, so that a row in hand has one more attempt       *)
(* counted than written: the record has room for its own.                  *)
(***************************************************************************)

\* What HistoryMatchesRow says of one row.
RowHistory(n) ==
    /\ Len(history[n]) <= attempts[n]
    /\ \A i \in 1..Len(history[n]) :
          \/ /\ history[n][i] = "retry"
             /\ i = Len(history[n]) => status[n] \in {"pending", "processing"}
          \/ history[n][i] = status[n] /\ i = Len(history[n])

HistoryInv ==
    \A n \in Notifications :
        /\ RowHistory(n)
        /\ status[n] = "processing" => Len(history[n]) < attempts[n]

LEMMA InitHistoryInv == Init => HistoryInv
  <1> SUFFICES ASSUME Init, NEW n \in Notifications
               PROVE  RowHistory(n) /\ status[n] # "processing"
    BY DEF HistoryInv
  <1>1. history[n] = <<>> /\ attempts[n] = 0 /\ status[n] = "none"
    BY DEF Init
  <1>2. QED
    BY <1>1 DEF RowHistory

\* An unsettled row has only retries behind it, a row not yet queued nothing.
LEMMA UnsettledHistory ==
    ASSUME TypeOK, HistoryInv, NEW n \in Notifications,
           status[n] \in {"none", "pending", "processing"}
    PROVE  /\ history[n] \in Seq(Outcomes)
           /\ \A i \in 1..Len(history[n]) : history[n][i] = "retry"
           /\ status[n] = "none" => history[n] = <<>>
  <1>1. history[n] \in Seq(Outcomes) /\ Len(history[n]) \in Nat
    BY DEF TypeOK
  <1>2. \A i \in 1..Len(history[n]) : history[n][i] \in Outcomes
    BY <1>1
  <1>3. \A i \in 1..Len(history[n]) : history[n][i] = "retry"
    BY <1>2 DEF HistoryInv, RowHistory, Outcomes
  <1>4. ASSUME status[n] = "none" PROVE history[n] = <<>>
    <2>1. Len(history[n]) # 0 => Len(history[n]) \in 1..Len(history[n])
      BY <1>1
    <2>2. Len(history[n]) = 0
      BY <1>2, <1>4, <2>1 DEF HistoryInv, RowHistory, Outcomes
    <2>3. QED
      BY <1>1, <2>2
  <1>5. QED
    BY <1>1, <1>3, <1>4

LEMMA NextHistoryInv == TypeInv /\ LeaseInv /\ HistoryInv /\ [Next]_vars => HistoryInv'
  <1> SUFFICES ASSUME TypeOK, LeaseInv, HistoryInv, [Next]_vars
               PROVE  HistoryInv'
    BY DEF TypeInv
  <1>0. \A m \in Notifications :
           attempts[m] \in Nat /\ history[m] \in Seq(Outcomes) /\ Len(history[m]) \in Nat
    BY DEF TypeOK
  <1>1. ASSUME NEW n \in Notifications, NEW e \in EventTypes, Enqueue(n, e)
        PROVE  HistoryInv'
    <2>1. UNCHANGED <<attempts, history>> /\ status[n] = "none"
      BY <1>1 DEF Enqueue
    <2>2. status'[n] = "pending" /\ \A m \in Notifications \ {n} : status'[m] = status[m]
      BY <1>1 DEF Enqueue, TypeOK
    <2>3. history[n] = <<>>
      BY <2>1, UnsettledHistory
    <2>4. RowHistory(n)'
      BY <1>0, <2>1, <2>3 DEF RowHistory
    <2>5. QED
      BY <2>1, <2>2, <2>4 DEF HistoryInv, RowHistory
  <1>2. ASSUME NEW d \in Dispatchers, NEW n \in Notifications, Claim(d, n)
        PROVE  HistoryInv'
    <2>1. /\ UNCHANGED history
          /\ status[n] \in {"pending", "processing"} /\ status'[n] = "processing"
          /\ attempts'[n] = attempts[n] + 1
          /\ \A m \in Notifications \ {n} : status'[m] = status[m] /\ attempts'[m] = attempts[m]
      BY <1>2 DEF Claim, Claimable, TypeOK
    <2>2. \A i \in 1..Len(history[n]) : history[n][i] = "retry"
      BY <2>1, UnsettledHistory
    <2>3. RowHistory(n)' /\ Len(history'[n]) < attempts'[n]
      BY <1>0, <2>1, <2>2 DEF HistoryInv, RowHistory
    <2>4. QED
      BY <2>1, <2>3 DEF HistoryInv, RowHistory
  <1>3. ASSUME NEW d \in Dispatchers, Record(d)
        PROVE  HistoryInv'
    <2>1. PICK n \in Notifications : n = row[d]
      BY <1>3 DEF Record, TypeOK
    <2>2. PICK o \in Outcomes : o = outcome[d]
      BY <1>3, ProcessAssumption DEF Record, TypeOK
    <2>3. /\ UNCHANGED attempts
          /\ history'[n] = Append(history[n], o)
          /\ status'[n] = IF o = "retry" THEN "pending" ELSE o
          /\ \A m \in Notifications \ {n} : status'[m] = status[m] /\ history'[m] = history[m]
      BY <1>3, <2>1, <2>2 DEF Record, TypeOK
    <2>4. status[n] = "processing"
      BY <1>3, <2>1 DEF Record, LeaseInv, ClaimInv
    <2>5. \A i \in 1..Len(history[n]) : history[n][i] = "retry"
      BY <2>4, UnsettledHistory
    <2>6. /\ Len(history'[n]) = Len(history[n]) + 1
          /\ history'[n][Len(history[n]) + 1] = o
          /\ \A i \in 1..Len(history[n]) : history'[n][i] = "retry"
      BY <1>0, <2>3, <2>5
    <2>7. RowHistory(n)' /\ status'[n] # "processing"
      BY <1>0, <2>3, <2>4, <2>6 DEF HistoryInv, RowHistory, Outcomes
    <2>8. \A m \in Notifications \ {n} :
             /\ RowHistory(m)'
             /\ status'[m] = "processing" => Len(history'[m]) < attempts'[m]
      BY <2>3 DEF HistoryInv, RowHistory
    <2>9. QED
      BY <2>7, <2>8 DEF HistoryInv
  <1>4. CASE Purge
    <2>1. UNCHANGED attempts
      BY <1>4 DEF Purge
    <2>2. \A n \in Notifications :
             \/ history'[n] = history[n] /\ status'[n] = status[n]
             \/ history'[n] = <<>> /\ status'[n] # "processing"
      BY <1>4 DEF Purge
    <2>3. QED
      BY <1>0, <2>1, <2>2 DEF HistoryInv, RowHistory
  <1>5. ASSUME UNCHANGED <<status, attempts, history>>
        PROVE  HistoryInv'
    BY <1>5 DEF HistoryInv, RowHistory
  <1>6. ASSUME NEW d \in Dispatchers,
               \/ StartTick(d) \/ RefuseTick(d) \/ ClaimNothing(d) \/ EndPass(d)
               \/ Abandon(d) \/ Drop(d) \/ \E accept, ok \in BOOLEAN : Send(d, accept, ok)
        PROVE  HistoryInv'
    BY <1>5, <1>6
       DEF StartTick, RefuseTick, ClaimNothing, EndPass, Abandon, Drop, Send, tableVars
  <1>7. CASE Elapse \/ UNCHANGED vars
    BY <1>5, <1>7 DEF Elapse, vars, tableVars
  <1>8. QED
    BY <1>1, <1>2, <1>3, <1>4, <1>6, <1>7 DEF Next, Claims, Deliver, DatabaseError, Crash

\* With claims recorded within the lease, notification_attempts and
\* notification_outbox agree, whatever crashes: no attempt that no claim
\* counted, and one verdict, the row's own and the last.
THEOREM HistoriesMatchRows ==
    ASSUME MaxHold <= Lease
    PROVE  Spec => []HistoryMatchesRow
  <1>1. HistoryInv => HistoryMatchesRow
    BY DEF HistoryInv, RowHistory, HistoryMatchesRow
  <1>2. TypeInv /\ LeaseInv /\ HistoryInv /\ [Next]_vars => HistoryInv'
    BY NextHistoryInv
  <1>3. OutboxInv => TypeInv /\ LeaseInv
    BY DEF OutboxInv
  <1>4. QED
    BY <1>1, <1>2, <1>3, InitHistoryInv, OutboxInvariant, PTL DEF Spec

(***************************************************************************)
(* The outbox implements NotificationPromise.                              *)
(***************************************************************************)

LEMMA InitPromise == Init => Promise!Init
  <1> SUFFICES ASSUME Init
               PROVE  Promise!Init
    OBVIOUS
  <1>1. \A n \in Notifications : PhaseOf(n) = "none" /\ LimitOf(n) = 0 /\ SpentOf(n) = 0
    BY DEF Init, PhaseOf, LimitOf, SpentOf
  <1>2. QED
    BY <1>1 DEF Init, Promise!Init

\* A step that changes no row's phase, limit, attempts or delivery is none of
\* the promise's business.
LEMMA RowsStayPromise ==
    UNCHANGED <<kind, status, attempts, sends, delivered>> => UNCHANGED Promise!vars
  BY DEF Promise!vars, PhaseOf, LimitOf, SpentOf, Limit

LEMMA EnqueuePromise ==
    ASSUME OutboxInv, NEW n \in Notifications, NEW e \in EventTypes, Enqueue(n, e)
    PROVE  Promise!Queue(n, PolicyFor(e).maxAttempts)
  <1>1. /\ status[n] = "none" /\ attempts[n] = 0
        /\ status'[n] = "pending" /\ kind'[n] = e
        /\ \A m \in Notifications \ {n} : status'[m] = status[m] /\ kind'[m] = kind[m]
    BY DEF Enqueue, OutboxInv, VerdictInv, TypeInv, TypeOK
  <1>2. UNCHANGED <<attempts, sends, delivered>>
    BY DEF Enqueue, telegram
  <1>3. PhaseOf(n) = "none" /\ PhaseOf(n)' = "queued"
    BY <1>1 DEF PhaseOf
  <1>4. LimitOf(n) = 0 /\ LimitOf(n)' = PolicyFor(e).maxAttempts
    BY <1>1 DEF LimitOf, Limit
  <1>5. SpentOf(n) = 0 /\ SpentOf(n)' = 0
    BY <1>1, <1>2, <1>4, PolicyForType DEF SpentOf
  <1>6. \A m \in Notifications \ {n} :
           PhaseOf(m)' = PhaseOf(m) /\ LimitOf(m)' = LimitOf(m) /\ SpentOf(m)' = SpentOf(m)
    BY <1>1, <1>2 DEF PhaseOf, LimitOf, SpentOf, Limit
  <1>7. QED
    BY <1>2, <1>3, <1>4, <1>5, <1>6 DEF Promise!Queue

\* The attempt numbers and limits of the mapped state.
LEMMA LimitFacts ==
    ASSUME OutboxInv, NEW n \in Notifications, status[n] # "none"
    PROVE  /\ LimitOf(n) = Limit(n)
           /\ Limit(n) \in Nat \ {0}
           /\ attempts[n] \in Nat
           /\ sends[n] \in Nat
  BY PolicyForType DEF LimitOf, Limit, OutboxInv, TypeInv, TypeOK

LEMMA ClaimPromise ==
    ASSUME OutboxInv, NEW d \in Dispatchers, NEW n \in Notifications, Claim(d, n)
    PROVE  Promise!Spend(n) \/ UNCHANGED Promise!vars
  <1>1. /\ status[n] \in {"pending", "processing"}
        /\ status'[n] = "processing"
        /\ attempts'[n] = attempts[n] + 1
        /\ \A m \in Notifications \ {n} : status'[m] = status[m] /\ attempts'[m] = attempts[m]
    BY DEF Claim, Claimable, OutboxInv, TypeInv, TypeOK
  <1>2. UNCHANGED <<kind, sends, delivered>>
    BY DEF Claim, telegram
  <1>3. \A m \in Notifications : PhaseOf(m)' = PhaseOf(m) /\ LimitOf(m)' = LimitOf(m)
    BY <1>1, <1>2 DEF PhaseOf, LimitOf, Limit
  <1>4. \A m \in Notifications \ {n} : SpentOf(m)' = SpentOf(m)
    BY <1>1, <1>3 DEF SpentOf
  <1>5. /\ LimitOf(n) \in Nat /\ attempts[n] \in Nat
        /\ PhaseOf(n) = "queued"
    BY <1>1, LimitFacts DEF PhaseOf
  <1>6. CASE attempts[n] < LimitOf(n)
    <2>1. SpentOf(n) = attempts[n] /\ SpentOf(n)' = SpentOf(n) + 1
      BY <1>1, <1>3, <1>5, <1>6 DEF SpentOf
    <2>2. Promise!Spend(n)
      BY <1>2, <1>3, <1>4, <1>5, <1>6, <2>1 DEF Promise!Spend
    <2>3. QED
      BY <2>2
  <1>7. CASE ~(attempts[n] < LimitOf(n))
    <2>1. SpentOf(n)' = SpentOf(n)
      BY <1>1, <1>3, <1>5, <1>7 DEF SpentOf
    <2>2. QED
      BY <1>2, <1>3, <1>4, <2>1 DEF Promise!vars
  <1>8. QED
    BY <1>6, <1>7

LEMMA SendPromise ==
    ASSUME OutboxInv, NEW d \in Dispatchers, NEW accept \in BOOLEAN, NEW ok \in BOOLEAN, Send(d, accept, ok)
    PROVE  Promise!Offer(row[d], accept)
  <1> DEFINE n == row[d]
  <1>1. /\ pc[d] = "deliver" /\ n \in Notifications /\ att[d] \in Nat
        /\ att[d] <= Limit(n)
    BY PolicyForType DEF Send, Exhausted, Limit, OutboxInv, TypeInv, TypeOK
  <1>2. status[n] = "processing" /\ attempts[n] = att[d] /\ sends[n] < att[d]
    BY <1>1 DEF OutboxInv, LeaseInv, ClaimInv, SendsInv
  <1>3. PhaseOf(n) = "queued" /\ SpentOf(n) = att[d]
    BY <1>1, <1>2, LimitFacts DEF PhaseOf, SpentOf
  <1>4. UNCHANGED <<kind, status, attempts>>
    BY DEF Send, tableVars
  <1>5. \A m \in Notifications :
           PhaseOf(m)' = PhaseOf(m) /\ LimitOf(m)' = LimitOf(m) /\ SpentOf(m)' = SpentOf(m)
    BY <1>4 DEF PhaseOf, LimitOf, SpentOf, Limit
  <1>6. /\ sends'     = [sends EXCEPT ![n] = @ + 1]
        /\ delivered' = [delivered EXCEPT ![n] = @ \/ accept]
    BY DEF Send
  <1>7. QED
    BY <1>1, <1>2, <1>3, <1>5, <1>6 DEF Promise!Offer

LEMMA RecordPromise ==
    ASSUME OutboxInv, NEW d \in Dispatchers, Record(d),
           NEW n \in Notifications, n = row[d],
           NEW o \in Outcomes, o = outcome[d]
    PROVE  Promise!Settle(n) \/ Promise!GiveUp(n) \/ UNCHANGED Promise!vars
  <1>1. Holding(d)
    BY ProcessAssumption DEF Record, OutboxInv, TypeInv, TypeOK
  <1>2. /\ status'[n] = IF o = "retry" THEN "pending" ELSE o
        /\ \A m \in Notifications \ {n} : status'[m] = status[m]
    BY <1>1 DEF Record, OutboxInv, TypeInv, TypeOK
  <1>3. UNCHANGED <<kind, attempts, sends, delivered>>
    BY DEF Record, telegram
  <1>4. status[n] = "processing" /\ attempts[n] = att[d]
    BY <1>1 DEF OutboxInv, LeaseInv, ClaimInv
  <1>5. \A m \in Notifications : LimitOf(m)' = LimitOf(m) /\ SpentOf(m)' = SpentOf(m)
    BY <1>1, <1>2, <1>3, <1>4 DEF LimitOf, SpentOf, Limit, Outcomes
  <1>6. /\ PhaseOf(n) = "queued"
        /\ \A m \in Notifications \ {n} : PhaseOf(m)' = PhaseOf(m)
    BY <1>2, <1>4 DEF PhaseOf
  <1>7. CASE o = "sent"
    <2>1. PhaseOf(n)' = "sent"
      BY <1>2, <1>7 DEF PhaseOf
    <2>2. delivered[n]
      BY <1>7 DEF OutboxInv, VerdictInv
    <2>3. Promise!Settle(n)
      BY <1>3, <1>5, <1>6, <2>1, <2>2 DEF Promise!Settle
    <2>4. QED
      BY <2>3
  <1>8. CASE o = "failed"
    <2>1. PhaseOf(n)' = "failed"
      BY <1>2, <1>8 DEF PhaseOf
    <2>2. SpentOf(n) = LimitOf(n)
      <3>1. attempts[n] >= Limit(n)
        BY <1>4, <1>8 DEF OutboxInv, VerdictInv
      <3>2. QED
        BY <1>1, <1>4, <3>1, LimitFacts DEF SpentOf
    <2>3. Promise!GiveUp(n)
      BY <1>3, <1>5, <1>6, <2>1, <2>2 DEF Promise!GiveUp
    <2>4. QED
      BY <2>3
  <1>9. CASE o = "retry"
    <2>1. PhaseOf(n)' = PhaseOf(n)
      BY <1>2, <1>4, <1>9 DEF PhaseOf
    <2>2. QED
      BY <1>3, <1>5, <1>6, <2>1 DEF Promise!vars
  <1>10. QED
    BY <1>1, <1>7, <1>8, <1>9 DEF Outcomes

LEMMA PurgePromise ==
    ASSUME OutboxInv, Purge
    PROVE  \E S \in SUBSET Notifications : Promise!Forget(S)
  <1> DEFINE S == {n \in Notifications : status[n] = "sent" /\ dueIn[n] < -Retention}
  <1>1. \A n \in Notifications : status'[n] = IF n \in S THEN "purged" ELSE status[n]
    BY DEF Purge
  <1>2. UNCHANGED <<kind, attempts, sends, delivered>>
    BY DEF Purge, telegram
  <1>3. \A n \in Notifications :
           /\ PhaseOf(n)' = IF n \in S THEN "purged" ELSE PhaseOf(n)
           /\ LimitOf(n)' = LimitOf(n)
           /\ SpentOf(n)' = SpentOf(n)
    BY <1>1, <1>2 DEF PhaseOf, LimitOf, SpentOf, Limit
  <1>4. \A n \in S : PhaseOf(n) = "sent"
    BY DEF PhaseOf
  <1>5. Promise!Forget(S)
    BY <1>2, <1>3, <1>4 DEF Promise!Forget
  <1>6. QED
    BY <1>5

LEMMA NextPromise == OutboxInv /\ [Next]_vars => [Promise!Next]_Promise!vars
  <1> SUFFICES ASSUME OutboxInv, [Next]_vars
               PROVE  [Promise!Next]_Promise!vars
    OBVIOUS
  <1>1. ASSUME NEW n \in Notifications, NEW e \in EventTypes, Enqueue(n, e)
        PROVE  Promise!Next
    <2>1. Promise!Queue(n, PolicyFor(e).maxAttempts)
      BY <1>1, EnqueuePromise
    <2>2. QED
      BY <2>1 DEF Promise!Next
  <1>2. ASSUME NEW d \in Dispatchers, NEW n \in Notifications, Claim(d, n)
        PROVE  [Promise!Next]_Promise!vars
    <2>1. Promise!Spend(n) \/ UNCHANGED Promise!vars
      BY <1>2, ClaimPromise
    <2>2. QED
      BY <2>1 DEF Promise!Next
  <1>3. ASSUME NEW d \in Dispatchers, NEW accept \in BOOLEAN, NEW ok \in BOOLEAN, Send(d, accept, ok)
        PROVE  Promise!Next
    <2>1. row[d] \in Notifications
      BY <1>3 DEF Send, OutboxInv, TypeInv, TypeOK
    <2>2. Promise!Offer(row[d], accept)
      BY <1>3, SendPromise
    <2>3. QED
      BY <2>1, <2>2 DEF Promise!Next
  <1>4. ASSUME NEW d \in Dispatchers, Record(d)
        PROVE  [Promise!Next]_Promise!vars
    <2>1. row[d] \in Notifications /\ outcome[d] \in Outcomes
      BY <1>4, ProcessAssumption DEF Record, OutboxInv, TypeInv, TypeOK
    <2>2. PICK n \in Notifications : n = row[d]
      BY <2>1
    <2>3. Promise!Settle(n) \/ Promise!GiveUp(n) \/ UNCHANGED Promise!vars
      BY <1>4, <2>1, <2>2, RecordPromise
    <2>4. QED
      BY <2>2, <2>3 DEF Promise!Next
  <1>5. CASE Purge
    <2>1. \E S \in SUBSET Notifications : Promise!Forget(S)
      BY <1>5, PurgePromise
    <2>2. QED
      BY <2>1 DEF Promise!Next
  <1>6. ASSUME NEW d \in Dispatchers,
               \/ StartTick(d) \/ RefuseTick(d) \/ ClaimNothing(d) \/ EndPass(d)
               \/ Abandon(d) \/ Drop(d)
        PROVE  UNCHANGED Promise!vars
    BY <1>6, RowsStayPromise
       DEF StartTick, RefuseTick, ClaimNothing, EndPass, Abandon, Drop, tableVars, telegram
  <1>7. CASE Elapse \/ UNCHANGED vars
    BY <1>7, RowsStayPromise DEF Elapse, vars, tableVars, telegram
  <1>8. QED
    BY <1>1, <1>2, <1>3, <1>4, <1>5, <1>6, <1>7 DEF Next, Claims, Deliver, DatabaseError, Crash

\* With claims recorded within the lease, the outbox keeps its promise: every
\* step of any number of dispatchers is a step of the abstract queue or none.
THEOREM OutboxKeepsPromise ==
    ASSUME MaxHold <= Lease
    PROVE  Spec => PromiseKept
  <1>1. OutboxInv /\ [Next]_vars => [Promise!Next]_Promise!vars
    BY NextPromise
  <1>2. QED
    BY <1>1, InitPromise, OutboxInvariant, PTL DEF Spec, PromiseKept, Promise!Spec
=============================================================================
