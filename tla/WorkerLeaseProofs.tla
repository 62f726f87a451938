------------------------- MODULE WorkerLeaseProofs --------------------------
(***************************************************************************)
(* Proofs, for any workers, writers, fills, funding hours, lease time and  *)
(* bounds, that the revision fence of WorkerLease loses no write.          *)
(***************************************************************************)
EXTENDS WorkerLease, TLAPS

\* The inductive invariant.  EconomicsOnce and HolderIsLastAcquirer are not
\* inductive alone: a save writes what was read earlier, so what every copy may
\* still contain (CopiesCoherent) has to be carried along.
Inv == TypeOK /\ CopiesCoherent /\ EconomicsOnce /\ HolderIsLastAcquirer

-----------------------------------------------------------------------------
\* What a pass writes is of the row's shape and books no cash.
LEMMA PassValuesType ==
    ASSUME NEW d \in Deployment, NEW e \in PassValues(d)
    PROVE  /\ e \in Deployment
           /\ e.cash = d.cash
           /\ e.holder = d.holder
           /\ e.revision = d.revision
BY DEF PassValues, Paused, PauseStatus, Deployment, Statuses

\* A write of a well-formed deployment leaves a well-formed, newer row.
LEMMA WriteType ==
    ASSUME row \in Deployment, row.revision <= MaxRevision,
           NEW d \in Deployment, Write(d)
    PROVE  /\ row' \in Deployment
           /\ row'.revision = row.revision + 1
           /\ row'.status = d.status
           /\ row'.selfClearing = d.selfClearing
           /\ row'.latched = d.latched
           /\ row'.cash = d.cash
           /\ row'.holder = d.holder
           /\ row'.left = d.left
BY LeaseAssumption DEF Write, Deployment, Revisions

LEMMA CreatedType == Created \in Deployment
BY LeaseAssumption DEF Created, Deployment, Statuses, Revisions

\* Whatever was read before a write is older than the row it leaves.
LEMMA WriteKeepsCopies ==
    ASSUME TypeOK, CopiesCoherent, row'.revision = row.revision + 1,
           \A w \in Workers : snap'[w] \in {snap[w], Created},
           \A o \in Writers : seen'[o] \in {seen[o], Created}
    PROVE  CopiesCoherent'
<1>1. /\ row.revision \in Nat
      /\ \A w \in Workers : snap[w].revision \in Nat
      /\ \A o \in Writers : seen[o].revision \in Nat
      /\ Created.revision \in Nat
  BY CreatedType, LeaseAssumption DEF TypeOK, Deployment, Revisions
<1>2. \A d : d.revision \in Nat /\ Coherent(d) => d.revision <= row.revision
  BY DEF Coherent
<1>3. /\ \A w \in Workers : snap'[w].revision \in Nat /\ snap'[w].revision <= row.revision
      /\ \A o \in Writers : seen'[o].revision \in Nat /\ seen'[o].revision <= row.revision
      /\ Created.revision <= row.revision
  BY <1>1, <1>2 DEF CopiesCoherent
<1> QED
  BY <1>1, <1>3 DEF CopiesCoherent, Coherent

\* A read copies the row; dropping a read leaves the row's first version.
LEMMA ReadKeepsCopies ==
    ASSUME TypeOK, CopiesCoherent, HolderIsLastAcquirer,
           UNCHANGED <<row, lastAcquirer>>,
           \A w \in Workers : snap'[w] \in {snap[w], Created, row},
           \A o \in Writers : seen'[o] \in {seen[o], Created, row}
    PROVE  CopiesCoherent'
<1>1. row.revision \in Nat
  BY LeaseAssumption DEF TypeOK, Deployment, Revisions
<1>2. Coherent(row)
  BY <1>1 DEF Coherent, HolderIsLastAcquirer
<1>3. \A d : Coherent(d) => Coherent(d)'
  BY DEF Coherent
<1>4. /\ Coherent(Created)
      /\ \A w \in Workers : Coherent(snap'[w])
      /\ \A o \in Writers : Coherent(seen'[o])
  BY <1>2 DEF CopiesCoherent
<1> QED
  BY <1>4 DEF CopiesCoherent, Coherent

-----------------------------------------------------------------------------
LEMMA InvInit == Init => Inv
<1> SUFFICES ASSUME Init PROVE Inv
  OBVIOUS
<1>1. TypeOK
  BY CreatedType, LeaseAssumption DEF Init, TypeOK, Revisions
<1>2. Coherent(Created)
  BY DEF Init, Coherent, Created
<1>3. CopiesCoherent
  BY <1>2 DEF Init, CopiesCoherent
<1>4. EconomicsOnce /\ HolderIsLastAcquirer
  BY DEF Init, Created, EconomicsOnce, HolderIsLastAcquirer
<1> QED
  BY <1>1, <1>3, <1>4 DEF Inv

\* A worker's step preserves the invariant.
LEMMA WorkerStepInv ==
    ASSUME Inv, NEW w \in Workers, WorkerStep(w)
    PROVE  Inv'
<1> USE DEF Inv
<1>0. /\ row \in Deployment /\ snap[w] \in Deployment
      /\ row.revision \in Nat /\ Created \in Deployment
      /\ \A v \in Workers : snap[v] \in Deployment
      /\ \A o \in Writers : seen[o] \in Deployment
  BY CreatedType, LeaseAssumption DEF TypeOK, Deployment, Revisions
<1>1. CASE AcquireLease(w)
  <2> DEFINE d == [row EXCEPT !.holder = w, !.left = TTL]
  <2>0. TTL \in 0..TTL
    BY LeaseAssumption
  <2>1. d \in Deployment /\ d.cash = row.cash /\ d.holder = w
    BY <1>0, <2>0 DEF Deployment
  <2> HIDE DEF d
  <2>2. row.revision <= MaxRevision /\ Write(d)
    BY <1>1 DEF AcquireLease, d
  <2>3. /\ row' \in Deployment /\ row'.revision = row.revision + 1
        /\ row'.cash = row.cash /\ row'.holder = w
    BY <1>0, <2>1, <2>2, WriteType
  <2>4. TypeOK'
    BY <1>1, <2>3 DEF AcquireLease, TypeOK
  <2>5. CopiesCoherent'
    BY <1>1, <2>3, WriteKeepsCopies DEF AcquireLease
  <2> QED
    BY <1>1, <2>3, <2>4, <2>5 DEF AcquireLease, EconomicsOnce, HolderIsLastAcquirer
<1>2. CASE BeginPass(w)
  <2>1. TypeOK'
    BY <1>0, <1>2 DEF BeginPass, TypeOK, Deployment
  <2>2. CopiesCoherent'
    BY <1>2, ReadKeepsCopies DEF BeginPass, TypeOK
  <2> QED
    BY <1>2, <2>1, <2>2 DEF BeginPass, EconomicsOnce, HolderIsLastAcquirer
<1>3. CASE Reload(w)
  <2>1. TypeOK'
    BY <1>0, <1>3 DEF Reload, TypeOK
  <2>2. CopiesCoherent'
    BY <1>3, ReadKeepsCopies DEF Reload, TypeOK
  <2> QED
    BY <1>3, <2>1, <2>2 DEF Reload, EconomicsOnce, HolderIsLastAcquirer
<1>4. CASE SaveDeployment(w)
  <2>1. /\ snap[w].revision = row.revision
        /\ row.revision <= MaxRevision
    BY <1>4 DEF SaveDeployment, RequireRevision, RevisionIs
  <2>2. PICK d \in PassValues(snap[w]) : Write(d)
    BY <1>4 DEF SaveDeployment
  <2>3. /\ d \in Deployment /\ d.cash = snap[w].cash /\ d.holder = snap[w].holder
    BY <1>0, PassValuesType
  <2>4. /\ row' \in Deployment /\ row'.revision = row.revision + 1
        /\ row'.cash = snap[w].cash /\ row'.holder = snap[w].holder
    BY <1>0, <2>1, <2>2, <2>3, WriteType
  <2>5. row'.cash = row.cash /\ row'.holder \in {NoHolder, lastAcquirer}
    BY <2>1, <2>4 DEF CopiesCoherent, Coherent
  <2>6. row'.revision \in Revisions
    BY <2>4 DEF Deployment
  <2>7. TypeOK'
    BY <1>4, <2>4, <2>6 DEF SaveDeployment, TypeOK
  <2>8. CopiesCoherent'
    BY <1>4, <2>4, WriteKeepsCopies DEF SaveDeployment
  <2> QED
    BY <1>4, <2>5, <2>7, <2>8 DEF SaveDeployment, EconomicsOnce, HolderIsLastAcquirer
<1>5. ASSUME NEW latch \in BOOLEAN, BreakerPause(w, latch) PROVE Inv'
  <2> DEFINE d == BreakerPaused(latch)
  <2>1. d \in Deployment /\ d.cash = row.cash /\ d.holder = row.holder
    BY <1>0 DEF BreakerPaused, Deployment, Statuses
  <2> HIDE DEF d
  <2>2. row.revision <= MaxRevision /\ Write(d)
    BY <1>5 DEF BreakerPause, RevisionIs, d
  <2>3. /\ row' \in Deployment /\ row'.revision = row.revision + 1
        /\ row'.cash = row.cash /\ row'.holder = row.holder
    BY <1>0, <2>1, <2>2, WriteType
  <2>4. row'.revision \in Revisions
    BY <2>3 DEF Deployment
  <2>5. TypeOK'
    BY <1>5, <2>3, <2>4 DEF BreakerPause, TypeOK
  <2>6. CopiesCoherent'
    BY <1>5, <2>3, WriteKeepsCopies DEF BreakerPause
  <2> QED
    BY <1>5, <2>3, <2>5, <2>6 DEF BreakerPause, EconomicsOnce, HolderIsLastAcquirer
<1>6. ASSUME NEW f \in Fills, ApplyFill(w, f) PROVE Inv'
  <2>1. CASE f \in ledger
    <3>1. /\ UNCHANGED <<row, ledger, proc, snap, request, seen, intents, lastAcquirer>>
          /\ fence' = [fence EXCEPT ![w] = row.revision]
      BY <1>6, <2>1 DEF ApplyFill
    <3>2. row.revision \in Revisions
      BY <1>0 DEF Deployment
    <3>3. TypeOK'
      BY <3>1, <3>2 DEF TypeOK
    <3>4. CopiesCoherent'
      BY <3>1, ReadKeepsCopies
    <3> QED
      BY <3>1, <3>3, <3>4 DEF EconomicsOnce, HolderIsLastAcquirer
  <2>2. CASE f \notin ledger
    <3>1. PICK d \in {row, Paused(row)} : Write([d EXCEPT !.cash[f] = @ + 1])
      BY <1>6, <2>2 DEF ApplyFill
    <3>2. /\ row.revision <= MaxRevision
          /\ ledger' = ledger \cup {f}
          /\ fence' = [fence EXCEPT ![w] = row.revision + 1]
          /\ UNCHANGED <<proc, snap, request, seen, intents, lastAcquirer>>
      BY <1>6, <2>2 DEF ApplyFill
    <3>3. /\ d \in Deployment /\ d.cash = row.cash /\ d.holder = row.holder
      BY <1>0, <3>1 DEF Paused, PauseStatus, Deployment, Statuses
    <3> DEFINE e == [d EXCEPT !.cash[f] = @ + 1]
    <3>4. f \in Entries /\ row.cash \in [Entries -> Nat]
      BY <1>0 DEF Entries, Deployment
    <3>5. /\ e \in Deployment /\ e.holder = row.holder
          /\ e.cash = [row.cash EXCEPT ![f] = row.cash[f] + 1]
      <4>1. [row.cash EXCEPT ![f] = row.cash[f] + 1] \in [Entries -> Nat]
        BY <3>4
      <4> QED
        BY <3>3, <3>4, <4>1 DEF Deployment
    <3>6. Write(e)
      BY <3>1
    <3> HIDE DEF e
    <3>7. /\ row' \in Deployment /\ row'.revision = row.revision + 1
          /\ row'.cash = [row.cash EXCEPT ![f] = row.cash[f] + 1]
          /\ row'.holder = row.holder
      BY <1>0, <3>2, <3>5, <3>6, WriteType
    <3>8. row'.revision \in Revisions
      BY <3>7 DEF Deployment
    <3>9. TypeOK'
      BY <3>2, <3>4, <3>7, <3>8 DEF TypeOK
    <3>10. CopiesCoherent'
      BY <3>2, <3>7, WriteKeepsCopies
    <3>11. EconomicsOnce'
      BY <2>2, <3>2, <3>4, <3>7 DEF EconomicsOnce
    <3> QED
      BY <3>2, <3>7, <3>9, <3>10, <3>11 DEF HolderIsLastAcquirer
  <2> QED
    BY <2>1, <2>2
<1>7. ASSUME NEW hours \in SUBSET FundingHours, ApplyFunding(w, hours) PROVE Inv'
  <2> DEFINE unseen == hours \ ledger
             booked == [e \in Entries |-> row.cash[e] + (IF e \in unseen THEN 1 ELSE 0)]
             d == [row EXCEPT !.cash = booked]
  <2>1. /\ row.revision <= MaxRevision
        /\ ledger' = ledger \cup unseen
        /\ Write(d)
        /\ fence' = [fence EXCEPT ![w] = row.revision + 1]
        /\ UNCHANGED <<proc, snap, request, seen, intents, lastAcquirer>>
    BY <1>7 DEF ApplyFunding, RevisionIs
  <2>2. booked \in [Entries -> Nat]
    BY <1>0 DEF Deployment
  <2>3. \A e \in Entries : booked[e] = row.cash[e] + (IF e \in unseen THEN 1 ELSE 0)
    OBVIOUS
  <2>4. unseen \subseteq Entries /\ unseen \cap ledger = {}
    BY DEF Entries
  <2> HIDE DEF unseen, booked
  <2>5. d \in Deployment /\ d.cash = booked /\ d.holder = row.holder
    BY <1>0, <2>2 DEF Deployment
  <2> HIDE DEF d
  <2>6. /\ row' \in Deployment /\ row'.revision = row.revision + 1
        /\ row'.cash = booked /\ row'.holder = row.holder
    BY <1>0, <2>1, <2>5, WriteType
  <2>7. row'.revision \in Revisions
    BY <2>6 DEF Deployment
  <2>8. TypeOK'
    BY <2>1, <2>4, <2>6, <2>7 DEF TypeOK
  <2>9. CopiesCoherent'
    BY <2>1, <2>6, WriteKeepsCopies
  <2>10. EconomicsOnce'
    BY <2>1, <2>3, <2>4, <2>6 DEF EconomicsOnce
  <2> QED
    BY <2>1, <2>6, <2>8, <2>9, <2>10 DEF HolderIsLastAcquirer
<1>8. CASE SaveIntent(w)
  <2>1. TypeOK'
    BY <1>8, LeaseAssumption DEF SaveIntent, TypeOK
  <2>2. CopiesCoherent'
    BY <1>8, ReadKeepsCopies DEF SaveIntent
  <2> QED
    BY <1>8, <2>1, <2>2 DEF SaveIntent, EconomicsOnce, HolderIsLastAcquirer
<1>9. CASE EndPass(w) \/ Crash(w)
  <2>1. 1 \in Revisions
    BY LeaseAssumption DEF Revisions
  <2>2. TypeOK'
    BY <1>0, <1>9, <2>1 DEF EndPass, Crash, TypeOK
  <2>3. CopiesCoherent'
    BY <1>9, ReadKeepsCopies DEF EndPass, Crash, TypeOK
  <2> QED
    BY <1>9, <2>2, <2>3 DEF EndPass, Crash, EconomicsOnce, HolderIsLastAcquirer
<1>10. CASE StopWorker(w)
  <2>1. /\ row' \in Deployment
        /\ row'.holder \in {row.holder, NoHolder}
        /\ row'.revision = row.revision /\ row'.status = row.status
        /\ row'.selfClearing = row.selfClearing /\ row'.latched = row.latched
        /\ row'.cash = row.cash
    <3>1. 0 \in 0..TTL
      BY LeaseAssumption
    <3> QED
      BY <1>0, <1>10, <3>1 DEF StopWorker, Deployment
  <2>2. TypeOK'
    BY <1>10, <2>1 DEF StopWorker, TypeOK
  <2>3. CopiesCoherent'
    BY <1>10, <2>1 DEF StopWorker, CopiesCoherent, Coherent
  <2> QED
    BY <1>10, <2>1, <2>2, <2>3 DEF StopWorker, EconomicsOnce, HolderIsLastAcquirer
<1> QED
  BY <1>1, <1>2, <1>3, <1>4, <1>5, <1>6, <1>7, <1>8, <1>9, <1>10 DEF WorkerStep

\* A request's step preserves the invariant: its write is computed from a copy
\* of the row's revision, or changes columns of the stored row.
LEMMA WriterStepInv ==
    ASSUME Inv, NEW o \in Writers, WriterStep(o)
    PROVE  Inv'
<1> USE DEF Inv
<1>0. /\ row \in Deployment /\ seen[o] \in Deployment
      /\ row.revision \in Nat /\ Created \in Deployment
  BY CreatedType, LeaseAssumption DEF TypeOK, Deployment, Revisions
<1>1. ASSUME RevisionIs(seen[o].revision), Finish(o),
             NEW d \in Deployment, Write(d),
             d.cash = row.cash, d.holder \in {NoHolder, lastAcquirer}
      PROVE  Inv'
  <2>1. /\ row' \in Deployment /\ row'.revision = row.revision + 1
        /\ row'.cash = row.cash /\ row'.holder \in {NoHolder, lastAcquirer}
    BY <1>0, <1>1, WriteType DEF RevisionIs
  <2>2. TypeOK'
    BY <1>0, <1>1, <2>1 DEF Finish, TypeOK
  <2>3. CopiesCoherent'
    BY <1>1, <2>1, WriteKeepsCopies DEF Finish, TypeOK
  <2> QED
    BY <1>1, <2>1, <2>2, <2>3 DEF Finish, EconomicsOnce, HolderIsLastAcquirer
<1>2. RevisionIs(seen[o].revision) =>
         /\ seen[o].cash = row.cash
         /\ seen[o].holder \in {NoHolder, lastAcquirer}
  BY DEF RevisionIs, CopiesCoherent, Coherent
<1>3. CASE Read(o)
  <2>1. TypeOK'
    BY <1>0, <1>3 DEF Read, TypeOK
  <2>2. CopiesCoherent'
    BY <1>3, ReadKeepsCopies DEF Read, TypeOK
  <2> QED
    BY <1>3, <2>1, <2>2 DEF Read, EconomicsOnce, HolderIsLastAcquirer
<1>4. ASSUME NEW s \in Statuses, SetStatus(o, s) PROVE Inv'
  <2> DEFINE d == [seen[o] EXCEPT !.status = s, !.selfClearing = FALSE]
  <2>1. d \in Deployment /\ d.cash = seen[o].cash /\ d.holder = seen[o].holder
    BY <1>0 DEF Deployment
  <2>2. RevisionIs(seen[o].revision) /\ Finish(o) /\ Write(d)
    BY <1>4 DEF SetStatus
  <2> HIDE DEF d
  <2> QED
    BY <1>1, <1>2, <2>1, <2>2
<1>5. CASE ResetLatches(o)
  <2> DEFINE d == [seen[o] EXCEPT !.latched = FALSE]
  <2>1. d \in Deployment /\ d.cash = seen[o].cash /\ d.holder = seen[o].holder
    BY <1>0 DEF Deployment
  <2>2. RevisionIs(seen[o].revision) /\ Finish(o) /\ Write(d)
    BY <1>5 DEF ResetLatches
  <2> HIDE DEF d
  <2> QED
    BY <1>1, <1>2, <2>1, <2>2
<1>6. CASE PauseSleeve(o)
  <2> DEFINE d == [seen[o] EXCEPT !.status = "paused", !.selfClearing = FALSE]
  <2>1. d \in Deployment /\ d.cash = seen[o].cash /\ d.holder = seen[o].holder
    BY <1>0 DEF Deployment, Statuses
  <2>2. RevisionIs(seen[o].revision) /\ Finish(o) /\ Write(d)
    BY <1>6 DEF PauseSleeve
  <2> HIDE DEF d
  <2> QED
    BY <1>1, <1>2, <2>1, <2>2
<1>7. CASE FleetStop(o)
  <2> DEFINE d == [row EXCEPT !.status = "stopped", !.selfClearing = FALSE]
  <2>1. d \in Deployment /\ d.cash = row.cash /\ d.holder = row.holder
    BY <1>0 DEF Deployment, Statuses
  <2>2. RevisionIs(seen[o].revision) /\ Finish(o) /\ Write(d)
    BY <1>7 DEF FleetStop
  <2> HIDE DEF d
  <2> QED
    BY <1>1, <2>1, <2>2 DEF HolderIsLastAcquirer
<1>8. ASSUME NEW latch \in BOOLEAN, PausePeer(o, latch) PROVE Inv'
  <2> DEFINE d == BreakerPaused(latch)
  <2>1. d \in Deployment /\ d.cash = row.cash /\ d.holder = row.holder
    BY <1>0 DEF BreakerPaused, Deployment, Statuses
  <2>2. RevisionIs(seen[o].revision) /\ Finish(o) /\ Write(d)
    BY <1>8 DEF PausePeer
  <2> HIDE DEF d
  <2> QED
    BY <1>1, <2>1, <2>2 DEF HolderIsLastAcquirer
<1>9. CASE Abandon(o)
  <2>1. TypeOK'
    BY <1>0, <1>9 DEF Abandon, Finish, TypeOK
  <2>2. CopiesCoherent'
    BY <1>9, ReadKeepsCopies DEF Abandon, Finish, TypeOK
  <2> QED
    BY <1>9, <2>1, <2>2 DEF Abandon, Finish, EconomicsOnce, HolderIsLastAcquirer
<1>10. CASE SyncAllocation(o)
  BY <1>0, <1>1, <1>2, <1>10 DEF SyncAllocation
<1> QED
  BY <1>3, <1>4, <1>5, <1>6, <1>7, <1>8, <1>9, <1>10 DEF WriterStep

\* Time ages the lease columns of the row and of its copies, nothing else.
LEMMA TickInv == Inv /\ Tick => Inv'
<1> SUFFICES ASSUME Inv, Tick PROVE Inv'
  OBVIOUS
<1> USE DEF Inv
<1> DEFINE aged(d) == [d EXCEPT !.left = IF d.left > 0 THEN d.left - 1 ELSE 0]
<1>1. ASSUME NEW d \in Deployment
      PROVE  /\ aged(d) \in Deployment
             /\ aged(d).status = d.status /\ aged(d).selfClearing = d.selfClearing
             /\ aged(d).latched = d.latched /\ aged(d).cash = d.cash
             /\ aged(d).holder = d.holder /\ aged(d).revision = d.revision
  <2>1. (IF d.left > 0 THEN d.left - 1 ELSE 0) \in 0..TTL
    BY LeaseAssumption DEF Deployment
  <2> QED
    BY <2>1 DEF Deployment
<1>2. /\ row' = aged(row)
      /\ \A w \in Workers : snap'[w] = aged(snap[w])
      /\ \A o \in Writers : seen'[o] = aged(seen[o])
      /\ snap' = [w \in Workers |-> aged(snap[w])]
      /\ seen' = [o \in Writers |-> aged(seen[o])]
      /\ UNCHANGED <<ledger, proc, fence, request, intents, lastAcquirer>>
  BY DEF Tick
<1> HIDE DEF aged
<1>3. TypeOK'
  BY <1>1, <1>2 DEF TypeOK
<1>4. /\ row'.status = row.status /\ row'.selfClearing = row.selfClearing
      /\ row'.latched = row.latched /\ row'.cash = row.cash
      /\ row'.holder = row.holder /\ row'.revision = row.revision
  BY <1>1, <1>2 DEF TypeOK
<1>5. \A d : Coherent(d) => Coherent(d)'
  BY <1>2, <1>4 DEF Coherent
<1>6. /\ \A w \in Workers : Coherent(snap'[w])
      /\ \A o \in Writers : Coherent(seen'[o])
  <2>1. \A d \in Deployment : Coherent(d) => Coherent(aged(d))
    BY <1>1 DEF Coherent
  <2> QED
    BY <1>2, <2>1 DEF TypeOK, CopiesCoherent
<1>7. CopiesCoherent'
  BY <1>2, <1>4, <1>6 DEF CopiesCoherent, Coherent
<1> QED
  BY <1>2, <1>3, <1>4, <1>7 DEF EconomicsOnce, HolderIsLastAcquirer

LEMMA InvNext == Inv /\ [Next]_vars => Inv'
<1>1. ASSUME Inv, UNCHANGED vars PROVE Inv'
  BY <1>1 DEF Inv, vars, TypeOK, CopiesCoherent, Coherent, EconomicsOnce,
              HolderIsLastAcquirer
<1> QED
  BY <1>1, WorkerStepInv, WriterStepInv, TickInv DEF Next

LEMMA InvAlways == Spec => []Inv
BY InvInit, InvNext, PTL DEF Spec

-----------------------------------------------------------------------------
\* Every variable keeps its shape, for any number of workers and requests.
THEOREM TypeCorrect == Spec => []TypeOK
<1>1. Inv => TypeOK
  BY DEF Inv
<1> QED
  BY <1>1, InvAlways, PTL

\* No interleaving of passes, requests, crashes and clean stops loses a fill or
\* a funding hour from the cash column or books one twice.
THEOREM EconomicsBookedOnce == Spec => []EconomicsOnce
<1>1. Inv => EconomicsOnce
  BY DEF Inv
<1> QED
  BY <1>1, InvAlways, PTL

\* The revision names one version of the row, so compare-and-swap on it admits
\* no write computed from stale columns.
THEOREM RevisionsNameVersions == Spec => []CopiesCoherent
<1>1. Inv => CopiesCoherent
  BY DEF Inv
<1> QED
  BY <1>1, InvAlways, PTL

\* The holder column never goes back to a worker that lost the book.
THEOREM HolderNeverRegresses == Spec => []HolderIsLastAcquirer
<1>1. Inv => HolderIsLastAcquirer
  BY DEF Inv
<1> QED
  BY <1>1, InvAlways, PTL

\* save_intent admits no pass whose book another worker took and still holds.
THEOREM IntentsFenced == Spec => FencedIntents
<1>1. Inv /\ [Next]_vars =>
        [\A w \in Workers :
           intents'[w] # intents[w] => row.holder = NoHolder \/ lastAcquirer = w]_vars
  <2> SUFFICES ASSUME Inv, Next, NEW v \in Workers, intents'[v] # intents[v]
               PROVE  row.holder = NoHolder \/ lastAcquirer = v
    OBVIOUS
  <2>1. PICK w \in Workers : SaveIntent(w)
    BY DEF Next, WorkerStep, WriterStep, AcquireLease, BeginPass, Reload, SaveDeployment,
           BreakerPause, ApplyFill, ApplyFunding, EndPass, StopWorker, Crash, Read,
           SetStatus, ResetLatches, PauseSleeve, SyncAllocation, FleetStop,
           PausePeer, Abandon, Finish, Tick
  <2>2. v = w
    BY <2>1 DEF SaveIntent, Inv, TypeOK
  <2> QED
    BY <2>1, <2>2 DEF SaveIntent, HolderAllows, Inv, HolderIsLastAcquirer
<1> QED
  BY <1>1, InvAlways, PTL DEF Spec, FencedIntents

\* A pass resumes a paused book only from a pause that the stored row says clears
\* itself: a save is computed from a copy, but one of the row's revision, whose
\* pause reason and latch are therefore the row's.
LEMMA WorkerResumes ==
    ASSUME Inv, NEW w \in Workers, WorkerStep(w),
           row.status = "paused", row'.status = "running"
    PROVE  row.selfClearing /\ ~row.latched
<1>0. row \in Deployment /\ snap[w] \in Deployment
  BY DEF Inv, TypeOK
<1>1. CASE \/ AcquireLease(w) \/ BeginPass(w) \/ Reload(w) \/ SaveIntent(w)
           \/ EndPass(w) \/ StopWorker(w) \/ Crash(w)
  <2>1. row'.status = row.status
    BY <1>0, <1>1 DEF AcquireLease, BeginPass, Reload, SaveIntent, EndPass, StopWorker,
                      Crash, Write, Deployment
  <2> QED
    BY <2>1
<1>2. CASE SaveDeployment(w)
  <2>1. snap[w].revision = row.revision
    BY <1>2 DEF SaveDeployment, RequireRevision, RevisionIs
  <2>2. /\ snap[w].status = row.status /\ snap[w].latched = row.latched
        /\ snap[w].selfClearing = row.selfClearing
    BY <2>1 DEF Inv, CopiesCoherent, Coherent
  <2>3. PICK d \in PassValues(snap[w]) : Write(d)
    BY <1>2 DEF SaveDeployment
  <2>4. d \in Deployment /\ d.status = "running"
    BY <1>0, <2>3, PassValuesType DEF Write, Deployment
  <2> QED
    BY <1>0, <2>2, <2>3, <2>4 DEF PassValues, Paused, PauseStatus, Deployment
<1>3. ASSUME NEW latch \in BOOLEAN, BreakerPause(w, latch) PROVE row'.status = row.status
  BY <1>0, <1>3 DEF BreakerPause, BreakerPaused, Write, Deployment
<1>4. ASSUME NEW f \in Fills, ApplyFill(w, f) PROVE row'.status = row.status
  <2>1. CASE UNCHANGED row
    BY <2>1
  <2>2. ASSUME NEW d \in {row, Paused(row)}, Write([d EXCEPT !.cash[f] = @ + 1])
        PROVE  row'.status = row.status
    <3>1. d \in Deployment /\ d.status = row.status
      BY <1>0 DEF Paused, PauseStatus, Deployment, Statuses
    <3> QED
      BY <2>2, <3>1 DEF Write, Deployment
  <2> QED
    BY <1>4, <2>1, <2>2 DEF ApplyFill
<1>5. ASSUME NEW hours \in SUBSET FundingHours, ApplyFunding(w, hours)
      PROVE  row'.status = row.status
  BY <1>0, <1>5 DEF ApplyFunding, Write, Deployment
<1> QED
  BY <1>1, <1>2, <1>3, <1>4, <1>5 DEF WorkerStep

\* An operator's pause, a fault or a latch written while a worker is in its pass is
\* not resumed by _clear_feed_only_pause or _clear_data_gap_only_pause, nor by any
\* other write of any number of workers; a request may resume the book.
THEOREM OtherPausesStay == Spec => OtherPausesKept
<1>1. Inv /\ [Next]_vars =>
        [row.status = "paused" /\ row'.status = "running" =>
           \/ row.selfClearing /\ ~row.latched
           \/ \E o \in Writers : request[o] = "read" /\ request'[o] = "idle"]_vars
  <2> SUFFICES ASSUME Inv, Next, row.status = "paused", row'.status = "running"
               PROVE  \/ row.selfClearing /\ ~row.latched
                      \/ \E o \in Writers : request[o] = "read" /\ request'[o] = "idle"
    OBVIOUS
  <2>1. CASE \E w \in Workers : WorkerStep(w)
    BY <2>1, WorkerResumes
  <2>2. ASSUME NEW o \in Writers, WriterStep(o)
        PROVE  request[o] = "read" /\ request'[o] = "idle"
    <3>1. CASE Read(o)
      BY <3>1 DEF Read
    <3>2. CASE Finish(o)
      BY <3>2 DEF Finish, Inv, TypeOK
    <3> QED
      BY <2>2, <3>1, <3>2 DEF WriterStep, SetStatus, ResetLatches, PauseSleeve, SyncAllocation,
                              FleetStop, PausePeer, Abandon
  <2>3. CASE Tick
    BY <2>3 DEF Tick, Inv, TypeOK, Deployment
  <2> QED
    BY <2>1, <2>2, <2>3 DEF Next
<1> QED
  BY <1>1, InvAlways, PTL DEF Spec, OtherPausesKept

-----------------------------------------------------------------------------
(* The row implements the atomic book.                                     *)

\* A step that leaves the book's columns alone is a stutter of the atomic book.
LEMMA RowKept ==
    ASSUME row'.status = row.status, row'.latched = row.latched, row'.cash = row.cash
    PROVE  UNCHANGED Book!bookVars
BY DEF Book!bookVars

\* A write that books nothing and obeys the status rule is a Command.
LEMMA CommandStep ==
    ASSUME row'.status \in Statuses,
           row.status = "stopped" => row'.status = "stopped",
           row'.latched = row.latched \/ row'.latched = TRUE,
           row'.cash = row.cash
    PROVE  Book!Command
BY DEF Book!Command, Book!Statuses, Statuses

\* Every step of a worker is a step or a stutter of the atomic book.
LEMMA WorkerStepBook ==
    ASSUME Inv, NEW w \in Workers, WorkerStep(w)
    PROVE  [Book!BookNext]_Book!bookVars
<1>0. /\ row \in Deployment /\ snap[w] \in Deployment
      /\ row.cash \in [Entries -> Nat]
  BY DEF Inv, TypeOK, Deployment
<1>1. CASE \/ AcquireLease(w) \/ BeginPass(w) \/ Reload(w) \/ SaveIntent(w)
           \/ EndPass(w) \/ StopWorker(w) \/ Crash(w)
  <2>1. row'.status = row.status /\ row'.latched = row.latched /\ row'.cash = row.cash
    BY <1>0, <1>1 DEF AcquireLease, BeginPass, Reload, SaveIntent, EndPass, StopWorker,
                      Crash, Write, Deployment
  <2> QED
    BY <2>1, RowKept
<1>2. CASE SaveDeployment(w)
  <2>1. snap[w].revision = row.revision
    BY <1>2 DEF SaveDeployment, RequireRevision, RevisionIs
  <2>2. /\ snap[w].status = row.status /\ snap[w].latched = row.latched
        /\ snap[w].cash = row.cash
    BY <2>1 DEF Inv, CopiesCoherent, Coherent
  <2>3. PICK d \in PassValues(snap[w]) : Write(d)
    BY <1>2 DEF SaveDeployment
  <2>4. /\ d \in Deployment /\ d.cash = row.cash
        /\ row.status = "stopped" => d.status = "stopped"
        /\ d.latched = row.latched \/ d.latched = TRUE
    BY <1>0, <2>2, PassValuesType
       DEF PassValues, Paused, PauseStatus, Deployment
  <2>5. /\ row'.status = d.status /\ row'.latched = d.latched /\ row'.cash = d.cash
        /\ d.status \in Statuses
    BY <2>3, <2>4 DEF Write, Deployment
  <2> QED
    BY <2>4, <2>5, CommandStep DEF Book!BookNext
<1>3. ASSUME NEW latch \in BOOLEAN, BreakerPause(w, latch)
      PROVE  [Book!BookNext]_Book!bookVars
  <2>1. /\ row'.status \in Statuses
        /\ row.status = "stopped" => row'.status = "stopped"
        /\ row'.latched = row.latched \/ row'.latched = TRUE
        /\ row'.cash = row.cash
    BY <1>0, <1>3 DEF BreakerPause, BreakerPaused, Write, Deployment, Statuses
  <2> QED
    BY <2>1, CommandStep DEF Book!BookNext
<1>4. ASSUME NEW f \in Fills, ApplyFill(w, f)
      PROVE  [Book!BookNext]_Book!bookVars
  <2>1. CASE f \in ledger
    BY <1>4, <2>1, RowKept DEF ApplyFill
  <2>2. CASE f \notin ledger
    <3>1. f \in Entries /\ row.cash[f] = 0
      BY <2>2 DEF Entries, Inv, EconomicsOnce
    <3>2. PICK d \in {row, Paused(row)} : Write([d EXCEPT !.cash[f] = @ + 1])
      BY <1>4, <2>2 DEF ApplyFill
    <3>3. /\ d.cash = row.cash /\ d.latched = row.latched
          /\ d.status \in {row.status, Book!PauseStatus(row.status)}
          /\ d \in Deployment
      BY <1>0, <3>2 DEF Paused, PauseStatus, Book!PauseStatus, Deployment, Statuses
    <3>4. /\ row'.cash = [row.cash EXCEPT ![f] = 1]
          /\ row'.latched = row.latched
          /\ row'.status \in {row.status, Book!PauseStatus(row.status)}
      BY <1>0, <3>1, <3>2, <3>3 DEF Write, Deployment
    <3>5. row'.cash = [e \in Entries |-> IF e \in {f} THEN 1 ELSE row.cash[e]]
      BY <1>0, <3>1, <3>4
    <3>6. Book!Settle({f})
      BY <3>1, <3>4, <3>5 DEF Book!Settle
    <3> QED
      BY <3>1, <3>6 DEF Book!BookNext
  <2> QED
    BY <2>1, <2>2
<1>5. ASSUME NEW hours \in SUBSET FundingHours, ApplyFunding(w, hours)
      PROVE  [Book!BookNext]_Book!bookVars
  <2> DEFINE unseen == hours \ ledger
  <2>1. unseen \in SUBSET Entries /\ \A e \in unseen : row.cash[e] = 0
    BY DEF Entries, Inv, EconomicsOnce
  <2>2. /\ row'.cash = [e \in Entries |-> row.cash[e] + (IF e \in unseen THEN 1 ELSE 0)]
        /\ row'.status = row.status /\ row'.latched = row.latched
    BY <1>0, <1>5 DEF ApplyFunding, Write, Deployment
  <2>3. row'.cash = [e \in Entries |-> IF e \in unseen THEN 1 ELSE row.cash[e]]
    BY <1>0, <2>1, <2>2
  <2>4. Book!Settle(unseen)
    BY <2>1, <2>2, <2>3 DEF Book!Settle
  <2> QED
    BY <2>1, <2>4 DEF Book!BookNext
<1> QED
  BY <1>1, <1>2, <1>3, <1>4, <1>5 DEF WorkerStep

\* So is every step of a request or a supervisor.
LEMMA WriterStepBook ==
    ASSUME Inv, NEW o \in Writers, WriterStep(o)
    PROVE  [Book!BookNext]_Book!bookVars
<1>0. row \in Deployment /\ seen[o] \in Deployment
  BY DEF Inv, TypeOK
<1>1. RevisionIs(seen[o].revision) =>
         /\ seen[o].status = row.status /\ seen[o].latched = row.latched
         /\ seen[o].cash = row.cash
  BY DEF RevisionIs, Inv, CopiesCoherent, Coherent
<1>2. CASE Read(o) \/ Abandon(o)
  BY <1>2, RowKept DEF Read, Abandon
<1>3. CASE ResetLatches(o)
  <2>1. /\ row.latched /\ row'.latched = FALSE
        /\ row'.status = row.status /\ row'.cash = row.cash
    BY <1>0, <1>1, <1>3 DEF ResetLatches, Write, Deployment
  <2>2. Book!ClearLatches
    BY <2>1 DEF Book!ClearLatches
  <2> QED
    BY <2>2 DEF Book!BookNext
<1>4. CASE \/ \E s \in Statuses : SetStatus(o, s)
           \/ PauseSleeve(o) \/ SyncAllocation(o) \/ FleetStop(o)
           \/ \E latch \in BOOLEAN : PausePeer(o, latch)
  <2>1. /\ row'.status \in Statuses
        /\ row.status = "stopped" => row'.status = "stopped"
        /\ row'.latched = row.latched \/ row'.latched = TRUE
        /\ row'.cash = row.cash
    BY <1>0, <1>1, <1>4
       DEF SetStatus, PauseSleeve, SyncAllocation, FleetStop, PausePeer, BreakerPaused, Write,
           Deployment, Statuses
  <2> QED
    BY <2>1, CommandStep DEF Book!BookNext
<1> QED
  BY <1>2, <1>3, <1>4 DEF WriterStep

\* Optimistic writes of several workers and requests, each read and written in
\* its own transaction, implement the book that is updated atomically.
THEOREM RowImplementsAtomicBook == Spec => ImplementsAtomicBook
<1>1. Init => Book!BookInit
  BY DEF Init, Created, Book!BookInit
<1>2. Inv /\ [Next]_vars => [Book!BookNext]_Book!bookVars
  <2>1. ASSUME Inv, Tick PROVE [Book!BookNext]_Book!bookVars
    <3>1. row'.status = row.status /\ row'.latched = row.latched /\ row'.cash = row.cash
      BY <2>1 DEF Tick, Inv, TypeOK, Deployment
    <3> QED
      BY <3>1, RowKept
  <2>2. ASSUME UNCHANGED vars PROVE [Book!BookNext]_Book!bookVars
    BY <2>2, RowKept DEF vars
  <2> QED
    BY <2>1, <2>2, WorkerStepBook, WriterStepBook DEF Next
<1> QED
  BY <1>1, <1>2, InvAlways, PTL DEF Spec, ImplementsAtomicBook, Book!BookSpec
=============================================================================
