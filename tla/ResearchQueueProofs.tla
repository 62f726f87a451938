------------------------ MODULE ResearchQueueProofs -------------------------
(***************************************************************************)
(* What holds of the research queue for any number of jobs, processes,     *)
(* slots and cancel requests.  Every statement rewrites rows one by one,   *)
(* so the inductive invariant is stated per row (RowOK) and each way a row *)
(* is rewritten is a lemma of its own.                                     *)
(***************************************************************************)
EXTENDS ResearchQueue, TLAPS

\* What is always true of one row, of its last claimer and its last recorder.
\* Once an outcome was recorded the row may only run again to be cancelled:
\* that is what keeps it from being claimed a second time.
RowOK(j, r, last, rec) ==
    /\ r \in JobRow
    /\ r.attempts <= MaxAttempts
    /\ r.status = "queued" => r.attempts < MaxAttempts
    /\ j \in ResearchJobs =>
          /\ r.status = "queued" => r.cancel = FALSE
          /\ r.owner \in {NoProc, last}
          /\ rec \in {NoProc, last}
          /\ rec # NoProc /\ r.status = "running" => r.cancel = TRUE
          /\ rec # NoProc => r.status # "queued"

RowsOK == \A j \in Jobs : RowOK(j, row[j], claimer[j], recorder[j])

\* A slot runs one process at a time.
SlotsExclusive ==
    \A p, q \in Procs : Live(p) /\ Live(q) /\ lineage[p] = lineage[q] => p = q

Inv == TypeOK /\ RowsOK /\ SlotsExclusive

-----------------------------------------------------------------------------
(* Rewriting one row.                                                      *)

LEMMA ClearedOK ==
    ASSUME NEW r \in JobRow
    PROVE  /\ Cleared(r) \in JobRow
           /\ Cleared(r).status = r.status /\ Cleared(r).attempts = r.attempts
           /\ Cleared(r).cancel = r.cancel /\ Cleared(r).owner = NoProc
           /\ Cleared(r).overdue = r.overdue
<1>1. 0 \in 0..TTL
  BY QueueAssumption
<1> QED
  BY <1>1 DEF Cleared, JobRow

LEMMA StatusOK ==
    ASSUME NEW r \in JobRow, NEW s \in Statuses
    PROVE  LET r1 == [r EXCEPT !.status = s]
           IN  /\ r1 \in JobRow /\ r1.status = s /\ r1.attempts = r.attempts
               /\ r1.cancel = r.cancel /\ r1.owner = r.owner
  BY DEF JobRow

\* A sweep cancels, fails or requeues; it never requeues a row that must not be.
LEMMA SweptOK ==
    ASSUME NEW j \in Jobs, row[j].status = "running",
           NEW last, NEW rec, RowOK(j, row[j], last, rec)
    PROVE  /\ RowOK(j, Swept(j), last, rec)
           /\ Swept(j).status # "running"
<1> DEFINE cancelled == j \in ResearchJobs /\ row[j].cancel
           to == IF cancelled THEN "cancelled"
                 ELSE IF row[j].attempts >= MaxAttempts THEN "failed" ELSE "queued"
<1>0. row[j] \in JobRow /\ row[j].attempts \in Nat /\ MaxAttempts \in Nat
  BY QueueAssumption DEF RowOK, JobRow
<1>1. /\ to \in {"cancelled", "failed", "queued"}
      /\ to = "queued" => ~cancelled /\ row[j].attempts < MaxAttempts
  BY <1>0
<1>2. Swept(j) = [Cleared(row[j]) EXCEPT !.status = to]
  BY DEF Swept
<1>3. row[j].cancel \in BOOLEAN
  BY <1>0 DEF JobRow
<1> HIDE DEF to
<1>4. /\ Swept(j) \in JobRow /\ Swept(j).status = to
      /\ Swept(j).attempts = row[j].attempts /\ Swept(j).cancel = row[j].cancel
      /\ Swept(j).owner = NoProc
  <2>1. to \in Statuses
    BY <1>1 DEF Statuses, Active
  <2> QED
    BY <1>0, <1>2, <2>1, ClearedOK, StatusOK
<1> QED
  BY <1>0, <1>1, <1>3, <1>4 DEF RowOK

\* Releasing gives the attempt back and cancels what was asked to be cancelled.
LEMMA ReleasedOK ==
    ASSUME NEW j \in Jobs, row[j].status = "running",
           NEW last, NEW rec, RowOK(j, row[j], last, rec)
    PROVE  /\ RowOK(j, Released(j), last, rec)
           /\ Released(j).status # "running"
<1> DEFINE cancelled == j \in ResearchJobs /\ row[j].cancel
           to == IF cancelled THEN "cancelled" ELSE "queued"
           left == IF row[j].attempts > 0 THEN row[j].attempts - 1 ELSE 0
<1>0. /\ row[j] \in JobRow /\ row[j].attempts \in Nat /\ row[j].cancel \in BOOLEAN
      /\ MaxAttempts \in Nat \ {0} /\ row[j].attempts <= MaxAttempts
  BY QueueAssumption DEF RowOK, JobRow
<1>1. left \in Nat /\ left < MaxAttempts
  BY <1>0
<1>2. to \in Statuses /\ (to = "queued" => ~cancelled) /\ to # "running"
  BY DEF Statuses, Active
<1>3. Released(j) = [[Cleared(row[j]) EXCEPT !.status = to] EXCEPT !.attempts = left]
  BY <1>0, ClearedOK DEF Released, JobRow
<1> HIDE DEF to, left
<1>4. /\ Released(j) \in JobRow /\ Released(j).status = to
      /\ Released(j).attempts = left /\ Released(j).cancel = row[j].cancel
      /\ Released(j).owner = NoProc
  BY <1>0, <1>1, <1>2, <1>3, ClearedOK DEF JobRow
<1> QED
  BY <1>0, <1>1, <1>2, <1>4 DEF RowOK

-----------------------------------------------------------------------------
(* The steps.                                                              *)

LEMMA InvInit == Init => Inv
<1> SUFFICES ASSUME Init PROVE Inv
  OBVIOUS
<1>1. Queued \in JobRow
  BY QueueAssumption DEF Queued, JobRow, Statuses, Active
<1>2. TypeOK
  BY <1>1, QueueAssumption DEF Init, TypeOK, HasJob, Executing, Phases, Statuses, Active
<1>3. RowsOK
  BY <1>1, QueueAssumption DEF Init, RowsOK, RowOK, Queued
<1>4. SlotsExclusive
  BY DEF Init, SlotsExclusive, Live
<1> QED
  BY <1>2, <1>3, <1>4 DEF Inv

\* A sweep of running rows keeps every row in order.
LEMMA SweepOK ==
    ASSUME TypeOK, RowsOK, NEW orphans \in SUBSET Jobs,
           \A j \in orphans : row[j].status = "running",
           Sweep(orphans), UNCHANGED <<claimer, recorder>>
    PROVE  RowsOK' /\ row' \in [Jobs -> JobRow]
<1>1. ASSUME NEW j \in Jobs PROVE RowOK(j, row'[j], claimer[j], recorder[j])
  <2>1. RowOK(j, row[j], claimer[j], recorder[j])
    BY DEF RowsOK
  <2>2. CASE j \in orphans
    <3>1. row'[j] = Swept(j)
      BY <2>2 DEF Sweep
    <3> QED
      BY <2>1, <2>2, <3>1, SweptOK
  <2>3. CASE j \notin orphans
    BY <2>1, <2>3 DEF Sweep
  <2> QED
    BY <2>2, <2>3
<1>2. row' \in [Jobs -> JobRow]
  BY <1>1 DEF Sweep, RowOK
<1> QED
  BY <1>1, <1>2 DEF RowsOK

\* A step that leaves the rows and their history alone keeps every row in order.
LEMMA RowsKept ==
    ASSUME RowsOK, UNCHANGED <<row, claimer, recorder>>
    PROVE  RowsOK'
  BY DEF RowsOK

\* Moving one process between two live phases, with its job accordingly.
LEMMA PhaseStep ==
    ASSUME Inv, NEW p \in Procs, NEW to \in Phases \ {"unborn"}, Goto(p, to),
           Live(p), UNCHANGED lineage
    PROVE  SlotsExclusive' /\ phase' \in [Procs -> Phases]
  BY DEF Inv, TypeOK, SlotsExclusive, Live, Goto

LEMMA SpawnInv == ASSUME Inv, NEW p \in Procs, Spawn(p) PROVE Inv'
<1>1. TypeOK'
  BY DEF Inv, TypeOK, Spawn, Goto, HasJob, Executing, Phases, history
<1>2. RowsOK'
  BY RowsKept DEF Inv, Spawn, history
<1>3. SlotsExclusive'
  BY DEF Inv, TypeOK, Spawn, SlotFree, SlotsExclusive, Live, Goto
<1> QED
  BY <1>1, <1>2, <1>3 DEF Inv

LEMMA RecoverInv == ASSUME Inv, NEW p \in Procs, Recover(p) PROVE Inv'
<1> DEFINE orphans == UNION {HeldBy(q) : q \in {q \in Procs : lineage[q] = lineage[p]}}
<1>1. orphans \in SUBSET Jobs /\ \A j \in orphans : row[j].status = "running"
  BY DEF HeldBy
<1>2. Sweep(orphans) /\ Goto(p, "idle") /\ UNCHANGED <<job, lineage, asked, read, history>>
  BY DEF Recover
<1> HIDE DEF orphans
<1>3. RowsOK' /\ row' \in [Jobs -> JobRow]
  BY <1>1, <1>2, SweepOK DEF Inv, history
<1>4. "idle" \in Phases \ {"unborn"} /\ Live(p) /\ phase[p] = "starting"
  BY DEF Phases, Recover, Live
<1>5. SlotsExclusive' /\ phase' \in [Procs -> Phases]
  BY <1>2, <1>4, PhaseStep
<1>6. TypeOK'
  BY <1>2, <1>3, <1>4, <1>5 DEF Inv, TypeOK, Goto, HasJob, Executing, history
<1> QED
  BY <1>3, <1>5, <1>6 DEF Inv

\* Rewriting one row in order keeps every row in order.
LEMMA OneRow ==
    ASSUME Inv, NEW j0 \in Jobs, NEW r, row' = [row EXCEPT ![j0] = r],
           RowOK(j0, r, claimer'[j0], recorder'[j0]),
           \A j \in Jobs \ {j0} : claimer'[j] = claimer[j] /\ recorder'[j] = recorder[j]
    PROVE  RowsOK' /\ row' \in [Jobs -> JobRow]
<1>1. row \in [Jobs -> JobRow]
  BY DEF Inv, TypeOK
<1>2. ASSUME NEW j \in Jobs PROVE RowOK(j, row'[j], claimer'[j], recorder'[j])
  BY <1>1 DEF Inv, RowsOK
<1>3. r \in JobRow
  BY DEF RowOK
<1> QED
  BY <1>1, <1>2, <1>3 DEF RowsOK

\* Steps of execute that move the process and leave the rows alone.
LEMMA MoveInv ==
    ASSUME Inv, NEW p \in Procs,
           \/ CheckCancel(p) \/ LeaseLost(p) \/ CompleteRefused(p)
           \/ \E to \in {"completing", "failing"} : RequireLease(p, to)
    PROVE  Inv'
<1>1. PICK to \in Executing \cup {"done"} : Goto(p, to)
  BY DEF CheckCancel, LeaseLost, CompleteRefused, RequireLease, Executing
<1>2. /\ phase[p] \in Executing
      /\ UNCHANGED <<row, job, lineage, asked, read, claimer, recorder>>
  BY DEF CheckCancel, LeaseLost, CompleteRefused, RequireLease, Executing, history
<1>3. to \in Phases \ {"unborn"} /\ Live(p)
  BY <1>2 DEF Phases, Executing, Live
<1>4. SlotsExclusive' /\ phase' \in [Procs -> Phases]
  BY <1>1, <1>2, <1>3, PhaseStep
<1>5. TypeOK'
  BY <1>1, <1>2, <1>4 DEF Inv, TypeOK, Goto, HasJob
<1>6. RowsOK'
  BY <1>2, RowsKept DEF Inv
<1> QED
  BY <1>4, <1>5, <1>6 DEF Inv

\* Losing a job is the same for a release, an exit, a crash and a finish.
LEMMA DropJobInv ==
    ASSUME Inv, NEW p \in Procs, NEW to \in {"idle", "gone"}, Goto(p, to), Live(p),
           job' = [job EXCEPT ![p] = NoJob], RowsOK', row' \in [Jobs -> JobRow],
           UNCHANGED <<lineage, asked, read, history>>
    PROVE  Inv'
<1>1. to \in Phases \ {"unborn"}
  BY DEF Phases
<1>2. SlotsExclusive' /\ phase' \in [Procs -> Phases]
  BY <1>1, PhaseStep
<1>3. TypeOK'
  BY <1>2 DEF Inv, TypeOK, Goto, HasJob, Executing, history
<1> QED
  BY <1>2, <1>3 DEF Inv

LEMMA LeaveInv ==
    ASSUME Inv, NEW p \in Procs, Finish(p) \/ Exit(p) \/ Crash(p)
    PROVE  Inv'
<1>1. UNCHANGED row /\ UNCHANGED <<lineage, asked, read, history>>
      /\ job' = [job EXCEPT ![p] = NoJob] /\ Live(p)
  BY DEF Finish, Exit, Crash, Gone, Live
<1>2. PICK to \in {"idle", "gone"} : Goto(p, to)
  BY DEF Finish, Exit, Crash, Gone
<1>3. RowsOK' /\ row' \in [Jobs -> JobRow]
  BY <1>1, RowsKept DEF Inv, TypeOK, history
<1> QED
  BY <1>1, <1>2, <1>3, DropJobInv

LEMMA ReleaseInv == ASSUME Inv, NEW p \in Procs, Release(p) PROVE Inv'
<1>1. ASSUME NEW j \in Jobs PROVE RowOK(j, row'[j], claimer[j], recorder[j])
  <2>1. RowOK(j, row[j], claimer[j], recorder[j])
    BY DEF Inv, RowsOK
  <2>2. CASE j \in HeldBy(p)
    <3>1. row'[j] = Released(j) /\ row[j].status = "running"
      BY <2>2 DEF Release, HeldBy
    <3> QED
      BY <2>1, <3>1, ReleasedOK
  <2>3. CASE j \notin HeldBy(p)
    BY <2>1, <2>3 DEF Release
  <2> QED
    BY <2>2, <2>3
<1>2. /\ Goto(p, "gone") /\ job' = [job EXCEPT ![p] = NoJob] /\ Live(p)
      /\ UNCHANGED <<lineage, asked, read, history>>
  BY DEF Release, Gone, Live, Executing
<1>3. RowsOK' /\ row' \in [Jobs -> JobRow]
  BY <1>1, <1>2 DEF RowsOK, RowOK, Release, history
<1> QED
  BY <1>2, <1>3, DropJobInv

LEMMA EscapeInv == ASSUME Inv, NEW p \in Procs, Escape(p) PROVE Inv'
<1>1. /\ HeldBy(p) \in SUBSET Jobs /\ \A j \in HeldBy(p) : row[j].status = "running"
      /\ Sweep(HeldBy(p)) /\ Goto(p, "done") /\ phase[p] \in Executing
      /\ UNCHANGED <<job, lineage, asked, read, history>>
  BY DEF Escape, HeldBy
<1>2. RowsOK' /\ row' \in [Jobs -> JobRow]
  BY <1>1, SweepOK DEF Inv, history
<1>3. SlotsExclusive' /\ phase' \in [Procs -> Phases]
  <2>1. "done" \in Phases \ {"unborn"} /\ Live(p)
    BY <1>1 DEF Phases, Live, Executing
  <2> QED
    BY <1>1, <2>1, PhaseStep
<1>4. TypeOK'
  BY <1>1, <1>2, <1>3 DEF Inv, TypeOK, Goto, HasJob, history
<1> QED
  BY <1>2, <1>3, <1>4 DEF Inv

\* A claim counts an attempt there is room for, on a row nobody recorded.
LEMMA ClaimedOK ==
    ASSUME Inv, NEW p \in Procs, NEW j \in Jobs, Claimed(p, j), UNCHANGED recorder
    PROVE  /\ RowsOK' /\ row' \in [Jobs -> JobRow]
           /\ claimer' \in [Jobs -> Procs \cup {NoProc}]
<1> DEFINE r == [row[j] EXCEPT !.status = "running", !.owner = p, !.left = TTL,
                               !.attempts = row[j].attempts + 1]
<1>0. /\ RowOK(j, row[j], claimer[j], recorder[j]) /\ row[j] \in JobRow
      /\ row[j].attempts \in Nat /\ MaxAttempts \in Nat /\ TTL \in 0..TTL
      /\ row[j].status = "queued"
  BY QueueAssumption DEF Inv, RowsOK, RowOK, JobRow, Claimed
<1>1. /\ r \in JobRow /\ r.status = "running" /\ r.owner = p
      /\ r.attempts = row[j].attempts + 1 /\ r.cancel = row[j].cancel
  <2>1. "running" \in Statuses /\ row[j].attempts + 1 \in Nat
    BY <1>0 DEF Statuses, Active
  <2> QED
    BY <1>0, <2>1 DEF JobRow
<1>2. row' = [row EXCEPT ![j] = r] /\ claimer' = [claimer EXCEPT ![j] = p]
  BY DEF Claimed
<1>3. r.attempts <= MaxAttempts /\ (j \in ResearchJobs => recorder[j] = NoProc)
  BY <1>0, <1>1 DEF RowOK
<1>4. claimer' \in [Jobs -> Procs \cup {NoProc}] /\ claimer'[j] = p
  BY <1>2 DEF Inv, TypeOK
<1> HIDE DEF r
<1>5. RowOK(j, r, claimer'[j], recorder'[j])
  BY <1>1, <1>3, <1>4 DEF RowOK
<1>6. \A k \in Jobs \ {j} : claimer'[k] = claimer[k] /\ recorder'[k] = recorder[k]
  BY <1>2 DEF Inv, TypeOK
<1> QED
  BY <1>2, <1>4, <1>5, <1>6, OneRow

LEMMA ClaimInv ==
    ASSUME Inv, NEW p \in Procs, NEW j \in Jobs, Claim(p, j) \/ ClaimLost(p, j)
    PROVE  Inv'
<1>1. /\ phase[p] = "idle" /\ Claimed(p, j)
      /\ UNCHANGED <<lineage, asked, read, recorder>>
  BY DEF Claim, ClaimLost
<1>2. /\ RowsOK' /\ row' \in [Jobs -> JobRow]
      /\ claimer' \in [Jobs -> Procs \cup {NoProc}]
  BY <1>1, ClaimedOK
<1>3. CASE Claim(p, j)
  <2>1. PICK to \in {"claimed", "working"} : Goto(p, to)
    BY <1>3 DEF Claim
  <2>2. to \in Phases \ {"unborn"} /\ Live(p) /\ to \in Executing
    BY <1>1 DEF Phases, Executing, Live
  <2>3. SlotsExclusive' /\ phase' \in [Procs -> Phases]
    BY <1>1, <2>1, <2>2, PhaseStep
  <2>4. job' = [job EXCEPT ![p] = j] /\ j # NoJob
    BY <1>3, QueueAssumption DEF Claim, Jobs
  <2>5. TypeOK'
    BY <1>1, <1>2, <2>1, <2>2, <2>3, <2>4 DEF Inv, TypeOK, Goto, HasJob
  <2> QED
    BY <1>2, <2>3, <2>5 DEF Inv
<1>4. CASE ClaimLost(p, j)
  <2>1. UNCHANGED <<phase, job>>
    BY <1>4 DEF ClaimLost
  <2> QED
    BY <1>1, <1>2, <2>1 DEF Inv, TypeOK, HasJob, SlotsExclusive, Live
<1> QED
  BY <1>3, <1>4

\* The fenced UPDATE: whoever passes the fence is the last claimer.
LEMMA RecordOutcomeInv ==
    ASSUME Inv, NEW p \in Procs, NEW s \in Statuses, NEW acknowledged \in BOOLEAN,
           RecordOutcome(p, s, acknowledged)
    PROVE  Inv'
<1> DEFINE j == job[p]
           r == [Cleared(row[j]) EXCEPT !.status = s]
<1>1. /\ j \in ResearchJobs /\ j \in Jobs /\ s \notin {"queued", "running"}
      /\ row[j].owner = p /\ row[j].status = "running"
      /\ row' = [row EXCEPT ![j] = r] /\ recorder' = [recorder EXCEPT ![j] = p]
      /\ UNCHANGED <<job, lineage, asked, read, claimer>>
  BY DEF RecordOutcome, Held, Jobs, Inv, TypeOK
<1>2. /\ RowOK(j, row[j], claimer[j], recorder[j]) /\ row[j] \in JobRow
      /\ p # NoProc /\ claimer[j] = p
  BY <1>1, QueueAssumption DEF Inv, RowsOK, RowOK
<1>3. r \in JobRow /\ r.status = s /\ r.attempts = row[j].attempts /\ r.owner = NoProc
  BY <1>2, ClearedOK, StatusOK
<1>4. recorder'[j] = p /\ claimer'[j] = p /\ recorder' \in [Jobs -> Procs \cup {NoProc}]
  BY <1>1, <1>2 DEF Inv, TypeOK
<1>5. \A k \in Jobs \ {j} : claimer'[k] = claimer[k] /\ recorder'[k] = recorder[k]
  BY <1>1 DEF Inv, TypeOK
<1> HIDE DEF r
<1>6. RowOK(j, r, claimer'[j], recorder'[j])
  BY <1>1, <1>2, <1>3, <1>4 DEF RowOK
<1>7. RowsOK' /\ row' \in [Jobs -> JobRow]
  BY <1>1, <1>5, <1>6, OneRow
<1>8. phase[p] \in Executing
  BY DEF RecordOutcome, Executing
<1>9. CASE Goto(p, "done")
  <2>1. "done" \in Phases \ {"unborn"} /\ Live(p)
    BY <1>8 DEF Phases, Live, Executing
  <2>2. SlotsExclusive' /\ phase' \in [Procs -> Phases]
    BY <1>1, <1>9, <2>1, PhaseStep
  <2>3. TypeOK'
    BY <1>1, <1>4, <1>7, <1>8, <1>9, <2>2 DEF Inv, TypeOK, Goto, HasJob
  <2> QED
    BY <1>7, <2>2, <2>3 DEF Inv
<1>10. CASE UNCHANGED phase
  BY <1>1, <1>4, <1>7, <1>10 DEF Inv, TypeOK, HasJob, SlotsExclusive, Live
<1> QED
  BY <1>9, <1>10 DEF RecordOutcome

\* The status of a portfolio row may be rewritten by anyone who once passed the
\* lease check; research rows are out of reach of those writes.
LEMMA PortfolioWriteInv ==
    ASSUME Inv, NEW p \in Procs,
           CompletePortfolio(p, TRUE) \/ CompletePortfolio(p, FALSE) \/ FailPortfolio(p),
           job[p] \in PortfolioJobs
    PROVE  Inv'
<1> DEFINE j == job[p]
<1>1. /\ j \in Jobs /\ j \notin ResearchJobs
      /\ phase[p] \in Executing
      /\ recorder' \in [Jobs -> Procs \cup {NoProc}]
      /\ \A k \in Jobs \ {j} : claimer'[k] = claimer[k] /\ recorder'[k] = recorder[k]
      /\ UNCHANGED <<job, lineage, asked, read, claimer>>
  BY QueueAssumption
     DEF CompletePortfolio, FailPortfolio, Executing, Jobs, Inv, TypeOK
<1>2. /\ RowOK(j, row[j], claimer[j], recorder[j]) /\ row[j] \in JobRow
      /\ row[j].attempts \in Nat
  BY <1>1 DEF Inv, RowsOK, RowOK, JobRow
<1>3. RowsOK' /\ row' \in [Jobs -> JobRow]
  <2>1. ASSUME NEW s \in {"completed", "failed"},
               row' = [row EXCEPT ![j] = [row[j] EXCEPT !.status = s]]
        PROVE  RowsOK' /\ row' \in [Jobs -> JobRow]
    <3> DEFINE r == [row[j] EXCEPT !.status = s]
    <3>1. r \in JobRow /\ r.status = s /\ r.attempts = row[j].attempts
      BY <1>2, StatusOK DEF Statuses
    <3>2. RowOK(j, r, claimer'[j], recorder'[j])
      BY <1>1, <1>2, <3>1 DEF RowOK
    <3> HIDE DEF r
    <3> QED
      BY <1>1, <2>1, <3>2, OneRow DEF r
  <2>2. CASE UNCHANGED <<row, recorder>>
    BY <1>1, <2>2, RowsKept DEF Inv, TypeOK
  <2>3. \/ \E s \in {"completed", "failed"} :
               row' = [row EXCEPT ![j] = [row[j] EXCEPT !.status = s]]
        \/ UNCHANGED <<row, recorder>>
    BY DEF CompletePortfolio, FailPortfolio
  <2> QED
    BY <2>1, <2>2, <2>3
<1>4. PICK to \in {"clearing", "rescue"} : Goto(p, to)
  BY DEF CompletePortfolio, FailPortfolio
<1>5. to \in Phases \ {"unborn"} /\ Live(p) /\ to \in Executing
  BY <1>1 DEF Phases, Live, Executing
<1>6. SlotsExclusive' /\ phase' \in [Procs -> Phases]
  BY <1>1, <1>4, <1>5, PhaseStep
<1>7. TypeOK'
  BY <1>1, <1>3, <1>4, <1>5, <1>6 DEF Inv, TypeOK, Goto, HasJob
<1> QED
  BY <1>3, <1>6, <1>7 DEF Inv

LEMMA ClearLeaseInv == ASSUME Inv, NEW p \in Procs, ClearLease(p) PROVE Inv'
<1> DEFINE j == job[p]
<1>1. /\ phase[p] \in Executing /\ j \in Jobs /\ Goto(p, "done")
      /\ UNCHANGED <<job, lineage, asked, read, history>>
  BY DEF ClearLease, Executing, Inv, TypeOK, HasJob
<1>2. /\ RowOK(j, row[j], claimer[j], recorder[j]) /\ row[j] \in JobRow
      /\ row[j].attempts \in Nat
  BY <1>1 DEF Inv, RowsOK, RowOK, JobRow
<1>3. RowsOK' /\ row' \in [Jobs -> JobRow]
  <2>1. CASE row' = [row EXCEPT ![j] = Cleared(row[j])]
    <3>1. RowOK(j, Cleared(row[j]), claimer'[j], recorder'[j])
      BY <1>1, <1>2, ClearedOK DEF RowOK, history
    <3> QED
      BY <1>1, <2>1, <3>1, OneRow DEF history
  <2>2. CASE UNCHANGED row
    BY <1>1, <2>2, RowsKept DEF Inv, TypeOK, history
  <2> QED
    BY <2>1, <2>2 DEF ClearLease
<1>4. "done" \in Phases \ {"unborn"} /\ Live(p)
  BY <1>1 DEF Phases, Live, Executing
<1>5. SlotsExclusive' /\ phase' \in [Procs -> Phases]
  BY <1>1, <1>4, PhaseStep
<1>6. TypeOK'
  BY <1>1, <1>3, <1>5 DEF Inv, TypeOK, Goto, HasJob, history
<1> QED
  BY <1>3, <1>5, <1>6 DEF Inv

\* Steps that rewrite rows and move no process: rewriting each row in order is
\* enough.
LEMMA RowsOnly ==
    ASSUME Inv, UNCHANGED <<phase, job, lineage, history>>,
           asked' \in [Clients -> ResearchJobs \cup {NoJob}],
           read' \in [Clients -> Statuses],
           row' = [j \in Jobs |-> row'[j]],
           \A j \in Jobs : RowOK(j, row'[j], claimer[j], recorder[j])
    PROVE  Inv'
<1>1. row' \in [Jobs -> JobRow]
  BY DEF RowOK
<1>2. TypeOK'
  BY <1>1 DEF Inv, TypeOK, HasJob, history
<1> QED
  BY <1>2 DEF Inv, RowsOK, SlotsExclusive, Live, history

\* The lease clock, renewals, expiry and the passing of the day change columns
\* RowOK does not constrain, or end the row.
LEMMA ColumnOK ==
    ASSUME NEW j \in Jobs, NEW last, NEW rec, NEW r, RowOK(j, r, last, rec),
           NEW r1 \in JobRow,
           r1.status \in {r.status, "expired"}, r1.attempts = r.attempts,
           r1.cancel = r.cancel, r1.owner = r.owner
    PROVE  RowOK(j, r1, last, rec)
  BY DEF RowOK

LEMMA HeartbeatInv == ASSUME Inv, NEW p \in Procs, Heartbeat(p) PROVE Inv'
<1>0. /\ UNCHANGED <<phase, job, lineage, asked, read, history>>
      /\ row' = [j \in Jobs |-> row'[j]]
  BY DEF Heartbeat, Renew, RequeueExpired, ExpireStale, Sweep
<1>1. \A j \in Jobs : /\ RowOK(j, row[j], claimer[j], recorder[j])
                      /\ row[j] \in JobRow
  BY DEF Inv, RowsOK, RowOK
<1>2. CASE RequeueExpired(p)
  <2>1. /\ LeaseExpired \in SUBSET Jobs /\ Sweep(LeaseExpired)
        /\ \A j \in LeaseExpired : row[j].status = "running"
    BY <1>2 DEF RequeueExpired, LeaseExpired
  <2>2. RowsOK'
    BY <1>0, <2>1, SweepOK DEF Inv, history
  <2> QED
    BY <1>0, <2>2, RowsOnly DEF Inv, TypeOK, RowsOK, history
<1>3. CASE Renew(p)
  <2>1. ASSUME NEW j \in Jobs PROVE RowOK(j, row'[j], claimer[j], recorder[j])
    <3> DEFINE r == [row[j] EXCEPT !.left = TTL]
    <3>1. row'[j] = r \/ row'[j] = row[j]
      BY <1>3 DEF Renew
    <3>2. /\ r \in JobRow /\ r.status = row[j].status /\ r.attempts = row[j].attempts
          /\ r.cancel = row[j].cancel /\ r.owner = row[j].owner
      BY <1>1, QueueAssumption DEF JobRow
    <3> HIDE DEF r
    <3> QED
      BY <1>1, <3>1, <3>2, ColumnOK
  <2> QED
    BY <1>0, <2>1, RowsOnly DEF Inv, TypeOK
<1>4. CASE \E js \in {ResearchJobs, PortfolioJobs} : ExpireStale(p, js)
  <2>1. ASSUME NEW j \in Jobs PROVE RowOK(j, row'[j], claimer[j], recorder[j])
    <3> DEFINE r == [row[j] EXCEPT !.status = "expired"]
    <3>1. row'[j] = r \/ row'[j] = row[j]
      BY <1>4 DEF ExpireStale
    <3>2. /\ r \in JobRow /\ r.status = "expired" /\ r.attempts = row[j].attempts
          /\ r.cancel = row[j].cancel /\ r.owner = row[j].owner
      BY <1>1, StatusOK DEF Statuses
    <3> HIDE DEF r
    <3> QED
      BY <1>1, <3>1, <3>2, ColumnOK
  <2> QED
    BY <1>0, <2>1, RowsOnly DEF Inv, TypeOK
<1> QED
  BY <1>2, <1>3, <1>4 DEF Heartbeat

LEMMA TimeInv == ASSUME Inv, Tick \/ \E j \in Jobs : DayPasses(j) PROVE Inv'
<1>0. UNCHANGED <<phase, job, lineage, asked, read, history>>
  BY DEF Tick, DayPasses
<1>1. \A j \in Jobs : /\ RowOK(j, row[j], claimer[j], recorder[j])
                      /\ row[j] \in JobRow
  BY DEF Inv, RowsOK, RowOK
<1>2. CASE Tick
  <2>1. ASSUME NEW j \in Jobs PROVE RowOK(j, row'[j], claimer[j], recorder[j])
    <3> DEFINE left == IF row[j].left > 0 THEN row[j].left - 1 ELSE 0
               r == [row[j] EXCEPT !.left = left]
    <3>1. row'[j] = r
      BY <1>2 DEF Tick
    <3>2. left \in 0..TTL
      BY <1>1, QueueAssumption DEF JobRow
    <3> HIDE DEF left
    <3>3. /\ r \in JobRow /\ r.status = row[j].status /\ r.attempts = row[j].attempts
          /\ r.cancel = row[j].cancel /\ r.owner = row[j].owner
      BY <1>1, <3>2 DEF JobRow
    <3> HIDE DEF r
    <3> QED
      BY <1>1, <3>1, <3>3, ColumnOK
  <2>2. row' = [j \in Jobs |-> row'[j]]
    BY <1>2 DEF Tick
  <2> QED
    BY <1>0, <2>1, <2>2, RowsOnly DEF Inv, TypeOK
<1>3. ASSUME NEW d \in Jobs, DayPasses(d) PROVE Inv'
  <2>1. ASSUME NEW j \in Jobs PROVE RowOK(j, row'[j], claimer[j], recorder[j])
    <3> DEFINE r == [row[j] EXCEPT !.overdue = TRUE]
    <3>1. row'[j] = r \/ row'[j] = row[j]
      BY <1>3 DEF DayPasses, Inv, TypeOK
    <3>2. /\ r \in JobRow /\ r.status = row[j].status /\ r.attempts = row[j].attempts
          /\ r.cancel = row[j].cancel /\ r.owner = row[j].owner
      BY <1>1 DEF JobRow
    <3> HIDE DEF r
    <3> QED
      BY <1>1, <3>1, <3>2, ColumnOK
  <2>2. row' = [j \in Jobs |-> row'[j]]
    BY <1>3 DEF DayPasses, Inv, TypeOK
  <2> QED
    BY <1>0, <2>1, <2>2, RowsOnly DEF Inv, TypeOK
<1> QED
  BY <1>2, <1>3

\* An unfenced cancel may rewrite a row in any state, and still leaves it in
\* order: what it revives is marked to be cancelled.
LEMMA ClientInv == ASSUME Inv, NEW c \in Clients, ClientStep(c) PROVE Inv'
<1>1. CASE \E j \in ResearchJobs : CancelRead(c, j)
  <2>1. PICK j \in ResearchJobs : CancelRead(c, j)
    BY <1>1
  <2>2. row[j].status \in Statuses
    BY DEF Inv, TypeOK, Jobs, JobRow
  <2>3. /\ UNCHANGED <<row, phase, job, lineage, history>>
        /\ asked' \in [Clients -> ResearchJobs \cup {NoJob}]
        /\ read' \in [Clients -> Statuses]
    BY <2>1, <2>2 DEF CancelRead, Inv, TypeOK
  <2> QED
    BY <2>3, RowsOnly DEF Inv, TypeOK, RowsOK
<1>2. CASE CancelWrite(c)
  <2> DEFINE k == asked[c]
  <2>1. /\ k \in ResearchJobs /\ k \in Jobs /\ UNCHANGED <<phase, job, lineage, history>>
        /\ row' = [row EXCEPT ![k] = CancelledRow(row[k], read[c])]
        /\ asked' \in [Clients -> ResearchJobs \cup {NoJob}]
        /\ read' \in [Clients -> Statuses]
    BY <1>2 DEF CancelWrite, Inv, TypeOK, Jobs, Statuses, Active
  <2>2. RowOK(k, row[k], claimer[k], recorder[k]) /\ row[k] \in JobRow
    BY <2>1 DEF Inv, RowsOK, RowOK
  <2>3. RowOK(k, CancelledRow(row[k], read[c]), claimer[k], recorder[k])
    <3>1. CASE read[c] = "running"
      <4> DEFINE r == [row[k] EXCEPT !.status = "running", !.cancel = TRUE]
      <4>1. /\ r \in JobRow /\ r.status = "running" /\ r.cancel = TRUE
            /\ r.attempts = row[k].attempts /\ r.owner = row[k].owner
        <5>1. "running" \in Statuses
          BY DEF Statuses, Active
        <5> QED
          BY <2>2, <5>1 DEF JobRow
      <4>2. CancelledRow(row[k], read[c]) = r
        BY <3>1 DEF CancelledRow
      <4> HIDE DEF r
      <4> QED
        BY <2>2, <4>1, <4>2 DEF RowOK
    <3>2. CASE read[c] # "running"
      <4> DEFINE r == [row[k] EXCEPT !.status = "cancelled"]
      <4>1. /\ r \in JobRow /\ r.status = "cancelled"
            /\ r.attempts = row[k].attempts /\ r.owner = row[k].owner
        BY <2>2, StatusOK DEF Statuses
      <4>2. CancelledRow(row[k], read[c]) = r
        BY <3>2 DEF CancelledRow
      <4> HIDE DEF r
      <4> QED
        BY <2>2, <4>1, <4>2 DEF RowOK
    <3> QED
      BY <3>1, <3>2
  <2>4. RowsOK' /\ row' \in [Jobs -> JobRow]
    BY <2>1, <2>3, OneRow DEF history
  <2> QED
    BY <2>1, <2>4, RowsOnly DEF RowsOK, history
<1> QED
  BY <1>1, <1>2 DEF ClientStep

\* The phases of run_job are only entered with a portfolio job.
PhasesOK ==
    \A p \in Procs : phase[p] \in {"completing", "rescue", "failing", "clearing"}
                       => job[p] \in PortfolioJobs

LEMMA PhasesNext == ASSUME TypeOK, PhasesOK, Next PROVE PhasesOK'
<1> USE DEF PhasesOK, TypeOK, Goto
<1>1. ASSUME NEW p \in Procs, Execute(p) PROVE PhasesOK'
  <2>1. CASE CheckCancel(p) \/ LeaseLost(p) \/ Escape(p) \/ Finish(p)
    BY <2>1 DEF CheckCancel, LeaseLost, Escape, Finish, Executing
  <2>2. CASE Outcome(p)
    BY <2>2 DEF Outcome, RecordOutcome, RequireLease, CompletePortfolio, CompleteRefused,
                FailPortfolio, ClearLease
  <2> QED
    BY <1>1, <2>1, <2>2 DEF Execute
<1>2. ASSUME NEW p \in Procs, ProcStep(p), ~Execute(p) PROVE PhasesOK'
  <2>1. CASE Spawn(p) \/ Recover(p)
    BY <2>1 DEF Spawn, Recover
  <2>2. ASSUME NEW j \in Jobs, Claim(p, j) \/ ClaimLost(p, j) PROVE PhasesOK'
    BY <2>2 DEF Claim, ClaimLost, Claimed
  <2>3. CASE Release(p) \/ Exit(p) \/ Crash(p)
    BY <2>3 DEF Release, Exit, Crash, Gone
  <2>4. CASE Heartbeat(p)
    BY <2>4 DEF Heartbeat, Renew, RequeueExpired, ExpireStale
  <2> QED
    BY <1>2, <2>1, <2>2, <2>3, <2>4 DEF ProcStep
<1>3. ASSUME NEW c \in Clients, ClientStep(c) PROVE PhasesOK'
  BY <1>3 DEF ClientStep, CancelRead, CancelWrite
<1>4. CASE Tick \/ \E j \in Jobs : DayPasses(j)
  BY <1>4 DEF Tick, DayPasses
<1> QED
  BY <1>1, <1>2, <1>3, <1>4 DEF Next

LEMMA InvNext == Inv /\ PhasesOK /\ [Next]_vars => Inv' /\ PhasesOK'
<1> SUFFICES ASSUME Inv, PhasesOK, [Next]_vars PROVE Inv' /\ PhasesOK'
  OBVIOUS
<1>1. CASE Next
  <2>1. ASSUME NEW p \in Procs, Outcome(p) PROVE Inv'
    <3>1. CASE \/ CompletePortfolio(p, TRUE) \/ CompletePortfolio(p, FALSE)
               \/ FailPortfolio(p)
      <4>1. job[p] \in PortfolioJobs
        BY <3>1 DEF PhasesOK, CompletePortfolio, FailPortfolio
      <4> QED
        BY <3>1, <4>1, PortfolioWriteInv
    <3>2. CASE \E s \in Statuses, a \in BOOLEAN : RecordOutcome(p, s, a)
      BY <3>2, RecordOutcomeInv
    <3>3. CASE CompleteRefused(p) \/ \E to \in {"completing", "failing"} : RequireLease(p, to)
      BY <3>3, MoveInv
    <3>4. CASE ClearLease(p)
      BY <3>4, ClearLeaseInv
    <3> QED
      BY <2>1, <3>1, <3>2, <3>3, <3>4 DEF Outcome
  <2>2. ASSUME NEW p \in Procs, ProcStep(p) PROVE Inv'
    BY <2>1, <2>2, SpawnInv, RecoverInv, ClaimInv, MoveInv, EscapeInv, LeaveInv,
       ReleaseInv, HeartbeatInv DEF ProcStep, Execute
  <2>3. Inv'
    BY <1>1, <2>2, ClientInv, TimeInv DEF Next
  <2> QED
    BY <1>1, <2>3, PhasesNext DEF Inv
<1>2. CASE UNCHANGED vars
  BY <1>2 DEF vars, history, Inv, TypeOK, RowsOK, SlotsExclusive, Live, HasJob, PhasesOK
<1> QED
  BY <1>1, <1>2

LEMMA InvAlways == Spec => [](Inv /\ PhasesOK)
<1>1. Init => PhasesOK
  BY DEF Init, PhasesOK
<1> QED
  BY <1>1, InvInit, InvNext, PTL DEF Spec

-----------------------------------------------------------------------------
\* Rows, processes and cancel requests keep their types, and a process has a
\* current job exactly while it executes or finishes one.
THEOREM TypeCorrect == Spec => []TypeOK
  BY InvAlways, PTL DEF Inv

\* A research job's outcome is only ever recorded by its last claimer, for any
\* number of stale attempts, sweeps and racing cancels (_replace).
THEOREM OutcomesFenced == Spec => []OutcomeByLastClaimer
<1>1. Inv => OutcomeByLastClaimer
  BY DEF Inv, RowsOK, RowOK, OutcomeByLastClaimer, Jobs
<1> QED
  BY <1>1, InvAlways, PTL

\* No job is started more than research_job_max_attempts times, releases aside
\* (_sweep_table, release, _claim_from).
THEOREM AttemptsLimited == Spec => []AttemptsBounded
<1>1. Inv => AttemptsBounded
  BY DEF Inv, RowsOK, RowOK, AttemptsBounded
<1> QED
  BY <1>1, InvAlways, PTL

\* A cancellation that was asked for survives release, sweep and recovery.
THEOREM CancelsSurvive == Spec => []CancelNotRequeued
<1>1. Inv => CancelNotRequeued
  BY DEF Inv, RowsOK, RowOK, CancelNotRequeued, Jobs
<1> QED
  BY <1>1, InvAlways, PTL

\* Only the owner's own step puts a live lease back in the queue.
LEMMA LiveLeaseStep ==
    ASSUME Inv, PhasesOK, Next, NEW j \in Jobs, NEW p \in Procs,
           row[j].status = "running", row[j].owner = p, row[j].left > 0,
           Live(p), phase'[p] = phase[p]
    PROVE  row'[j].status # "queued"
<1> USE DEF Goto
<1>0. row \in [Jobs -> JobRow] /\ phase \in [Procs -> Phases] /\ row[j].left # 0
  BY DEF Inv, TypeOK, JobRow
<1>1. ASSUME NEW q \in Procs, Recover(q) PROVE row'[j] = row[j]
  <2>1. Live(q) /\ q # p
    BY <1>0, <1>1 DEF Recover, Live
  <2>2. lineage[p] # lineage[q]
    BY <2>1 DEF Inv, SlotsExclusive
  <2>3. j \notin UNION {HeldBy(x) : x \in {x \in Procs : lineage[x] = lineage[q]}}
    BY <2>2 DEF HeldBy
  <2> QED
    BY <1>1, <2>3 DEF Recover, Sweep
<1>2. ASSUME NEW q \in Procs, NEW k \in Jobs, Claim(q, k) \/ ClaimLost(q, k)
      PROVE  row'[j] = row[j]
  BY <1>0, <1>2 DEF Claim, ClaimLost, Claimed
<1>3. ASSUME NEW q \in Procs, Outcome(q) PROVE row'[j].status # "queued"
  <2>1. ASSUME NEW s \in Statuses, NEW a \in BOOLEAN, RecordOutcome(q, s, a)
        PROVE  row'[j].status # "queued"
    <3>1. s # "queued" /\ row' = [row EXCEPT ![job[q]] = [Cleared(row[job[q]]) EXCEPT !.status = s]]
      BY <2>1 DEF RecordOutcome
    <3>2. CASE j = job[q]
      BY <1>0, <3>1, <3>2, ClearedOK, StatusOK
    <3> QED
      BY <1>0, <3>1, <3>2
  <2>2. CASE \/ CompletePortfolio(q, TRUE) \/ CompletePortfolio(q, FALSE)
             \/ FailPortfolio(q)
    BY <1>0, <2>2, StatusOK DEF CompletePortfolio, FailPortfolio, JobRow
  <2>3. CASE ClearLease(q)
    BY <1>0, <2>3, ClearedOK DEF ClearLease
  <2>4. CASE CompleteRefused(q) \/ \E to \in {"completing", "failing"} : RequireLease(q, to)
    BY <2>4 DEF CompleteRefused, RequireLease
  <2> QED
    BY <1>3, <2>1, <2>2, <2>3, <2>4 DEF Outcome
<1>4. ASSUME NEW q \in Procs, Escape(q) \/ Release(q) PROVE row'[j] = row[j]
  <2>1. q # p
    BY <1>0, <1>4 DEF Escape, Release, Gone, Executing
  <2>2. j \notin HeldBy(q)
    BY <2>1 DEF HeldBy
  <2> QED
    BY <1>4, <2>2 DEF Escape, Release, Sweep
<1>5. ASSUME NEW q \in Procs, Heartbeat(q) PROVE row'[j].status # "queued"
  <2>1. CASE RequeueExpired(q)
    BY <1>0, <2>1 DEF RequeueExpired, LeaseExpired, Sweep
  <2>2. CASE Renew(q)
    BY <1>0, <2>2 DEF Renew, JobRow
  <2>3. CASE \E js \in {ResearchJobs, PortfolioJobs} : ExpireStale(q, js)
    BY <1>0, <2>3 DEF ExpireStale, JobRow
  <2> QED
    BY <1>5, <2>1, <2>2, <2>3 DEF Heartbeat
<1>6. ASSUME NEW q \in Procs,
             \/ Spawn(q) \/ CheckCancel(q) \/ LeaseLost(q) \/ Finish(q) \/ Exit(q) \/ Crash(q)
      PROVE  row'[j] = row[j]
  BY <1>6 DEF Spawn, CheckCancel, LeaseLost, Finish, Exit, Crash
<1>7. ASSUME NEW c \in Clients, ClientStep(c) PROVE row'[j].status # "queued"
  <2>1. CASE CancelWrite(c)
    BY <1>0, <2>1 DEF CancelWrite, CancelledRow, JobRow
  <2> QED
    BY <1>7, <2>1 DEF ClientStep, CancelRead
<1>8. CASE Tick \/ \E k \in Jobs : DayPasses(k)
  BY <1>0, <1>8 DEF Tick, DayPasses, JobRow
<1> QED
  BY <1>1, <1>2, <1>3, <1>4, <1>5, <1>6, <1>7, <1>8 DEF Next, ProcStep, Execute

\* Neither a sweep nor a successor's recovery takes a live worker's job
\* (requeue_expired, requeue_lineage).
THEOREM LiveLeasesKept == Spec => LiveLeaseKept
<1>1. Inv /\ PhasesOK /\ [Next]_vars =>
        [\A j \in Jobs, p \in Procs :
           /\ row[j].status = "running" /\ row[j].owner = p /\ row[j].left > 0
           /\ Live(p) /\ phase'[p] = phase[p]
           => row'[j].status # "queued"]_vars
  BY LiveLeaseStep
<1> QED
  BY <1>1, InvAlways, PTL DEF Spec, LiveLeaseKept

\* No step makes an ended portfolio job run again.
LEMMA SettledStep ==
    ASSUME Inv, PhasesOK, Next, NEW j \in PortfolioJobs, row[j].status \notin Active
    PROVE  row'[j].status \notin Active
<1> USE DEF Active
<1>0. /\ row \in [Jobs -> JobRow] /\ j \in Jobs /\ j \notin ResearchJobs
      /\ row[j].status # "running" /\ row[j].status # "queued"
  BY QueueAssumption DEF Inv, TypeOK, Jobs
<1>1. ASSUME NEW orphans, Sweep(orphans), \A k \in orphans : row[k].status = "running"
      PROVE  row'[j] = row[j]
  BY <1>0, <1>1 DEF Sweep
<1>2. ASSUME NEW q \in Procs, Recover(q) \/ Escape(q) \/ RequeueExpired(q)
      PROVE  row'[j] = row[j]
  <2>1. PICK orphans : Sweep(orphans) /\ \A k \in orphans : row[k].status = "running"
    BY <1>2 DEF Recover, Escape, RequeueExpired, HeldBy, LeaseExpired
  <2> QED
    BY <1>1, <2>1
<1>3. ASSUME NEW q \in Procs, NEW k \in Jobs, Claim(q, k) \/ ClaimLost(q, k)
      PROVE  row'[j] = row[j]
  BY <1>0, <1>3 DEF Claim, ClaimLost, Claimed
<1>4. ASSUME NEW q \in Procs, Outcome(q) PROVE row'[j].status \notin Active
  <2>1. ASSUME NEW s \in Statuses, NEW a \in BOOLEAN, RecordOutcome(q, s, a)
        PROVE  row'[j] = row[j]
    BY <1>0, <2>1 DEF RecordOutcome
  <2>2. CASE \/ CompletePortfolio(q, TRUE) \/ CompletePortfolio(q, FALSE)
             \/ FailPortfolio(q)
    BY <1>0, <2>2 DEF CompletePortfolio, FailPortfolio, JobRow
  <2>3. CASE ClearLease(q)
    BY <1>0, <2>3, ClearedOK DEF ClearLease
  <2>4. CASE CompleteRefused(q) \/ \E to \in {"completing", "failing"} : RequireLease(q, to)
    BY <1>0, <2>4 DEF CompleteRefused, RequireLease
  <2> QED
    BY <1>0, <1>4, <2>1, <2>2, <2>3, <2>4 DEF Outcome
<1>5. ASSUME NEW q \in Procs,
             \/ Spawn(q) \/ CheckCancel(q) \/ LeaseLost(q) \/ Finish(q) \/ Release(q)
             \/ Exit(q) \/ Crash(q) \/ Renew(q)
      PROVE  row'[j] = row[j]
  BY <1>0, <1>5 DEF Spawn, CheckCancel, LeaseLost, Finish, Release, Exit, Crash, Renew, HeldBy
<1>6. ASSUME NEW q \in Procs, NEW js, ExpireStale(q, js) PROVE row'[j] = row[j]
  BY <1>0, <1>6 DEF ExpireStale, Stale
<1>7. ASSUME NEW c \in Clients, ClientStep(c) PROVE row'[j] = row[j]
  <2>1. asked[c] # j
    BY <1>0, QueueAssumption DEF Inv, TypeOK, Jobs
  <2> QED
    BY <1>0, <1>7, <2>1 DEF ClientStep, CancelRead, CancelWrite
<1>8. CASE Tick \/ \E k \in Jobs : DayPasses(k)
  BY <1>0, <1>8 DEF Tick, DayPasses, JobRow
<1> QED
  BY <1>0, <1>2, <1>3, <1>4, <1>5, <1>6, <1>7, <1>8 DEF Next, ProcStep, Execute, Heartbeat

\* An ended portfolio job stays ended, although its outcome is written without a
\* fence (complete, fail, clear_lease).
THEOREM PortfolioStaysSettled == Spec => PortfolioSettled
<1>1. Inv /\ PhasesOK /\ [Next]_vars =>
        [\A j \in PortfolioJobs :
           row[j].status \notin Active => row'[j].status \notin Active]_vars
  BY SettledStep
<1> QED
  BY <1>1, InvAlways, PTL DEF Spec, PortfolioSettled
=============================================================================
