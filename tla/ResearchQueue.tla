--------------------------- MODULE ResearchQueue ----------------------------
(***************************************************************************)
(* The two research job tables (research_jobs, portfolio_backtest_jobs),   *)
(* the worker processes that claim rows under a lease, and the API's       *)
(* cancel requests (ADR 0092).                                             *)
(*                                                                         *)
(* A process owns one token for life; the processes a supervisor slot runs *)
(* one after the other share a lineage.  A research job's outcome is       *)
(* written by one UPDATE fenced on the lease; a portfolio job's lease is   *)
(* checked in one transaction and its outcome written in the next.  Time   *)
(* is relative: `left' is what remains of lease_expires_at - now.          *)
(***************************************************************************)
EXTENDS Naturals

CONSTANTS ResearchJobs,   \* rows of research_jobs
          PortfolioJobs,  \* rows of portfolio_backtest_jobs
          Procs,          \* process owner tokens, each used by one process
          Lineages,       \* host/supervisor-pid/slot prefixes
          Clients,        \* API requests that cancel research jobs
          NoProc,         \* SQL NULL in lease_owner
          NoJob,          \* a process or client with no job
          TTL,            \* research_job_lease_seconds, in ticks
          MaxAttempts     \* research_job_max_attempts

ASSUME QueueAssumption ==
    /\ NoProc \notin Procs
    /\ NoJob \notin ResearchJobs \cup PortfolioJobs
    /\ ResearchJobs \cap PortfolioJobs = {}
    /\ TTL \in Nat \ {0}
    /\ MaxAttempts \in Nat \ {0}

VARIABLES row,            \* the job rows
          phase,          \* where each process is
          job,            \* WorkerStatus._job of each process
          lineage,        \* the slot each process was spawned in
          asked,          \* the job each client's cancel has read
          read,           \* the status that read returned
          claimer,        \* history: the last process to claim each job
          recorder        \* history: the last process to record an outcome

vars == <<row, phase, job, lineage, asked, read, claimer, recorder>>
history == <<claimer, recorder>>

Jobs == ResearchJobs \cup PortfolioJobs
Active == {"queued", "running"}
Statuses == Active \cup {"completed", "failed", "cancelled", "expired"}

\* A process that has a job: executor.execute is under way.
Executing == {"claimed", "working", "cancelling", "completing", "rescue",
              "failing", "clearing"}
Phases == {"unborn", "starting", "idle", "done", "gone"} \cup Executing

JobRow == [status : Statuses, owner : Procs \cup {NoProc}, left : 0..TTL,
           attempts : Nat, cancel : BOOLEAN, overdue : BOOLEAN]

Queued == [status |-> "queued", owner |-> NoProc, left |-> 0,
           attempts |-> 0, cancel |-> FALSE, overdue |-> FALSE]

Init == /\ row = [j \in Jobs |-> Queued]
        /\ phase = [p \in Procs |-> "unborn"]
        /\ job = [p \in Procs |-> NoJob]
        /\ lineage \in [Procs -> Lineages]
        /\ asked = [c \in Clients |-> NoJob]
        /\ read = [c \in Clients |-> "queued"]
        /\ claimer = [j \in Jobs |-> NoProc]
        /\ recorder = [j \in Jobs |-> NoProc]

-----------------------------------------------------------------------------
(* Statements.                                                             *)

Live(p) == phase[p] \notin {"unborn", "gone"}
HasJob(p) == phase[p] \in Executing \cup {"done"}

\* Mutant: the UPDATE is fenced on the status alone.
HeldByAnyone(p) == row[job[p]].status = "running"

\* The lease predicate of the fenced UPDATE and of holds_lease.
Held(p) == row[job[p]].owner = p /\ row[job[p]].status = "running"

Cleared(r) == [r EXCEPT !.owner = NoProc, !.left = 0]

\* Mutant: the WHERE clause forgets the status.
LeasedTo(p) == {j \in Jobs : row[j].owner = p}

\* The rows release, renew and requeue_lineage match for a process.
HeldBy(p) == {j \in Jobs : row[j].status = "running" /\ row[j].owner = p}

\* Mutant: only rows that never had a lease count as orphans.
NeverLeased == {j \in Jobs : row[j].status = "running" /\ row[j].owner = NoProc}

\* _lease_expired: the lease is gone or past due.
LeaseExpired == {j \in Jobs : row[j].status = "running" /\ row[j].left = 0}

\* Mutant: one attempt too many.
SweptLate(j) ==
    LET to == IF j \in ResearchJobs /\ row[j].cancel THEN "cancelled"
              ELSE IF row[j].attempts > MaxAttempts THEN "failed" ELSE "queued"
    IN [Cleared(row[j]) EXCEPT !.status = to]

\* What _sweep_table leaves of an orphan: cancelled if that was asked for,
\* failed at the attempt limit, queued again otherwise.
Swept(j) ==
    LET to == IF j \in ResearchJobs /\ row[j].cancel THEN "cancelled"
              ELSE IF row[j].attempts >= MaxAttempts THEN "failed" ELSE "queued"
    IN [Cleared(row[j]) EXCEPT !.status = to]

Sweep(orphans) ==
    row' = [j \in Jobs |-> IF j \in orphans THEN Swept(j) ELSE row[j]]

\* Mutant: release always hands the row back.
ReleasedToQueue(j) ==
    [Cleared(row[j]) EXCEPT !.status = "queued",
                            !.attempts = IF @ > 0 THEN @ - 1 ELSE 0]

\* What release leaves: the attempt is not counted.
Released(j) ==
    [Cleared(row[j]) EXCEPT
        !.status = IF j \in ResearchJobs /\ row[j].cancel THEN "cancelled" ELSE "queued",
        !.attempts = IF @ > 0 THEN @ - 1 ELSE 0]

Goto(p, to) == phase' = [phase EXCEPT ![p] = to]

-----------------------------------------------------------------------------
(* A worker process.                                                       *)

\* Mutant: the slot is refilled without waiting for its process to exit.
SlotAlwaysFree(p) == TRUE

\* _spawn: a fresh token, in a slot whose previous process has exited.
SlotFree(p) == \A q \in Procs : Live(q) => lineage[q] # lineage[p]

Spawn(p) ==
    /\ phase[p] = "unborn"
    /\ SlotFree(p)
    /\ Goto(p, "starting")
    /\ UNCHANGED <<row, job, lineage, asked, read, history>>

\* _recover_predecessor: sweep what the slot's dead processes left running.
Recover(p) ==
    /\ phase[p] = "starting"
    /\ Sweep(UNION {HeldBy(q) : q \in {q \in Procs : lineage[q] = lineage[p]}})
    /\ Goto(p, "idle")
    /\ UNCHANGED <<job, lineage, asked, read, history>>

Claimed(p, j) ==
    /\ row[j].status = "queued"
    /\ ~row[j].overdue
    /\ row' = [row EXCEPT ![j] =
                 [row[j] EXCEPT !.status = "running", !.owner = p, !.left = TTL,
                                !.attempts = row[j].attempts + 1]]
    /\ claimer' = [claimer EXCEPT ![j] = p]

Claim(p, j) ==
    /\ phase[p] = "idle"
    /\ Claimed(p, j)
    /\ job' = [job EXCEPT ![p] = j]
    /\ Goto(p, IF j \in ResearchJobs THEN "claimed" ELSE "working")
    /\ UNCHANGED <<lineage, asked, read, recorder>>

\* The claim commits but its reply is lost: _claim logs and returns None, the
\* row runs under a process that does not know of it.
ClaimLost(p, j) ==
    /\ phase[p] = "idle"
    /\ Claimed(p, j)
    /\ UNCHANGED <<phase, job, lineage, asked, read, recorder>>

\* is_cancel_requested, first in run_backtest_job and run_study_job, and again
\* before each window of a study.
CheckCancel(p) ==
    /\ \/ phase[p] = "claimed"
       \/ phase[p] = "working" /\ job[p] \in ResearchJobs /\ row[job[p]].cancel
    /\ Goto(p, IF row[job[p]].cancel THEN "cancelling" ELSE "working")
    /\ UNCHANGED <<row, job, lineage, asked, read, history>>

\* _replace through a leased store: one UPDATE fenced on the lease.  The reply
\* to a commit may be lost; the process then tries mark_failed.
RecordOutcome(p, s, acknowledged) ==
    /\ job[p] \in ResearchJobs
    /\ \/ s = "completed" /\ phase[p] = "working"
       \/ s = "cancelled" /\ phase[p] = "cancelling"
       \/ s = "failed" /\ phase[p] \in {"claimed", "working", "cancelling"}
    /\ Held(p)
    /\ row' = [row EXCEPT ![job[p]] = [Cleared(@) EXCEPT !.status = s]]
    /\ recorder' = [recorder EXCEPT ![job[p]] = p]
    /\ IF acknowledged THEN Goto(p, "done") ELSE UNCHANGED phase
    /\ UNCHANGED <<job, lineage, asked, read, claimer>>

\* ResearchJobLeaseLostError, from a fenced write or _require_lease: abandon.
LeaseLost(p) ==
    /\ phase[p] \in {"claimed", "working", "cancelling", "rescue"}
    /\ ~Held(p)
    /\ Goto(p, "done")
    /\ UNCHANGED <<row, job, lineage, asked, read, history>>

\* LeasedPortfolioBacktestStore: the check before complete or fail.
RequireLease(p, to) ==
    /\ job[p] \in PortfolioJobs
    /\ \/ to = "completing" /\ phase[p] = "working"
       \/ to = "failing" /\ phase[p] \in {"working", "rescue"}
    /\ Held(p)
    /\ Goto(p, to)
    /\ UNCHANGED <<row, job, lineage, asked, read, history>>

\* complete: result, journal entry and status in one transaction, whoever holds
\* the row by now.  A lost reply sends run_job to its except clause.
CompletePortfolio(p, acknowledged) ==
    /\ phase[p] = "completing"
    /\ row' = [row EXCEPT ![job[p]].status = "completed"]
    /\ recorder' = [recorder EXCEPT ![job[p]] = p]
    /\ Goto(p, IF acknowledged THEN "clearing" ELSE "rescue")
    /\ UNCHANGED <<job, lineage, asked, read, claimer>>

\* The storage failed inside complete: run_job goes on to record a failure.
CompleteRefused(p) ==
    /\ phase[p] = "completing"
    /\ Goto(p, "rescue")
    /\ UNCHANGED <<row, job, lineage, asked, read, history>>

\* fail, or _fail swallowing the PortfolioError it met.
FailPortfolio(p) ==
    /\ phase[p] = "failing"
    /\ \/ /\ row' = [row EXCEPT ![job[p]].status = "failed"]
          /\ recorder' = [recorder EXCEPT ![job[p]] = p]
       \/ UNCHANGED <<row, recorder>>
    /\ Goto(p, "clearing")
    /\ UNCHANGED <<job, lineage, asked, read, claimer>>

\* clear_lease, once run_job returned.
ClearLease(p) ==
    /\ phase[p] = "clearing"
    /\ row' = IF row[job[p]].owner = p
              THEN [row EXCEPT ![job[p]] = Cleared(@)] ELSE row
    /\ Goto(p, "done")
    /\ UNCHANGED <<job, lineage, asked, read, history>>

\* An exception escaped execute: requeue_lineage(owner), the attempt counted.
Escape(p) ==
    /\ phase[p] \in Executing
    /\ Sweep(HeldBy(p))
    /\ Goto(p, "done")
    /\ UNCHANGED <<job, lineage, asked, read, history>>

\* Mutant: the finished job stays current.
FinishKeepingJob(p) ==
    /\ phase[p] = "done"
    /\ Goto(p, "idle")
    /\ UNCHANGED <<row, job, lineage, asked, read, history>>

\* WorkerStatus.finished.
Finish(p) ==
    /\ phase[p] = "done"
    /\ job' = [job EXCEPT ![p] = NoJob]
    /\ Goto(p, "idle")
    /\ UNCHANGED <<row, lineage, asked, read, history>>

Gone(p) == /\ Goto(p, "gone")
           /\ job' = [job EXCEPT ![p] = NoJob]
           /\ UNCHANGED <<lineage, asked, read, history>>

\* A stop during a job hands every row of the process back.
Release(p) ==
    /\ phase[p] \in Executing
    /\ row' = [j \in Jobs |-> IF j \in HeldBy(p) THEN Released(j) ELSE row[j]]
    /\ Gone(p)

\* A stop between jobs, or a recycle after one.
Exit(p) == phase[p] \in {"idle", "done"} /\ Gone(p) /\ UNCHANGED row

\* The process dies; its rows keep their lease.
Crash(p) == Live(p) /\ Gone(p) /\ UNCHANGED row

-----------------------------------------------------------------------------
(* LeaseHeartbeat, a thread of the process.  One beat renews and, every few *)
(* beats, sweeps and expires; each is a transaction of its own that an      *)
(* outage may fail.                                                         *)

\* renew: every running row of the process, while it has a job.
Renew(p) ==
    /\ HasJob(p)
    /\ row' = [j \in Jobs |-> IF j \in HeldBy(p)
                              THEN [row[j] EXCEPT !.left = TTL] ELSE row[j]]
    /\ UNCHANGED <<phase, job, lineage, asked, read, history>>

Beating(p) == phase[p] = "idle" \/ HasJob(p)

RequeueExpired(p) ==
    /\ Beating(p)
    /\ LeaseExpired # {}
    /\ Sweep(LeaseExpired)
    /\ UNCHANGED <<phase, job, lineage, asked, read, history>>

\* Mutant: only queued jobs expire.
StaleQueued(js) == {j \in js : row[j].overdue /\ row[j].status = "queued"}

\* expire_stale of both stores: the lease columns stay.
Stale(js) == {j \in js : row[j].overdue /\ row[j].status \in Active}

ExpireStale(p, js) ==
    /\ Beating(p)
    /\ Stale(js) # {}
    /\ row' = [j \in Jobs |-> IF j \in Stale(js)
                              THEN [row[j] EXCEPT !.status = "expired"] ELSE row[j]]
    /\ UNCHANGED <<phase, job, lineage, asked, read, history>>

-----------------------------------------------------------------------------
(* PostgresResearchJobStore.cancel, from the API: read, then write.         *)

CancelRead(c, j) ==
    /\ asked[c] = NoJob
    /\ row[j].status # "completed"
    /\ asked' = [asked EXCEPT ![c] = j]
    /\ read' = [read EXCEPT ![c] = row[j].status]
    /\ UNCHANGED <<row, phase, job, lineage, history>>

\* The row cancel writes: a running job is asked to stop and any other is
\* cancelled, as the read saw it; the write is not fenced.
CancelledRow(r, s) ==
    IF s = "running" THEN [r EXCEPT !.status = "running", !.cancel = TRUE]
                     ELSE [r EXCEPT !.status = "cancelled"]

CancelWrite(c) ==
    /\ asked[c] # NoJob
    /\ row' = [row EXCEPT ![asked[c]] = CancelledRow(@, read[c])]
    /\ asked' = [asked EXCEPT ![c] = NoJob]
    /\ read' = [read EXCEPT ![c] = "queued"]
    /\ UNCHANGED <<phase, job, lineage, history>>

-----------------------------------------------------------------------------
\* Leases run down.
Tick ==
    /\ \E j \in Jobs : row[j].left > 0
    /\ row' = [j \in Jobs |->
                 [row[j] EXCEPT !.left = IF @ > 0 THEN @ - 1 ELSE 0]]
    /\ UNCHANGED <<phase, job, lineage, asked, read, history>>

\* A job's expires_at (a day after it was queued) passes.
DayPasses(j) ==
    /\ ~row[j].overdue
    /\ row' = [row EXCEPT ![j].overdue = TRUE]
    /\ UNCHANGED <<phase, job, lineage, asked, read, history>>

Outcome(p) ==
    \/ \E s \in Statuses, acknowledged \in BOOLEAN : RecordOutcome(p, s, acknowledged)
    \/ \E to \in {"completing", "failing"} : RequireLease(p, to)
    \/ \E acknowledged \in BOOLEAN : CompletePortfolio(p, acknowledged)
    \/ CompleteRefused(p) \/ FailPortfolio(p) \/ ClearLease(p)

Execute(p) == CheckCancel(p) \/ Outcome(p) \/ LeaseLost(p) \/ Escape(p) \/ Finish(p)

Heartbeat(p) == \/ Renew(p) \/ RequeueExpired(p)
                \/ \E js \in {ResearchJobs, PortfolioJobs} : ExpireStale(p, js)

ProcStep(p) ==
    \/ Spawn(p) \/ Recover(p)
    \/ \E j \in Jobs : Claim(p, j) \/ ClaimLost(p, j)
    \/ Execute(p) \/ Release(p) \/ Exit(p) \/ Crash(p) \/ Heartbeat(p)

ClientStep(c) == CancelWrite(c) \/ \E j \in ResearchJobs : CancelRead(c, j)

Next == \/ \E p \in Procs : ProcStep(p)
        \/ \E c \in Clients : ClientStep(c)
        \/ Tick
        \/ \E j \in Jobs : DayPasses(j)

Spec == Init /\ [][Next]_vars

\* Leases run down; the supervisor spawns, a started process recovers its slot
\* and its heartbeat thread sweeps.  No job need finish, no row need be renewed.
RecoverySpec ==
    /\ Spec
    /\ WF_vars(Tick)
    /\ \A p \in Procs : /\ WF_vars(Spawn(p))
                        /\ WF_vars(Recover(p))
                        /\ WF_vars(RequeueExpired(p))

\* Days pass too, and the heartbeat expires what is overdue.
LiveSpec ==
    /\ RecoverySpec
    /\ \A j \in Jobs : WF_vars(DayPasses(j))
    /\ \A p \in Procs : /\ WF_vars(ExpireStale(p, ResearchJobs))
                        /\ WF_vars(ExpireStale(p, PortfolioJobs))

-----------------------------------------------------------------------------
(* Properties.                                                             *)

\* The rows and the processes keep their shape; a process has a current job
\* exactly while it executes or finishes one (WorkerStatus).
TypeOK == /\ row \in [Jobs -> JobRow]
          /\ phase \in [Procs -> Phases]
          /\ job \in [Procs -> Jobs \cup {NoJob}]
          /\ \A p \in Procs : HasJob(p) <=> job[p] # NoJob
          /\ lineage \in [Procs -> Lineages]
          /\ asked \in [Clients -> ResearchJobs \cup {NoJob}]
          /\ read \in [Clients -> Statuses]
          /\ claimer \in [Jobs -> Procs \cup {NoProc}]
          /\ recorder \in [Jobs -> Procs \cup {NoProc}]

\* A research job's outcome comes from its last claimer: a process that lost
\* its lease to a sweep never overwrites, or pre-empts, the attempt that
\* replaced it, and a recorded job is never claimed again, whatever cancel
\* requests race with both.
OutcomeByLastClaimer ==
    \A j \in ResearchJobs : recorder[j] \in {NoProc, claimer[j]}

\* A job is queued only while attempts are left and started at most
\* research_job_max_attempts times, released attempts aside, however often
\* sweeps, lost claims and cancel races put it back.
AttemptsBounded ==
    \A j \in Jobs : /\ row[j].attempts <= MaxAttempts
                    /\ row[j].status = "queued" => row[j].attempts < MaxAttempts

\* A requested cancellation is never forgotten by putting the job back in the
\* queue: neither release, nor a sweep, nor the cancel write itself does.
CancelNotRequeued == \A j \in ResearchJobs : row[j].status = "queued" => ~row[j].cancel

\* A running row under an unexpired lease goes back to the queue only by a step
\* of its own process: neither another process's sweep nor a successor's
\* recovery takes a live worker's job.
LiveLeaseKept ==
    [][\A j \in Jobs, p \in Procs :
         /\ row[j].status = "running" /\ row[j].owner = p /\ row[j].left > 0
         /\ Live(p) /\ phase'[p] = phase[p]
         => row'[j].status # "queued"]_vars

\* Every token is used up: nobody is left to sweep.
PoolDown == \A p \in Procs : phase[p] = "gone"

\* A portfolio job that ended stays ended: although complete and fail write a
\* terminal status under a lease that is cleared only afterwards, and late ones
\* write it over another attempt, no release, sweep or escape in between makes
\* the row run again.
PortfolioSettled ==
    [][\A j \in PortfolioJobs :
         row[j].status \notin Active => row'[j].status \notin Active]_vars

\* A row whose process died is taken from it well before the job's day is over:
\* its slot's next process or any other process's sweep does so.
OrphansRecovered ==
    \A j \in Jobs, p \in Procs :
        row[j].status = "running" /\ row[j].owner = p /\ phase[p] = "gone"
          ~> ~(row[j].status = "running" /\ row[j].owner = p) \/ PoolDown

\* Every job leaves queued and running in the end, even one kept running by a
\* process that renews it without executing it (ClaimLost, or a cancel that
\* revived the row), or one nobody claims.
JobsSettle ==
    \A j \in Jobs : row[j].status \in Active
                      ~> row[j].status \notin Active \/ PoolDown
==================================================
