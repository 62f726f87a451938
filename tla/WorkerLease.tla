---------------------------- MODULE WorkerLease -----------------------------
(***************************************************************************)
(* One deployment row (a book) in PostgreSQL, the execution workers that   *)
(* lease it for a pass, and the writers that hold no lease: API requests,  *)
(* fleet commands, the portfolio supervisor and breaker pauses of peers.   *)
(*                                                                         *)
(* Every writer reads the row in one transaction and writes it in another. *)
(* A deployment write replaces all mutable columns, the two lease columns  *)
(* included, with the ones the writer read; only the revision compare-and- *)
(* swap stands between that and a lost update.  Time is relative: `left'   *)
(* is what remains of worker_lease_expires_at - now, 0 once expired.       *)
(*                                                                         *)
(* The writers here compute from the copy whose revision they compare.     *)
(* Two writes of the code do not: the status a reconcile walk restores     *)
(* from before its fills, and a discretionary request's saves without an   *)
(* expected revision.  OrderReconcile models both, and what they break.    *)
(***************************************************************************)
EXTENDS Naturals

CONSTANTS Workers,        \* execution-worker processes; an identity is never reused
          Writers,        \* requests and supervisors that write without a lease
          Fills,          \* venue fills a pass may ingest
          FundingHours,   \* funding hours a futures pass may charge
          NoHolder,       \* SQL NULL in worker_lease_holder
          TTL,            \* WORKER_LEASE_TTL_SECONDS, in ticks
          MaxRevision,    \* bound: row versions explored
          MaxIntents      \* bound: intents a worker records

ASSUME LeaseAssumption ==
    /\ NoHolder \notin Workers
    /\ TTL \in Nat \ {0}
    /\ MaxRevision \in Nat
    /\ MaxIntents \in Nat
    /\ Fills \cap FundingHours = {}

VARIABLES row,            \* the deployments row
          ledger,         \* entries recorded as applied (fill stamp, funding row)
          proc,           \* what each worker process is doing
          snap,           \* the row as each worker's pass last read it
          fence,          \* RevisionFencedStore._expected_revision of each pass
          request,        \* whether each writer holds a read
          seen,           \* the row as each writer read it
          intents,        \* how many order intents each worker recorded
          lastAcquirer    \* history: the last worker whose lease UPDATE matched

vars == <<row, ledger, proc, snap, fence, request, seen, intents, lastAcquirer>>

Entries == Fills \cup FundingHours
Statuses == {"running", "paused", "stopped"}
Revisions == 1..(MaxRevision + 1)

Deployment == [status : Statuses,
               selfClearing : BOOLEAN,  \* the pause reason is one a worker clears
               latched : BOOLEAN,
               cash : [Entries -> Nat],
               holder : Workers \cup {NoHolder},
               left : 0..TTL,
               revision : Revisions]

\* Mutant: rows start at revision 0, below what the readers accept.
CreatedAtZero == [status |-> "running", selfClearing |-> FALSE, latched |-> FALSE,
                  cash |-> [e \in Entries |-> 0],
                  holder |-> NoHolder, left |-> 0, revision |-> 0]

Created == [status |-> "running", selfClearing |-> FALSE, latched |-> FALSE,
            cash |-> [e \in Entries |-> 0],
            holder |-> NoHolder, left |-> 0, revision |-> 1]

Init == /\ row = Created
        /\ ledger = {}
        /\ proc = [w \in Workers |-> "idle"]
        /\ snap = [w \in Workers |-> Created]
        /\ fence = [w \in Workers |-> 1]
        /\ request = [o \in Writers |-> "idle"]
        /\ seen = [o \in Writers |-> Created]
        /\ intents = [w \in Workers |-> 0]
        /\ lastAcquirer = NoHolder

-----------------------------------------------------------------------------
(* Statements the store executes.                                          *)

\* Mutant: the UPDATE names the row by id alone.
RevisionUnchecked(expected) == row.revision <= MaxRevision

\* UPDATE ... WHERE revision = expected: the row must still be that version.
RevisionIs(expected) == row.revision = expected /\ row.revision <= MaxRevision

\* Mutant: the UPDATE forgets to move the revision.
WriteUnversioned(d) == row' = [d EXCEPT !.revision = row.revision]

\* Replace the mutable columns with d's, lease columns included.
Write(d) == row' = [d EXCEPT !.revision = row.revision + 1]

\* Mutant: a fail-closed pause also reopens a stopped book.
PauseAlways(s) == "paused"

\* The pause every fail-closed path writes; a stopped book keeps its status.
PauseStatus(s) == IF s = "stopped" THEN "stopped" ELSE "paused"

Paused(d) == [d EXCEPT !.status = PauseStatus(d.status), !.selfClearing = FALSE]

\* Mutant: the fence trusts its own counter, not the value being written.
RequireNothing(d, expected) == TRUE

\* require_revision: the value being written must itself be of the expected
\* version.  A fill may have advanced the fence; that does not authorise an
\* older read's cash against the newer row.
RequireRevision(d, expected) == d.revision = expected

\* Mutant: an expired lease still counts as held.
LeaseFreeUntimed(w) == row.holder = NoHolder \/ row.holder = w

\* A lease is taken when it is free, expired, or already this worker's.
LeaseFree(w) == row.holder = NoHolder \/ row.left = 0 \/ row.holder = w

\* Mutant: intents are recorded without reading the holder.
HolderUnchecked(w) == TRUE

\* require_lease_holder: a fenced intent passes unless another worker holds.
HolderAllows(w) == row.holder \in {NoHolder, w}

-----------------------------------------------------------------------------
(* A worker process.                                                       *)

Live(w) == proc[w] \in {"idle", "leased", "pass"}

\* acquire_worker_lease, at the start of _process_one.  An UPDATE that matches
\* no row returns None and the book is skipped this cycle.
AcquireLease(w) ==
    /\ proc[w] = "idle"
    /\ row.revision <= MaxRevision
    /\ LeaseFree(w)
    /\ Write([row EXCEPT !.holder = w, !.left = TTL])
    /\ proc' = [proc EXCEPT ![w] = "leased"]
    /\ lastAcquirer' = w
    /\ UNCHANGED <<ledger, snap, fence, request, seen, intents>>

\* The read after the lease; its revision arms the fence.
BeginPass(w) ==
    /\ proc[w] = "leased"
    /\ proc' = [proc EXCEPT ![w] = "pass"]
    /\ snap' = [snap EXCEPT ![w] = row]
    /\ fence' = [fence EXCEPT ![w] = row.revision]
    /\ UNCHANGED <<row, ledger, request, seen, intents, lastAcquirer>>

\* get_deployment in mid-pass: newer evidence, the same fence.
Reload(w) ==
    /\ proc[w] = "pass"
    /\ snap' = [snap EXCEPT ![w] = row]
    /\ UNCHANGED <<row, ledger, proc, fence, request, seen, intents, lastAcquirer>>

\* Mutant: a recovered feed or window resumes any unlatched pause.
PassValuesEager(d) ==
    {d, Paused(d), [d EXCEPT !.latched = TRUE]}
    \cup (IF d.status = "running"
          THEN {[d EXCEPT !.status = "paused", !.selfClearing = TRUE]} ELSE {})
    \cup (IF d.status = "paused" /\ ~d.latched
          THEN {[d EXCEPT !.status = "running", !.selfClearing = FALSE]} ELSE {})

\* The deployments a pass computes from what it read: runtime fields only, a
\* fail-closed pause, a latched breaker, the pause of a running book for the user
\* feed or a gap in its decision candles, and the automatic resume from those.
PassValues(d) ==
    {d, Paused(d), [d EXCEPT !.latched = TRUE]}
    \cup (IF d.status = "running"
          THEN {[d EXCEPT !.status = "paused", !.selfClearing = TRUE]} ELSE {})
    \cup (IF d.status = "paused" /\ d.selfClearing /\ ~d.latched
          THEN {[d EXCEPT !.status = "running", !.selfClearing = FALSE]} ELSE {})

\* save_deployment through the fence, or with the explicit revision of the read
\* it judged.  A conflict raises and ends the pass (EndPass).
SaveDeployment(w) ==
    /\ proc[w] = "pass"
    /\ \E expected \in {fence[w], snap[w].revision} :
          RequireRevision(snap[w], expected) /\ RevisionIs(expected)
    /\ \E d \in PassValues(snap[w]) : Write(d)
    /\ fence' = [fence EXCEPT ![w] = row.revision + 1]
    /\ UNCHANGED <<ledger, proc, snap, request, seen, intents, lastAcquirer>>

\* save_breaker_pause of the pass's own book: only breaker columns change, the
\* rest of the row is the stored one.
BreakerPaused(latch) ==
    [row EXCEPT !.status = IF row.status = "running" THEN "paused" ELSE row.status,
                !.selfClearing = IF row.status = "running" THEN FALSE
                                 ELSE row.selfClearing,
                !.latched = row.latched \/ latch]

BreakerPause(w, latch) ==
    /\ proc[w] = "pass"
    /\ RevisionIs(snap[w].revision)
    /\ Write(BreakerPaused(latch))
    /\ fence' = [fence EXCEPT ![w] = row.revision + 1]
    /\ UNCHANGED <<ledger, proc, snap, request, seen, intents, lastAcquirer>>

\* apply_fill_transaction: under the row lock, whatever the fence; a fill whose
\* economics are stamped changes nothing.  The fence follows the snapshot it
\* returns, the caller may still hold an older deployment.
ApplyFill(w, f) ==
    /\ proc[w] = "pass"
    /\ \/ /\ f \in ledger
          /\ fence' = [fence EXCEPT ![w] = row.revision]
          /\ UNCHANGED <<row, ledger>>
       \/ /\ f \notin ledger
          /\ row.revision <= MaxRevision
          /\ ledger' = ledger \cup {f}
          /\ \E d \in {row, Paused(row)} : Write([d EXCEPT !.cash[f] = @ + 1])
          /\ fence' = [fence EXCEPT ![w] = row.revision + 1]
    /\ UNCHANGED <<proc, snap, request, seen, intents, lastAcquirer>>

\* apply_funding_transaction: the row lock and the fence; hours already
\* recorded are skipped.
ApplyFunding(w, hours) ==
    /\ proc[w] = "pass"
    /\ RevisionIs(fence[w])
    /\ LET unseen == hours \ ledger IN
       /\ unseen # {}
       /\ ledger' = ledger \cup unseen
       /\ Write([row EXCEPT !.cash = [e \in Entries |->
                     row.cash[e] + (IF e \in unseen THEN 1 ELSE 0)]])
    /\ fence' = [fence EXCEPT ![w] = row.revision + 1]
    /\ UNCHANGED <<proc, snap, request, seen, intents, lastAcquirer>>

\* save_intent: the holder is read in the transaction that inserts the intent.
\* A refusal raises LeaseTakenError and ends the pass (EndPass).
SaveIntent(w) ==
    /\ proc[w] = "pass"
    /\ intents[w] < MaxIntents
    /\ HolderAllows(w)
    /\ intents' = [intents EXCEPT ![w] = @ + 1]
    /\ UNCHANGED <<row, ledger, proc, snap, fence, request, seen, lastAcquirer>>

\* The pass returns, or an exception ends it; the lease stays in the row.
EndPass(w) ==
    /\ proc[w] \in {"leased", "pass"}
    /\ proc' = [proc EXCEPT ![w] = "idle"]
    /\ snap' = [snap EXCEPT ![w] = Created]
    /\ fence' = [fence EXCEPT ![w] = 1]
    /\ UNCHANGED <<row, ledger, request, seen, intents, lastAcquirer>>

\* A clean stop, between cycles, clears the unexpired leases of this process.
\* The revision does not move.
StopWorker(w) ==
    /\ proc[w] = "idle"
    /\ proc' = [proc EXCEPT ![w] = "stopped"]
    /\ row' = IF row.holder = w /\ row.left > 0
              THEN [row EXCEPT !.holder = NoHolder, !.left = 0] ELSE row
    /\ UNCHANGED <<ledger, snap, fence, request, seen, intents, lastAcquirer>>

\* The process dies at any point; its lease and its committed writes stay.
Crash(w) ==
    /\ Live(w)
    /\ proc' = [proc EXCEPT ![w] = "crashed"]
    /\ snap' = [snap EXCEPT ![w] = Created]
    /\ fence' = [fence EXCEPT ![w] = 1]
    /\ UNCHANGED <<row, ledger, request, seen, intents, lastAcquirer>>

-----------------------------------------------------------------------------
(* Writers without a lease.                                                *)

Read(o) ==
    /\ request[o] = "idle"
    /\ request' = [request EXCEPT ![o] = "read"]
    /\ seen' = [seen EXCEPT ![o] = row]
    /\ UNCHANGED <<row, ledger, proc, snap, fence, intents, lastAcquirer>>

Finish(o) == /\ request[o] = "read"
             /\ request' = [request EXCEPT ![o] = "idle"]
             /\ seen' = [seen EXCEPT ![o] = Created]
             /\ UNCHANGED <<ledger, proc, snap, fence, intents, lastAcquirer>>

\* set_deployment_status: pause, resume or stop; a stopped book is never
\* resumed and a running one is not resumed again.
SetStatus(o, s) ==
    /\ ~(seen[o].status = "stopped" /\ s # "stopped")
    /\ ~(seen[o].status = "running" /\ s = "running")
    /\ RevisionIs(seen[o].revision)
    /\ Write([seen[o] EXCEPT !.status = s, !.selfClearing = FALSE])
    /\ Finish(o)

\* reset_breaker_latches: refused when nothing is latched.
ResetLatches(o) ==
    /\ seen[o].latched
    /\ RevisionIs(seen[o].revision)
    /\ Write([seen[o] EXCEPT !.latched = FALSE])
    /\ Finish(o)

\* The portfolio supervisor pauses a sleeve book its cycle listed as running.
PauseSleeve(o) ==
    /\ seen[o].status = "running"
    /\ RevisionIs(seen[o].revision)
    /\ Write([seen[o] EXCEPT !.status = "paused", !.selfClearing = FALSE])
    /\ Finish(o)

\* _sync_allocations: the sleeve's new capital; every other column as it was read.
SyncAllocation(o) ==
    /\ RevisionIs(seen[o].revision)
    /\ Write(seen[o])
    /\ Finish(o)

\* record_confirmed_fleet_command: the stored row, locked at the confirmed
\* revision, is stopped.
FleetStop(o) ==
    /\ RevisionIs(seen[o].revision)
    /\ Write([row EXCEPT !.status = "stopped", !.selfClearing = FALSE])
    /\ Finish(o)

\* _pause_daily_peer: another book's daily loss pauses this one.
PausePeer(o, latch) ==
    /\ seen[o].status = "running" \/ (latch /\ ~seen[o].latched)
    /\ RevisionIs(seen[o].revision)
    /\ Write(BreakerPaused(latch))
    /\ Finish(o)

\* The write is refused (revision conflict, nothing to do) or never sent.
Abandon(o) == Finish(o) /\ UNCHANGED row

-----------------------------------------------------------------------------
\* One unit of time passes for the row and for every copy of it.
Tick ==
    LET aged(d) == [d EXCEPT !.left = IF d.left > 0 THEN d.left - 1 ELSE 0] IN
    /\ row' = aged(row)
    /\ snap' = [w \in Workers |-> aged(snap[w])]
    /\ seen' = [o \in Writers |-> aged(seen[o])]
    /\ UNCHANGED <<ledger, proc, fence, request, intents, lastAcquirer>>

WorkerStep(w) ==
    \/ AcquireLease(w) \/ BeginPass(w) \/ Reload(w) \/ SaveDeployment(w)
    \/ \E latch \in BOOLEAN : BreakerPause(w, latch)
    \/ \E f \in Fills : ApplyFill(w, f)
    \/ \E hours \in SUBSET FundingHours : ApplyFunding(w, hours)
    \/ SaveIntent(w) \/ EndPass(w) \/ StopWorker(w) \/ Crash(w)

WriterStep(o) ==
    \/ Read(o)
    \/ \E s \in Statuses : SetStatus(o, s)
    \/ ResetLatches(o) \/ PauseSleeve(o) \/ SyncAllocation(o) \/ FleetStop(o)
    \/ \E latch \in BOOLEAN : PausePeer(o, latch)
    \/ Abandon(o)

Next == \/ \E w \in Workers : WorkerStep(w)
        \/ \E o \in Writers : WriterStep(o)
        \/ Tick

Spec == Init /\ [][Next]_vars

\* The worker loop visits the book every cycle and a pass ends (venue calls have
\* timeouts, errors are caught per book); time passes.  Nothing forces a save,
\* a request or a crash.
LiveSpec == /\ Spec
            /\ WF_vars(Tick)
            /\ \A w \in Workers : /\ WF_vars(AcquireLease(w))
                                  /\ WF_vars(BeginPass(w))
                                  /\ WF_vars(EndPass(w))

-----------------------------------------------------------------------------
(* Properties.                                                             *)

\* Every variable keeps the shape the store and the worker give it.
TypeOK == /\ row \in Deployment
          /\ ledger \in SUBSET Entries
          /\ proc \in [Workers -> {"idle", "leased", "pass", "stopped", "crashed"}]
          /\ snap \in [Workers -> Deployment]
          /\ fence \in [Workers -> Revisions]
          /\ request \in [Writers -> {"idle", "read"}]
          /\ seen \in [Writers -> Deployment]
          /\ intents \in [Workers -> 0..MaxIntents]
          /\ lastAcquirer \in Workers \cup {NoHolder}

\* The cash column holds each fill recorded as applied, and each funding hour
\* recorded, exactly once, and nothing else: no writer that read the row before
\* an apply_fill_transaction or apply_funding_transaction writes the older cash
\* back, and no replay of either charges twice.
EconomicsOnce == \A e \in Entries : row.cash[e] = IF e \in ledger THEN 1 ELSE 0

\* A copy is not newer than the row, and one of the row's revision agrees with
\* it on everything but the lease columns, which a clean stop clears without a
\* new revision; even those name nobody but the last acquirer.
Coherent(d) ==
    /\ d.revision <= row.revision
    /\ d.revision = row.revision =>
          /\ d.status = row.status
          /\ d.selfClearing = row.selfClearing
          /\ d.latched = row.latched
          /\ d.cash = row.cash
          /\ d.holder \in {NoHolder, lastAcquirer}

\* A revision names one version of the row: whatever a worker's pass, a request
\* or a supervisor read is either that version or carries an older revision, so
\* the compare-and-swap of save_deployment admits no write computed from
\* columns that have changed since.
CopiesCoherent == /\ Coherent(Created)
                  /\ \A w \in Workers : Coherent(snap[w])
                  /\ \A o \in Writers : Coherent(seen[o])

\* worker_lease_holder names the last worker whose lease UPDATE matched, or
\* nobody.  Every save_deployment rewrites that column from a possibly old
\* read, so this is what makes the column fit to fence intents with.
HolderIsLastAcquirer == row.holder \in {NoHolder, lastAcquirer}

\* An intent is recorded only by the last worker to take the book, or while the
\* row names no holder: save_intent never admits a pass whose lease another
\* worker took and still holds (ADR 0153).
FencedIntents ==
    [][\A w \in Workers :
         intents'[w] # intents[w] => row.holder = NoHolder \/ lastAcquirer = w]_vars

\* _clear_feed_only_pause, _clear_data_gap_only_pause: without an operator's
\* request, a paused book starts running again only when the user-feed gate or a
\* decision-window gap is the sole reason in the stored row; an operator pause, a
\* fault or a latch written since the worker read the book is never resumed.
OtherPausesKept ==
    [][row.status = "paused" /\ row'.status = "running" =>
         \/ row.selfClearing /\ ~row.latched
         \/ \E o \in Writers : request[o] = "read" /\ request'[o] = "idle"]_vars

\* The row, as its readers see it, behaves like a book updated atomically.
Book == INSTANCE AtomicBook
          WITH status <- row.status, latched <- row.latched, cash <- row.cash

\* Reads and writes in separate transactions, by several workers and writers,
\* implement the atomic book: stops are final, economics are booked once, only a
\* reset clears a latch.
ImplementsAtomicBook == Book!BookSpec

\* A lease left by a crashed worker does not keep the book from being
\* maintained: if another worker lives, one takes it (or none is left, or the
\* explored revisions are used up).
CrashedLeaseTakenOver ==
    \A w \in Workers :
        proc[w] = "crashed" /\ row.holder = w
          ~> \/ row.holder # w
             \/ \A v \in Workers : ~Live(v)
             \/ row.revision > MaxRevision
==================================================
