--------------------------- MODULE OrderReconcile ---------------------------
(***************************************************************************)
(* One live spot book buying one entry order, with or without an attached  *)
(* bracket child that sells it: the submit that may end with an unknown    *)
(* outcome, the reconcile walk that reads the orders and their fills back  *)
(* from the venue, and the fill transaction that books each fill.          *)
(*                                                                         *)
(* Workers walk through a revision-fenced store; a Ticket is an API        *)
(* request that places a discretionary order and, on an unknown outcome,   *)
(* walks the same book through the plain store.  Executions come in units: *)
(* fill k of order o is its k-th executed unit, and a listing shows the    *)
(* first `shown' of them.                                                  *)
(***************************************************************************)
EXTENDS Integers

CONSTANTS Workers,      \* execution-worker passes, revision fenced
          Scoped,       \* workers whose pass runs on one product's scoped store
          Tickets,      \* API requests placing a discretionary order, not fenced
          Bracketed,    \* whether the entry carries an attached bracket
          Qty,          \* quantity of the entry and of its bracket
          SettleDelay,  \* CANCELED_SETTLE_DELAY, in ticks
          MaxFailures,  \* bound: venue calls that fail, or answer "unknown"
          MaxCommands,  \* bound: operator commands
          MaxCrashes    \* bound: processes that die mid-way

ASSUME ReconcileAssumption ==
    /\ Workers \cap Tickets = {}
    /\ Scoped \subseteq Workers
    /\ Bracketed \in BOOLEAN
    /\ Qty \in Nat \ {0}
    /\ SettleDelay \in Nat \ {0}
    /\ MaxFailures \in Nat
    /\ MaxCommands \in Nat
    /\ MaxCrashes \in Nat

VARIABLES venue,     \* the venue's orders
          earlier,   \* entry units executed before each unit of the child
          row,       \* execution_orders, by order
          applied,   \* units of each order whose fills carry economics_applied_at
          book,      \* the deployments row
          pos,       \* execution_positions: units held, negative when short
          pc,        \* where each process is
          mem,       \* what each process holds in memory
          seen,      \* whether p's copy of the book has the row's revision
          fence,     \* whether the revision p's store is fenced at is the row's
          failures, commands, crashes    \* how much of each bound is used

store == <<row, applied, book, pos>>
vars == <<venue, earlier, row, applied, book, pos, pc, mem, seen, fence,
          failures, commands, crashes>>

Procs == Workers \cup Tickets
Orders == IF Bracketed THEN {"entry", "child"} ELSE {"entry"}
Units == 0..Qty
Ages == 0..(SettleDelay + 1)      \* 0: never; n: n - 1 ticks ago, saturating
Unlisted == -1

VenueStatuses == {"none", "inflight", "refused", "open", "filled", "canceled"}
VenueOrder == [st : VenueStatuses, exec : Units, shown : Units, age : Ages]

Statuses == {"none", "pending", "open", "unknown", "filled", "canceled", "rejected"}
OrderRow == [st : Statuses,
             vid : BOOLEAN,       \* venue_order_id is known
             filled : Units,
             kid : BOOLEAN,       \* attached_child_venue_order_id is known
             since : Ages,        \* age of canceled_at
             settled : BOOLEAN]

ReadFaults == {"order_read", "fill_read"}
Faults == ReadFaults \cup {"unconfirmed", "uncovered", "venue_unknown",
                           "unprojected", "no_stop", "entry_unconfirmed",
                           "no_local_fill"}
Details == Faults \cup {"none"}

Deployment == [status : {"running", "paused", "stopped"},
               detail : Details,              \* mismatch_detail
               stop : BOOLEAN,                \* pending_stop_price is set
               cash : [Orders -> Nat]]        \* units of each order cash reflects

NoRow == [st |-> "none", vid |-> FALSE, filled |-> 0, kid |-> FALSE,
          since |-> 0, settled |-> FALSE]

Created == [status |-> "running", detail |-> "none", stop |-> FALSE,
            cash |-> [o \in Orders |-> 0]]

\* What a process forgets when it ends or dies.
Blank == [snap |-> Created,          \* the book as last read
          cover |-> [o \in Orders |-> 0],   \* applied units, as last read
          started |-> "running",     \* status and detail when the walk began
          detail |-> "none",
          first |-> "none",          \* first_fault
          before |-> "none",         \* detail when the current order's turn began
          outer |-> [started |-> "running", detail |-> "none", first |-> "none",
                    before |-> "none"],    \* the walk's, while a child is imported
          then |-> "walk",           \* what follows the current turn
          rows |-> [o \in Orders |-> NoRow],
          walked |-> {},             \* orders the walk visits
          todo |-> {},
          listed |-> [o \in Orders |-> Unlisted],
          short |-> {},
          linked |-> FALSE,          \* the plan knows the child's parent
          required |-> Unlisted,     \* what the child's listing requires of the entry
          reread |-> {},             \* orders whose fills were applied up front
          known |-> [o \in Orders |-> 0],
          cur |-> "entry",
          upd |-> NoRow,             \* `updated', the row this read produced
          got |-> "none",            \* status the venue answered, or the fault found
          due |-> FALSE]             \* the read came SettleDelay after the cancel

Max(a, b) == IF a < b THEN b ELSE a
Abs(n) == IF n < 0 THEN -n ELSE n
Older(n) == IF n = 0 THEN 0 ELSE IF n > SettleDelay THEN n ELSE n + 1

Init == /\ venue = [o \in Orders |-> [st |-> "none", exec |-> 0, shown |-> 0, age |-> 0]]
        /\ earlier = [k \in 1..Qty |-> 0]
        /\ row = [o \in Orders |-> NoRow]
        /\ applied = [o \in Orders |-> 0]
        /\ book = Created
        /\ pos = 0
        /\ pc = [p \in Procs |-> "idle"]
        /\ mem = [p \in Procs |-> Blank]
        /\ seen = [p \in Procs |-> FALSE]
        /\ fence = [p \in Procs |-> FALSE]
        /\ failures = 0 /\ commands = 0 /\ crashes = 0

-----------------------------------------------------------------------------
(* The ledger's predicates.                                                *)

\* Mutant: an order reported filled is taken to be complete.
NeedsUnlessFilled(r, n) ==
    \/ r.st \in {"open", "pending", "unknown"}
    \/ r.st = "canceled" /\ ~r.settled

\* _needs_reconcile: whether an order held as r, of which n units are known to
\* be applied, must still be read.
Needs(r, n) ==
    \/ r.st \in {"open", "pending", "unknown"}
    \/ r.st = "filled" /\ n < Qty
    \/ r.st = "canceled" /\ ~r.settled

\* Net applied inventory: entries less what the bracket sold.
Balance == applied["entry"] - (IF Bracketed THEN applied["child"] ELSE 0)

\* Mutant: a flat book does not contradict the inventory.
UnprojectedOpposite == applied["entry"] > 0 /\ Balance * pos < 0

\* unprojected_inventory_products: applied inventory no position describes.
Unprojected ==
    /\ applied["entry"] > 0
    /\ Balance # 0
    /\ (Balance * pos <= 0 \/ Abs(Balance) > Abs(pos))

\* unsettled_fill_evidence: recorded executions exceed applied economics.
Unsettled ==
    \E o \in Orders :
        applied[o] < (IF row[o].st = "filled" THEN Max(Qty, row[o].filled)
                      ELSE row[o].filled)

-----------------------------------------------------------------------------
(* Writes of the execution store.                                          *)

\* save_order: replace the row; the first cancel time and the settlement stay.
Upsert(old, new) ==
    [new EXCEPT
        !.since = IF old.since > 0 THEN old.since
                  ELSE IF new.since = 0 /\ new.st = "canceled" THEN 1 ELSE new.since,
        !.settled = IF old.settled THEN TRUE ELSE new.settled]

SaveOrder(o, r) == row' = [row EXCEPT ![o] = Upsert(row[o], r)]

\* After a write by p, who reads the row back, every other copy and fence is old.
Alone(p) == [q \in Procs |-> q = p]
AloneFenced(p) == [q \in Procs |-> q = p /\ q \in Workers]

\* p writes b, reads it back and goes on to `then' with memory m.
Wrote(p, b, then, m) ==
    /\ book' = b
    /\ seen' = Alone(p)
    /\ fence' = AloneFenced(p)
    /\ pc' = [pc EXCEPT ![p] = then]
    /\ mem' = [mem EXCEPT ![p] = [m EXCEPT !.snap = b]]

\* p goes on without a write; s is whether its copy is the row.
Goes(p, then, m, s) ==
    /\ pc' = [pc EXCEPT ![p] = then]
    /\ mem' = [mem EXCEPT ![p] = m]
    /\ seen' = [seen EXCEPT ![p] = s]
    /\ UNCHANGED <<book, fence>>

\* The pass or the request ends: it returns, or a revision conflict ends it.
Return(p) ==
    /\ pc' = [pc EXCEPT ![p] = "idle"]
    /\ mem' = [mem EXCEPT ![p] = Blank]
    /\ seen' = [seen EXCEPT ![p] = FALSE]
    /\ fence' = [fence EXCEPT ![p] = FALSE]
    /\ UNCHANGED book

\* InstrumentScopedStore.save_deployment compares the copy's own revision.
ScopedAccepts(p) == seen[p]

\* save_deployment outside an order's turn.  RevisionFencedStore wants the copy
\* to be the fenced revision and that to be the row's; a pass on a product's
\* scoped store compares the copy's; the plain store of a ticket compares none.
Accepts(p) == p \in Tickets \/ (seen[p] /\ (fence[p] \/ p \in Scoped))

WriteOrAbort(p, ok, b, then, m) == IF ok THEN Wrote(p, b, then, m) ELSE Return(p)

\* The write a pass or a request ends with.
LastWrite(p, b) ==
    IF Accepts(p)
    THEN /\ book' = b
         /\ seen' = [q \in Procs |-> FALSE]
         /\ fence' = [q \in Procs |-> FALSE]
         /\ pc' = [pc EXCEPT ![p] = "idle"]
         /\ mem' = [mem EXCEPT ![p] = Blank]
    ELSE Return(p)

\* Mutant: a fault records its detail and leaves the book running.
FaultStatusKept(s) == s

\* The pause of every fail-closed path; a stopped book keeps its status.
FaultStatus(s) == IF s = "stopped" THEN "stopped" ELSE "paused"

Faulted(b, d) == [b EXCEPT !.status = FaultStatus(b.status), !.detail = d]

-----------------------------------------------------------------------------
(* The fill transaction.                                                   *)

\* A unit that finds no stored stop opens nothing and faults the book.
Stopless(b) == [Faulted(b, "no_stop") EXCEPT !.stop = FALSE]

\* project_fill_economics, for one unit of o.
Side(o) == IF o = "entry" THEN 1 ELSE -1

Projects(o) == pos # 0 \/ book.stop

ProjectedPos(o) == IF Projects(o) THEN pos + Side(o) ELSE 0

\* Mutant: the missing stop is noticed before cash is updated.
ProjectedBookUnpaid(o) ==
    LET paid == [book EXCEPT !.cash = [book.cash EXCEPT ![o] = book.cash[o] + 1]] IN
    CASE ~Projects(o) -> Stopless(book)
      [] Projects(o) /\ (pos = 0 \/ pos + Side(o) = 0) -> [paid EXCEPT !.stop = FALSE]
      [] OTHER -> paid

ProjectedBook(o) ==
    LET paid == [book EXCEPT !.cash = [book.cash EXCEPT ![o] = book.cash[o] + 1]] IN
    CASE ~Projects(o) -> Stopless(paid)
      [] Projects(o) /\ (pos = 0 \/ pos + Side(o) = 0) -> [paid EXCEPT !.stop = FALSE]
      [] OTHER -> paid

\* Mutant: the fill is added to a quantity that already reports it.
ProgressedAdding(o, copy) ==
    [row[o] EXCEPT
        !.st = IF applied[o] + 1 >= Qty THEN "filled" ELSE copy.st,
        !.filled = copy.filled + 1,
        !.since = Upsert(row[o], copy).since]

\* The row apply_fill_transaction leaves, given the caller's copy of it.
Progressed(o, copy) ==
    [row[o] EXCEPT
        !.st = IF applied[o] + 1 >= Qty THEN "filled" ELSE copy.st,
        !.filled = Max(copy.filled, applied[o] + 1),
        !.since = Upsert(row[o], copy).since]

\* Mutant: only the caller's list of known fills guards against a repeat.
AlreadyAppliedUnchecked(o, k) == FALSE

\* The fill is already recorded as applied: the transaction changes nothing.
AlreadyApplied(o, k) == k <= applied[o]

\* apply_fill_transaction for unit k of o: evidence, order row, position and
\* deployment in one transaction.  Either way p gets the row and its revision.
ApplyFill(p, o, k, copy) ==
    IF AlreadyApplied(o, k)
    THEN /\ UNCHANGED store
         /\ seen' = [seen EXCEPT ![p] = TRUE]
         /\ fence' = [fence EXCEPT ![p] = (p \in Workers)]
    ELSE /\ applied' = [applied EXCEPT ![o] = Max(applied[o], k)]
         /\ row' = [row EXCEPT ![o] = Progressed(o, copy)]
         /\ book' = ProjectedBook(o)
         /\ pos' = ProjectedPos(o)
         /\ seen' = Alone(p)
         /\ fence' = AloneFenced(p)

-----------------------------------------------------------------------------
(* The venue, as the broker's answers show it.                             *)

Accepted(o) == venue[o].st \in {"open", "filled", "canceled"}

\* filled_size in an answer about o: all of a filled order, and otherwise some
\* amount between what its listing shows and what it executed.
Reported(o) == IF venue[o].st = "filled" THEN {Qty} ELSE venue[o].shown..venue[o].exec

\* The create reaches the venue; an attached bracket exists from then on.
VenueAccept ==
    /\ venue["entry"].st = "inflight"
    /\ venue' = [o \in Orders |-> [venue[o] EXCEPT !.st = "open"]]
    /\ UNCHANGED <<earlier, store, pc, mem, seen, fence, failures, commands, crashes>>

VenueRefuse ==
    /\ venue["entry"].st = "inflight"
    /\ venue' = [venue EXCEPT !["entry"].st = "refused"]
    /\ UNCHANGED <<earlier, store, pc, mem, seen, fence, failures, commands, crashes>>

\* One more unit executes; a bracket only sells what its entry bought.
VenueFill(o) ==
    /\ venue[o].st = "open"
    /\ o = "child" => venue[o].exec < venue["entry"].exec
    /\ venue' = [venue EXCEPT
                   ![o].exec = venue[o].exec + 1,
                   ![o].st = IF venue[o].exec + 1 = Qty THEN "filled" ELSE "open"]
    /\ earlier' = IF o = "entry" THEN earlier
                  ELSE [earlier EXCEPT ![venue[o].exec + 1] = venue["entry"].exec]
    /\ UNCHANGED <<store, pc, mem, seen, fence, failures, commands, crashes>>

\* Fill listings lag the executions they report.
VenueShow(o) ==
    /\ venue[o].shown < venue[o].exec
    /\ venue' = [venue EXCEPT ![o].shown = venue[o].shown + 1]
    /\ UNCHANGED <<earlier, store, pc, mem, seen, fence, failures, commands, crashes>>

\* A cancel, requested by the worker or on the venue's own site, takes effect.
VenueCancel(o) ==
    /\ venue[o].st = "open"
    /\ venue' = [venue EXCEPT ![o].st = "canceled", ![o].age = 1]
    /\ UNCHANGED <<earlier, store, pc, mem, seen, fence, failures, commands, crashes>>

\* Time passes.  The settlement delay rests on this: what a canceled order
\* executed is visible by the time the delay is over.
Tick ==
    /\ \A o \in Orders :
          venue[o].age = SettleDelay => venue[o].shown = venue[o].exec
    /\ venue' = [o \in Orders |-> [venue[o] EXCEPT !.age = Older(venue[o].age)]]
    /\ row' = [o \in Orders |-> [row[o] EXCEPT !.since = Older(row[o].since)]]
    /\ mem' = [p \in Procs |->
                 [mem[p] EXCEPT
                    !.rows = [o \in Orders |-> [mem[p].rows[o] EXCEPT
                                !.since = Older(mem[p].rows[o].since)]],
                    !.upd = [mem[p].upd EXCEPT !.since = Older(mem[p].upd.since)]]]
    /\ UNCHANGED <<earlier, applied, book, pos, pc, seen, fence,
                   failures, commands, crashes>>

-----------------------------------------------------------------------------
(* Submitting the entry.                                                   *)

\* The pending levels, the intent and the PENDING order, then the create.
Submit(p) ==
    /\ pc[p] = "idle"
    /\ row["entry"].st = "none"
    /\ book.status = "running"
    /\ Wrote(p, [book EXCEPT !.stop = TRUE, !.detail = "none"], "placing", Blank)
    /\ SaveOrder("entry", [NoRow EXCEPT !.st = "pending"])
    /\ venue' = [venue EXCEPT !["entry"].st = "inflight"]
    /\ UNCHANGED <<earlier, applied, pos, failures, commands, crashes>>

\* The order row after the create, then the book read back.
Placed(p, r) ==
    /\ pc[p] = "placing"
    /\ SaveOrder("entry", r)
    /\ Goes(p, IF r.kid THEN "attach" ELSE "placed", [mem[p] EXCEPT !.upd = r, !.snap = book], TRUE)
    /\ UNCHANGED <<venue, earlier, applied, pos, commands, crashes>>

\* The create is acknowledged and the order read back.
PlaceOk(p) ==
    /\ Accepted("entry")
    /\ \E q \in Reported("entry") :
          Placed(p, [NoRow EXCEPT !.st = venue["entry"].st, !.vid = TRUE,
                                  !.filled = q, !.kid = Bracketed])
    /\ UNCHANGED failures

\* Acknowledged, but the read behind it failed, or answered a status the code
\* does not know: UNKNOWN with a venue id.
PlacePending(p) ==
    /\ Accepted("entry")
    /\ failures < MaxFailures
    /\ failures' = failures + 1
    /\ \E known \in {FALSE, Bracketed} :
          Placed(p, [NoRow EXCEPT !.st = "unknown", !.vid = TRUE, !.kid = known])

PlaceRejected(p) ==
    /\ venue["entry"].st = "refused"
    /\ Placed(p, [NoRow EXCEPT !.st = "rejected", !.vid = TRUE])
    /\ UNCHANGED failures

\* A timeout or transport error: the outcome is unknown and no id is kept.
PlaceError(p) ==
    /\ failures < MaxFailures
    /\ failures' = failures + 1
    /\ Placed(p, [NoRow EXCEPT !.st = "unknown"])

\* The row of the attached child, saved after its parent's.
Attach(p) ==
    /\ pc[p] = "attach"
    /\ SaveOrder("child", [NoRow EXCEPT !.st = "open", !.vid = TRUE])
    /\ Goes(p, "placed", [mem[p] EXCEPT !.snap = book], TRUE)
    /\ UNCHANGED <<venue, earlier, applied, pos, failures, commands, crashes>>

\* What is done with an entry that ended in status r.st: pause on an unknown
\* outcome, drop the pending levels when nothing works, and let a ticket look
\* again for the fill of an execution.
Conclude(p, r) ==
    CASE r.st = "unknown" ->
           LastWrite(p, Faulted(mem[p].snap, "entry_unconfirmed"))
      [] r.st = "rejected" \/ (r.st = "canceled" /\ r.filled = 0 /\ p \in Workers) ->
           LastWrite(p, [mem[p].snap EXCEPT !.stop = FALSE])
      [] r.st = "filled" /\ p \in Tickets /\ applied["entry"] = 0 ->
           Goes(p, "nofill", [Blank EXCEPT !.snap = book], TRUE)
      [] OTHER -> Return(p)

AfterPlace(p) ==
    /\ pc[p] = "placed"
    /\ p \in Tickets => mem[p].upd.st # "unknown"
    /\ Conclude(p, mem[p].upd)
    /\ UNCHANGED <<venue, earlier, row, applied, pos, failures, commands, crashes>>

\* A ticket whose outcome was unknown judges it again after its walk.
AfterWalk(p) ==
    /\ pc[p] = "after"
    /\ Conclude(p, mem[p].upd)
    /\ UNCHANGED <<venue, earlier, row, applied, pos, failures, commands, crashes>>

\* A filled entry without a local fill pauses the book.
NoLocalFill(p) ==
    /\ pc[p] = "nofill"
    /\ LastWrite(p, Faulted(mem[p].snap, "no_local_fill"))
    /\ UNCHANGED <<venue, earlier, row, applied, pos, failures, commands, crashes>>

-----------------------------------------------------------------------------
(* The reconcile walk: supervision of the book.                            *)

\* Rows of the orders applied up front are read again with the book.
Look(m) == [m EXCEPT !.snap = book, !.cover = applied,
                     !.rows = [o \in Orders |-> IF o \in m.reread THEN row[o] ELSE m.rows[o]]]

\* _first_new_fault: the first detail this walk introduced.
FirstNewFault(first, before, b) ==
    IF first = "none" /\ b.detail # before /\ b.status # "running" THEN b.detail ELSE first

\* _retained_status: never unpause or unstop; a new fault pauses a running book.
RetainedStatus(started, current, first) ==
    CASE started = "stopped" -> "stopped"
      [] started = "paused" -> "paused"
      [] started = "running" /\ first # "none" -> "paused"
      [] OTHER -> current

\* _retain_reconcile_supervision: the book as the walk leaves it.
Retained(m) ==
    IF m.started = "running" /\ m.first = "none" THEN m.snap
    ELSE [m.snap EXCEPT !.status = RetainedStatus(m.started, m.snap.status, m.first),
                        !.detail = IF m.first # "none" THEN m.first ELSE m.detail]

\* The end of a stage, with the book read into m.snap: note the first new
\* fault, and write only where the supervision the walk began under is lost.
Supervise(p, m, s) ==
    LET k == [m EXCEPT !.first = FirstNewFault(m.first, m.before, m.snap)] IN
    IF Retained(k) = k.snap
    THEN Goes(p, k.then, [k EXCEPT !.before = k.snap.detail], s)
    ELSE Goes(p, "retain", k, s)

Judge(p) ==
    /\ pc[p] = "judge"
    /\ Supervise(p, [Look(mem[p]) EXCEPT
                       !.upd = IF p \in Tickets /\ mem[p].then = "finish" THEN row["entry"]
                               ELSE NoRow], TRUE)
    /\ UNCHANGED <<venue, earlier, row, applied, pos, failures, commands, crashes>>

Retain(p) ==
    LET m == mem[p]
        b == Retained(m)
    IN /\ pc[p] = "retain"
       /\ WriteOrAbort(p, Accepts(p), b, m.then, [Look(m) EXCEPT !.before = b.detail])
       /\ UNCHANGED <<venue, earlier, row, applied, pos, failures, commands, crashes>>

-----------------------------------------------------------------------------
(* The walk: listing every watched order's fills first.                    *)

FirstOf(S) == IF "entry" \in S THEN "entry" ELSE "child"

\* Mutant: a paused book is left alone until it is resumed.
MayWalkRunning(p) ==
    /\ book.status = "running"
    /\ \/ p \in Workers /\ pc[p] = "idle"
       \/ p \in Tickets /\ pc[p] = "placed" /\ mem[p].upd.st = "unknown"

MayWalk(p) == \/ p \in Workers /\ pc[p] = "idle"
              \/ p \in Tickets /\ pc[p] = "placed" /\ mem[p].upd.st = "unknown"

\* The orders of a fresh snapshot: the ones to list first and the ones to visit.
Unread(m) ==
    [Look(m) EXCEPT !.rows = row, !.walked = {o \in Orders : row[o].st # "none"},
                    !.todo = {o \in Orders : row[o].vid /\ Needs(row[o], applied[o])},
                    !.linked = Bracketed /\ row["entry"].vid /\ row["child"].vid,
                    !.known = applied]

\* The snapshot the walk starts from; a worker's pass fences its revision.
BeginWalk(p) ==
    /\ MayWalk(p)
    /\ row["entry"].st # "none"
    /\ mem' = [mem EXCEPT ![p] = [Unread(Blank) EXCEPT
                 !.started = book.status, !.detail = book.detail, !.before = book.detail]]
    /\ pc' = [pc EXCEPT ![p] = IF book.status = "running" /\ Unprojected THEN "opening"
                               ELSE "list"]
    /\ seen' = [seen EXCEPT ![p] = TRUE]
    /\ fence' = [fence EXCEPT ![p] = (p \in Workers)]
    /\ UNCHANGED <<venue, earlier, store, failures, commands, crashes>>

\* A running book whose applied inventory no position describes is faulted.
Open(p) ==
    /\ pc[p] = "opening"
    /\ WriteOrAbort(p, Accepts(p), Faulted(mem[p].snap, "unprojected"), "list", Unread(mem[p]))
    /\ UNCHANGED <<venue, earlier, row, applied, pos, failures, commands, crashes>>

\* The children of a parent whose fills are short are held this pass.
Held(m, o) == o = "child" /\ m.linked /\ "entry" \in m.short

\* _list_watched, one order: its listing, no listing when it is held, or a
\* listing that failed.
List(p) ==
    LET o == FirstOf(mem[p].todo) IN
    /\ pc[p] = "list"
    /\ mem[p].todo # {}
    /\ \/ /\ mem' = [mem EXCEPT ![p].todo = @ \ {o},
                                ![p].listed[o] = IF Held(mem[p], o) THEN Unlisted
                                                 ELSE venue[o].shown]
          /\ UNCHANGED failures
       \/ /\ ~Held(mem[p], o)
          /\ failures < MaxFailures
          /\ failures' = failures + 1
          /\ mem' = [mem EXCEPT ![p].todo = @ \ {o}, ![p].short = @ \cup {o}]
    /\ UNCHANGED <<venue, earlier, store, pc, seen, fence, commands, crashes>>

Listed(m, o) == IF m.listed[o] = Unlisted THEN 0 ELSE m.listed[o]

\* _mark_short_parents: an entry must have executed what its child sold.
ShortParents(m) ==
    IF m.linked /\ Listed(m, "child") > (IF m.listed["entry"] # Unlisted
                                         THEN m.listed["entry"] ELSE m.known["entry"])
    THEN m.short \cup {"entry"} ELSE m.short

\* Fills are applied up front only when more than one order has new ones.
Plan(p) ==
    LET m == [mem[p] EXCEPT !.short = ShortParents(mem[p]),
                            !.required = IF mem[p].linked THEN Listed(mem[p], "child")
                                         ELSE Unlisted]
        new == {o \in Orders : ~Held(m, o) /\ m.listed[o] > m.known[o]}
    IN /\ pc[p] = "list"
       /\ mem[p].todo = {}
       /\ mem' = [mem EXCEPT ![p] = [m EXCEPT
                    !.reread = IF "entry" \in new /\ "child" \in new THEN new ELSE {}]]
       /\ pc' = [pc EXCEPT ![p] = "apply"]
       /\ UNCHANGED <<venue, earlier, store, seen, fence, failures, commands, crashes>>

\* Orders with a listed fill still to apply up front.
Pending(m) == {o \in m.reread : m.listed[o] > m.known[o]}

\* The pending fill that executed first, the entry's on a tie.
Earliest(m) ==
    IF "child" \in Pending(m)
       /\ ("entry" \in Pending(m) => m.known["entry"] >= earlier[m.known["child"] + 1])
    THEN "child" ELSE "entry"

\* apply_new_fills_in_execution_order, one fill.
ApplyListed(p) ==
    LET o == Earliest(mem[p])
        k == mem[p].known[o] + 1
    IN /\ pc[p] = "apply"
       /\ Pending(mem[p]) # {}
       /\ ApplyFill(p, o, k, row[o])
       /\ mem' = [mem EXCEPT ![p].known[o] = k, ![p].snap = book', ![p].cover = applied',
                             ![p].rows = row']
       /\ UNCHANGED <<venue, earlier, pc, failures, commands, crashes>>

\* The walk proper starts from the book as the fills applied up front left it.
EndApply(p) ==
    /\ pc[p] = "apply"
    /\ Pending(mem[p]) = {}
    /\ Supervise(p, [mem[p] EXCEPT !.todo = mem[p].walked, !.known = mem[p].cover], seen[p])
    /\ UNCHANGED <<venue, earlier, row, applied, pos, failures, commands, crashes>>

-----------------------------------------------------------------------------
(* The walk: one order's turn.                                             *)

Turn(p, o) == pc[p] = "walk" /\ mem[p].todo # {} /\ o = FirstOf(mem[p].todo)

Reads(p, o) == o \in mem[p].reread \/ Needs(mem[p].rows[o], mem[p].cover[o])

\* p's memory once order o's turn is over.
Turned(p, o) ==
    [mem[p] EXCEPT !.todo = @ \ {o}, !.upd = NoRow, !.got = "none", !.due = FALSE]

Skip(p, o) ==
    /\ Turn(p, o)
    /\ ~Reads(p, o)
    /\ Goes(p, "judge", Turned(p, o), seen[p])
    /\ UNCHANGED <<venue, earlier, row, applied, pos, failures, commands, crashes>>

\* _recover_unconfirmed_submit found no order with this client id.
NotFound(p, o) ==
    /\ Turn(p, o)
    /\ Reads(p, o)
    /\ ~mem[p].rows[o].vid /\ ~Accepted(o)
    /\ Goes(p, "fault", [mem[p] EXCEPT !.cur = o, !.got = "unconfirmed"], seen[p])
    /\ UNCHANGED <<venue, earlier, row, applied, pos, failures, commands, crashes>>

\* _mark_read_failed: the order is UNKNOWN until a read succeeds.
ReadFailed(p, o) ==
    /\ Turn(p, o)
    /\ Reads(p, o)
    /\ failures < MaxFailures
    /\ failures' = failures + 1
    /\ SaveOrder(o, [mem[p].rows[o] EXCEPT !.st = "unknown"])
    /\ Goes(p, "fault", [mem[p] EXCEPT !.cur = o, !.got = "order_read"], seen[p])
    /\ UNCHANGED <<venue, earlier, applied, pos, commands, crashes>>

\* _Plan.record: an entry stays short until its listing covers what the venue
\* reports executed and what its child sold.
Recorded(m, o, n) ==
    [m EXCEPT !.listed[o] = n,
              !.short = IF n >= m.upd.filled /\ (o = "entry" => n >= m.required)
                        THEN @ \ {o}
                        ELSE IF o = "entry" /\ m.required # Unlisted THEN @ \cup {o} ELSE @]

\* The row this read produces from the one the walk holds.
Observed(r, st, q) ==
    [r EXCEPT !.vid = TRUE, !.st = st, !.filled = Max(r.filled, q),
              !.since = IF r.since = 0 /\ st = "canceled" THEN 1 ELSE r.since]

\* Mutant: only the create's answer names the child.
AdoptedNever(r, o) == r

\* The child an answer about o names, kept once it is known.
Adopted(r, o) == [r EXCEPT !.kid = IF o = "entry" THEN Bracketed ELSE r.kid]

\* The venue answers for the order, by id or by client id; a listing that
\* shows less than it reports is read again.
Read(p, o) ==
    LET r == mem[p].rows[o] IN
    /\ Turn(p, o)
    /\ Reads(p, o)
    /\ Accepted(o)
    /\ \E st \in {venue[o].st, "unknown"}, q \in Reported(o), relisted \in BOOLEAN :
          LET m == [mem[p] EXCEPT !.cur = o, !.got = st,
                                  !.upd = Adopted(Observed(r, st, q), o),
                                  !.due = r.since > SettleDelay,
                                  !.linked = IF o = "entry" /\ r.vid THEN Bracketed ELSE @]
              behind == r.vid /\ m.listed[o] # Unlisted /\ m.listed[o] < q
          IN /\ relisted \/ behind
             /\ failures' = failures + (IF st = "unknown" THEN 1 ELSE 0)
                                     + (IF relisted THEN 0 ELSE 1)
             /\ failures' <= MaxFailures
             /\ mem' = [mem EXCEPT ![p] =
                          CASE ~behind -> m
                            [] behind /\ relisted -> Recorded(m, o, venue[o].shown)
                            [] behind /\ ~relisted ->
                                 [m EXCEPT !.listed[o] = Unlisted, !.short = @ \cup {o}]]
    /\ pc' = [pc EXCEPT ![p] = "save"]
    /\ UNCHANGED <<venue, earlier, store, seen, fence, commands, crashes>>

\* Save what was read, then take the listing of this pass or ask for one.
Save(p) ==
    LET m == mem[p]
        o == m.cur
        n == IF m.listed[o] # Unlisted THEN m.listed[o] ELSE venue[o].shown
        k == IF m.listed[o] # Unlisted THEN m ELSE Recorded(m, o, n)
    IN /\ pc[p] = "save"
       /\ ~Held(m, o)
       /\ SaveOrder(o, m.upd)
       /\ IF m.got = "filled" /\ n = 0
          THEN Goes(p, "fault", [k EXCEPT !.got = "uncovered"], seen[p])
          ELSE Goes(p, "ingest", k, seen[p])
       /\ UNCHANGED <<venue, earlier, applied, pos, failures, commands, crashes>>

\* The listing fails, or reads as failed because the parent is short.
FillsFailed(p) ==
    LET m == mem[p] IN
    /\ pc[p] = "save"
    /\ \/ Held(m, m.cur) /\ UNCHANGED failures
       \/ /\ ~Held(m, m.cur) /\ m.listed[m.cur] = Unlisted
          /\ failures < MaxFailures
          /\ failures' = failures + 1
    /\ SaveOrder(m.cur, [m.upd EXCEPT !.st = "unknown"])
    /\ Goes(p, "fault", [m EXCEPT !.got = "fill_read"], seen[p])
    /\ UNCHANGED <<venue, earlier, applied, pos, commands, crashes>>

\* _record_reconcile_fault for a turn that could not finish.
Fault(p) ==
    /\ pc[p] = "fault"
    /\ WriteOrAbort(p, ScopedAccepts(p), Faulted(mem[p].snap, mem[p].got), "judge",
                    Turned(p, mem[p].cur))
    /\ UNCHANGED <<venue, earlier, row, applied, pos, failures, commands, crashes>>

\* _ingest_fills, one fill.
Ingest(p) ==
    LET o == mem[p].cur
        k == mem[p].known[o] + 1
    IN /\ pc[p] = "ingest"
       /\ mem[p].listed[o] > mem[p].known[o]
       /\ ApplyFill(p, o, k, mem[p].upd)
       /\ mem' = [mem EXCEPT ![p].known[o] = k, ![p].snap = book', ![p].cover = applied']
       /\ UNCHANGED <<venue, earlier, pc, failures, commands, crashes>>

\* Mutant: the first consistent terminal read settles.
SettlesAtOnce(m) ==
    /\ m.upd.st = "canceled" /\ ~m.upd.settled
    /\ row[m.cur].st = "canceled"
    /\ applied[m.cur] >= Max(row[m.cur].filled, m.upd.filled)

\* _settle_canceled: a consistent terminal read, late enough after the cancel.
Settles(m) ==
    /\ m.upd.st = "canceled" /\ ~m.upd.settled /\ m.due
    /\ row[m.cur].st = "canceled"
    /\ applied[m.cur] >= Max(row[m.cur].filled, m.upd.filled)

\* The end of a turn whose fills were listed.
Close(p) ==
    LET m == mem[p] IN
    /\ pc[p] = "ingest"
    /\ m.listed[m.cur] <= m.known[m.cur]
    /\ CASE m.cover[m.cur] < m.upd.filled ->
              Goes(p, "fault", [m EXCEPT !.got = "uncovered"], seen[p])
         [] m.cover[m.cur] >= m.upd.filled /\ m.got = "unknown" ->
              Goes(p, "fault", [m EXCEPT !.got = "venue_unknown"], seen[p])
         [] m.cover[m.cur] >= m.upd.filled /\ m.got # "unknown" /\ Settles(m) ->
              Goes(p, "settle", [m EXCEPT !.upd = [row[m.cur] EXCEPT !.settled = TRUE]], seen[p])
         [] OTHER -> Goes(p, "judge", Turned(p, m.cur), seen[p])
    /\ UNCHANGED <<venue, earlier, row, applied, pos, failures, commands, crashes>>

\* The settlement, written onto the row as it was just read.
Settle(p) ==
    /\ pc[p] = "settle"
    /\ SaveOrder(mem[p].cur, mem[p].upd)
    /\ Goes(p, "judge", Turned(p, mem[p].cur), seen[p])
    /\ UNCHANGED <<venue, earlier, applied, pos, failures, commands, crashes>>

-----------------------------------------------------------------------------
(* The walk: attached children, and the end.                               *)

Untracked == Bracketed /\ row["entry"].kid /\ row["child"].st = "none"

\* Every order had its turn and no child is missing: one last look at the book.
EndTurns(p) ==
    /\ pc[p] = "walk" /\ mem[p].todo = {}
    /\ ~Untracked
    /\ Goes(p, "judge", [Look(mem[p]) EXCEPT !.before = book.detail, !.then = "finish"], TRUE)
    /\ UNCHANGED <<venue, earlier, row, applied, pos, failures, commands, crashes>>

\* _import_attached_children: the child is persisted, then takes its turn under
\* a supervision of its own, the book's as it is now.
Import(p) ==
    LET r == [NoRow EXCEPT !.st = "unknown", !.vid = TRUE]
        m == mem[p]
    IN /\ pc[p] = "walk" /\ m.todo = {}
       /\ Untracked
       /\ SaveOrder("child", r)
       /\ Goes(p, "walk", [Look(m) EXCEPT
                 !.todo = {"child"}, !.rows["child"] = r, !.known = applied, !.then = "child",
                 !.outer = [started |-> m.started, detail |-> m.detail, first |-> m.first,
                            before |-> book.detail],
                 !.started = book.status, !.detail = book.detail, !.first = "none",
                 !.before = book.detail], TRUE)
       /\ UNCHANGED <<venue, earlier, applied, pos, failures, commands, crashes>>

\* Back from the import, the walk judges the book by its own supervision.
Rejoin(p) ==
    LET u == mem[p].outer IN
    /\ pc[p] = "child"
    /\ Goes(p, "judge", [mem[p] EXCEPT
               !.started = u.started, !.detail = u.detail, !.first = u.first,
               !.before = u.before, !.outer = Blank.outer, !.then = "finish"], seen[p])
    /\ UNCHANGED <<venue, earlier, row, applied, pos, failures, commands, crashes>>

\* _read_fault_confirmed: the whole book contradicts a latched read fault.
Disproved(m) ==
    /\ book.detail \in ReadFaults
    /\ \A o \in Orders : /\ row[o].st # "unknown"
                         /\ o \notin m.walked => ~Needs(row[o], applied[o])
    /\ ~Untracked /\ ~Unsettled /\ ~Unprojected

\* Mutant: clearing a disproved read fault also resumes the book.
ClearedResuming(b) == [b EXCEPT !.detail = "none", !.status = "running"]

\* _clear_confirmed_read_fault: the status stays.
Cleared(b) == [b EXCEPT !.detail = "none"]

\* The end of the walk; a ticket goes on to judge its order.
Finish(p) ==
    LET m == [Blank EXCEPT !.upd = mem[p].upd, !.snap = mem[p].snap]
        cleared == Cleared(mem[p].snap)
        disproved == mem[p].first = "none" /\ Disproved(mem[p])
    IN /\ pc[p] = "finish"
       /\ CASE disproved /\ p \in Tickets ->
                 WriteOrAbort(p, Accepts(p), cleared, "after", [m EXCEPT !.upd = row["entry"]])
            [] disproved /\ p \in Workers -> LastWrite(p, cleared)
            [] ~disproved /\ p \in Tickets -> Goes(p, "after", m, seen[p])
            [] OTHER -> Return(p)
       /\ UNCHANGED <<venue, earlier, row, applied, pos, failures, commands, crashes>>

-----------------------------------------------------------------------------
(* Everyone else.                                                          *)

\* _cancel_one_order, with the row the pass holds; protection of inventory no
\* position describes is never canceled.
Cancel(p, o) ==
    /\ p \in Workers /\ pc[p] = "idle"
    /\ row[o].st \in {"open", "pending", "unknown"} /\ row[o].vid
    /\ o = "child" => ~Unprojected
    /\ Goes(p, "canceling", [Blank EXCEPT !.cur = o, !.upd = row[o]], FALSE)
    /\ UNCHANGED <<venue, earlier, row, applied, pos, failures, commands, crashes>>

\* The confirming read is saved over the row; a failed call leaves it alone.
ConfirmCancel(p) ==
    LET o == mem[p].cur IN
    /\ pc[p] = "canceling"
    /\ \/ /\ Accepted(o)
          /\ \E q \in Reported(o), st \in {venue[o].st, "unknown"} :
                /\ failures' = failures + (IF st = "unknown" THEN 1 ELSE 0)
                /\ failures' <= MaxFailures
                /\ SaveOrder(o, Observed(mem[p].upd, st, q))
       \/ /\ failures < MaxFailures
          /\ failures' = failures + 1
          /\ UNCHANGED row
    /\ Return(p)
    /\ UNCHANGED <<venue, earlier, applied, pos, commands, crashes>>

\* set_deployment_status: pause, resume or stop; the reason is cleared.
Command(s) ==
    /\ commands < MaxCommands
    /\ commands' = commands + 1
    /\ book.status = "stopped" => s = "stopped"
    /\ s = "running" => book.status # "running"
    /\ book' = [book EXCEPT !.status = s, !.detail = "none"]
    /\ seen' = [p \in Procs |-> FALSE]
    /\ fence' = [p \in Procs |-> FALSE]
    /\ UNCHANGED <<venue, earlier, row, applied, pos, pc, mem, failures, crashes>>

Crash(p) ==
    /\ pc[p] # "idle"
    /\ crashes < MaxCrashes
    /\ crashes' = crashes + 1
    /\ Return(p)
    /\ UNCHANGED <<venue, earlier, row, applied, pos, failures, commands>>

Venue ==
    \/ VenueAccept \/ VenueRefuse
    \/ \E o \in Orders : VenueFill(o) \/ VenueShow(o) \/ VenueCancel(o)

Place(p) == Submit(p) \/ PlaceOk(p) \/ PlacePending(p) \/ PlaceRejected(p) \/ PlaceError(p)
            \/ Attach(p) \/ AfterPlace(p) \/ AfterWalk(p) \/ NoLocalFill(p)

Walk(p) == \/ BeginWalk(p) \/ Open(p) \/ List(p) \/ Plan(p) \/ ApplyListed(p) \/ EndApply(p)
           \/ \E o \in Orders :
                 Skip(p, o) \/ NotFound(p, o) \/ ReadFailed(p, o) \/ Read(p, o)
           \/ Save(p) \/ FillsFailed(p) \/ Fault(p) \/ Ingest(p) \/ Close(p) \/ Settle(p)
           \/ Judge(p) \/ Retain(p) \/ EndTurns(p) \/ Import(p) \/ Rejoin(p) \/ Finish(p)

Next == \/ Venue
        \/ Tick
        \/ \E p \in Procs : Place(p) \/ Walk(p) \/ ConfirmCancel(p) \/ Crash(p)
        \/ \E p \in Procs, o \in Orders : Cancel(p, o)
        \/ \E s \in {"running", "paused", "stopped"} : Command(s)

Spec == Init /\ [][Next]_vars

\* A pass once begun goes on, the worker's cycle comes back to every book, the
\* venue answers creates and publishes fills, and time passes.  Nothing makes
\* anybody submit, cancel, fill or give a command.
Continue(p) == (pc[p] # "idle" /\ (Place(p) \/ Walk(p))) \/ ConfirmCancel(p)

Fairness ==
    /\ WF_vars(VenueAccept \/ VenueRefuse)
    /\ \A o \in Orders : WF_vars(VenueShow(o))
    /\ WF_vars(Tick)
    /\ \A p \in Procs : WF_vars(Continue(p))
    /\ \A p \in Workers : SF_vars(BeginWalk(p))

FairSpec == Spec /\ Fairness

-----------------------------------------------------------------------------
(* Properties.                                                             *)

\* Every variable holds values of the shape the tables and the code give it.
TypeOK ==
    /\ venue \in [Orders -> VenueOrder]
    /\ earlier \in [1..Qty -> Units]
    /\ row \in [Orders -> OrderRow]
    /\ applied \in [Orders -> Units]
    /\ book \in Deployment
    /\ pos \in -Qty..Qty
    /\ pc \in [Procs -> {"idle", "placing", "attach", "placed", "after", "nofill",
                         "opening", "list", "apply", "walk", "save", "ingest", "fault",
                         "settle", "judge", "retain", "child", "finish", "canceling"}]
    /\ seen \in [Procs -> BOOLEAN]
    /\ fence \in [Procs -> BOOLEAN]

\* No execution is forgotten: an order the walk no longer reads is over at the
\* venue and every unit it executed is booked.  The settlement delay of canceled
\* orders, the recovery of unknown submits and the UNKNOWN mark of failed reads
\* all exist for this.
NothingLost == \A o \in Orders :
    row[o].st # "none" /\ ~Needs(row[o], applied[o]) =>
       /\ venue[o].st \in {"refused", "filled", "canceled"}
       /\ applied[o] = venue[o].exec

\* Cash reflects every fill recorded as applied exactly once, whatever passes
\* and listings repeat it: ingest_fill's "apply economics exactly once".
BookedOnce == \A o \in Orders : book.cash[o] = applied[o]

\* No fill is booked twice, whichever passes and requests list it at once; what
\* a request's late save erases is not booked again either.
NeverTwice == \A o \in Orders : book.cash[o] <= applied[o]

\* A bracket working at the venue has a local row, or some order still to be
\* read leads to it: it is named by its parent's row, or the parent is watched.
BracketTracked ==
    Bracketed /\ Accepted("child") /\ row["child"].st = "none" =>
        row["entry"].kid \/ Needs(row["entry"], applied["entry"])

\* A bracket only ever closes what its entry opened: an exit is not projected
\* before the entry it belongs to.
NeverShort == pos >= 0

\* Once an entry fill is applied, a position that disagrees with the applied
\* fills is noticed: the ledger's own check reports the inventory as
\* unprojected, which blocks execution.
PositionHonest == applied["entry"] > 0 /\ pos # Balance => Unprojected

\* A walk never takes a stopped book out of its shutdown.
StoppedStaysStopped == [][book.status = "stopped" => book'.status = "stopped"]_vars

\* Nothing but an operator's resume sets a paused or stopped book running: not
\* the supervision a walk restores, not the clearing of a disproved fault.
OnlyOperatorResumes ==
    [][book.status # "running" /\ book'.status = "running" => Command("running")]_vars

\* A walk fails closed: with no operator about, the book a worker's walk leaves
\* running has no order whose last read failed, no bracket without a row and no
\* inventory without a position.
WalkFailsClosed ==
    commands = 0 =>
       \A p \in Workers : pc[p] = "finish" /\ book.status = "running" =>
          /\ \A o \in Orders : row[o].st # "unknown"
          /\ ~Unprojected /\ ~Untracked

\* Every execution is booked in the end, through failed reads, lost answers,
\* crashes and the pauses they leave behind.
FillsLand == <>[](\A o \in Orders : applied[o] = venue[o].exec)
=============================================================================
