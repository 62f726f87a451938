--------------------------- MODULE EntryAdmission ---------------------------
(***************************************************************************)
(* The transactions that add risk to live books on one base currency:      *)
(* starting a book, inserting an entry intent, and adopting coins the      *)
(* venue account already holds.  They meet at two locks, always taken in   *)
(* this order: the advisory lock of the base (shared by entries, exclusive *)
(* for an adoption) and the row of the mode's entry latch.                 *)
(*                                                                         *)
(* Around them the entries travel to the venue, execute and are booked     *)
(* while an adoption is still reading.  Quantities are in units: an entry  *)
(* buys one unit and the account held External units to begin with.  Only  *)
(* long books are modelled.                                                *)
(***************************************************************************)
EXTENDS Integers, Sequences, FiniteSetsExt

CONSTANTS Books,       \* live books on the base
          NewBooks,    \* those not started yet
          Entrants,    \* tasks that start books and insert entry intents
          Adopters,    \* API requests that adopt
          Nobody,      \* no holder of a lock
          External,    \* units in the account that no book owns
          MaxLate      \* bound: cancels read before an execution that preceded them

ASSUME AdmissionAssumption ==
    /\ IsFiniteSet(Books)
    /\ NewBooks \subseteq Books
    /\ Entrants \cap Adopters = {}
    /\ Nobody \notin Entrants \cup Adopters \cup Books
    /\ External \in Nat /\ MaxLate \in Nat

VARIABLES latch,    \* fleet_entry_inhibition of the live mode
          rowLock,  \* holder of that row's lock
          shared,   \* holders of the base lock in shared mode
          excl,     \* its exclusive holder
          tx,       \* each process's transaction
          row,      \* each book's records
          venue,    \* each book's entry order at the venue
          exit,     \* each book's exit order
          base,     \* units in the venue account
          late      \* cancels read too early so far

vars == <<latch, rowLock, shared, excl, tx, row, venue, exit, base, late>>
Procs == Entrants \cup Adopters
locks == <<latch, rowLock, shared, excl, tx>>

Steps == {"idle", "base", "latch", "write", "orders", "positions", "balance"}
Adoptions == {"adopt", "adopt_start", "adopt_new"}
Kinds == {"none", "entry", "start"} \cup Adoptions
EntryRows == {"none", "intent", "working", "unknown", "filled", "canceled"}

NoTx == [kind |-> "none", step |-> "idle", book |-> Nobody, qty |-> 0,
         left |-> {}, cur |-> Nobody, claimed |-> 0, unsettled |-> {},
         unresolved |-> FALSE, fits |-> FALSE]

\* The book's row, its entry order's row, whether that order's fill is applied,
\* and the position.
NoBook == [exists |-> FALSE, entry |-> "none", applied |-> FALSE, pos |-> 0]

TypeOK ==
    /\ latch \in BOOLEAN
    /\ rowLock \in Procs \cup {Nobody}
    /\ shared \subseteq Procs
    /\ excl \in Procs \cup {Nobody}
    /\ tx \in [Procs -> [kind : Kinds, step : Steps, book : Books \cup {Nobody},
                         qty : Nat, left : SUBSET Books, cur : Books \cup {Nobody},
                         claimed : Nat, unsettled : SUBSET Books,
                         unresolved : BOOLEAN, fits : BOOLEAN]]
    /\ row \in [Books -> [exists : BOOLEAN, entry : EntryRows, applied : BOOLEAN,
                          pos : Nat]]
    /\ venue \in [Books -> {"none", "working", "executed", "gone"}]
    /\ exit \in [Books -> {"none", "resting", "sold"}]
    /\ base \in Nat
    /\ late \in 0..MaxLate

Init ==
    /\ latch = FALSE
    /\ rowLock = Nobody
    /\ shared = {}
    /\ excl = Nobody
    /\ tx = [p \in Procs |-> NoTx]
    /\ row = [b \in Books |-> [NoBook EXCEPT !.exists = b \notin NewBooks]]
    /\ venue = [b \in Books |-> "none"]
    /\ exit = [b \in Books |-> "none"]
    /\ base = External
    /\ late = 0

\* Mutant: an entry locks the latch row before the base.
PlanLatchFirst(kind) ==
    CASE kind = "start" -> <<"latch", "write">>
      [] kind = "entry" -> <<"latch", "base", "write">>
      [] kind \in {"adopt", "adopt_new"} ->
           <<"base", "orders", "positions", "balance", "write">>
      [] kind = "adopt_start" -> <<"base", "orders", "positions", "balance", "latch", "write">>

\* The steps of each transaction, in order; an adoption reads the orders and
\* the positions of one book after another.  Of the adoptions into a new book
\* only a strategy's asks the latch (adopt_start, respect_entry_latch); a
\* discretionary one protects or sells what is held already (adopt_new).
Plan(kind) ==
    CASE kind = "start" -> <<"latch", "write">>
      [] kind = "entry" -> <<"base", "latch", "write">>
      [] kind \in {"adopt", "adopt_new"} ->
           <<"base", "orders", "positions", "balance", "write">>
      [] kind = "adopt_start" -> <<"base", "orders", "positions", "balance", "latch", "write">>

After(kind, step) ==
    LET plan == Plan(kind) IN plan[1 + CHOOSE i \in 1..Len(plan) : plan[i] = step]

At(p, kinds, step) == tx[p].kind \in kinds /\ tx[p].step = step
Advance(p) == tx' = [tx EXCEPT ![p].step = After(tx[p].kind, @)]

\* Commit or rollback releases every lock of the transaction.
End(p) ==
    /\ tx' = [tx EXCEPT ![p] = NoTx]
    /\ shared' = shared \ {p}
    /\ excl' = IF excl = p THEN Nobody ELSE excl
    /\ rowLock' = IF rowLock = p THEN Nobody ELSE rowLock

(***************************************************************************)
(* Locks.                                                                  *)
(***************************************************************************)
\* Mutant: an entry does not wait for an adoption.
LockBaseIgnored(p) ==
    /\ At(p, {"entry"}, "base")
    /\ Advance(p)
    /\ UNCHANGED <<latch, rowLock, shared, excl, row, venue, exit, base, late>>

LockBaseShared(p) ==
    /\ At(p, {"entry"}, "base")
    /\ excl = Nobody
    /\ shared' = shared \cup {p}
    /\ Advance(p)
    /\ UNCHANGED <<latch, rowLock, excl, row, venue, exit, base, late>>

LockBaseExclusive(p) ==
    /\ At(p, Adoptions, "base")
    /\ excl = Nobody /\ shared = {}
    /\ excl' = p
    /\ tx' = [tx EXCEPT ![p].step = After(tx[p].kind, @), ![p].left = {b \in Books : row[b].exists}]
    /\ UNCHANGED <<latch, rowLock, shared, row, venue, exit, base, late>>

\* Mutant: the latch is read without its row lock.
ReadLatchUnlocked(p) ==
    /\ At(p, Kinds, "latch")
    /\ ~latch
    /\ Advance(p)
    /\ UNCHANGED <<latch, rowLock, shared, excl, row, venue, exit, base, late>>

\* refuse_postgres_entry: the row is read as it is locked; a set latch refuses
\* (RollBack), otherwise the lock is held to the end.
LockLatch(p) ==
    /\ At(p, Kinds, "latch")
    /\ rowLock = Nobody
    /\ ~latch
    /\ rowLock' = p
    /\ Advance(p)
    /\ UNCHANGED <<latch, shared, excl, row, venue, exit, base, late>>

\* A fleet disarm or rearm (module FleetControl, ApplyLatch).
SetLatch ==
    /\ rowLock = Nobody
    /\ latch' = ~latch
    /\ UNCHANGED <<rowLock, shared, excl, tx, row, venue, exit, base, late>>

(***************************************************************************)
(* Starts and entries.                                                     *)
(***************************************************************************)
Begin(p, kind, b, qty) ==
    /\ tx[p].step = "idle"
    /\ tx' = [tx EXCEPT ![p] = [NoTx EXCEPT !.kind = kind, !.step = Plan(kind)[1],
                                            !.book = b, !.qty = qty]]
    /\ UNCHANGED <<latch, rowLock, shared, excl, row, venue, exit, base, late>>

BeginStart(p, b) == ~row[b].exists /\ Begin(p, "start", b, 0)

BeginEntry(p, b) ==
    /\ row[b].exists /\ row[b].entry = "none" /\ row[b].pos = 0
    /\ Begin(p, "entry", b, 0)

InsertDeployment(p) ==
    /\ At(p, {"start"}, "write")
    /\ ~row[tx[p].book].exists
    /\ row' = [row EXCEPT ![tx[p].book].exists = TRUE]
    /\ End(p)
    /\ UNCHANGED <<latch, venue, exit, base, late>>

InsertIntent(p) ==
    /\ At(p, {"entry"}, "write")
    /\ row[tx[p].book].entry = "none"
    /\ row' = [row EXCEPT ![tx[p].book].entry = "intent"]
    /\ End(p)
    /\ UNCHANGED <<latch, venue, exit, base, late>>

\* A set latch, a refused quantity, a lock or balance timeout, a storage error,
\* a conflict on the insert, or a dead process: nothing is written.
RollBack(p) ==
    /\ tx[p].step # "idle"
    /\ End(p)
    /\ UNCHANGED <<latch, row, venue, exit, base, late>>

(***************************************************************************)
(* Adoption.  Under the exclusive lock: the claims of every live book, one *)
(* book and one table at a time; then the venue balance; then the write.   *)
(***************************************************************************)
BeginAdoption(p, b, qty) ==
    \E kind \in IF row[b].exists THEN {"adopt"} ELSE {"adopt_start", "adopt_new"} :
        Begin(p, kind, b, qty)

Working == {"intent", "working", "unknown"}

ReadOrders(p) ==
    /\ tx[p].step = "orders"
    /\ \E b \in tx[p].left :
         tx' = [tx EXCEPT ![p].step = After(tx[p].kind, @), ![p].cur = b,
                          ![p].left = @ \ {b},
                          ![p].claimed = @ + (IF row[b].entry \in Working THEN 1 ELSE 0),
                          ![p].unsettled = IF row[b].entry = "filled" THEN {b} ELSE {},
                          ![p].unresolved = @ \/ row[b].entry = "unknown"]
    /\ UNCHANGED <<latch, rowLock, shared, excl, row, venue, exit, base, late>>

\* Mutant: a position is taken off the claims.
ReadPositionsNegated(p) ==
    LET b == tx[p].cur IN
    /\ tx[p].step = "positions"
    /\ tx' = [tx EXCEPT ![p].step = IF tx[p].left = {} THEN After(tx[p].kind, @) ELSE "orders",
                        ![p].cur = Nobody,
                        ![p].claimed = @ - row[b].pos,
                        ![p].unsettled = {}]
    /\ UNCHANGED <<latch, rowLock, shared, excl, row, venue, exit, base, late>>

\* The fills are read, then the positions; both are written together.
ReadPositions(p) ==
    LET b == tx[p].cur IN
    /\ tx[p].step = "positions"
    /\ tx' = [tx EXCEPT ![p].step = IF tx[p].left = {} THEN After(tx[p].kind, @) ELSE "orders",
                        ![p].cur = Nobody,
                        ![p].claimed = @ + row[b].pos,
                        ![p].unsettled = {},
                        ![p].unresolved = @ \/ (b \in tx[p].unsettled /\ ~row[b].applied)]
    /\ UNCHANGED <<latch, rowLock, shared, excl, row, venue, exit, base, late>>

Total(f) == MapThenSumSet(LAMBDA b : f[b], Books)

Held == Total([b \in Books |-> IF exit[b] = "resting" THEN row[b].pos ELSE 0])

\* base_availability; while anything is unresolved there is no quantity at all.
Adoptable(t) ==
    IF t.unresolved THEN 0 ELSE Max({0, Min({base - Held, base - t.claimed})})

\* prepare_adoption judges the quantity on this balance and the claims read.
ReadBalance(p) ==
    /\ tx[p].step = "balance"
    /\ tx' = [tx EXCEPT ![p].fits = tx[p].qty <= Adoptable(tx[p]),
                        ![p].claimed = 0, ![p].unresolved = FALSE,
                        ![p].step = After(tx[p].kind, @)]
    /\ UNCHANGED <<latch, rowLock, shared, excl, row, venue, exit, base, late>>

WriteAdoption(p) ==
    LET b == tx[p].book IN
    /\ At(p, Adoptions, "write")
    /\ tx[p].kind # "adopt" => ~row[b].exists
    /\ row[b].pos = 0
    /\ tx[p].fits
    /\ row' = [row EXCEPT ![b].exists = TRUE, ![b].pos = tx[p].qty]
    /\ End(p)
    /\ UNCHANGED <<latch, venue, exit, base, late>>

(***************************************************************************)
(* The entries on their way (module OrderReconcile has the detail).        *)
(***************************************************************************)
\* submit_intent writes the order row before it calls the broker; the row is
\* working while it is PENDING or OPEN.
WriteOrder(b) ==
    /\ row[b].entry = "intent"
    /\ row' = [row EXCEPT ![b].entry = "working"]
    /\ UNCHANGED <<locks, venue, exit, base, late>>

VenueTakes(b) ==
    /\ venue[b] = "none" /\ row[b].entry \in {"working", "unknown"}
    /\ venue' = [venue EXCEPT ![b] = "working"]
    /\ UNCHANGED <<locks, row, exit, base, late>>

VenueExecutes(b) ==
    /\ venue[b] = "working"
    /\ venue' = [venue EXCEPT ![b] = "executed"]
    /\ base' = base + 1
    /\ UNCHANGED <<locks, row, exit, late>>

\* Refused on arrival, or canceled.
VenueEnds(b) ==
    /\ venue[b] \in {"none", "working"} /\ row[b].entry \in {"working", "unknown"}
    /\ venue' = [venue EXCEPT ![b] = "gone"]
    /\ UNCHANGED <<locks, row, exit, base, late>>

\* The answer to the submit or to a read is lost.
AnswerLost(b) ==
    /\ row[b].entry = "working"
    /\ row' = [row EXCEPT ![b].entry = "unknown"]
    /\ UNCHANGED <<locks, venue, exit, base, late>>

\* A reconcile read saves what the venue reports.
ReadBack(b) ==
    /\ row[b].entry \in {"working", "unknown"}
    /\ venue[b] # "none"
    /\ row' = [row EXCEPT ![b].entry = CASE venue[b] = "executed" -> "filled"
                                        [] venue[b] = "working" -> "working"
                                        [] venue[b] = "gone" -> "canceled"]
    /\ UNCHANGED <<locks, venue, exit, base, late>>

\* The order was canceled after executing, and the execution is not shown yet.
ReadBackLate(b) ==
    /\ row[b].entry \in {"working", "unknown"} /\ ~row[b].applied
    /\ venue[b] = "executed"
    /\ late < MaxLate
    /\ late' = late + 1
    /\ row' = [row EXCEPT ![b].entry = "canceled"]
    /\ UNCHANGED <<locks, venue, exit, base>>

\* The fill's economics and the position, in one transaction.
ApplyFill(b) ==
    /\ venue[b] = "executed" /\ ~row[b].applied
    /\ row[b].entry \in {"working", "unknown", "filled", "canceled"}
    /\ row' = [row EXCEPT ![b].applied = TRUE, ![b].pos = @ + 1]
    /\ UNCHANGED <<locks, venue, exit, base, late>>

\* The order has ended and is booked; the book may enter again.
EntryDone(b) ==
    /\ row[b].entry \in {"filled", "canceled"}
    /\ venue[b] = "executed" => row[b].applied
    /\ row' = [row EXCEPT ![b].entry = "none", ![b].applied = FALSE]
    /\ venue' = [venue EXCEPT ![b] = "none"]
    /\ UNCHANGED <<locks, exit, base, late>>

\* An exit of the whole position: placed, executed, booked, or canceled.  One
\* pass decides a book's entries and exits, and the venue takes a sell only
\* against units that are not held already.
PlaceExit(b) ==
    /\ row[b].pos > 0 /\ row[b].entry = "none" /\ exit[b] = "none"
    /\ \A p \in Procs : tx[p].kind = "entry" => tx[p].book # b
    /\ row[b].pos <= base - Held
    /\ exit' = [exit EXCEPT ![b] = "resting"]
    /\ UNCHANGED <<locks, row, venue, base, late>>

ExitExecutes(b) ==
    /\ exit[b] = "resting"
    /\ exit' = [exit EXCEPT ![b] = "sold"]
    /\ base' = base - row[b].pos
    /\ UNCHANGED <<locks, row, venue, late>>

ExitCanceled(b) ==
    /\ exit[b] = "resting"
    /\ exit' = [exit EXCEPT ![b] = "none"]
    /\ UNCHANGED <<locks, row, venue, base, late>>

BookExit(b) ==
    /\ exit[b] = "sold"
    /\ exit' = [exit EXCEPT ![b] = "none"]
    /\ row' = [row EXCEPT ![b].pos = 0]
    /\ UNCHANGED <<locks, venue, base, late>>

Proceed(p) ==
    \/ LockBaseShared(p) \/ LockBaseExclusive(p) \/ LockLatch(p)
    \/ InsertDeployment(p) \/ InsertIntent(p)
    \/ ReadOrders(p) \/ ReadPositions(p) \/ ReadBalance(p) \/ WriteAdoption(p)

Next ==
    \/ \E p \in Procs : Proceed(p) \/ RollBack(p)
    \/ \E p \in Entrants, b \in Books : BeginStart(p, b) \/ BeginEntry(p, b)
    \/ \E p \in Adopters, b \in Books, qty \in 1..External : BeginAdoption(p, b, qty)
    \/ SetLatch
    \/ \E b \in Books :
         \/ WriteOrder(b) \/ VenueTakes(b) \/ VenueExecutes(b) \/ VenueEnds(b)
         \/ AnswerLost(b) \/ ReadBack(b) \/ ReadBackLate(b)
         \/ ApplyFill(b) \/ EntryDone(b) \/ PlaceExit(b) \/ ExitExecutes(b)
         \/ ExitCanceled(b) \/ BookExit(b)

Spec == Init /\ [][Next]_vars

(***************************************************************************)
(* Properties.                                                             *)
(***************************************************************************)
Owned(b) == (IF exit[b] = "sold" THEN 0 ELSE row[b].pos)
            + (IF venue[b] = "executed" /\ ~row[b].applied THEN 1 ELSE 0)

\* What the books own together, executed units not yet booked included, is
\* never more than the account holds: an adoption takes no unit another book
\* owns or is buying, whatever executes or is booked while it reads
\* (adopt_inventory).  It assumes no cancel was read before an execution that
\* preceded it.
NothingTwiceOwned ==
    late = 0 => Total([b \in Books |-> Owned(b)]) <= base

\* While the live latch is set no entry intent is inserted and no book starts,
\* by itself or with a strategy's adoption (refuse_postgres_entry, _target_book).
\* The one book that does appear is a discretionary adoption's, and it comes
\* with the adopted units in it.
DisarmHolds ==
    [][\A b \in Books :
         \/ ~latch
         \/ /\ row'[b].entry = "intent" => row[b].entry = "intent"
            /\ row'[b].exists # row[b].exists =>
                 /\ row'[b].pos > 0
                 /\ \E p \in Adopters : At(p, {"adopt_new"}, "write") /\ tx[p].book = b]_vars

Waits(p, q) ==
    \/ At(p, {"entry"}, "base") /\ excl = q
    \/ At(p, Adoptions, "base") /\ (excl = q \/ q \in shared)
    \/ At(p, Kinds, "latch") /\ rowLock = q

\* No set of transactions waits in a circle: both locks are taken in one order
\* (lock_entry_base before refuse_postgres_entry).
NoDeadlock ==
    \A stuck \in (SUBSET Procs) \ {{}} :
        \E p \in stuck : \A q \in stuck : ~Waits(p, q)
=============================================================================
