--------------------------- MODULE LiveProtection ---------------------------
(***************************************************************************)
(* A live spot book holding a long position: the worker's passes keep one  *)
(* sell order resting at the venue that protects it, replace that order    *)
(* when the stop moves, and exit at the market when a signal, the clock or *)
(* an operator's flatten asks for it.                                      *)
(*                                                                         *)
(* The venue runs on its own: an order executes, is canceled, or accepts a *)
(* cancel and finishes it later, and its fills are listed after it         *)
(* executed.  Every call may fail, a create may reach the venue although   *)
(* its answer is lost, the worker may die between any two calls, and the   *)
(* operator's commands fall between them as well.                          *)
(*                                                                         *)
(* A canceled order may have executed more than reads of it show, so it is *)
(* read on until CANCELED_SETTLE_DELAY has passed; by then all it executed *)
(* is taken to be listed.  Meanwhile another order may take its place: the *)
(* canceled orders are kept together, with what is not booked of them.     *)
(* The walk reads one order at a time; its finer steps are in              *)
(* OrderReconcile.                                                         *)
(***************************************************************************)
EXTENDS Integers, FiniteSetsExt

CONSTANTS Qty,           \* units of the position
          Spare,         \* other units in the account
          MaxStop,       \* bound: levels of the trailing stop
          MaxIdentical,  \* MAX_IDENTICAL_REJECTIONS
          MaxFaults,     \* bound: failed calls, crashes, passes without a price, and
                         \* cancels that hide what the order executed
          MaxCommands    \* bound

ASSUME ProtectionAssumption ==
    /\ {Qty, MaxStop, MaxIdentical} \subseteq Nat \ {0}
    /\ {Spare, MaxFaults, MaxCommands} \subseteq Nat

VARIABLES dep,      \* the deployment: status, lifecycle_command, mismatch_detail
          pos,      \* the position: quantity, stop, whether an exit is due, and
                    \* whether more was sold from it than it held
          row,      \* the rows of its sell orders
          ven,      \* those orders at the venue
          rej,      \* the current run of identical rejections of each submit
          backoff,  \* submits whose last rejection is too recent to retry
          wk,       \* the worker's pass
          used,     \* how much of each bound is used
          sold,     \* units the venue has sold
          blind     \* an order was placed beside units the books could not see

vars == <<dep, pos, row, ven, rej, backoff, wk, used, sold, blind>>
venue == <<ven, sold>>

\* The entry's attached bracket, the orders a read found canceled, the book's own
\* protective order, and its marketable exit.
Orders == {"child", "past", "bracket", "exit"}
Rank(o) == CASE o = "child" -> 1 [] o = "past" -> 2 [] o = "bracket" -> 3 [] o = "exit" -> 4
First(set) == CHOOSE o \in set : \A other \in set : Rank(o) <= Rank(other)

Active == {"pending", "unknown", "open"}
Statuses == Active \cup {"none", "filled", "canceled", "rejected"}
Details == {"none", "read", "unconfirmed", "position", "over", "rejected", "deferred", "flat"}
BookStates == {"running", "paused", "stopped"}
Steps == {"idle", "open", "walk", "decide", "note", "ensure", "protect", "replace", "resize",
          "adopt", "exit", "cancel", "recheck", "sell", "placing", "answer",
          "reply", "apply", "clear", "final", "settle"}

NoRow == [status |-> "none", known |-> FALSE, pending |-> FALSE, qty |-> 0, stop |-> 0,
          filled |-> 0, applied |-> 0]
\* At the venue: what is executed, what reads of the order report of it, and
\* what the fills listed for it cover.
NoOrder == [state |-> "none", qty |-> 0, done |-> 0, shown |-> 0, listed |-> 0]
NoRuns == [o \in {"bracket", "exit"} |-> 0]
NoPosition == [qty |-> 0, stop |-> 1, due |-> FALSE, over |-> FALSE]
NotBegun == [status |-> "running", detail |-> "none"]
Idle == [pc |-> "idle", then |-> "idle", left |-> {}, flatten |-> FALSE, closing |-> FALSE,
         stale |-> FALSE, commanded |-> FALSE, began |-> NotBegun, first |-> "none",
         maintained |-> FALSE]

Units == 0..(Qty + Spare)

TypeOK ==
    /\ dep \in [status : BookStates, detail : Details,
                command : {"none", "stop_new_entries", "managed_shutdown", "flatten"}]
    /\ pos \in [qty : 0..Qty, stop : 1..MaxStop, due : BOOLEAN, over : BOOLEAN]
    /\ row \in [Orders -> [status : Statuses, known : BOOLEAN, pending : BOOLEAN, qty : 0..Qty,
                           stop : 0..MaxStop, filled : Units, applied : Units]]
    /\ ven \in [Orders -> [state : {"none", "open", "filled", "canceled"}, qty : 0..Qty,
                           done : Units, shown : Units, listed : Units]]
    /\ backoff \subseteq {"bracket", "exit"} /\ blind \in BOOLEAN
    /\ rej \in [{"bracket", "exit"} -> 0..MaxIdentical]
    /\ wk \in [pc : Steps, then : Steps \cup Orders, left : SUBSET Orders, flatten : BOOLEAN,
               closing : BOOLEAN, stale : BOOLEAN, commanded : BOOLEAN, maintained : BOOLEAN,
               began : [status : BookStates, detail : Details], first : Details]
    /\ used \in [faults : 0..MaxFaults, commands : 0..MaxCommands]
    /\ sold \in Units

\* The entry has just filled; it may have an attached child, whose id the
\* create's answer left out.
Init ==
    /\ dep = [status |-> "running", command |-> "none", detail |-> "none"]
    /\ pos = [NoPosition EXCEPT !.qty = Qty]
    /\ row = [o \in Orders |-> NoRow]
    /\ \E child \in {NoOrder, [NoOrder EXCEPT !.state = "open", !.qty = Qty]} :
         ven = [o \in Orders |-> IF o = "child" THEN child ELSE NoOrder]
    /\ rej = NoRuns
    /\ backoff = {}
    /\ wk = Idle
    /\ used = [faults |-> 0, commands |-> 0]
    /\ sold = 0 /\ blind = FALSE

(***************************************************************************)
(* What a pass reads in its snapshot.                                      *)
(***************************************************************************)
active_orders == {o \in Orders : row[o].status \in Active}
Cancelable == {o \in active_orders : row[o].known}
cancel_pending(o) == row[o].pending

\* unsettled_fill_evidence: more is executed than booked.
Unsettled == \E o \in Orders : row[o].filled > row[o].applied
EconomicsFault == pos.over \/ Unsettled
exit_fill_pending == row["exit"].status = "filled" /\ row["exit"].applied < row["exit"].filled

Watched == active_orders \cup {o \in Orders : \/ row[o].status = "canceled"
                                              \/ row[o].filled > row[o].applied}

\* Mutant: a submit that was rejected once is never tried again.
RejectionLatchedForever(o) == rej[o] > 0

rejection_latched(o) ==
    rej[o] > 0 /\ (o \in backoff \/ (rej[o] >= MaxIdentical /\ dep.detail = "rejected"))

AttachedEntryCovers ==
    /\ row["child"].status \in Active
    /\ row["child"].stop = pos.stop /\ row["child"].qty >= pos.qty

BracketMatches(o) == o \in {"child", "bracket"} /\ row[o].stop = pos.stop /\ row[o].qty = pos.qty

(***************************************************************************)
(* Steps of the pass.  A save of the deployment is refused, and the pass   *)
(* ends, when a command was written since the pass last refreshed its      *)
(* fence; booking a fill refreshes it.                                     *)
(***************************************************************************)
At(pc) == wk.pc = pc
To(w, pc) == [w EXCEPT !.pc = pc]
Maintained == [Idle EXCEPT !.maintained = TRUE]

\* A pass that carries out a flatten reads once more and settles at its end.
Done(w) == IF w.closing THEN To(w, "final") ELSE Maintained

\* A walk over the watched orders, in a book whose deployment is d, and a round
\* of cancels.
WalkFrom(w, then, d) ==
    [w EXCEPT !.pc = IF d.status = "running" /\ pos.over THEN "open" ELSE "walk",
              !.then = then, !.left = Watched,
              !.began = [status |-> d.status, detail |-> d.detail]]
Walk(w, then) == WalkFrom(w, then, dep)
Canceling(w, pc) == [w EXCEPT !.pc = pc, !.left = Cancelable]

\* A pass in state `now' saves d and goes on to state w.
Save(now, d, w) ==
    IF now.stale THEN dep' = dep /\ wk' = Idle ELSE dep' = d /\ wk' = w

\* The same without touching an order, and a step that saves nothing at all.
SaveOnly(d, w) == Save(wk, d, w) /\ UNCHANGED <<row, ven>>
Go(w) == dep' = dep /\ wk' = w /\ UNCHANGED <<row, ven>>

Pause(detail) == [dep EXCEPT !.status = IF @ = "stopped" THEN @ ELSE "paused",
                              !.detail = detail]

PauseOnFault == Pause(IF pos.over THEN "over" ELSE "position")

\* An order as the venue reports it, with the fills it lists.
Read(o) ==
    [row[o] EXCEPT !.status = ven[o].state, !.known = TRUE,
                   !.pending = @ /\ ven[o].state = "open",
                   !.filled = Max({@, ven[o].shown}), !.applied = ven[o].listed]

\* The order o, whose row is r, joins the earlier ones with what is not booked.
PastRow(o, r) ==
    LET earlier == IF o = "past" THEN NoRow ELSE row["past"] IN
    [NoRow EXCEPT !.status = IF "unknown" \in {earlier.status, r.status} THEN "unknown" ELSE "canceled",
                  !.known = TRUE, !.filled = earlier.filled + r.filled - r.applied]
PastOrder(o, r) ==
    LET earlier == IF o = "past" THEN NoOrder ELSE ven["past"] IN
    [NoOrder EXCEPT !.state = "canceled", !.done = earlier.done + ven[o].done - r.applied,
                    !.shown = earlier.shown + ven[o].shown - r.applied,
                    !.listed = earlier.listed + ven[o].listed - r.applied]

Booked(r) == r.filled = r.applied
Forgets(o) == row' = [row EXCEPT ![o] = NoRow] /\ ven' = [ven EXCEPT ![o] = NoOrder]

\* Mutant: a canceled order is forgotten at the first read that is booked.
KeptAtOnce(o, r) ==
    \/ /\ r.status \in {"filled", "canceled"} /\ Booked(r)
       /\ Forgets(o)
    \/ /\ r.status = "open" \/ ~Booked(r)
       /\ row' = [row EXCEPT ![o] = r]
       /\ ven' = ven

\* After a read of o its row is r: an order that filled is forgotten once it is
\* booked, and canceled ones are read until they settle.
Kept(o, r) ==
    \/ /\ r.status = "filled" /\ Booked(r)
       /\ Forgets(o)
    \/ /\ r.status = "canceled"
       /\ row' = [row EXCEPT ![o] = NoRow, !["past"] = PastRow(o, r)]
       /\ ven' = [ven EXCEPT ![o] = NoOrder, !["past"] = PastOrder(o, r)]
    \/ /\ o = "past" /\ Booked(r) /\ ven[o].listed = ven[o].done   \* _settle_canceled
       /\ Forgets(o)
    \/ /\ r.status = "open" \/ (r.status = "filled" /\ ~Booked(r))
       /\ row' = [row EXCEPT ![o] = r]
       /\ ven' = ven

\* Mutant: more units are booked than the position holds.
BooksBelowZero(n) == pos' = [pos EXCEPT !.qty = @ - n]

\* Booking n units: the position shrinks or ends.  Selling more than it held
\* pauses the book in the same transaction, and the fills stay as evidence
\* (unprojected_inventory_products).
Books(n) ==
    pos' = IF n < pos.qty THEN [pos EXCEPT !.qty = @ - n]
           ELSE [NoPosition EXCEPT !.over = pos.over \/ n > pos.qty]
Overdrawn(n) == IF n > pos.qty THEN Pause("over") ELSE dep

\* A run of rejections ends with the geometry it was for.
NewRuns(n) ==
    /\ rej' = IF n > 0 THEN NoRuns ELSE rej
    /\ backoff' = IF n > 0 THEN {} ELSE backoff
NewRun(o) == rej' = [rej EXCEPT ![o] = 0] /\ backoff' = backoff \ {o}
Fenced(n) == IF n > 0 THEN [wk EXCEPT !.stale = FALSE, !.flatten = dep.command = "flatten"] ELSE wk

Fault == used.faults < MaxFaults /\ used' = [used EXCEPT !.faults = @ + 1]

(***************************************************************************)
(* reconcile_open_orders.                                                  *)
(***************************************************************************)
Begin ==
    /\ At("idle")
    /\ wk' = Walk([Idle EXCEPT !.flatten = dep.command = "flatten"], "decide")
    /\ UNCHANGED <<dep, pos, row, venue, rej, backoff, used, blind>>

\* _retain_reconcile_supervision, after each turn of a walk: the deployment d
\* keeps the status the walk began with and its first new fault; only a walk
\* that began running, and has no fault, leaves it as it is.
FirstFault(w, d) ==
    IF w.first # "none" THEN w.first
    ELSE IF d.detail # dep.detail /\ d.status # "running" THEN d.detail
    ELSE "none"
Retained(w, d, first) ==
    IF w.began.status = "running" /\ first = "none" THEN d
    ELSE [d EXCEPT !.status = IF w.began.status = "running" THEN "paused" ELSE w.began.status,
                   !.detail = IF first = "none" THEN w.began.detail ELSE first]

\* A turn that leaves the deployment d, which it saved itself if it is faulty.
Turn(w, d, faulty) ==
    LET first == FirstFault(w, d)
        kept == Retained(w, d, first)
        next == [w EXCEPT !.first = first] IN
    IF faulty \/ kept # d THEN Save(w, kept, next) ELSE dep' = d /\ wk' = next

\* A running book with more sold than it held is paused before the walk.
OpenWalk ==
    /\ At("open")
    /\ Turn(To(wk, "walk"), Pause("over"), TRUE)
    /\ UNCHANGED <<pos, row, venue, rej, backoff, used, blind>>

\* One order's read answers and its fills are booked.
ReadOrder ==
    LET o == First(wk.left)
        n == ven[o].listed - row[o].applied
        r == Read(o)
        w == [Fenced(n) EXCEPT !.left = @ \ {o}] IN
    /\ At("walk") /\ wk.left # {}
    /\ ven[o].state # "none"
    /\ Kept(o, r)
    /\ Turn(w, IF Booked(r) THEN Overdrawn(n) ELSE Pause("position"), ~Booked(r))
    /\ Books(n) /\ NewRuns(n)
    /\ UNCHANGED <<sold, used, blind>>

\* The order or its fills cannot be read.
ReadFails ==
    LET o == First(wk.left) IN
    /\ At("walk") /\ wk.left # {}
    /\ Fault
    /\ row' = [row EXCEPT ![o].status = "unknown"]
    /\ Turn([wk EXCEPT !.left = @ \ {o}], Pause("read"), TRUE)
    /\ UNCHANGED <<pos, venue, rej, backoff, blind>>

\* The venue knows no order with the client id; the row stays, and blocks.
NotFound ==
    LET o == First(wk.left) IN
    /\ At("walk") /\ wk.left # {}
    /\ ven[o].state = "none"
    /\ Turn([wk EXCEPT !.left = @ \ {o}], Pause("unconfirmed"), TRUE)
    /\ UNCHANGED <<pos, row, venue, rej, backoff, used, blind>>

\* A complete walk drops a read fault it has disproved.
Disproved ==
    /\ wk.first = "none" /\ dep.detail = "read" /\ ~EconomicsFault
    /\ \A o \in Orders : row[o].status # "unknown"

EndWalk ==
    LET kept == Retained(wk, dep, wk.first)
        d == IF kept = dep /\ Disproved THEN [dep EXCEPT !.detail = "none"] ELSE kept
        w == [wk EXCEPT !.pc = wk.then, !.then = "idle", !.began = NotBegun, !.first = "none",
                        !.flatten = dep.command = "flatten"] IN
    /\ At("walk") /\ wk.left = {}
    /\ IF d # dep THEN Save(wk, d, w) ELSE dep' = dep /\ wk' = w
    /\ UNCHANGED <<pos, row, venue, rej, backoff, used, blind>>

(***************************************************************************)
(* What the pass does with the book it has read.                           *)
(***************************************************************************)
Flattening == dep.status = "stopped" /\ wk.flatten

\* flatten_one_product: nothing is known to be left to exit.
Closing == [wk EXCEPT !.closing = TRUE]

FlattenIdle ==
    /\ At("decide") /\ Flattening
    /\ EconomicsFault \/ (pos.qty = 0 /\ active_orders = {})
    /\ wk' = Done(Closing)
    /\ UNCHANGED <<dep, pos, row, venue, rej, backoff, used, blind>>

FlattenRemainders ==
    /\ At("decide") /\ Flattening
    /\ ~EconomicsFault /\ pos.qty = 0 /\ active_orders # {}
    /\ wk' = Canceling(Closing, "clear")
    /\ UNCHANGED <<dep, pos, row, venue, rej, backoff, used, blind>>

FlattenPosition ==
    /\ At("decide") /\ Flattening
    /\ ~EconomicsFault /\ pos.qty > 0
    /\ wk' = Walk(Closing, "adopt")
    /\ UNCHANGED <<dep, pos, row, venue, rej, backoff, used, blind>>

\* No verified price: protection is kept and the wait is noted.
NoPrice ==
    /\ At("decide") /\ pos.qty > 0
    /\ Flattening => ~EconomicsFault
    /\ Fault
    /\ wk' = IF Flattening THEN Walk(Closing, "note") ELSE Idle
    /\ UNCHANGED <<dep, pos, row, venue, rej, backoff, blind>>

Note ==
    /\ At("note")
    /\ IF dep.detail = "none" THEN Save(wk, [dep EXCEPT !.detail = "deferred"], Done(wk))
       ELSE dep' = dep /\ wk' = Done(wk)
    /\ UNCHANGED <<pos, row, venue, rej, backoff, used, blind>>

\* The other books keep on with the exit that is due, or with protection.
Managed(p) == IF p.due \/ wk.flatten THEN Walk(wk, "adopt") ELSE To(wk, "ensure")

Manage ==
    /\ At("decide") /\ ~Flattening
    /\ wk' = IF pos.qty = 0 THEN To(wk, "settle") ELSE Managed(pos)
    /\ UNCHANGED <<dep, pos, row, venue, rej, backoff, used, blind>>

\* A new bar counts as held, which is saved; then it may make an exit due,
\* which stays on the position, or move the stop.
NewBar ==
    /\ At("decide") /\ ~Flattening
    /\ pos.qty > 0 /\ ~pos.due
    /\ \/ wk.stale /\ wk' = Idle /\ UNCHANGED <<pos, rej, backoff>>
       \/ /\ ~wk.stale
          /\ pos' = [pos EXCEPT !.due = TRUE]
          /\ wk' = Managed(pos')
          /\ UNCHANGED <<rej, backoff>>
       \/ /\ ~wk.stale
          /\ pos.stop < MaxStop
          /\ pos' = [pos EXCEPT !.stop = @ + 1]
          /\ wk' = Managed(pos')
          /\ NewRun("bracket")
    /\ UNCHANGED <<dep, row, venue, used, blind>>

\* _adopt_venue_attached_child, before protecting or exiting.
Unadopted == pos.qty > 0 /\ ven["child"].state # "none" /\ row["child"].status = "none"
AfterAdopt(w) == To(w, IF wk.pc = "ensure" THEN "protect" ELSE "exit")

ChildNotSeen ==
    /\ wk.pc \in {"ensure", "adopt"}
    /\ IF Unadopted THEN Fault ELSE UNCHANGED used
    /\ wk' = AfterAdopt(wk)
    /\ UNCHANGED <<dep, pos, row, venue, rej, backoff, blind>>

Imported == [NoRow EXCEPT !.known = TRUE, !.qty = ven["child"].qty, !.stop = 1]

AdoptChild ==
    LET n == ven["child"].listed
        w == AfterAdopt(Fenced(n))
        r == [Imported EXCEPT !.status = ven["child"].state, !.filled = ven["child"].shown,
                              !.applied = n] IN
    /\ wk.pc \in {"ensure", "adopt"}
    /\ Unadopted
    /\ Kept("child", r)
    /\ IF Booked(r) THEN dep' = Overdrawn(n) /\ wk' = w ELSE Save(w, Pause("position"), w)
    /\ Books(n) /\ NewRuns(n)
    /\ UNCHANGED <<sold, used, blind>>

\* The child's id is stored but the child cannot be read.
AdoptUnread ==
    /\ wk.pc \in {"ensure", "adopt"}
    /\ Unadopted
    /\ Fault
    /\ row' = [row EXCEPT !["child"] = [Imported EXCEPT !.status = "unknown"]]
    /\ Save(wk, Pause("read"), AfterAdopt(wk))
    /\ UNCHANGED <<pos, venue, rej, backoff, blind>>

\* The venue cancels o; reads of it may then show less than was executed.
Cancels(o) ==
    \/ ven' = [ven EXCEPT ![o].state = "canceled"] /\ UNCHANGED used
    \/ /\ Fault
       /\ \E shown \in ven[o].listed..(ven[o].done - 1) :
            ven' = [ven EXCEPT ![o].state = "canceled", ![o].shown = shown]

\* _cancel_one_order.  An accepted cancel may be finished at once or later; no
\* order is canceled in a book that sold more than it held.
CancelOne(o) ==
    \/ pos.over /\ UNCHANGED <<row, ven, used>>
    \/ /\ ~pos.over
       /\ row[o].pending \/ ven[o].state # "open"
       /\ row' = [row EXCEPT ![o] = [Read(o) EXCEPT !.applied = row[o].applied]]
       /\ UNCHANGED <<ven, used>>
    \/ /\ ~pos.over
       /\ ~row[o].pending /\ ven[o].state = "open"
       /\ \/ ven' = ven /\ UNCHANGED used
          \/ Cancels(o)
       /\ row' = [row EXCEPT ![o].status = ven'[o].state, ![o].pending = ven'[o].state = "open",
                             ![o].filled = Max({@, ven'[o].shown})]
    \/ /\ ~pos.over /\ Fault   \* refused, or no answer
       /\ UNCHANGED <<row, ven>>

AllPending == \A o \in active_orders : cancel_pending(o)

(***************************************************************************)
(* _ensure_live_bracket.                                                   *)
(***************************************************************************)
Covered ==
    \/ AttachedEntryCovers
    \/ active_orders # {} /\ BracketMatches(First(active_orders))

\* submit_intent writes its row before it calls the venue.  The row that was
\* there is of a canceled order that could not be read again.
Submit(o) ==
    LET follows == row[o].status \notin {"none", "rejected"} IN
    IF rejection_latched(o)
    THEN SaveOnly(Pause("rejected"), Done(wk))
    ELSE /\ ven' = [ven EXCEPT ![o] = NoOrder,
                               !["past"] = IF follows THEN PastOrder(o, row[o]) ELSE @]
         /\ row' = [row EXCEPT ![o] = [NoRow EXCEPT !.status = "pending", !.qty = pos.qty,
                                       !.stop = IF o = "exit" THEN 0 ELSE pos.stop],
                               !["past"] = IF follows THEN PastRow(o, row[o]) ELSE @]
         /\ wk' = [wk EXCEPT !.pc = "placing", !.then = o]
         /\ dep' = dep

\* Decided without a call: a fault, a flat book, a position that is covered,
\* a flatten that must not be undone, or nothing resting.  An earlier order that
\* cannot be read may look like protection; its levels are not kept here.
Protect ==
    /\ At("protect")
    /\ CASE EconomicsFault -> SaveOnly(PauseOnFault, Done(wk))
         [] ~EconomicsFault /\ pos.qty = 0 -> Go(To(wk, "settle"))
         [] ~EconomicsFault /\ pos.qty > 0 /\ Covered -> SaveOnly(dep, Done(wk))
         [] ~EconomicsFault /\ pos.qty > 0 /\ ~Covered ->
              \/ active_orders # {} /\ First(active_orders) = "past" /\ SaveOnly(dep, Done(wk))
              \/ IF wk.flatten THEN Go(Done(wk))
                 ELSE IF active_orders # {} THEN Go(To(wk, "replace"))
                 ELSE Submit("bracket")
    /\ UNCHANGED <<pos, sold, rej, backoff, used, blind>>

\* The order that no longer fits is canceled, and its executions are read
\* before the rest is protected again.
CancelProtection ==
    /\ At("replace")
    /\ LET o == First(active_orders) IN
         IF row[o].known THEN CancelOne(o) ELSE UNCHANGED <<row, ven, used>>
    /\ wk' = To(wk, "resize")
    /\ UNCHANGED <<dep, pos, sold, rej, backoff, blind>>

AfterCancel ==
    /\ At("resize")
    /\ IF active_orders = {} THEN dep' = dep /\ wk' = Walk(wk, "recheck")
       ELSE IF cancel_pending(First(active_orders)) THEN dep' = dep /\ wk' = Done(wk)
       ELSE Save(wk, Pause("position"), Done(wk))
    /\ UNCHANGED <<pos, row, venue, rej, backoff, used, blind>>

Resized ==
    /\ At("recheck")
    /\ IF EconomicsFault THEN SaveOnly(PauseOnFault, Done(wk))
       ELSE IF pos.qty = 0 THEN Go(To(wk, "settle"))
       ELSE Submit("bracket")
    /\ UNCHANGED <<pos, sold, rej, backoff, used, blind>>

(***************************************************************************)
(* _marketable_exit.                                                       *)
(***************************************************************************)
BeginExit ==
    /\ At("exit")
    /\ IF exit_fill_pending THEN dep' = dep /\ wk' = To(wk, "apply")
       ELSE IF EconomicsFault THEN Save(wk, PauseOnFault, Done(wk))
       ELSE dep' = dep /\ wk' = Canceling(wk, "cancel")
    /\ UNCHANGED <<pos, row, venue, rej, backoff, used, blind>>

\* One resting order after another, for an exit or to clear a flat book.
CancelResting ==
    /\ wk.pc \in {"cancel", "clear"} /\ wk.left # {}
    /\ CancelOne(First(wk.left))
    /\ wk' = [wk EXCEPT !.left = @ \ {First(wk.left)}]
    /\ UNCHANGED <<dep, pos, sold, rej, backoff, blind>>

Canceled ==
    /\ At("cancel") /\ wk.left = {}
    /\ IF active_orders # {} /\ AllPending THEN Save(wk, dep, Done(wk))
       ELSE dep' = dep /\ wk' = Walk(wk, "sell")
    /\ UNCHANGED <<pos, row, venue, rej, backoff, used, blind>>

\* A book that is flat after all is cleared of remainders on a flatten.
AfterExit(w) == IF w.closing THEN Canceling(w, "clear") ELSE To(w, "settle")

\* Mutant: the exit does not wait for the orders it asked to cancel.
SellAtOnce ==
    /\ At("sell")
    /\ CASE pos.qty = 0 -> Go(AfterExit(wk))
         [] pos.qty > 0 /\ Unsettled -> SaveOnly(Pause("position"), Done(wk))
         [] pos.qty > 0 /\ ~Unsettled -> Submit("exit")
    /\ UNCHANGED <<pos, sold, rej, backoff, used, blind>>

Sell ==
    /\ At("sell")
    /\ CASE pos.qty = 0 -> Go(AfterExit(wk))
         [] pos.qty > 0 /\ Unsettled -> SaveOnly(Pause("position"), Done(wk))
         [] pos.qty > 0 /\ ~Unsettled /\ active_orders # {} ->
              SaveOnly(IF AllPending THEN dep ELSE Pause("position"), Done(wk))
         [] pos.qty > 0 /\ ~Unsettled /\ active_orders = {} -> Submit("exit")
    /\ UNCHANGED <<pos, sold, rej, backoff, used, blind>>

\* The fills of a filled exit are listed and booked, as far as they are shown.
ApplyExitFill ==
    LET n == ven["exit"].listed - row["exit"].applied
        w == Fenced(n) IN
    /\ At("apply")
    /\ Kept("exit", [row["exit"] EXCEPT !.applied = ven["exit"].listed])
    /\ Books(n) /\ NewRuns(n)
    /\ IF row["exit"].filled > ven["exit"].listed THEN Save(w, Overdrawn(n), Done(w))
       ELSE dep' = Overdrawn(n) /\ wk' = IF pos'.qty = 0 THEN AfterExit(w) ELSE Done(w)
    /\ UNCHANGED <<sold, used, blind>>

(***************************************************************************)
(* The create call.  The venue takes a sell only against units that no     *)
(* other working sell holds.                                               *)
(***************************************************************************)
Working(o) == IF ven[o].state = "open" THEN ven[o].qty - ven[o].done ELSE 0
Resting == Working("child") + Working("past") + Working("bracket") + Working("exit")
Fits(o) == row[o].qty <= Qty + Spare - sold - Resting

\* The books cannot see that the child is at the venue, or how much of a
\* canceled order was executed.
Hidden ==
    \/ ven["child"].state # "none" /\ row["child"].status = "none"
    \/ \E o \in Orders : ven[o].state = "canceled" /\ ven[o].done > row[o].filled

Take ==
    LET o == wk.then IN
    /\ At("placing")
    /\ Fits(o)
    /\ ven' = [ven EXCEPT ![o] = [NoOrder EXCEPT !.state = "open", !.qty = row[o].qty]]
    /\ wk' = To(wk, "answer")
    /\ NewRun(o)
    /\ blind' = (blind \/ Hidden)
    /\ UNCHANGED <<dep, pos, row, sold, used>>

Reject ==
    LET o == wk.then IN
    /\ At("placing")
    /\ \/ ~Fits(o) /\ UNCHANGED used
       \/ Fault
    /\ row' = [row EXCEPT ![o].status = "rejected"]
    /\ ven' = [ven EXCEPT ![o] = NoOrder]
    /\ rej' = [rej EXCEPT ![o] = Min({@ + 1, MaxIdentical})]
    /\ backoff' = backoff \cup {o}
    /\ wk' = To(wk, "reply")
    /\ UNCHANGED <<dep, pos, sold, blind>>

\* The request does not reach the venue.
NotSent ==
    LET o == wk.then IN
    /\ At("placing")
    /\ Fault
    /\ row' = [row EXCEPT ![o].status = "unknown"]
    /\ ven' = [ven EXCEPT ![o] = NoOrder]
    /\ NewRun(o)
    /\ wk' = To(wk, "reply")
    /\ UNCHANGED <<dep, pos, sold, blind>>

Answer ==
    LET o == wk.then IN
    /\ At("answer")
    /\ \/ /\ row' = [row EXCEPT ![o] = [Read(o) EXCEPT !.applied = 0]]
          /\ UNCHANGED used
       \/ /\ Fault   \* the answer is lost
          /\ row' = [row EXCEPT ![o].status = "unknown"]
    /\ wk' = To(wk, "reply")
    /\ UNCHANGED <<dep, pos, venue, rej, backoff, blind>>

\* Mutant: an order whose answer is lost is taken for resting.
ReplyUnchecked ==
    LET status == row[wk.then].status IN
    /\ At("reply")
    /\ row' = IF status = "rejected" THEN [row EXCEPT ![wk.then] = NoRow] ELSE row
    /\ CASE status = "rejected" -> Save(wk, Pause("rejected"), Done(wk))
         [] status = "filled" /\ wk.then = "exit" -> dep' = dep /\ wk' = To(wk, "apply")
         [] OTHER -> Save(wk, dep, Done(wk))
    /\ UNCHANGED <<pos, venue, rej, backoff, used, blind>>

Reply ==
    LET status == row[wk.then].status IN
    /\ At("reply")
    /\ row' = IF status = "rejected" THEN [row EXCEPT ![wk.then] = NoRow] ELSE row
    /\ CASE status = "rejected" -> Save(wk, Pause("rejected"), Done(wk))
         [] status = "open" /\ wk.then = "bracket" -> Save(wk, dep, Done(wk))
         [] status = "filled" /\ wk.then = "exit" -> dep' = dep /\ wk' = To(wk, "apply")
         [] OTHER -> Save(wk, Pause("position"), Done(wk))
    /\ UNCHANGED <<pos, venue, rej, backoff, used, blind>>

(***************************************************************************)
(* The end of a flatten, and of a position.                                *)
(***************************************************************************)
Cleared ==
    /\ At("clear") /\ wk.left = {}
    /\ IF dep.status = "stopped" /\ active_orders # {} /\ ~AllPending
       THEN Save(wk, Pause("position"), WalkFrom(wk, "settle", Pause("position")))
       ELSE dep' = dep /\ wk' = Walk(wk, "settle")
    /\ UNCHANGED <<pos, row, venue, rej, backoff, used, blind>>

FinalWalk ==
    /\ At("final")
    /\ wk' = Walk(wk, "settle")
    /\ UNCHANGED <<dep, pos, row, venue, rej, backoff, used, blind>>

FlatAndIdle == pos.qty = 0 /\ active_orders = {} /\ ~EconomicsFault

Settle ==
    /\ At("settle")
    /\ CASE FlatAndIdle /\ wk.flatten /\ dep.status # "running" ->
              Save(wk, [dep EXCEPT !.status = "stopped", !.detail = "none"], Maintained)
         [] FlatAndIdle /\ ~wk.flatten /\ dep.detail \in {"position", "rejected"} ->
              Save(wk, [dep EXCEPT !.detail = IF dep.status = "paused" THEN "flat" ELSE "none"],
                   Maintained)
         [] OTHER -> dep' = dep /\ wk' = Maintained
    /\ UNCHANGED <<pos, row, venue, rej, backoff, used, blind>>

Crash ==
    /\ ~At("idle")
    /\ Fault
    /\ wk' = Idle
    /\ UNCHANGED <<dep, pos, row, venue, rej, backoff, blind>>

(***************************************************************************)
(* The operator, the venue and the clock.                                  *)
(***************************************************************************)
Commanded(status, command) ==
    /\ used.commands < MaxCommands
    /\ used' = [used EXCEPT !.commands = @ + 1]
    /\ dep' = [status |-> status, command |-> command, detail |-> "none"]
    /\ wk' = [wk EXCEPT !.stale = wk.pc # "idle", !.commanded = wk.pc # "idle"]
    /\ UNCHANGED <<pos, row, venue, rej, backoff, blind>>

PauseBook == dep.status # "stopped" /\ Commanded("paused", "stop_new_entries")
ResumeBook == dep.status = "paused" /\ Commanded("running", "none")
StopBook == Commanded("stopped", "managed_shutdown")
FlattenBook == Commanded("stopped", "flatten")

VenueExecutes(o) ==
    /\ ven[o].state = "open"
    /\ ven' = [ven EXCEPT ![o].done = @ + 1, ![o].shown = @ + 1,
                          ![o].state = IF ven[o].done + 1 = ven[o].qty THEN "filled" ELSE @]
    /\ sold' = sold + 1
    /\ UNCHANGED <<dep, pos, row, rej, backoff, wk, used, blind>>

\* A cancel is finished, or the venue ends the order by itself.
VenueCancels(o) ==
    /\ ven[o].state = "open"
    /\ Cancels(o)
    /\ UNCHANGED <<dep, pos, row, sold, rej, backoff, wk, blind>>

VenueLists(o) ==
    /\ ven[o].listed < ven[o].done
    /\ ven' = [ven EXCEPT ![o].shown = ven[o].done, ![o].listed = ven[o].done]
    /\ UNCHANGED <<dep, pos, row, sold, rej, backoff, wk, used, blind>>

BackoffEnds(o) ==
    /\ o \in backoff
    /\ backoff' = backoff \ {o}
    /\ UNCHANGED <<dep, pos, row, venue, rej, wk, used, blind>>

Worker ==
    \/ Begin \/ OpenWalk \/ ReadOrder \/ ReadFails \/ NotFound \/ EndWalk
    \/ FlattenIdle \/ FlattenRemainders \/ FlattenPosition \/ NoPrice \/ Note \/ Manage \/ NewBar
    \/ ChildNotSeen \/ AdoptChild \/ AdoptUnread
    \/ Protect \/ CancelProtection \/ AfterCancel \/ Resized
    \/ BeginExit \/ CancelResting \/ Canceled \/ Sell \/ ApplyExitFill
    \/ Take \/ Reject \/ NotSent \/ Answer \/ Reply \/ Cleared \/ FinalWalk \/ Settle

Next ==
    \/ Worker \/ Crash
    \/ PauseBook \/ ResumeBook \/ StopBook \/ FlattenBook
    \/ \E o \in Orders : VenueExecutes(o) \/ VenueCancels(o) \/ VenueLists(o)
    \/ \E o \in backoff : BackoffEnds(o)

Spec == Init /\ [][Next]_vars

(***************************************************************************)
(* Fairness: the worker takes its steps and starts a new pass; the venue   *)
(* finishes an accepted cancel and a marketable order and lists what it    *)
(* executed; a backoff ends.  The worker has a step to take in every       *)
(* state, so its weak fairness is that it takes one again and again.       *)
(***************************************************************************)
VenueEnds(o) == (row[o].pending \/ o = "exit") /\ (VenueExecutes(o) \/ VenueCancels(o))

FairSpec ==
    /\ Spec
    /\ []<><<Worker>>_vars
    /\ WF_vars(\E o \in backoff : BackoffEnds(o))
    /\ \A o \in Orders : WF_vars(VenueEnds(o) \/ VenueLists(o))

(***************************************************************************)
(* Properties.                                                             *)
(***************************************************************************)
\* No unit of the position is offered twice: what is sold and what working
\* orders may still sell never exceed the position, over replacements, exits,
\* lost answers and crashes, although the account holds other units.  It
\* assumes that no order was placed before the attached child was known, or
\* while a canceled order had executed more than any read of it had shown.
NeverOversold == ~blind => sold + Resting <= Qty

\* A book that looks flat and idle is flat at the venue: everything was sold
\* once and nothing is working there (flat_and_idle, _settle_flat_book), unless
\* a canceled order's executions, or the child, are still to be seen.
FlatIsFlat == FlatAndIdle /\ ~Hidden => sold = Qty /\ Resting = 0

\* A pass that no command overtakes and no missing price cuts short leaves an
\* open position with a sell order it knows to be working, an exit whose fills
\* it waits for, or a recorded fault.  A flatten has FlattenSettles instead.
PassProtects ==
    [][wk'.maintained /\ ~(wk.maintained \/ wk.commanded \/ dep.command = "flatten") /\ pos'.qty > 0 =>
         \/ \E o \in Orders : row'[o].status \in Active /\ row'[o].known
         \/ exit_fill_pending'
         \/ dep'.detail # "none"]_vars

\* A flatten ends with a flat, stopped book without a detail, unless the
\* operator withdraws it or has to help: a create that is not at the venue,
\* an exit rejected too often, or units that could not be seen.
NeedsOperator ==
    \/ \E o \in active_orders : ven[o].state = "none"
    \/ rej["exit"] >= MaxIdentical
    \/ blind
Flattened == FlatAndIdle /\ dep.status = "stopped" /\ dep.detail = "none"
FlattenSettles ==
    dep.command = "flatten" ~> Flattened \/ dep.command # "flatten" \/ NeedsOperator
=============================================================================
