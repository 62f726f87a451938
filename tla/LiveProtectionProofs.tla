------------------------ MODULE LiveProtectionProofs ------------------------
(***************************************************************************)
(* Proofs, for any position, account and bounds, that the worker never     *)
(* offers a unit of the position twice, that a book that looks flat is     *)
(* flat at the venue, both as far as its reads show what was executed, and *)
(* that a pass leaves an open position protected or a fault on record.     *)
(***************************************************************************)
EXTENDS LiveProtection, TLAPS

Deps == [status : BookStates, detail : Details,
         command : {"none", "stop_new_entries", "managed_shutdown", "flatten"}]
Positions == [qty : 0..Qty, stop : 1..MaxStop, due : BOOLEAN, over : BOOLEAN]
Rows == [status : Statuses, known : BOOLEAN, pending : BOOLEAN, qty : 0..Qty,
         stop : 0..MaxStop, filled : Units, applied : Units]
VenueOrders == [state : {"none", "open", "filled", "canceled"}, qty : 0..Qty,
                done : Units, shown : Units, listed : Units]
Passes == [pc : Steps, then : Steps \cup Orders, left : SUBSET Orders, flatten : BOOLEAN,
           closing : BOOLEAN, stale : BOOLEAN, commanded : BOOLEAN, maintained : BOOLEAN,
           began : [status : BookStates, detail : Details], first : Details]
Uses == [faults : 0..MaxFaults, commands : 0..MaxCommands]
Submits == {"bracket", "exit"}

Typed ==
    /\ dep \in Deps /\ pos \in Positions
    /\ row \in [Orders -> Rows] /\ ven \in [Orders -> VenueOrders]
    /\ backoff \subseteq Submits /\ blind \in BOOLEAN
    /\ rej \in [Submits -> 0..MaxIdentical]
    /\ wk \in Passes /\ used \in Uses /\ sold \in Units

\* What an order may still take from the position: what it is working for or
\* has executed, less what is booked; and what it executed that is not booked.
Exposure(o) == (IF ven[o].state = "open" THEN ven[o].qty ELSE ven[o].done) - row[o].applied
Unbooked(o) == ven[o].done - row[o].applied
AllExposure == Exposure("child") + Exposure("past") + Exposure("bracket") + Exposure("exit")
AllUnbooked == Unbooked("child") + Unbooked("past") + Unbooked("bracket") + Unbooked("exit")

\* A row is never ahead of the venue, and a row that says its order is over is
\* right; only a canceled one may have executed more than its row shows.
OrderOK(o) ==
    /\ row[o].applied <= ven[o].listed /\ ven[o].listed <= ven[o].shown
    /\ ven[o].shown <= ven[o].done
    /\ row[o].applied <= row[o].filled /\ row[o].filled <= ven[o].done
    /\ ven[o].state # "canceled" => ven[o].shown = ven[o].done
    /\ ven[o].state = "none" => ven[o].done = 0
    /\ ven[o].state = "open" => ven[o].done < ven[o].qty
    /\ row[o].known => ven[o].state # "none"
    /\ row[o].status = "none" => /\ row[o].filled = 0 /\ row[o].applied = 0
                                 /\ o # "child" => ven[o].state = "none"
    /\ row[o].status = "rejected" => ven[o].state = "none"
    /\ row[o].status = "filled" => ven[o].state = "filled" /\ ven[o].done <= row[o].filled
    /\ row[o].status = "canceled" => ven[o].state = "canceled"
    /\ row[o].status \in {"open", "filled", "canceled"} \/ row[o].pending => row[o].known
    /\ o \in {"child", "past"} => (row[o].status # "none" => row[o].known)
    /\ o \in Submits => (ven[o].state # "none" => ven[o].qty = row[o].qty)
    /\ o # "past" => ven[o].done <= ven[o].qty
    /\ o = "past" => ven[o].state \in {"none", "canceled"} /\ row[o].applied = 0
    /\ ven[o].state = "filled" => ven[o].done = ven[o].qty

\* The order can execute nothing more, whatever the last read of it said, and
\* if it was not canceled its row shows all it executed; a child may not be
\* known yet.
Over(o) == \/ row[o].status = "none" \/ ven[o].state = "canceled"
           \/ ven[o].state # "open" /\ ven[o].done <= row[o].filled
Settled(o) == Over(o) /\ row[o].filled <= row[o].applied

\* Where a walk may lead, and the steps at which a pass relies on nothing.
Goals == {"decide", "note", "adopt", "recheck", "sell", "settle"}
Walking == {"open", "walk"}
PlainSteps == {"idle", "decide", "note", "ensure", "protect", "resize", "adopt", "exit", "sell",
               "final", "settle"}

\* What a pass relies on at each of its steps.
WorkerOK ==
    /\ wk.pc \in Walking => wk.then \in Goals /\ \A o \in wk.left : row[o].status # "none"
    /\ wk.pc = "recheck" \/ (wk.pc \in Walking /\ wk.then = "recheck") => \A o \in Orders : Over(o)
    /\ wk.pc \in {"cancel", "clear"} => \A o \in wk.left : row[o].known
    /\ wk.pc = "replace" => active_orders # {}
    /\ wk.pc \in {"placing", "answer", "reply"} => wk.then \in Submits
    /\ wk.pc = "placing" =>
         /\ row[wk.then].status = "pending" /\ ~row[wk.then].known
         /\ row[wk.then].qty = pos.qty /\ pos.qty > 0
         /\ row[wk.then].applied = 0 /\ row[wk.then].filled = 0
         /\ ven[wk.then] = NoOrder
         /\ \A o \in Orders \ {wk.then} : Settled(o)
    /\ wk.pc = "answer" => ven[wk.then].state # "none" /\ row[wk.then].applied = 0
    /\ wk.pc = "apply" => row["exit"].status = "filled"

\* The account covers every working order.
Covers == sold + Resting <= Qty + Spare

\* The position is what the venue has not sold, but for executions that are
\* not booked, until more is booked than it held.
Balanced ==
    /\ AllUnbooked <= sold
    /\ ~pos.over => pos.qty + sold = Qty + AllUnbooked
    /\ pos.over => pos.qty = 0

\* It covers what every order may still take from it.
Exposed == ~pos.over /\ AllExposure <= pos.qty

\* An exit is for no less than what is left of the position.
ExitSized ==
    row["exit"].status # "none" => pos.qty <= row["exit"].qty - row["exit"].applied

Inv == /\ Typed /\ (\A o \in Orders : OrderOK(o)) /\ WorkerOK /\ ExitSized
       /\ Covers /\ Balanced /\ (~blind => Exposed)

-----------------------------------------------------------------------------
LEMMA TypedIsTypeOK == Typed <=> TypeOK
BY DEF Typed, TypeOK, Deps, Positions, Rows, VenueOrders, Passes, Uses, Submits

LEMMA MaxOfTwo ==
    ASSUME NEW a \in Int, NEW b \in Int, a <= b
    PROVE  Max({a, b}) = b
<1>1. b \in {a, b} /\ \A y \in {a, b} : b >= y
  OBVIOUS
<1>2. Max({a, b}) \in {a, b} /\ \A y \in {a, b} : Max({a, b}) >= y
  BY <1>1 DEF Max
<1> QED
  BY <1>2

LEMMA MaxIsOne ==
    ASSUME NEW a \in Int, NEW b \in Int
    PROVE  Max({a, b}) \in {a, b} /\ a <= Max({a, b}) /\ b <= Max({a, b})
<1>1. \E x \in {a, b} : \A y \in {a, b} : x >= y
  OBVIOUS
<1>2. Max({a, b}) \in {a, b} /\ \A y \in {a, b} : Max({a, b}) >= y
  BY <1>1 DEF Max
<1> QED
  BY <1>2

LEMMA MinOfTwo ==
    ASSUME NEW a \in Int, NEW b \in Int
    PROVE  Min({a, b}) \in {a, b} /\ Min({a, b}) <= a /\ Min({a, b}) <= b
<1>1. \E x \in {a, b} : \A y \in {a, b} : x <= y
  OBVIOUS
<1>2. Min({a, b}) \in {a, b} /\ \A y \in {a, b} : Min({a, b}) <= y
  BY <1>1 DEF Min
<1> QED
  BY <1>2

LEMMA FirstIn ==
    ASSUME NEW set \in SUBSET Orders, set # {}
    PROVE  First(set) \in set
<1>1. \E o \in set : \A other \in set : Rank(o) <= Rank(other)
  <2>1. CASE "child" \in set
    BY <2>1 DEF Orders, Rank
  <2>2. CASE "child" \notin set /\ "past" \in set
    BY <2>2 DEF Orders, Rank
  <2>3. CASE "child" \notin set /\ "past" \notin set /\ "bracket" \in set
    BY <2>3 DEF Orders, Rank
  <2>4. CASE "child" \notin set /\ "past" \notin set /\ "bracket" \notin set
    BY <2>4 DEF Orders, Rank
  <2> QED
    BY <2>1, <2>2, <2>3, <2>4
<1> QED
  BY <1>1 DEF First

LEMMA Blank ==
    /\ NoRow \in Rows /\ NoOrder \in VenueOrders /\ NoPosition \in Positions
    /\ Idle \in Passes /\ Maintained \in Passes /\ NoRuns \in [Submits -> 0..MaxIdentical]
<1>1. NoRow \in Rows /\ NoOrder \in VenueOrders
  BY ProtectionAssumption DEF NoRow, Rows, NoOrder, VenueOrders, Statuses, Units
<1>2. NoPosition \in Positions /\ NoRuns \in [Submits -> 0..MaxIdentical]
  BY ProtectionAssumption DEF NoPosition, Positions, NoRuns, Submits
<1>3. Idle \in Passes
  <2>1. NotBegun \in [status : BookStates, detail : Details]
    BY DEF NotBegun, BookStates, Details
  <2> QED
    BY <2>1 DEF Idle, Passes, Steps, Details
<1>4. Maintained \in Passes
  BY <1>3 DEF Maintained, Passes
<1> QED
  BY <1>1, <1>2, <1>3, <1>4

LEMMA InitInv == Init => Inv
<1> SUFFICES ASSUME Init PROVE Inv
  OBVIOUS
<1>1. NoOrder \in VenueOrders /\ NoOrder.done = 0 /\ NoOrder.listed = 0 /\ NoOrder.shown = 0
  BY Blank DEF NoOrder
<1> DEFINE open == [NoOrder EXCEPT !.state = "open", !.qty = Qty]
<1>3. /\ open \in VenueOrders /\ open.state = "open" /\ open.qty = Qty /\ open.done = 0
      /\ open.listed = 0 /\ open.shown = 0
  <2>1. Qty \in 0..Qty
    BY ProtectionAssumption
  <2> QED
    BY <1>1, <2>1 DEF VenueOrders
<1>2. PICK child \in {NoOrder, open} :
         ven = [o \in Orders |-> IF o = "child" THEN child ELSE NoOrder]
  BY DEF Init
<1> HIDE DEF open
<1>p. pos \in Positions /\ pos.qty = Qty /\ ~pos.over
  <2>1. NoPosition \in Positions /\ ~NoPosition.over
    BY Blank DEF NoPosition
  <2>2. pos = [NoPosition EXCEPT !.qty = Qty] /\ Qty \in 0..Qty
    BY ProtectionAssumption DEF Init
  <2> QED
    BY <2>1, <2>2 DEF Positions
<1>4. Typed
  <2>1. dep \in Deps
    BY DEF Init, Deps, Details, BookStates
  <2>2. row \in [Orders -> Rows]
    BY Blank DEF Init
  <2>3. ven \in [Orders -> VenueOrders]
    BY <1>2, <1>3, Blank
  <2>4. backoff \subseteq Submits /\ blind \in BOOLEAN /\ rej \in [Submits -> 0..MaxIdentical]
    BY Blank DEF Init
  <2>5. wk \in Passes /\ used \in Uses /\ sold \in Units
    BY Blank, ProtectionAssumption DEF Init, Uses, Units
  <2> QED
    BY <1>p, <2>1, <2>2, <2>3, <2>4, <2>5 DEF Typed
<1>5. /\ \A o \in Orders : row[o] = NoRow
      /\ ven["child"] \in {NoOrder, open} /\ ven["bracket"] = NoOrder /\ ven["exit"] = NoOrder
      /\ ven["past"] = NoOrder
  BY <1>2 DEF Init, Orders
<1>6. ASSUME NEW o \in Orders PROVE OrderOK(o)
  BY <1>3, <1>5, ProtectionAssumption DEF OrderOK, NoRow, NoOrder, Orders, Submits
<1>7. WorkerOK
  BY DEF Init, WorkerOK, Idle, Walking
<1>8. /\ Working("bracket") = 0 /\ Working("exit") = 0 /\ Working("past") = 0
      /\ Working("child") \in {0, Qty}
      /\ Exposure("bracket") = 0 /\ Exposure("exit") = 0 /\ Exposure("past") = 0
      /\ Exposure("child") \in {0, Qty}
      /\ Unbooked("child") = 0 /\ Unbooked("bracket") = 0 /\ Unbooked("exit") = 0
      /\ Unbooked("past") = 0
  BY <1>3, <1>5, ProtectionAssumption DEF Working, Exposure, Unbooked, NoRow, NoOrder, Orders
<1>9. Covers /\ Balanced /\ Exposed
  <2>1. sold = 0
    BY DEF Init
  <2> QED
    BY <1>p, <1>8, <2>1, ProtectionAssumption
    DEF Covers, Balanced, Exposed, Resting, AllExposure, AllUnbooked
<1>10. ExitSized
  BY <1>5 DEF ExitSized, NoRow, Orders
<1> QED
  BY <1>4, <1>6, <1>7, <1>9, <1>10 DEF Inv

-----------------------------------------------------------------------------
(***************************************************************************)
(* The states of a pass.                                                   *)
(***************************************************************************)
LEMMA ToStep ==
    ASSUME NEW w \in Passes, NEW pc \in Steps
    PROVE  /\ To(w, pc) \in Passes /\ To(w, pc).pc = pc
           /\ To(w, pc).then = w.then /\ To(w, pc).left = w.left
BY DEF To, Passes

LEMMA DoneStep ==
    ASSUME NEW w \in Passes
    PROVE  Done(w) \in Passes /\ Done(w).pc \in {"idle", "final"}
<1>1. CASE w.closing
  BY <1>1, ToStep DEF Done, Steps
<1>2. CASE ~w.closing
  BY <1>2, Blank DEF Done, Maintained, Idle
<1> QED
  BY <1>1, <1>2

LEMMA WalkStep ==
    ASSUME NEW w \in Passes, NEW then \in Goals, NEW d \in Deps
    PROVE  /\ WalkFrom(w, then, d) \in Passes /\ WalkFrom(w, then, d).pc \in Walking
           /\ WalkFrom(w, then, d).then = then /\ WalkFrom(w, then, d).left = Watched
<1>1. PICK pc \in Walking : pc = IF d.status = "running" /\ pos.over THEN "open" ELSE "walk"
  BY DEF Walking
<1>2. [status |-> d.status, detail |-> d.detail] \in [status : BookStates, detail : Details]
  BY DEF Deps
<1>3. Watched \in SUBSET Orders
  BY DEF Watched, active_orders
<1> QED
  BY <1>1, <1>2, <1>3 DEF WalkFrom, Passes, Goals, Steps, Walking

LEMMA WalkOf ==
    ASSUME Typed, NEW w \in Passes, NEW then \in Goals
    PROVE  /\ Walk(w, then) \in Passes /\ Walk(w, then).pc \in Walking
           /\ Walk(w, then).then = then /\ Walk(w, then).left = Watched
BY WalkStep DEF Walk, Typed

LEMMA CancelingStep ==
    ASSUME NEW w \in Passes, NEW pc \in Steps
    PROVE  /\ Canceling(w, pc) \in Passes /\ Canceling(w, pc).pc = pc
           /\ Canceling(w, pc).left = Cancelable
BY DEF Canceling, Passes, Cancelable, active_orders

LEMMA FencedStep ==
    ASSUME Typed, NEW n
    PROVE  /\ Fenced(n) \in Passes /\ Fenced(n).pc = wk.pc
           /\ Fenced(n).then = wk.then /\ Fenced(n).left = wk.left
<1>1. (dep.command = "flatten") \in BOOLEAN
  OBVIOUS
<1> QED
  BY <1>1 DEF Fenced, Typed, Passes

LEMMA WatchedRows ==
    ASSUME Inv, NEW o \in Watched
    PROVE  row[o].status # "none"
BY DEF Watched, active_orders, Active, Inv, OrderOK

-----------------------------------------------------------------------------
LEMMA PlainOK ==
    ASSUME wk'.pc \in PlainSteps
    PROVE  WorkerOK'
BY DEF WorkerOK, PlainSteps, Walking

LEMMA PlainPass ==
    ASSUME NEW w \in Passes, w.pc \in PlainSteps, wk' \in {Idle, w}
    PROVE  wk' \in Passes /\ WorkerOK'
<1>1. Idle \in Passes /\ Idle.pc \in PlainSteps
  BY Blank DEF Idle, PlainSteps
<1> QED
  BY <1>1, PlainOK

\* The amounts are integers, and moves of a pass that change no order.
LEMMA Numbers ==
    ASSUME Typed, NEW o \in Orders
    PROVE  Working(o) \in Int /\ Exposure(o) \in Int /\ Unbooked(o) \in Int
<1>1. row[o] \in Rows /\ ven[o] \in VenueOrders
  BY DEF Typed
<1> QED
  BY <1>1, ProtectionAssumption DEF Working, Exposure, Unbooked, Rows, VenueOrders, Units

LEMMA Totals ==
    ASSUME Typed
    PROVE  /\ sold \in Int /\ pos.qty \in Nat /\ Qty \in Int /\ Spare \in Int
           /\ Resting \in Int /\ AllExposure \in Int /\ AllUnbooked \in Int
<1>1. sold \in Int /\ pos.qty \in Nat /\ Qty \in Int /\ Spare \in Int
  BY ProtectionAssumption DEF Typed, Positions, Units
<1>2. \A o \in Orders : Working(o) \in Int /\ Exposure(o) \in Int /\ Unbooked(o) \in Int
  BY Numbers
<1> QED
  BY <1>1, <1>2 DEF Resting, AllExposure, AllUnbooked, Orders

LEMMA Quiet ==
    ASSUME Inv, Typed', WorkerOK', UNCHANGED <<row, ven, sold, blind>>, pos'.qty = pos.qty,
           pos'.over = pos.over
    PROVE  Inv'
<1>1. ASSUME NEW o \in Orders PROVE OrderOK(o)' /\ Working(o)' = Working(o)
                                    /\ Exposure(o)' = Exposure(o) /\ Unbooked(o)' = Unbooked(o)
  BY DEF Inv, OrderOK, Working, Exposure, Unbooked
<1>2. Resting' = Resting /\ AllExposure' = AllExposure /\ AllUnbooked' = AllUnbooked
  BY <1>1 DEF Resting, AllExposure, AllUnbooked, Orders
<1>3. Covers' /\ Balanced' /\ (~blind' => Exposed')
  BY <1>2 DEF Inv, Covers, Balanced, Exposed
<1>4. ExitSized'
  BY DEF Inv, ExitSized
<1> QED
  BY <1>1, <1>3, <1>4 DEF Inv

LEMMA QuietWalk ==
    ASSUME Inv, NEW w \in Passes, NEW then \in Goals, NEW d \in Deps,
           wk' = WalkFrom(w, then, d), row' = row, ven' = ven,
           then = "recheck" => \A o \in Orders : Over(o)
    PROVE  wk' \in Passes /\ WorkerOK'
<1>1. /\ wk' \in Passes /\ wk'.pc \in Walking /\ wk'.then = then /\ wk'.left = Watched
  BY WalkStep
<1>2. \A o \in wk'.left : row'[o].status # "none"
  BY <1>1, WatchedRows
<1>3. then = "recheck" => \A o \in Orders : Over(o)'
  BY DEF Over
<1> QED
  BY <1>1, <1>2, <1>3 DEF WorkerOK, Walking

LEMMA QuietCancels ==
    ASSUME NEW w \in Passes, NEW pc \in {"cancel", "clear"}, wk' = Canceling(w, pc), row' = row
    PROVE  wk' \in Passes /\ WorkerOK'
<1>1. wk' \in Passes /\ wk'.pc = pc /\ wk'.left = Cancelable
  BY CancelingStep DEF Steps
<1>2. \A o \in wk'.left : row'[o].known
  BY <1>1 DEF Cancelable
<1> QED
  BY <1>1, <1>2 DEF WorkerOK, Walking

\* The row or the state at the venue of one order changes, and with it that of
\* the canceled ones.
LEMMA TwoOrders ==
    ASSUME Inv, NEW o \in Orders \ {"past"}, Typed', WorkerOK',
           \A x \in Orders \ {o, "past"} : row'[x] = row[x] /\ ven'[x] = ven[x],
           OrderOK(o)', OrderOK("past")', pos'.qty <= pos.qty, o = "exit" => ExitSized',
           sold' + Working(o)' + Working("past")' <= sold + Working(o) + Working("past"),
           Unbooked(o)' + Unbooked("past")' - sold' <= Unbooked(o) + Unbooked("past") - sold,
           ~pos'.over => /\ ~pos.over
                         /\ pos'.qty + sold' - Unbooked(o)' - Unbooked("past")' =
                               pos.qty + sold - Unbooked(o) - Unbooked("past"),
           pos'.over => pos'.qty = 0,
           blind' = blind,
           ~blind => /\ ~pos'.over
                     /\ Exposure(o)' + Exposure("past")' - pos'.qty <=
                           Exposure(o) + Exposure("past") - pos.qty
    PROVE  Inv'
<1>1. ASSUME NEW x \in Orders \ {o, "past"}
      PROVE  /\ OrderOK(x)' /\ Working(x)' = Working(x)
             /\ Exposure(x)' = Exposure(x) /\ Unbooked(x)' = Unbooked(x)
  BY <1>1 DEF Inv, OrderOK, Working, Exposure, Unbooked
<1>2. \A x \in Orders : OrderOK(x)'
  BY <1>1
<1>3. Typed /\ Typed'
  BY DEF Inv
<1>4. ASSUME NEW x \in Orders
      PROVE  /\ Working(x) \in Int /\ Exposure(x) \in Int /\ Unbooked(x) \in Int
             /\ Working(x)' \in Int /\ Exposure(x)' \in Int /\ Unbooked(x)' \in Int
  <2>1. Working(x) \in Int /\ Exposure(x) \in Int /\ Unbooked(x) \in Int
    BY <1>3, Numbers
  <2>2. row'[x] \in Rows /\ ven'[x] \in VenueOrders
    BY <1>3 DEF Typed
  <2>3. Working(x)' \in Int /\ Exposure(x)' \in Int /\ Unbooked(x)' \in Int
    BY <2>2, ProtectionAssumption DEF Working, Exposure, Unbooked, Rows, VenueOrders, Units
  <2> QED
    BY <2>1, <2>3
<1>5. PICK s, t, p, q, units, spare \in Int :
         s = sold /\ t = sold' /\ p = pos.qty /\ q = pos'.qty /\ units = Qty /\ spare = Spare
  BY <1>3, ProtectionAssumption DEF Typed, Positions, Units
<1>6. "past" \in Orders /\ o \in Orders
  BY DEF Orders
<1>7. Covers'
  <2>1. PICK a, b, c, d \in Int : /\ a = Working(o) /\ b = Working("past")
                                  /\ c = Working(o)' /\ d = Working("past")'
    BY <1>4, <1>6
  <2>2. PICK x, y \in Int : x = Resting /\ y = Resting'
    BY <1>4 DEF Resting, Orders
  <2>3. y - c - d = x - a - b
    BY <1>1, <1>4, <2>1, <2>2 DEF Resting, Orders
  <2>4. s + x <= units + spare
    BY <1>5, <2>2 DEF Inv, Covers
  <2>5. t + c + d <= s + a + b
    BY <1>5, <2>1
  <2>6. t + y <= units + spare
    BY <2>3, <2>4, <2>5
  <2> QED
    BY <1>5, <2>2, <2>6 DEF Covers
<1>8. Balanced'
  <2>1. PICK a, b, c, d \in Int : /\ a = Unbooked(o) /\ b = Unbooked("past")
                                  /\ c = Unbooked(o)' /\ d = Unbooked("past")'
    BY <1>4, <1>6
  <2>2. PICK x, y \in Int : x = AllUnbooked /\ y = AllUnbooked'
    BY <1>4 DEF AllUnbooked, Orders
  <2>3. y - c - d = x - a - b
    BY <1>1, <1>4, <2>1, <2>2 DEF AllUnbooked, Orders
  <2>4. x <= s /\ (~pos.over => p + s = units + x)
    BY <1>5, <2>2 DEF Inv, Balanced
  <2>5. c + d - t <= a + b - s
    BY <1>5, <2>1
  <2>6. ~pos'.over => ~pos.over /\ q + t - c - d = p + s - a - b
    BY <1>5, <2>1
  <2>7. y <= t
    BY <2>3, <2>4, <2>5
  <2>8. ASSUME ~pos'.over PROVE q + t = units + y
    <3>1. p + s = units + x /\ q + t - c - d = p + s - a - b
      BY <2>4, <2>6, <2>8
    <3> QED
      BY <2>3, <3>1
  <2> QED
    BY <1>5, <2>2, <2>7, <2>8 DEF Balanced
<1>9. ASSUME ~blind' PROVE Exposed'
  <2>1. PICK a, b, c, d \in Int : /\ a = Exposure(o) /\ b = Exposure("past")
                                  /\ c = Exposure(o)' /\ d = Exposure("past")'
    BY <1>4, <1>6
  <2>2. PICK x, y \in Int : x = AllExposure /\ y = AllExposure'
    BY <1>4 DEF AllExposure, Orders
  <2>3. y - c - d = x - a - b
    BY <1>1, <1>4, <2>1, <2>2 DEF AllExposure, Orders
  <2>4. x <= p
    BY <1>5, <1>9, <2>2 DEF Inv, Exposed
  <2>5. ~pos'.over /\ c + d - q <= a + b - p
    BY <1>5, <1>9, <2>1
  <2>6. y <= q
    BY <2>3, <2>4, <2>5
  <2> QED
    BY <1>5, <2>2, <2>5, <2>6 DEF Exposed
<1>14. ASSUME o # "exit" PROVE ExitSized'
  <2>1. row'["exit"] = row["exit"] /\ row["exit"] \in Rows
    BY <1>14 DEF Inv, Typed, Orders
  <2> QED
    BY <1>5, <2>1, ProtectionAssumption DEF Inv, ExitSized, Rows, Units
<1> QED
  BY <1>2, <1>7, <1>8, <1>9, <1>14 DEF Inv

LEMMA OneOrder ==
    ASSUME Inv, NEW o \in Orders, Typed', WorkerOK',
           \A x \in Orders \ {o} : row'[x] = row[x] /\ ven'[x] = ven[x],
           OrderOK(o)', pos'.qty <= pos.qty, o = "exit" => ExitSized',
           sold' + Working(o)' <= sold + Working(o),
           Unbooked(o)' - sold' <= Unbooked(o) - sold,
           ~pos'.over => /\ ~pos.over
                         /\ pos'.qty + sold' - Unbooked(o)' = pos.qty + sold - Unbooked(o),
           pos'.over => pos'.qty = 0,
           blind' = blind,
           ~blind => /\ ~pos'.over
                     /\ Exposure(o)' - pos'.qty <= Exposure(o) - pos.qty
    PROVE  Inv'
<1>1. PICK other \in Orders : other # o /\ other # "exit" /\ (o # "past" => other = "past")
                              /\ (o = "past" => other = "child")
  BY DEF Orders
<1>2. /\ row'[other] = row[other] /\ ven'[other] = ven[other]
      /\ OrderOK(other)' /\ Working(other)' = Working(other)
      /\ Exposure(other)' = Exposure(other) /\ Unbooked(other)' = Unbooked(other)
  BY <1>1 DEF Inv, OrderOK, Working, Exposure, Unbooked
<1>3. Typed /\ Typed'
  BY DEF Inv
<1>4. /\ Working(other) \in Int /\ Exposure(other) \in Int /\ Unbooked(other) \in Int
      /\ Working(o) \in Int /\ Exposure(o) \in Int /\ Unbooked(o) \in Int
  BY <1>3, Numbers
<1>5. row'[o] \in Rows /\ ven'[o] \in VenueOrders
  BY <1>3 DEF Typed
<1>6. Working(o)' \in Int /\ Exposure(o)' \in Int /\ Unbooked(o)' \in Int
  BY <1>5, ProtectionAssumption DEF Working, Exposure, Unbooked, Rows, VenueOrders, Units
<1>7. pos.qty \in Int /\ pos'.qty \in Int /\ sold \in Int /\ sold' \in Int
  BY <1>3, ProtectionAssumption DEF Typed, Positions, Units
<1>8. sold' + Working(o)' + Working(other)' <= sold + Working(o) + Working(other)
  BY <1>2, <1>4, <1>6, <1>7
<1>9. Unbooked(o)' + Unbooked(other)' - sold' <= Unbooked(o) + Unbooked(other) - sold
  BY <1>2, <1>4, <1>6, <1>7
<1>10. ~pos'.over => pos'.qty + sold' - Unbooked(o)' - Unbooked(other)' =
                        pos.qty + sold - Unbooked(o) - Unbooked(other)
  BY <1>2, <1>4, <1>6, <1>7
<1>11. ~blind => Exposure(o)' + Exposure(other)' - pos'.qty <=
                    Exposure(o) + Exposure(other) - pos.qty
  BY <1>2, <1>4, <1>6, <1>7
<1>12. CASE o # "past"
  <2>1. other = "past" /\ o \in Orders \ {"past"}
    BY <1>1, <1>12
  <2> QED
    BY <1>2, <1>8, <1>9, <1>10, <1>11, <2>1, TwoOrders
<1>13. CASE o = "past"
  <2>1. other = "child" /\ "child" \in Orders \ {"past"}
    BY <1>1, <1>13 DEF Orders
  <2>5. /\ Working(o)' = Working("past")' /\ Working(other)' = Working("child")'
        /\ Exposure(o)' = Exposure("past")' /\ Exposure(other)' = Exposure("child")'
        /\ Unbooked(o)' = Unbooked("past")' /\ Unbooked(other)' = Unbooked("child")'
    BY <1>13, <2>1 DEF Working, Exposure, Unbooked
  <2>6. OrderOK("child")' /\ OrderOK("past")'
    BY <1>2, <1>13, <2>1 DEF OrderOK
  <2>2. /\ sold' + Working("child")' + Working("past")' <= sold + Working("child") + Working("past")
        /\ Unbooked("child")' + Unbooked("past")' - sold' <= Unbooked("child") + Unbooked("past") - sold
    BY <1>2, <1>4, <1>6, <1>7, <1>8, <1>9, <1>13, <2>1, <2>5
  <2>3. ~pos'.over => pos'.qty + sold' - Unbooked("child")' - Unbooked("past")' =
                        pos.qty + sold - Unbooked("child") - Unbooked("past")
    BY <1>2, <1>4, <1>6, <1>7, <1>10, <1>13, <2>1, <2>5
  <2>4. ~blind => Exposure("child")' + Exposure("past")' - pos'.qty <=
                    Exposure("child") + Exposure("past") - pos.qty
    BY <1>2, <1>4, <1>6, <1>7, <1>11, <1>13, <2>1, <2>5
  <2> QED
    BY <1>13, <2>1, <2>2, <2>3, <2>4, <2>6, TwoOrders
<1> QED
  BY <1>12, <1>13

\* One order moves, k units of it are sold, and nothing is booked.
LEMMA OrderStep ==
    ASSUME Inv, NEW o \in Orders, NEW k \in Nat, Typed', WorkerOK',
           \A x \in Orders \ {o} : row'[x] = row[x] /\ ven'[x] = ven[x],
           OrderOK(o)', o = "exit" => ExitSized', pos' = pos, blind' = blind, sold' = sold + k,
           Working(o)' <= Working(o) - k, Unbooked(o)' = Unbooked(o) + k, Exposure(o)' <= Exposure(o)
    PROVE  Inv'
<1>1. Typed /\ Typed'
  BY DEF Inv
<1>2. PICK s, p, a, b, c \in Int : /\ s = sold /\ p = pos.qty /\ a = Working(o)
                                   /\ b = Unbooked(o) /\ c = Exposure(o)
  BY <1>1, Numbers, Totals
<1>3. PICK d, e \in Int : d = Working(o)' /\ e = Exposure(o)'
  <2>1. row'[o] \in Rows /\ ven'[o] \in VenueOrders
    BY <1>1 DEF Typed
  <2> QED
    BY <2>1, ProtectionAssumption DEF Working, Exposure, Rows, VenueOrders, Units
<1>4. d <= a - k /\ e <= c /\ sold' = s + k /\ Unbooked(o)' = b + k /\ pos'.qty = p
  BY <1>2, <1>3
<1>5. /\ (s + k) + d <= s + a /\ (b + k) - (s + k) <= b - s
      /\ p + (s + k) - (b + k) = p + s - b /\ e - p <= c - p /\ p <= p
  BY <1>4
<1>6. (pos'.over => pos'.qty = 0) /\ (~blind => ~pos'.over)
  BY DEF Inv, Balanced, Exposed
<1>7. /\ sold' + Working(o)' <= sold + Working(o)
      /\ Unbooked(o)' - sold' <= Unbooked(o) - sold
      /\ pos'.qty + sold' - Unbooked(o)' = pos.qty + sold - Unbooked(o)
      /\ Exposure(o)' - pos'.qty <= Exposure(o) - pos.qty /\ pos'.qty <= pos.qty
  BY <1>2, <1>3, <1>4, <1>5
<1> QED
  BY <1>6, <1>7, OneOrder

\* What an order works for, may take and has not booked.
LEMMA Within ==
    ASSUME Inv, NEW o \in Orders
    PROVE  /\ Unbooked(o) \in Nat /\ Exposure(o) \in Nat /\ Working(o) \in Nat
           /\ Working(o) = Exposure(o) - Unbooked(o)
<1>1. row[o] \in Rows /\ ven[o] \in VenueOrders /\ OrderOK(o)
  BY DEF Inv, Typed
<1> QED
  BY <1>1, ProtectionAssumption DEF Working, Exposure, Unbooked, OrderOK, Rows, VenueOrders, Units

LEMMA BothWithin ==
    ASSUME Inv, NEW o \in Orders \ {"past"}
    PROVE  Unbooked(o) + Unbooked("past") <= Qty + Spare
<1>1. \A x \in Orders : Unbooked(x) \in Nat
  BY Within
<1>2. Unbooked(o) + Unbooked("past") <= AllUnbooked
  BY <1>1 DEF AllUnbooked, Orders
<1>3. AllUnbooked <= sold /\ sold \in Units /\ AllUnbooked \in Int
  BY Totals DEF Inv, Balanced, Typed
<1>4. Unbooked(o) \in Nat /\ Unbooked("past") \in Nat
  BY <1>1 DEF Orders
<1> QED
  BY <1>2, <1>3, <1>4, ProtectionAssumption DEF Units

\* What a row claims of its order after a read.
Claims(o, r) ==
    /\ row[o].applied <= r.applied /\ r.applied <= ven[o].listed
    /\ r.applied <= r.filled /\ r.filled <= ven[o].done

\* An order joins the canceled ones with what is not booked of it.
LEMMA Joined ==
    ASSUME Inv, NEW o \in Orders, NEW r \in Rows, Claims(o, r)
    PROVE  /\ PastRow(o, r) \in Rows /\ PastRow(o, r).status \in {"canceled", "unknown"}
           /\ PastRow(o, r).known /\ PastRow(o, r).pending = FALSE /\ PastRow(o, r).applied = 0
           /\ PastRow(o, r).filled = (IF o = "past" THEN 0 ELSE row["past"].filled) + r.filled - r.applied
           /\ PastOrder(o, r) \in VenueOrders /\ PastOrder(o, r).state = "canceled"
           /\ PastOrder(o, r).done =
                (IF o = "past" THEN 0 ELSE ven["past"].done) + ven[o].done - r.applied
           /\ PastRow(o, r).filled <= PastOrder(o, r).done
           /\ 0 <= PastOrder(o, r).listed /\ PastOrder(o, r).listed <= PastOrder(o, r).shown
           /\ PastOrder(o, r).shown <= PastOrder(o, r).done
<1>1. PICK e : e = IF o = "past" THEN NoRow ELSE row["past"]
  OBVIOUS
<1>2. PICK v : v = IF o = "past" THEN NoOrder ELSE ven["past"]
  OBVIOUS
<1>3. row["past"] \in Rows /\ ven["past"] \in VenueOrders /\ OrderOK("past")
      /\ row[o] \in Rows /\ ven[o] \in VenueOrders /\ OrderOK(o)
  BY DEF Inv, Typed, Orders
<1>4. /\ e \in Rows /\ v \in VenueOrders /\ e.filled <= v.done
      /\ v.listed <= v.shown /\ v.shown <= v.done
  BY <1>1, <1>2, <1>3, Blank DEF OrderOK, NoRow, NoOrder
<1>5. /\ e.filled = IF o = "past" THEN 0 ELSE row["past"].filled
      /\ v.done = IF o = "past" THEN 0 ELSE ven["past"].done
  BY <1>1, <1>2 DEF NoRow, NoOrder
<1>6. v.done + ven[o].done - r.applied <= Qty + Spare
  <2>1. CASE o = "past"
    BY <1>3, <1>5, <2>1, ProtectionAssumption DEF Rows, VenueOrders, Units
  <2>2. CASE o # "past"
    <3>1. Unbooked(o) + Unbooked("past") <= Qty + Spare
      BY <2>2, BothWithin
    <3>2. row["past"].applied = 0
      BY <1>3 DEF OrderOK
    <3>3. ven["past"].done + ven[o].done - row[o].applied <= Qty + Spare
      BY <1>3, <3>1, <3>2, ProtectionAssumption DEF Unbooked, Rows, VenueOrders, Units
    <3> QED
      BY <1>3, <1>5, <2>2, <3>3, ProtectionAssumption DEF Claims, Rows, VenueOrders, Units
  <2> QED
    BY <2>1, <2>2
<1>7. PICK filled \in Units : filled = e.filled + r.filled - r.applied
  BY <1>3, <1>4, <1>6, ProtectionAssumption DEF Claims, Rows, VenueOrders, Units
<1>8. PICK done \in Units : done = v.done + ven[o].done - r.applied
  BY <1>3, <1>4, <1>6, ProtectionAssumption DEF Claims, Rows, VenueOrders, Units, OrderOK
<1>9. PICK shown \in Units : shown = v.shown + ven[o].shown - r.applied
  BY <1>3, <1>4, <1>6, ProtectionAssumption DEF Claims, Rows, VenueOrders, Units, OrderOK
<1>10. PICK listed \in Units : listed = v.listed + ven[o].listed - r.applied
  BY <1>3, <1>4, <1>6, ProtectionAssumption DEF Claims, Rows, VenueOrders, Units, OrderOK
<1>11. filled <= done /\ listed <= shown /\ shown <= done /\ 0 <= listed
  BY <1>3, <1>4, <1>7, <1>8, <1>9, <1>10, ProtectionAssumption
  DEF Claims, Rows, VenueOrders, Units, OrderOK
<1>12. PICK status \in {"canceled", "unknown"} :
         status = IF "unknown" \in {e.status, r.status} THEN "unknown" ELSE "canceled"
  OBVIOUS
<1>13. PastRow(o, r) = [NoRow EXCEPT !.status = status, !.known = TRUE, !.filled = filled]
  BY <1>1, <1>7, <1>12 DEF PastRow
<1>14. PastOrder(o, r) = [NoOrder EXCEPT !.state = "canceled", !.done = done, !.shown = shown,
                                         !.listed = listed]
  BY <1>2, <1>8, <1>9, <1>10 DEF PastOrder
<1>15. /\ PastRow(o, r) \in Rows /\ PastRow(o, r).status = status /\ PastRow(o, r).known
       /\ PastRow(o, r).pending = FALSE /\ PastRow(o, r).applied = 0 /\ PastRow(o, r).filled = filled
  <2>1. NoRow \in Rows /\ NoRow.pending = FALSE /\ NoRow.applied = 0
    BY Blank DEF NoRow
  <2>2. status \in Statuses
    BY DEF Statuses, Active
  <2> QED
    BY <1>13, <2>1, <2>2 DEF Rows
<1>16. /\ PastOrder(o, r) \in VenueOrders /\ PastOrder(o, r).state = "canceled"
       /\ PastOrder(o, r).done = done /\ PastOrder(o, r).shown = shown
       /\ PastOrder(o, r).listed = listed
  BY <1>14, Blank DEF VenueOrders
<1> QED
  BY <1>5, <1>7, <1>8, <1>11, <1>15, <1>16

LEMMA JoinedOK ==
    ASSUME Inv, NEW o \in Orders, NEW r \in Rows, Claims(o, r),
           row'["past"] = PastRow(o, r), ven'["past"] = PastOrder(o, r)
    PROVE  OrderOK("past")' /\ Over("past")'
<1>1. /\ row'["past"].status \in {"canceled", "unknown"}
      /\ row'["past"].known /\ row'["past"].pending = FALSE /\ row'["past"].applied = 0
      /\ row'["past"].filled \in Units
      /\ ven'["past"].state = "canceled" /\ row'["past"].filled <= ven'["past"].done
      /\ 0 <= ven'["past"].listed /\ ven'["past"].listed <= ven'["past"].shown
      /\ ven'["past"].shown <= ven'["past"].done
  <2>1. PICK p \in Rows : p = PastRow(o, r)
    BY Joined
  <2>2. PICK v \in VenueOrders : v = PastOrder(o, r)
    BY Joined
  <2>3. /\ p.status \in {"canceled", "unknown"} /\ p.known /\ p.pending = FALSE /\ p.applied = 0
        /\ v.state = "canceled" /\ p.filled <= v.done /\ 0 <= v.listed /\ v.listed <= v.shown
        /\ v.shown <= v.done
    BY <2>1, <2>2, Joined
  <2>4. p.filled \in Units
    BY DEF Rows
  <2> QED
    BY <2>1, <2>2, <2>3, <2>4
<1>2. 0 <= row'["past"].filled
  BY <1>1, ProtectionAssumption DEF Units
<1> QED
  BY <1>1, <1>2 DEF OrderOK, Over, Submits

LEMMA KeptRow ==
    ASSUME Inv, NEW o \in Orders, NEW r \in Rows, Claims(o, r), Kept(o, r)
    PROVE  /\ row' \in [Orders -> Rows] /\ ven' \in [Orders -> VenueOrders]
           /\ \A x \in Orders \ {o, "past"} : row'[x] = row[x] /\ ven'[x] = ven[x]
           /\ \/ /\ row'[o] = NoRow /\ ven'[o] = NoOrder /\ Booked(r)
                 /\ r.status = "filled" \/ (o = "past" /\ ven[o].listed = ven[o].done)
                 /\ o # "past" => row'["past"] = row["past"] /\ ven'["past"] = ven["past"]
              \/ /\ r.status = "canceled"
                 /\ o # "past" => row'[o] = NoRow /\ ven'[o] = NoOrder
                 /\ row'["past"] = PastRow(o, r) /\ ven'["past"] = PastOrder(o, r)
              \/ /\ r.status = "open" \/ (r.status = "filled" /\ ~Booked(r))
                 /\ row'[o] = r /\ ven'[o] = ven[o]
                 /\ o # "past" => row'["past"] = row["past"] /\ ven'["past"] = ven["past"]
<1>1. row \in [Orders -> Rows] /\ ven \in [Orders -> VenueOrders] /\ "past" \in Orders
  BY DEF Inv, Typed, Orders
<1>2. CASE /\ r.status = "filled" \/ (o = "past" /\ ven[o].listed = ven[o].done)
           /\ Booked(r) /\ Forgets(o)
  <2>1. row' = [row EXCEPT ![o] = NoRow] /\ ven' = [ven EXCEPT ![o] = NoOrder]
    BY <1>2 DEF Forgets
  <2> QED
    BY <1>1, <1>2, <2>1, Blank
<1>3. CASE /\ r.status = "canceled"
           /\ row' = [row EXCEPT ![o] = NoRow, !["past"] = PastRow(o, r)]
           /\ ven' = [ven EXCEPT ![o] = NoOrder, !["past"] = PastOrder(o, r)]
  <2>1. PastRow(o, r) \in Rows /\ PastOrder(o, r) \in VenueOrders
    BY Joined
  <2> QED
    BY <1>1, <1>3, <2>1, Blank
<1>4. CASE /\ r.status = "open" \/ (r.status = "filled" /\ ~Booked(r))
           /\ row' = [row EXCEPT ![o] = r] /\ ven' = ven
  BY <1>1, <1>4
<1> QED
  BY <1>2, <1>3, <1>4 DEF Kept

LEMMA Booking ==
    ASSUME Typed, NEW n \in Nat, Books(n)
    PROVE  /\ pos' \in Positions
           /\ pos'.qty = IF n < pos.qty THEN pos.qty - n ELSE 0
           /\ pos'.over <=> pos.over \/ n > pos.qty
<1>1. pos \in Positions /\ pos.qty \in 0..Qty /\ pos.qty \in Int
  BY DEF Typed, Positions
<1>2. CASE n < pos.qty
  <2>1. pos' = [pos EXCEPT !.qty = @ - n]
    BY <1>2 DEF Books
  <2>2. pos.qty - n \in 0..Qty /\ ~(n > pos.qty)
    BY <1>1, <1>2, ProtectionAssumption
  <2> QED
    BY <1>1, <1>2, <2>1, <2>2 DEF Positions
<1>3. CASE ~(n < pos.qty)
  <2>1. PICK over \in BOOLEAN : over = (pos.over \/ n > pos.qty)
    OBVIOUS
  <2>2. pos' = [NoPosition EXCEPT !.over = over]
    BY <1>3, <2>1 DEF Books
  <2>3. NoPosition \in Positions /\ NoPosition.qty = 0
    BY Blank DEF NoPosition
  <2>4. pos' \in Positions /\ pos'.qty = 0 /\ pos'.over = over
    BY <2>2, <2>3 DEF Positions
  <2> QED
    BY <1>3, <2>1, <2>4
<1> QED
  BY <1>2, <1>3

LEMMA Runs ==
    ASSUME Typed
    PROVE  /\ \A n : NewRuns(n) => rej' \in [Submits -> 0..MaxIdentical] /\ backoff' \subseteq Submits
           /\ \A o \in Submits : NewRun(o) => /\ rej' \in [Submits -> 0..MaxIdentical]
                                              /\ backoff' \subseteq Submits
<1>1. ASSUME NEW n, NewRuns(n)
      PROVE  rej' \in [Submits -> 0..MaxIdentical] /\ backoff' \subseteq Submits
  BY <1>1, Blank DEF NewRuns, Typed
<1>2. ASSUME NEW o \in Submits, NewRun(o)
      PROVE  rej' \in [Submits -> 0..MaxIdentical] /\ backoff' \subseteq Submits
  BY <1>2, ProtectionAssumption DEF NewRun, Typed
<1> QED
  BY <1>1, <1>2

\* Booking what the venue lists keeps the position and the orders in balance.
LEMMA BookStep ==
    ASSUME Inv, NEW o \in Orders, NEW r \in Rows, Kept(o, r), ven[o].state # "none",
           r.status = ven[o].state, r.applied = ven[o].listed,
           ven[o].shown <= r.filled, r.filled <= ven[o].done,
           r.known, o \in Submits => r.qty = row[o].qty /\ row[o].status # "none",
           Books(ven[o].listed - row[o].applied),
           dep' \in Deps, wk' \in Passes, used' \in Uses, backoff' \subseteq Submits,
           rej' \in [Submits -> 0..MaxIdentical], sold' = sold, blind' = blind, WorkerOK'
    PROVE  Inv'
<1>1. row[o] \in Rows /\ ven[o] \in VenueOrders /\ OrderOK(o) /\ Typed
  BY DEF Inv, Typed
<1>2. PICK n \in Nat : n = ven[o].listed - row[o].applied
  BY <1>1, ProtectionAssumption DEF Rows, VenueOrders, OrderOK, Units
<1>3. Claims(o, r)
  BY <1>1, ProtectionAssumption DEF Claims, Rows, VenueOrders, OrderOK, Units
<1>4. /\ row' \in [Orders -> Rows] /\ ven' \in [Orders -> VenueOrders]
      /\ \A x \in Orders \ {o, "past"} : row'[x] = row[x] /\ ven'[x] = ven[x]
  BY <1>3, KeptRow
<1>5. PICK s, p, q \in Int : s = sold /\ p = pos.qty /\ q = pos'.qty
  BY <1>1, <1>2, Booking, ProtectionAssumption DEF Typed, Positions, Units
<1>6. pos' \in Positions /\ Typed'
  BY <1>1, <1>2, <1>4, Booking DEF Typed
<1>7. /\ q = (IF n < p THEN p - n ELSE 0) /\ (pos'.over <=> pos.over \/ n > p) /\ p >= 0
  BY <1>1, <1>2, <1>5, Booking DEF Typed, Positions
<1>8. ASSUME ~blind PROVE n <= p /\ ~pos.over
  <2>1. PICK e, all \in Int : e = Exposure(o) /\ all = AllExposure
    BY <1>1, Numbers, Totals
  <2>2. n <= e
    BY <1>1, <1>2, <2>1, ProtectionAssumption DEF Rows, VenueOrders, OrderOK, Exposure, Units
  <2>3. e <= all
    BY <2>1, Within DEF AllExposure, Orders
  <2>4. all <= p /\ ~pos.over
    BY <1>5, <1>8, <2>1 DEF Inv, Exposed
  <2> QED
    BY <2>2, <2>3, <2>4
<1>9. pos.over => p = 0
  BY <1>5 DEF Inv, Balanced
<1>10. /\ q <= p /\ (~pos'.over => ~pos.over /\ q = p - n) /\ (pos'.over => q = 0)
       /\ (~blind => ~pos'.over)
  BY <1>7, <1>8, <1>9
<1>11. ASSUME \A x \in Orders \ {o} : row'[x] = row[x] /\ ven'[x] = ven[x],
              OrderOK(o)', Working(o)' <= Working(o),
              Unbooked(o)' = Unbooked(o) - n, Exposure(o)' = Exposure(o) - n,
              o = "exit" => ExitSized'
       PROVE  Inv'
  <2>1. PICK a, b, c \in Int : a = Working(o) /\ b = Unbooked(o) /\ c = Exposure(o)
    BY <1>1, Numbers
  <2>2. PICK d \in Int : d = Working(o)'
    <3>1. row'[o] \in Rows /\ ven'[o] \in VenueOrders
      BY <1>4
    <3> QED
      BY <3>1, ProtectionAssumption DEF Working, VenueOrders, Units
  <2>3. d <= a /\ Unbooked(o)' = b - n /\ Exposure(o)' = c - n
    BY <1>11, <2>1, <2>2
  <2>4. s + d <= s + a /\ (b - n) - s <= b - s
    BY <2>3
  <2>5. ~pos'.over => ~pos.over /\ q + s - (b - n) = p + s - b
    BY <1>10
  <2>6. ~blind => ~pos'.over /\ (c - n) - q <= c - p
    BY <1>10
  <2>7. /\ sold' + Working(o)' <= sold + Working(o)
        /\ Unbooked(o)' - sold' <= Unbooked(o) - sold
        /\ ~pos'.over => /\ ~pos.over
                         /\ pos'.qty + sold' - Unbooked(o)' = pos.qty + sold - Unbooked(o)
        /\ ~blind => ~pos'.over /\ Exposure(o)' - pos'.qty <= Exposure(o) - pos.qty
    BY <1>5, <2>1, <2>2, <2>3, <2>4, <2>5, <2>6
  <2>8. pos'.qty <= pos.qty /\ (pos'.over => pos'.qty = 0)
    BY <1>5, <1>10
  <2> QED
    BY <1>6, <1>11, <2>7, <2>8, OneOrder
<1>12. CASE /\ row'[o] = NoRow /\ ven'[o] = NoOrder /\ Booked(r)
            /\ r.status = "filled" \/ (o = "past" /\ ven[o].listed = ven[o].done)
            /\ o # "past" => row'["past"] = row["past"] /\ ven'["past"] = ven["past"]
  <2>1. ven[o].listed = ven[o].done /\ ven[o].state # "open"
    BY <1>1, <1>12, ProtectionAssumption DEF Booked, OrderOK, VenueOrders, Rows, Units
  <2>2. /\ NoRow.applied = 0 /\ NoRow.filled = 0 /\ NoRow.status = "none" /\ NoRow.known = FALSE
        /\ NoRow.pending = FALSE /\ NoOrder.state = "none" /\ NoOrder.done = 0 /\ NoOrder.shown = 0
        /\ NoOrder.listed = 0 /\ NoOrder.qty = 0
    BY DEF NoRow, NoOrder
  <2>3. OrderOK(o)'
    BY <1>12, <2>2 DEF OrderOK
  <2>4. Working(o)' <= Working(o) /\ Unbooked(o)' = Unbooked(o) - n /\ Exposure(o)' = Exposure(o) - n
    <3>1. Working(o)' = 0 /\ Unbooked(o)' = 0 /\ Exposure(o)' = 0
      BY <1>12, <2>2 DEF Working, Unbooked, Exposure
    <3>2. Working(o) = 0 /\ Unbooked(o) = n /\ Exposure(o) = n
      BY <1>1, <1>2, <2>1, ProtectionAssumption DEF Working, Unbooked, Exposure, VenueOrders, Rows, Units
    <3> QED
      BY <3>1, <3>2
  <2>5. o = "exit" => ExitSized'
    BY <1>12, <2>2 DEF ExitSized
  <2>6. \A x \in Orders \ {o} : row'[x] = row[x] /\ ven'[x] = ven[x]
    BY <1>4, <1>12
  <2> QED
    BY <1>11, <2>3, <2>4, <2>5, <2>6
<1>13. CASE /\ r.status = "open" \/ (r.status = "filled" /\ ~Booked(r))
            /\ row'[o] = r /\ ven'[o] = ven[o]
            /\ o # "past" => row'["past"] = row["past"] /\ ven'["past"] = ven["past"]
  <2>1. o # "past"
    BY <1>1, <1>13 DEF OrderOK
  <2>2. OrderOK(o)'
    <3>1. /\ ven[o].state \in {"open", "filled"} /\ r.filled = ven[o].done /\ ven[o].done <= r.filled
          /\ r.applied <= r.filled /\ r.applied <= ven[o].listed
      BY <1>1, <1>13, ProtectionAssumption DEF OrderOK, VenueOrders, Rows, Units
    <3> QED
      BY <1>1, <1>13, <2>1, <3>1 DEF OrderOK
  <2>3. Working(o)' <= Working(o) /\ Unbooked(o)' = Unbooked(o) - n /\ Exposure(o)' = Exposure(o) - n
    BY <1>1, <1>2, <1>13, ProtectionAssumption
    DEF Rows, VenueOrders, OrderOK, Working, Unbooked, Exposure, Units
  <2>4. ASSUME o = "exit" PROVE ExitSized'
    <3>1. row'["exit"] = r /\ r.qty = row["exit"].qty /\ r.applied = ven["exit"].listed
      BY <1>13, <2>4 DEF Submits
    <3>2. PICK size, applied, listed \in Int :
             size = row["exit"].qty /\ applied = row["exit"].applied /\ listed = ven["exit"].listed
      BY <1>1, <2>4, ProtectionAssumption DEF Rows, VenueOrders, Units
    <3>3. p <= size - applied
      BY <1>5, <2>4, <3>2 DEF Inv, ExitSized, Submits
    <3>4. listed <= size /\ n = listed - applied
      BY <1>1, <1>2, <2>4, <3>2, ProtectionAssumption DEF OrderOK, Rows, VenueOrders, Units, Submits
    <3>5. q <= size - listed
      BY <1>7, <3>3, <3>4
    <3> QED
      BY <1>5, <3>1, <3>2, <3>5 DEF ExitSized
  <2>5. \A x \in Orders \ {o} : row'[x] = row[x] /\ ven'[x] = ven[x]
    BY <1>4, <1>13
  <2> QED
    BY <1>11, <2>2, <2>3, <2>4, <2>5
<1>14. CASE /\ r.status = "canceled" /\ o = "past"
            /\ row'["past"] = PastRow(o, r) /\ ven'["past"] = PastOrder(o, r)
  <2>1. OrderOK(o)'
    <3>1. OrderOK("past")'
      BY <1>3, <1>14, JoinedOK
    <3> QED
      BY <1>14, <3>1 DEF OrderOK
  <2>2. /\ row'[o].applied = 0 /\ ven'[o].state = "canceled"
        /\ ven'[o].done = 0 + ven[o].done - r.applied
    <3>1. PICK e, v : e = PastRow(o, r) /\ v = PastOrder(o, r)
      OBVIOUS
    <3>2. e.applied = 0 /\ v.state = "canceled" /\ v.done = 0 + ven[o].done - r.applied
      <4>1. /\ PastRow(o, r).applied = 0 /\ PastOrder(o, r).state = "canceled"
            /\ PastOrder(o, r).done =
                 (IF o = "past" THEN 0 ELSE ven["past"].done) + ven[o].done - r.applied
        BY <1>3, Joined
      <4> QED
        BY <1>14, <3>1, <4>1
    <3>3. row'[o] = e /\ ven'[o] = v
      BY <1>14, <3>1
    <3> QED
      BY <3>2, <3>3
  <2>3. row[o].applied = 0 /\ ven[o].state # "open"
    BY <1>1, <1>14 DEF OrderOK
  <2>4. Working(o)' <= Working(o) /\ Unbooked(o)' = Unbooked(o) - n /\ Exposure(o)' = Exposure(o) - n
    BY <1>1, <1>2, <2>2, <2>3, ProtectionAssumption
    DEF Rows, VenueOrders, OrderOK, Working, Unbooked, Exposure, Units
  <2>5. o = "exit" => ExitSized'
    BY <1>14
  <2>6. \A x \in Orders \ {o} : row'[x] = row[x] /\ ven'[x] = ven[x]
    BY <1>4, <1>14
  <2> QED
    BY <1>11, <2>1, <2>4, <2>5, <2>6
<1>15. CASE /\ r.status = "canceled" /\ o # "past" /\ row'[o] = NoRow /\ ven'[o] = NoOrder
            /\ row'["past"] = PastRow(o, r) /\ ven'["past"] = PastOrder(o, r)
  <2>1. /\ NoRow.applied = 0 /\ NoRow.filled = 0 /\ NoRow.status = "none" /\ NoRow.known = FALSE
        /\ NoRow.pending = FALSE /\ NoOrder.state = "none" /\ NoOrder.done = 0 /\ NoOrder.shown = 0
        /\ NoOrder.listed = 0 /\ NoOrder.qty = 0
    BY DEF NoRow, NoOrder
  <2>2. OrderOK(o)' /\ OrderOK("past")'
    BY <1>3, <1>15, <2>1, JoinedOK DEF OrderOK
  <2>3. /\ row'["past"].applied = 0 /\ ven'["past"].state = "canceled"
        /\ ven'["past"].done = ven["past"].done + ven[o].done - r.applied
    <3>1. PICK e, v : e = PastRow(o, r) /\ v = PastOrder(o, r)
      OBVIOUS
    <3>2. /\ e.applied = 0 /\ v.state = "canceled"
          /\ v.done = ven["past"].done + ven[o].done - r.applied
      <4>1. /\ PastRow(o, r).applied = 0 /\ PastOrder(o, r).state = "canceled"
            /\ PastOrder(o, r).done =
                 (IF o = "past" THEN 0 ELSE ven["past"].done) + ven[o].done - r.applied
        BY <1>3, Joined
      <4> QED
        BY <1>15, <3>1, <4>1
    <3>3. row'["past"] = e /\ ven'["past"] = v
      BY <1>15, <3>1
    <3> QED
      BY <3>2, <3>3
  <2>4. /\ row["past"].applied = 0 /\ ven["past"].state # "open" /\ ven[o].state # "open"
        /\ row["past"] \in Rows /\ ven["past"] \in VenueOrders
    BY <1>1, <1>15 DEF OrderOK, Inv, Typed, Orders
  <2>5. PICK a, b \in Int : a = Unbooked(o) /\ b = Unbooked("past")
    BY <1>1, Numbers DEF Orders
  <2>6. /\ Working(o)' = 0 /\ Unbooked(o)' = 0 /\ Exposure(o)' = 0 /\ Working("past")' = 0
        /\ Unbooked("past")' = Exposure("past")'
        /\ Working(o) = 0 /\ Working("past") = 0 /\ Exposure(o) = a /\ Exposure("past") = b
    BY <1>1, <1>15, <2>1, <2>3, <2>4, <2>5, ProtectionAssumption
    DEF Rows, VenueOrders, Working, Unbooked, Exposure, Units
  <2>7. Unbooked("past")' = a + b - n
    BY <1>1, <1>2, <2>3, <2>4, <2>5, ProtectionAssumption DEF Rows, VenueOrders, Unbooked, Units
  <2>8. /\ 0 + (a + b - n) - s <= a + b - s
        /\ (~pos'.over => ~pos.over /\ q + s - 0 - (a + b - n) = p + s - a - b)
        /\ (~blind => ~pos'.over /\ 0 + (a + b - n) - q <= a + b - p)
    BY <1>10
  <2>9. /\ sold' + Working(o)' + Working("past")' <= sold + Working(o) + Working("past")
        /\ Unbooked(o)' + Unbooked("past")' - sold' <= Unbooked(o) + Unbooked("past") - sold
        /\ ~pos'.over => /\ ~pos.over
                         /\ pos'.qty + sold' - Unbooked(o)' - Unbooked("past")' =
                               pos.qty + sold - Unbooked(o) - Unbooked("past")
        /\ ~blind => /\ ~pos'.over
                     /\ Exposure(o)' + Exposure("past")' - pos'.qty <=
                           Exposure(o) + Exposure("past") - pos.qty
    BY <1>5, <2>5, <2>6, <2>7, <2>8
  <2>10. pos'.qty <= pos.qty /\ (pos'.over => pos'.qty = 0) /\ (o = "exit" => ExitSized')
    BY <1>5, <1>10, <1>15, <2>1 DEF ExitSized
  <2> QED
    BY <1>4, <1>6, <1>15, <2>2, <2>9, <2>10, TwoOrders
<1> QED
  BY <1>3, <1>12, <1>13, <1>14, <1>15, KeptRow

\* What the venue reports of an order.
LEMMA ReadRow ==
    ASSUME Inv, NEW o \in Orders, ven[o].state # "none"
    PROVE  /\ Read(o) \in Rows /\ Read(o).status = ven[o].state /\ Read(o).known
           /\ ven[o].shown <= Read(o).filled /\ Read(o).filled <= ven[o].done
           /\ row[o].filled <= Read(o).filled
           /\ Read(o).applied = ven[o].listed
           /\ Read(o).qty = row[o].qty
<1>1. row[o] \in Rows /\ ven[o] \in VenueOrders /\ OrderOK(o)
  BY DEF Inv, Typed
<1>2. PICK f \in Units : /\ f = Max({row[o].filled, ven[o].shown})
                         /\ ven[o].shown <= f /\ f <= ven[o].done /\ row[o].filled <= f
  <2>1. PICK a, b \in Int : a = row[o].filled /\ b = ven[o].shown
    BY <1>1, ProtectionAssumption DEF Rows, VenueOrders, Units
  <2>2. Max({a, b}) \in {a, b} /\ a <= Max({a, b}) /\ b <= Max({a, b})
    BY MaxIsOne
  <2>3. a <= ven[o].done /\ b <= ven[o].done /\ a \in Units /\ b \in Units
    BY <1>1, <2>1 DEF OrderOK, Rows, VenueOrders
  <2> QED
    BY <2>1, <2>2, <2>3
<1>3. (row[o].pending /\ ven[o].state = "open") \in BOOLEAN
  OBVIOUS
<1>4. ven[o].state \in Statuses
  BY <1>1 DEF VenueOrders, Statuses, Active
<1> QED
  BY <1>1, <1>2, <1>3, <1>4 DEF Read, Rows, VenueOrders

-----------------------------------------------------------------------------
(***************************************************************************)
(* The steps of a pass that touch no order.                                *)
(***************************************************************************)
LEMMA SavedDep ==
    ASSUME Typed
    PROVE  /\ \A detail \in Details : Pause(detail) \in Deps /\ [dep EXCEPT !.detail = detail] \in Deps
           /\ Fault => used' \in Uses
<1>1. ASSUME NEW detail \in Details
      PROVE  Pause(detail) \in Deps /\ [dep EXCEPT !.detail = detail] \in Deps
  BY DEF Pause, Typed, Deps, BookStates
<1>2. ASSUME Fault PROVE used' \in Uses
  <2>1. used.faults + 1 \in 0..MaxFaults
    BY <1>2, ProtectionAssumption DEF Fault, Typed, Uses
  <2> QED
    BY <1>2, <2>1 DEF Fault, Typed, Uses
<1> QED
  BY <1>1, <1>2

LEMMA QuietStep ==
    ASSUME Inv, UNCHANGED <<pos, row, ven, sold, rej, backoff, blind>>,
           dep' \in Deps, used' \in Uses, wk' \in Passes, WorkerOK'
    PROVE  Inv'
<1>1. Typed'
  BY DEF Inv, Typed
<1> QED
  BY <1>1, Quiet

\* A pass goes on to a step that relies on nothing, or has ended.
LEMMA PlainStep ==
    ASSUME Inv, NEW w \in Passes, w.pc \in PlainSteps, wk' \in {Idle, w},
           UNCHANGED <<pos, row, ven, sold, rej, backoff, blind>>, dep' \in Deps, used' \in Uses
    PROVE  Inv'
<1> QED
  BY PlainPass, QuietStep

LEMMA WalkAway ==
    ASSUME Inv, NEW w \in Passes, NEW then \in Goals, NEW d \in Deps,
           wk' \in {Idle, WalkFrom(w, then, d)},
           then = "recheck" => \A o \in Orders : Over(o),
           UNCHANGED <<pos, row, ven, sold, rej, backoff, blind>>, dep' \in Deps, used' \in Uses
    PROVE  Inv'
<1>1. CASE wk' = Idle
  BY <1>1, PlainStep, Blank DEF Idle, PlainSteps
<1>2. CASE wk' = WalkFrom(w, then, d)
  BY <1>2, QuietWalk, QuietStep
<1> QED
  BY <1>1, <1>2

LEMMA Typing == Inv => /\ dep \in Deps /\ wk \in Passes /\ used \in Uses /\ pos \in Positions
                       /\ Typed /\ Closing \in Passes
<1> SUFFICES ASSUME Inv PROVE Closing \in Passes
  BY DEF Inv, Typed
<1> QED
  BY DEF Inv, Typed, Closing, Passes

\* What a turn of a walk saves is a deployment.
LEMMA KeptDep ==
    ASSUME NEW w \in Passes, NEW d \in Deps, NEW f \in Details
    PROVE  Retained(w, d, f) \in Deps
<1>1. CASE w.began.status = "running" /\ f = "none"
  BY <1>1 DEF Retained
<1>2. CASE ~(w.began.status = "running" /\ f = "none")
  <2>1. PICK status \in BookStates : status = IF w.began.status = "running" THEN "paused" ELSE w.began.status
    BY DEF Passes, BookStates
  <2>2. PICK detail \in Details : detail = IF f = "none" THEN w.began.detail ELSE f
    BY DEF Passes
  <2>3. Retained(w, d, f) = [d EXCEPT !.status = status, !.detail = detail]
    BY <1>2, <2>1, <2>2 DEF Retained
  <2> QED
    BY <2>3 DEF Deps
<1> QED
  BY <1>1, <1>2

LEMMA TurnStep ==
    ASSUME Typed, NEW w \in Passes, NEW d \in Deps, NEW faulty, Turn(w, d, faulty)
    PROVE  /\ dep' \in Deps
           /\ \/ wk' = Idle
              \/ /\ wk' \in Passes /\ wk'.pc = w.pc /\ wk'.then = w.then /\ wk'.left = w.left
<1>1. PICK f \in Details : f = FirstFault(w, d)
  BY DEF FirstFault, Passes, Deps, Details
<1>2. PICK kept \in Deps : kept = Retained(w, d, f)
  BY KeptDep
<1>3. PICK next : next = [w EXCEPT !.first = f]
  OBVIOUS
<1>4. next \in Passes /\ next.pc = w.pc /\ next.then = w.then /\ next.left = w.left
  BY <1>3 DEF Passes
<1>5. dep' \in {dep, d, kept} /\ wk' \in {Idle, next}
  BY <1>1, <1>2, <1>3 DEF Turn, Save
<1> QED
  BY <1>4, <1>5 DEF Typed

LEMMA FaultDep == Typed => PauseOnFault \in Deps /\ \A n : Overdrawn(n) \in Deps
BY SavedDep DEF PauseOnFault, Overdrawn, Typed, Details

LEMMA OpenWalkInv == Inv /\ OpenWalk => Inv'
<1> SUFFICES ASSUME Inv, OpenWalk PROVE Inv'
  OBVIOUS
<1>0. PICK w : w = To(wk, "walk")
  OBVIOUS
<1>1. /\ w = To(wk, "walk") /\ w \in Passes
      /\ w.pc = "walk" /\ w.then = wk.then /\ w.left = wk.left
  BY <1>0, Typing DEF Steps, To, Passes
<1>2. PICK d \in Deps : d = Pause("over")
  BY Typing, SavedDep DEF Details
<1>3. Turn(w, d, TRUE) /\ wk.pc = "open"
  BY <1>1, <1>2 DEF OpenWalk, At
<1>4. UNCHANGED <<pos, row, ven, sold, rej, backoff, used, blind>>
  BY DEF OpenWalk, venue
<1>5. /\ dep' \in Deps
      /\ \/ wk' = Idle
         \/ wk' \in Passes /\ wk'.pc = "walk" /\ wk'.then = wk.then /\ wk'.left = wk.left
  BY <1>1, <1>3, Typing, TurnStep
<1>6. CASE wk' = Idle
  BY <1>4, <1>5, <1>6, PlainStep, Blank, Typing DEF Idle, PlainSteps
<1>7. CASE wk' \in Passes /\ wk'.pc = "walk" /\ wk'.then = wk.then /\ wk'.left = wk.left
  <2>1. WorkerOK'
    BY <1>3, <1>4, <1>7 DEF Inv, WorkerOK, Over, Walking
  <2> QED
    BY <1>4, <1>5, <1>7, <2>1, QuietStep, Typing
<1> QED
  BY <1>5, <1>6, <1>7

LEMMA BeginInv == Inv /\ Begin => Inv'
<1> SUFFICES ASSUME Inv, Begin PROVE Inv'
  OBVIOUS
<1> DEFINE w == [Idle EXCEPT !.flatten = dep.command = "flatten"]
<1>1. (dep.command = "flatten") \in BOOLEAN
  OBVIOUS
<1>2. w \in Passes
  BY <1>1, Blank DEF Passes
<1>3. wk' = Walk(w, "decide")
  BY DEF Begin
<1> HIDE DEF w
<1> QED
  BY <1>2, <1>3, WalkAway, Typing DEF Begin, venue, Goals, Walk

LEMMA NotFoundInv == Inv /\ NotFound => Inv'
<1> SUFFICES ASSUME Inv, NotFound PROVE Inv'
  OBVIOUS
<1>0. PICK w : w = [wk EXCEPT !.left = @ \ {First(wk.left)}]
  OBVIOUS
<1>1. /\ w = [wk EXCEPT !.left = @ \ {First(wk.left)}] /\ w \in Passes
      /\ w.pc = wk.pc /\ w.then = wk.then /\ w.left \subseteq wk.left
  BY <1>0, Typing DEF Passes
<1>2. PICK d \in Deps : d = Pause("unconfirmed")
  BY Typing, SavedDep DEF Details
<1>3. Turn(w, d, TRUE) /\ wk.pc = "walk"
  BY <1>1, <1>2 DEF NotFound, At
<1>4. UNCHANGED <<pos, row, ven, sold, rej, backoff, used, blind>>
  BY DEF NotFound, venue
<1>5. /\ dep' \in Deps
      /\ \/ wk' = Idle
         \/ wk' \in Passes /\ wk'.pc = "walk" /\ wk'.then = wk.then /\ wk'.left \subseteq wk.left
  BY <1>1, <1>3, Typing, TurnStep
<1>6. CASE wk' = Idle
  BY <1>4, <1>5, <1>6, PlainStep, Blank, Typing DEF Idle, PlainSteps
<1>7. CASE wk' \in Passes /\ wk'.pc = "walk" /\ wk'.then = wk.then /\ wk'.left \subseteq wk.left
  <2>1. WorkerOK'
    BY <1>3, <1>4, <1>7 DEF Inv, WorkerOK, Over, Walking
  <2> QED
    BY <1>4, <1>5, <1>7, <2>1, QuietStep, Typing
<1> QED
  BY <1>5, <1>6, <1>7

LEMMA EndWalkInv == Inv /\ EndWalk => Inv'
<1> SUFFICES ASSUME Inv, EndWalk PROVE Inv'
  OBVIOUS
<1> DEFINE w == [wk EXCEPT !.pc = wk.then, !.then = "idle", !.began = NotBegun,
                           !.first = "none", !.flatten = dep.command = "flatten"]
<1>1. wk.then \in Goals /\ wk.pc = "walk"
  BY DEF Inv, WorkerOK, EndWalk, At, Walking
<1>2. (dep.command = "flatten") \in BOOLEAN
  OBVIOUS
<1>3. w \in Passes /\ w.pc = wk.then
  BY <1>1, <1>2, Typing DEF Passes, Goals, Steps, NotBegun, BookStates, Details
<1>4. dep' \in Deps /\ wk' \in {Idle, w}
  <2>1. PICK kept \in Deps : kept = Retained(wk, dep, wk.first)
    BY Typing, KeptDep DEF Passes
  <2>2. [dep EXCEPT !.detail = "none"] \in Deps
    BY Typing, SavedDep DEF Details
  <2> QED
    BY <2>1, <2>2, Typing DEF EndWalk, Save
<1> HIDE DEF w
<1>5. UNCHANGED <<pos, row, ven, sold, rej, backoff, used, blind>>
  BY DEF EndWalk, venue
<1>6. CASE wk.then # "recheck"
  BY <1>1, <1>3, <1>4, <1>5, <1>6, PlainStep, Typing DEF Goals, PlainSteps
<1>7. CASE wk' = Idle
  BY <1>4, <1>5, <1>7, PlainStep, Blank, Typing DEF Idle, PlainSteps
<1>8. CASE wk' = w /\ wk.then = "recheck"
  <2>1. WorkerOK'
    BY <1>1, <1>3, <1>5, <1>8 DEF Inv, WorkerOK, Over, Walking
  <2> QED
    BY <1>3, <1>4, <1>5, <1>8, <2>1, QuietStep, Typing
<1> QED
  BY <1>4, <1>6, <1>7, <1>8

LEMMA FlattenIdleInv == Inv /\ FlattenIdle => Inv'
BY Typing, DoneStep, PlainStep DEF FlattenIdle, venue, PlainSteps

LEMMA FlattenRemaindersInv == Inv /\ FlattenRemainders => Inv'
BY Typing, QuietCancels, QuietStep DEF FlattenRemainders, venue

LEMMA FlattenPositionInv == Inv /\ FlattenPosition => Inv'
BY Typing, WalkAway DEF FlattenPosition, venue, Goals, Walk

LEMMA NoPriceInv == Inv /\ NoPrice => Inv'
<1> SUFFICES ASSUME Inv, NoPrice PROVE Inv'
  OBVIOUS
<1>1. wk' \in {Idle, Walk(Closing, "note")} /\ used' \in Uses
  BY Typing, SavedDep DEF NoPrice
<1> QED
  BY <1>1, Typing, WalkAway DEF NoPrice, venue, Goals, Walk

LEMMA NoteInv == Inv /\ Note => Inv'
<1> SUFFICES ASSUME Inv, Note PROVE Inv'
  OBVIOUS
<1>1. wk' \in {Idle, Done(wk)} /\ dep' \in Deps
  BY Typing, SavedDep DEF Note, Save, Details
<1> QED
  BY <1>1, Typing, DoneStep, PlainStep DEF Note, venue, PlainSteps

LEMMA ManageInv == Inv /\ Manage => Inv'
<1> SUFFICES ASSUME Inv, Manage PROVE Inv'
  OBVIOUS
<1>1. UNCHANGED <<dep, pos, row, ven, sold, rej, backoff, used, blind>>
  BY DEF Manage, venue
<1>2. CASE wk' = Walk(wk, "adopt")
  BY <1>1, <1>2, Typing, WalkAway DEF Goals, Walk
<1>3. CASE wk' = To(wk, "ensure") \/ wk' = To(wk, "settle")
  BY <1>1, <1>3, Typing, ToStep, PlainStep DEF Steps, PlainSteps
<1> QED
  BY <1>2, <1>3 DEF Manage, Managed

LEMMA NewBarInv == Inv /\ NewBar => Inv'
<1> SUFFICES ASSUME Inv, NewBar PROVE Inv'
  OBVIOUS
<1>1. UNCHANGED <<dep, row, ven, sold, used, blind>>
  BY DEF NewBar, venue
<1>2. wk' \in Passes /\ WorkerOK'
  <2>1. CASE wk' = Idle
    BY <2>1, Blank, PlainOK DEF Idle, PlainSteps
  <2>2. CASE wk' = Walk(wk, "adopt")
    BY <1>1, <2>2, Typing, QuietWalk DEF Goals, Walk
  <2>3. CASE wk' = To(wk, "ensure")
    BY <2>3, Typing, ToStep, PlainOK DEF Steps, PlainSteps
  <2> QED
    BY <2>1, <2>2, <2>3 DEF NewBar, Managed
<1>3. /\ pos' \in Positions /\ pos'.qty = pos.qty /\ pos'.over = pos.over
      /\ rej' \in [Submits -> 0..MaxIdentical] /\ backoff' \subseteq Submits
  <2>1. CASE pos' = pos /\ rej' = rej /\ backoff' = backoff
    BY <2>1 DEF Inv, Typed
  <2>2. CASE pos' = [pos EXCEPT !.due = TRUE] /\ rej' = rej /\ backoff' = backoff
    BY <2>2 DEF Inv, Typed, Positions
  <2>3. CASE pos.stop < MaxStop /\ pos' = [pos EXCEPT !.stop = @ + 1] /\ NewRun("bracket")
    <3>1. pos.stop + 1 \in 1..MaxStop
      BY <2>3, Typing, ProtectionAssumption DEF Positions
    <3> QED
      BY <2>3, <3>1, Typing, Runs DEF Positions, Submits
  <2> QED
    BY <2>1, <2>2, <2>3 DEF NewBar
<1> QED
  <2>1. Typed'
    BY <1>1, <1>2, <1>3 DEF Inv, Typed
  <2> QED
    BY <1>1, <1>2, <1>3, <2>1, Quiet

LEMMA ChildNotSeenInv == Inv /\ ChildNotSeen => Inv'
<1> SUFFICES ASSUME Inv, ChildNotSeen PROVE Inv'
  OBVIOUS
<1>1. AfterAdopt(wk) \in Passes /\ AfterAdopt(wk).pc \in PlainSteps
  BY Typing, ToStep DEF AfterAdopt, Steps, PlainSteps
<1>2. used' \in Uses
  BY Typing, SavedDep DEF ChildNotSeen
<1> QED
  BY <1>1, <1>2, Typing, PlainStep DEF ChildNotSeen, venue

\* With no active order, every order is over: a row never says so wrongly.
LEMMA NoneActive ==
    ASSUME Inv, active_orders = {}
    PROVE  \A o \in Orders : Over(o)
<1> SUFFICES ASSUME NEW o \in Orders PROVE Over(o)
  OBVIOUS
<1>1. row[o] \in Rows /\ ven[o] \in VenueOrders /\ OrderOK(o)
  BY DEF Inv, Typed
<1>2. row[o].status \in {"none", "filled", "canceled", "rejected"}
  BY <1>1 DEF active_orders, Rows, Statuses
<1> QED
  BY <1>1, <1>2, ProtectionAssumption DEF OrderOK, Over, Rows, VenueOrders, Units

LEMMA AfterCancelInv == Inv /\ AfterCancel => Inv'
<1> SUFFICES ASSUME Inv, AfterCancel PROVE Inv'
  OBVIOUS
<1>1. UNCHANGED <<pos, row, ven, sold, rej, backoff, used, blind>>
  BY DEF AfterCancel, venue
<1>2. CASE active_orders = {}
  BY <1>1, <1>2, NoneActive, Typing, WalkAway DEF AfterCancel, Goals, Walk
<1>3. CASE active_orders # {}
  <2>1. wk' \in {Idle, Done(wk)} /\ dep' \in Deps
    BY <1>3, Typing, SavedDep DEF AfterCancel, Save, Details
  <2> QED
    BY <1>1, <2>1, Typing, DoneStep, PlainStep DEF PlainSteps
<1> QED
  BY <1>2, <1>3

LEMMA BeginExitInv == Inv /\ BeginExit => Inv'
<1> SUFFICES ASSUME Inv, BeginExit PROVE Inv'
  OBVIOUS
<1>1. UNCHANGED <<pos, row, ven, sold, rej, backoff, used, blind>>
  BY DEF BeginExit, venue
<1>2. CASE exit_fill_pending
  <2>1. wk' \in Passes /\ wk'.pc = "apply" /\ dep' \in Deps
    BY <1>2, Typing, ToStep DEF BeginExit, Steps
  <2>2. WorkerOK'
    BY <1>1, <1>2, <2>1 DEF WorkerOK, exit_fill_pending, Walking
  <2> QED
    BY <1>1, <2>1, <2>2, Typing, QuietStep
<1>3. CASE ~exit_fill_pending /\ EconomicsFault
  <2>1. wk' \in {Idle, Done(wk)} /\ dep' \in Deps
    BY <1>3, Typing, FaultDep DEF BeginExit, Save
  <2> QED
    BY <1>1, <2>1, Typing, DoneStep, PlainStep DEF PlainSteps
<1>4. CASE ~exit_fill_pending /\ ~EconomicsFault
  BY <1>1, <1>4, Typing, QuietCancels, QuietStep DEF BeginExit
<1> QED
  BY <1>2, <1>3, <1>4

LEMMA CanceledInv == Inv /\ Canceled => Inv'
<1> SUFFICES ASSUME Inv, Canceled PROVE Inv'
  OBVIOUS
<1>1. UNCHANGED <<pos, row, ven, sold, rej, backoff, used, blind>>
  BY DEF Canceled, venue
<1>2. wk' \in {Idle, Done(wk), Walk(wk, "sell")} /\ dep' \in Deps
  BY Typing DEF Canceled, Save
<1>3. CASE wk' \in {Idle, Done(wk)}
  BY <1>1, <1>2, <1>3, Typing, DoneStep, PlainStep DEF PlainSteps
<1>4. CASE wk' = Walk(wk, "sell")
  BY <1>1, <1>2, <1>4, Typing, WalkAway DEF Goals, Walk
<1> QED
  BY <1>2, <1>3, <1>4

LEMMA ClearedInv == Inv /\ Cleared => Inv'
<1> SUFFICES ASSUME Inv, Cleared PROVE Inv'
  OBVIOUS
<1>1. PICK d \in Deps : dep' \in Deps /\ wk' \in {Idle, WalkFrom(wk, "settle", d)}
  <2>1. Pause("position") \in Deps /\ dep \in Deps
    BY Typing, SavedDep DEF Details
  <2> QED
    BY <2>1 DEF Cleared, Save, Walk
<1> QED
  BY <1>1, Typing, WalkAway DEF Cleared, venue, Goals

LEMMA FinalWalkInv == Inv /\ FinalWalk => Inv'
BY Typing, WalkAway DEF FinalWalk, venue, Goals, Walk

LEMMA SettleInv == Inv /\ Settle => Inv'
<1> SUFFICES ASSUME Inv, Settle PROVE Inv'
  OBVIOUS
<1>1. [dep EXCEPT !.status = "stopped", !.detail = "none"] \in Deps
  BY Typing DEF Deps, Details, BookStates
<1>2. [dep EXCEPT !.detail = IF dep.status = "paused" THEN "flat" ELSE "none"] \in Deps
  BY Typing DEF Deps, Details, BookStates
<1>3. wk' \in {Idle, Maintained} /\ dep' \in Deps
  BY <1>1, <1>2, Typing DEF Settle, Save
<1> QED
  BY <1>3, Typing, Blank, PlainStep DEF Settle, venue, Maintained, Idle, PlainSteps

LEMMA CrashInv == Inv /\ Crash => Inv'
BY Typing, Blank, SavedDep, PlainStep DEF Crash, venue, Idle, PlainSteps

LEMMA CommandInv ==
    ASSUME Inv, NEW status \in BookStates,
           NEW command \in {"none", "stop_new_entries", "managed_shutdown", "flatten"},
           Commanded(status, command)
    PROVE  Inv'
<1>1. (wk.pc # "idle") \in BOOLEAN
  OBVIOUS
<1>2. wk' \in Passes /\ wk'.pc = wk.pc /\ wk'.then = wk.then /\ wk'.left = wk.left
  BY <1>1, Typing DEF Commanded, Passes
<1>3. dep' \in Deps
  BY DEF Commanded, Deps, Details
<1>4. used' \in Uses
  <2>1. used.commands + 1 \in 0..MaxCommands
    BY Typing, ProtectionAssumption DEF Commanded, Uses
  <2> QED
    BY <2>1, Typing DEF Commanded, Uses
<1>5. UNCHANGED <<pos, row, ven, sold, rej, backoff, blind>>
  BY DEF Commanded, venue
<1>6. WorkerOK'
  BY <1>2, <1>5 DEF Inv, WorkerOK, Over, Settled, active_orders, Walking
<1> QED
  BY <1>2, <1>3, <1>4, <1>5, <1>6, QuietStep

LEMMA BackoffInv ==
    ASSUME Inv, NEW o, BackoffEnds(o)
    PROVE  Inv'
<1>1. Typed' /\ UNCHANGED <<row, ven, sold, blind, pos, wk>>
  BY DEF Inv, Typed, BackoffEnds, venue
<1>2. WorkerOK'
  BY <1>1 DEF Inv, WorkerOK, Over, Settled, active_orders, Walking
<1> QED
  BY <1>1, <1>2, Quiet

-----------------------------------------------------------------------------
(***************************************************************************)
(* Reading, adopting and marking an order.                                 *)
(***************************************************************************)
LEMMA ReadOrderInv == Inv /\ ReadOrder => Inv'
<1> SUFFICES ASSUME Inv, ReadOrder PROVE Inv'
  OBVIOUS
<1>1. wk.left \in SUBSET Orders /\ wk.left # {} /\ wk.pc = "walk"
  BY Typing DEF Passes, ReadOrder, At
<1>2. PICK o \in wk.left : o = First(wk.left)
  BY <1>1, FirstIn
<1>3. o \in Orders /\ ven[o].state # "none" /\ row[o].status # "none"
  BY <1>1, <1>2 DEF ReadOrder, Inv, WorkerOK, Walking
<1>4. PICK r \in Rows : r = Read(o)
  BY <1>3, ReadRow
<1>5. /\ r.status = ven[o].state /\ r.known /\ ven[o].shown <= r.filled /\ r.filled <= ven[o].done
      /\ row[o].filled <= r.filled /\ r.applied = ven[o].listed /\ r.qty = row[o].qty
  BY <1>3, <1>4, ReadRow
<1>6. row[o] \in Rows /\ ven[o] \in VenueOrders /\ OrderOK(o)
  BY <1>3 DEF Inv, Typed
<1> DEFINE n == ven[o].listed - row[o].applied
           w == [Fenced(n) EXCEPT !.left = @ \ {o}]
<1>7. /\ Kept(o, r) /\ Books(n) /\ NewRuns(n) /\ UNCHANGED <<sold, used, blind>>
      /\ Turn(w, IF Booked(r) THEN Overdrawn(n) ELSE Pause("position"), ~Booked(r))
  BY <1>2, <1>4 DEF ReadOrder
<1>8. w \in Passes /\ w.pc = "walk" /\ w.then = wk.then /\ w.left = wk.left \ {o}
  BY <1>1, <1>2, Typing, FencedStep DEF Passes
<1>9. /\ dep' \in Deps
      /\ \/ wk' = Idle
         \/ wk' \in Passes /\ wk'.pc = "walk" /\ wk'.then = wk.then /\ wk'.left = wk.left \ {o}
  <2>1. PICK d \in Deps : d = IF Booked(r) THEN Overdrawn(n) ELSE Pause("position")
    BY Typing, SavedDep, FaultDep DEF Details
  <2> HIDE DEF w
  <2> QED
    BY <1>7, <1>8, <2>1, Typing, TurnStep
<1> HIDE DEF w
<1>10. Claims(o, r)
  BY <1>5, <1>6, ProtectionAssumption DEF Claims, OrderOK, Rows, VenueOrders, Units
<1>11. /\ \A x \in Orders \ {o, "past"} : row'[x] = row[x] /\ ven'[x] = ven[x]
       /\ \/ /\ row'[o] = NoRow
             /\ o # "past" => row'["past"] = row["past"] /\ ven'["past"] = ven["past"]
          \/ /\ o # "past" => row'[o] = NoRow
             /\ row'["past"] = PastRow(o, r) /\ ven'["past"] = PastOrder(o, r)
          \/ /\ row'[o] = r /\ ven'[o] = ven[o]
             /\ o # "past" => row'["past"] = row["past"] /\ ven'["past"] = ven["past"]
  BY <1>3, <1>7, <1>10, KeptRow
<1>12. PastRow(o, r).status # "none" /\ PastOrder(o, r).state = "canceled" /\ NoRow.status = "none"
  BY <1>3, <1>10, Joined DEF NoRow
<1>13. wk' \in Passes /\ WorkerOK'
  <2>1. CASE wk' = Idle
    BY <2>1, Blank, PlainOK DEF Idle, PlainSteps
  <2>2. CASE wk' # Idle
    <3>1. wk' \in Passes /\ wk'.pc = "walk" /\ wk'.then = wk.then /\ wk'.left = wk.left \ {o}
      BY <1>9, <2>2
    <3>2. ASSUME NEW x \in wk'.left PROVE row'[x].status # "none"
      <4>1. row[x].status # "none" /\ x \in Orders /\ x # o
        BY <1>1, <3>1, <3>2 DEF Inv, WorkerOK, Walking
      <4> QED
        BY <1>11, <1>12, <4>1
    <3>3. ASSUME wk.then = "recheck", NEW x \in Orders PROVE Over(x)'
      <4>1. Over(x)
        BY <1>1, <3>3 DEF Inv, WorkerOK, Walking
      <4>2. CASE row'[x] = row[x] /\ ven'[x] = ven[x]
        BY <4>1, <4>2 DEF Over
      <4>3. CASE row'[x] = NoRow
        BY <1>12, <4>3 DEF Over
      <4>4. CASE x = "past" /\ row'["past"] = PastRow(o, r) /\ ven'["past"] = PastOrder(o, r)
        BY <1>12, <4>4 DEF Over
      <4>5. CASE x = o /\ row'[o] = r /\ ven'[o] = ven[o]
        BY <1>3, <1>5, <1>6, <4>1, <4>5, ProtectionAssumption DEF Over, Rows, VenueOrders, Units
      <4> QED
        BY <1>11, <4>2, <4>3, <4>4, <4>5
    <3> QED
      BY <1>1, <3>1, <3>2, <3>3 DEF Inv, WorkerOK, Walking
  <2> QED
    BY <2>1, <2>2
<1>14. used' \in Uses /\ backoff' \subseteq Submits /\ rej' \in [Submits -> 0..MaxIdentical]
  BY <1>7, Runs, Typing
<1> QED
  BY <1>3, <1>5, <1>7, <1>9, <1>13, <1>14, BookStep

\* A row changes and its order at the venue does not, and nothing is booked.
LEMMA RowStep ==
    ASSUME Inv, NEW o \in Orders, NEW r \in Rows, row' = [row EXCEPT ![o] = r],
           r.applied = row[o].applied, UNCHANGED <<pos, ven, sold, blind>>,
           o = "exit" /\ r.status # "none" => r.qty = row[o].qty /\ row[o].status # "none",
           dep' \in Deps, wk' \in Passes, used' \in Uses, backoff' \subseteq Submits,
           rej' \in [Submits -> 0..MaxIdentical], WorkerOK', OrderOK(o)'
    PROVE  Inv'
<1>1. Typed'
  BY DEF Inv, Typed
<1>2. row[o] \in Rows /\ ven[o] \in VenueOrders /\ row'[o] = r /\ ven'[o] = ven[o]
  BY DEF Inv, Typed
<1>3. Working(o)' = Working(o) /\ Unbooked(o)' = Unbooked(o) /\ Exposure(o)' = Exposure(o)
  BY <1>2 DEF Working, Unbooked, Exposure
<1>4. /\ Working(o) \in Int /\ Unbooked(o) \in Int /\ Exposure(o) \in Int
      /\ pos.qty \in Int /\ sold \in Int
  BY Numbers, Totals DEF Inv
<1>5. \A x \in Orders \ {o} : row'[x] = row[x] /\ ven'[x] = ven[x]
  BY DEF Inv, Typed
<1>6. /\ sold' + Working(o)' <= sold + Working(o) /\ pos'.qty <= pos.qty
      /\ Unbooked(o)' - sold' <= Unbooked(o) - sold
      /\ ~pos'.over => /\ ~pos.over
                       /\ pos'.qty + sold' - Unbooked(o)' = pos.qty + sold - Unbooked(o)
      /\ Exposure(o)' - pos'.qty <= Exposure(o) - pos.qty
  <2>1. PICK s, p, a, b, c \in Int : /\ s = sold /\ p = pos.qty /\ a = Working(o)
                                     /\ b = Unbooked(o) /\ c = Exposure(o)
    BY <1>4
  <2>2. s + a <= s + a /\ p <= p /\ b - s <= b - s /\ p + s - b = p + s - b /\ c - p <= c - p
    BY <2>1
  <2> QED
    BY <1>3, <2>1, <2>2
<1>8. (pos'.over => pos'.qty = 0) /\ (~blind => ~pos'.over)
  BY DEF Inv, Balanced, Exposed
<1>7. ASSUME o = "exit" PROVE ExitSized'
  BY <1>2, <1>7 DEF Inv, ExitSized
<1> QED
  BY <1>1, <1>5, <1>6, <1>7, <1>8, OneOrder

\* Marking the row of an order that was sent claims nothing about the order.
LEMMA Marked ==
    ASSUME Inv, NEW o \in Orders, row[o].status # "none",
           NEW status \in {"unknown", "rejected"}, status = "rejected" => ven[o].state = "none",
           NEW r, r = [row[o] EXCEPT !.status = status], row' = [row EXCEPT ![o] = r], ven' = ven
    PROVE  /\ r \in Rows /\ r.applied = row[o].applied /\ r.filled = row[o].filled
           /\ r.status = status /\ r.known = row[o].known /\ r.qty = row[o].qty /\ OrderOK(o)'
           /\ \A x \in Orders : Over(x) => Over(x)'
<1>1. row[o] \in Rows /\ ven[o] \in VenueOrders /\ OrderOK(o)
  BY DEF Inv, Typed
<1>2. /\ r \in Rows /\ r.applied = row[o].applied /\ r.filled = row[o].filled
      /\ r.status = status /\ r.known = row[o].known /\ r.qty = row[o].qty
      /\ r.pending = row[o].pending
  BY <1>1 DEF Rows, Statuses, Active
<1>3. row'[o] = r /\ \A x \in Orders \ {o} : row'[x] = row[x]
  BY DEF Inv, Typed
<1>4. OrderOK(o)'
  BY <1>1, <1>2, <1>3 DEF OrderOK
<1>5. ASSUME NEW x \in Orders, Over(x) PROVE Over(x)'
  BY <1>2, <1>3, <1>5 DEF Over
<1> QED
  BY <1>2, <1>4, <1>5

LEMMA ReadFailsInv == Inv /\ ReadFails => Inv'
<1> SUFFICES ASSUME Inv, ReadFails PROVE Inv'
  OBVIOUS
<1>1. wk.left \in SUBSET Orders /\ wk.left # {} /\ wk.pc = "walk"
  BY Typing DEF Passes, ReadFails, At
<1>2. PICK o \in wk.left : o = First(wk.left)
  BY <1>1, FirstIn
<1>3. o \in Orders /\ row[o].status # "none"
  BY <1>1, <1>2 DEF ReadFails, Inv, WorkerOK, Walking
<1>4. PICK r : r = [row[o] EXCEPT !.status = "unknown"]
  OBVIOUS
<1>5. row' = [row EXCEPT ![o] = r] /\ ven' = ven /\ UNCHANGED <<pos, ven, sold, rej, backoff, blind>>
  BY <1>2, <1>4 DEF ReadFails, venue
<1>6. /\ r \in Rows /\ r.applied = row[o].applied /\ r.status = "unknown" /\ OrderOK(o)'
      /\ r.qty = row[o].qty
      /\ \A x \in Orders : Over(x) => Over(x)'
  BY <1>3, <1>4, <1>5, Marked
<1> DEFINE w == [wk EXCEPT !.left = @ \ {o}]
<1>7. w \in Passes /\ w.pc = "walk" /\ w.then = wk.then /\ w.left = wk.left \ {o}
  BY <1>1, Typing DEF Passes
<1>8. Turn(w, Pause("read"), TRUE) /\ used' \in Uses
  BY <1>2, Typing, SavedDep DEF ReadFails
<1> HIDE DEF w
<1>10. /\ dep' \in Deps
       /\ \/ wk' = Idle
          \/ wk' \in Passes /\ wk'.pc = "walk" /\ wk'.then = wk.then /\ wk'.left = wk.left \ {o}
  <2>1. PICK d \in Deps : d = Pause("read")
    BY Typing, SavedDep DEF Details
  <2> QED
    BY <1>7, <1>8, <2>1, Typing, TurnStep
<1>9. wk' \in Passes /\ WorkerOK'
  <2>1. CASE wk' = Idle
    BY <2>1, Blank, PlainOK DEF Idle, PlainSteps
  <2>2. CASE wk' \in Passes /\ wk'.pc = "walk" /\ wk'.then = wk.then /\ wk'.left = wk.left \ {o}
    <3>1. \A x \in wk'.left : row'[x].status # "none"
      BY <1>1, <1>5, <2>2 DEF Inv, WorkerOK, Typed, Walking
    <3> QED
      BY <1>1, <1>6, <2>2, <3>1 DEF Inv, WorkerOK, Walking
  <2> QED
    BY <1>10, <2>1, <2>2
<1> QED
  BY <1>3, <1>5, <1>6, <1>8, <1>9, <1>10, RowStep, Typing DEF Typed

LEMMA ImportedRow ==
    ASSUME Inv, Unadopted
    PROVE  /\ Imported \in Rows /\ Imported.known /\ Imported.applied = 0 /\ Imported.filled = 0
           /\ row["child"].applied = 0 /\ row["child"].filled = 0 /\ ven["child"].state # "none"
<1>1. ven["child"].qty \in 0..Qty /\ 1 \in 0..MaxStop
  BY Typing, ProtectionAssumption DEF Typed, VenueOrders, Orders
<1>2. NoRow \in Rows /\ NoRow.applied = 0 /\ NoRow.filled = 0
  BY Blank DEF NoRow
<1>3. /\ Imported \in Rows /\ Imported.known /\ Imported.applied = 0 /\ Imported.filled = 0
  BY <1>1, <1>2 DEF Imported, Rows
<1>4. OrderOK("child")
  BY DEF Inv, Orders
<1> QED
  BY <1>3, <1>4 DEF OrderOK, Unadopted

LEMMA AdoptChildInv == Inv /\ AdoptChild => Inv'
<1> SUFFICES ASSUME Inv, AdoptChild PROVE Inv'
  OBVIOUS
<1> DEFINE n == ven["child"].listed
           w == AfterAdopt(Fenced(n))
           read == [Imported EXCEPT !.status = ven["child"].state, !.filled = ven["child"].shown,
                                    !.applied = n]
<1>1. Unadopted /\ "child" \in Orders
  BY DEF AdoptChild, Orders
<1>2. ven["child"] \in VenueOrders
  BY <1>1, Typing DEF Typed
<1>3. /\ read \in Rows /\ read.status = ven["child"].state /\ read.applied = n
      /\ read.filled = ven["child"].shown /\ read.known
  BY <1>1, <1>2, ImportedRow DEF Rows, VenueOrders, Statuses, Active
<1>0. ven["child"].shown <= read.filled /\ read.filled <= ven["child"].done
  BY <1>1, <1>2, <1>3, ProtectionAssumption DEF Inv, OrderOK, VenueOrders, Units
<1>4. Kept("child", read) /\ Books(n) /\ NewRuns(n) /\ UNCHANGED <<sold, used, blind>>
  BY DEF AdoptChild
<1>5. w \in Passes /\ w.pc \in PlainSteps
  BY Typing, FencedStep, ToStep DEF AfterAdopt, Steps, PlainSteps
<1>6. dep' \in Deps /\ wk' \in {Idle, w}
  BY Typing, SavedDep, FaultDep DEF AdoptChild, Save, Details
<1> HIDE DEF w, read
<1>7. wk' \in Passes /\ WorkerOK'
  BY <1>5, <1>6, PlainPass
<1>8. used' \in Uses /\ backoff' \subseteq Submits /\ rej' \in [Submits -> 0..MaxIdentical]
  BY <1>4, Runs, Typing
<1>9. n - row["child"].applied = n /\ ven["child"].state # "none"
  BY <1>1, <1>2, ImportedRow, ProtectionAssumption DEF VenueOrders, Units
<1>10. Books(n - row["child"].applied)
  BY <1>4, <1>9
<1> QED
  BY <1>0, <1>1, <1>3, <1>4, <1>6, <1>7, <1>8, <1>9, <1>10, BookStep DEF Submits

LEMMA AdoptUnreadInv == Inv /\ AdoptUnread => Inv'
<1> SUFFICES ASSUME Inv, AdoptUnread PROVE Inv'
  OBVIOUS
<1> DEFINE r == [Imported EXCEPT !.status = "unknown"]
<1>1. Unadopted /\ "child" \in Orders
  BY DEF AdoptUnread, Orders
<1>2. /\ r \in Rows /\ r.status = "unknown" /\ r.applied = 0 /\ r.filled = 0 /\ r.known
  BY <1>1, ImportedRow DEF Rows, Statuses, Active
<1>3. row' = [row EXCEPT !["child"] = r] /\ UNCHANGED <<pos, ven, sold, rej, backoff, blind>>
  BY DEF AdoptUnread, venue
<1> HIDE DEF r
<1>4. row["child"].applied = 0 /\ ven["child"].state # "none" /\ ven["child"] \in VenueOrders
      /\ row'["child"] = r /\ OrderOK("child")
  BY <1>1, <1>3, ImportedRow DEF Inv, Typed
<1>5. OrderOK("child")'
  BY <1>2, <1>3, <1>4, ProtectionAssumption DEF OrderOK, VenueOrders, Units, Submits
<1>6. AfterAdopt(wk) \in Passes /\ AfterAdopt(wk).pc \in PlainSteps
  BY Typing, ToStep DEF AfterAdopt, Steps, PlainSteps
<1>7. dep' \in Deps /\ wk' \in {Idle, AfterAdopt(wk)} /\ used' \in Uses
  BY Typing, SavedDep DEF AdoptUnread, Save, Details
<1>8. wk' \in Passes /\ WorkerOK'
  BY <1>6, <1>7, PlainPass
<1> QED
  BY <1>1, <1>2, <1>3, <1>4, <1>5, <1>7, <1>8, RowStep, Typing DEF Typed

LEMMA ApplyExitFillInv == Inv /\ ApplyExitFill => Inv'
<1> SUFFICES ASSUME Inv, ApplyExitFill PROVE Inv'
  OBVIOUS
<1> DEFINE n == ven["exit"].listed - row["exit"].applied
           w == Fenced(n)
           r == [row["exit"] EXCEPT !.applied = ven["exit"].listed]
<1>1. "exit" \in Orders /\ row["exit"].status = "filled"
  BY DEF Inv, WorkerOK, ApplyExitFill, At, Orders
<1>2. row["exit"] \in Rows /\ ven["exit"] \in VenueOrders /\ OrderOK("exit")
  BY <1>1 DEF Inv, Typed
<1>3. ven["exit"].state = "filled" /\ row["exit"].filled = ven["exit"].done
  BY <1>1, <1>2, ProtectionAssumption DEF OrderOK, Rows, VenueOrders, Units
<1>4. /\ r \in Rows /\ r.status = ven["exit"].state /\ r.applied = ven["exit"].listed
      /\ r.filled = ven["exit"].done /\ r.known /\ r.qty = row["exit"].qty
  BY <1>1, <1>2, <1>3 DEF Rows, VenueOrders, OrderOK
<1>5. Kept("exit", r) /\ Books(n) /\ NewRuns(n) /\ UNCHANGED <<sold, used, blind>>
  BY DEF ApplyExitFill
<1>6. w \in Passes
  BY Typing, FencedStep
<1>7. dep' \in Deps /\ wk' \in {Idle, Done(w), Canceling(w, "clear"), To(w, "settle")}
  BY Typing, FaultDep DEF ApplyExitFill, Save, AfterExit
<1> HIDE DEF w, r
<1>0. ven["exit"].shown <= r.filled /\ r.filled <= ven["exit"].done /\ Claims("exit", r)
  BY <1>2, <1>3, <1>4, ProtectionAssumption DEF OrderOK, Claims, Rows, VenueOrders, Units
<1>8. /\ row' \in [Orders -> Rows]
      /\ \A x \in Orders : row'[x] \in {row[x], r, NoRow}
      /\ \A x \in Orders \ {"exit"} : row'[x] = row[x]
      /\ row'["exit"] \in {NoRow, r}
  BY <1>0, <1>1, <1>3, <1>4, <1>5, Typing, KeptRow DEF Orders
<1>9. wk' \in Passes /\ WorkerOK'
  <2>1. CASE wk' \in {Idle, Done(w), To(w, "settle")}
    BY <1>6, <2>1, PlainPass, DoneStep, ToStep DEF PlainSteps, Steps
  <2>2. CASE wk' = Canceling(w, "clear")
    <3>1. wk' \in Passes /\ wk'.pc = "clear" /\ wk'.left = Cancelable
      BY <1>6, <2>2, CancelingStep DEF Steps
    <3>2. \A o \in wk'.left : row'[o].known
      BY <1>1, <1>8, <3>1 DEF Cancelable, active_orders, Active
    <3> QED
      BY <3>1, <3>2 DEF WorkerOK, Walking
  <2> QED
    BY <1>7, <2>1, <2>2
<1>10. used' \in Uses /\ backoff' \subseteq Submits /\ rej' \in [Submits -> 0..MaxIdentical]
  BY <1>5, Runs, Typing
<1> QED
  BY <1>0, <1>1, <1>3, <1>4, <1>5, <1>7, <1>9, <1>10, BookStep

-----------------------------------------------------------------------------
(***************************************************************************)
(* Canceling.                                                              *)
(***************************************************************************)
\* A cancel changes what an order still works for and what reads show of it.
LEMMA CancelEffect ==
    ASSUME Inv, NEW o \in Orders, ven[o].state = "open",
           (ven' = ven /\ used' = used) \/ Cancels(o)
    PROVE  /\ used' \in Uses
           /\ \E v \in VenueOrders :
                /\ ven' = [ven EXCEPT ![o] = v] /\ v.state \in {"open", "canceled"}
                /\ v.qty = ven[o].qty /\ v.done = ven[o].done /\ v.listed = ven[o].listed
                /\ v.listed <= v.shown /\ v.shown <= v.done
                /\ v.state # "canceled" => v.shown = v.done
<1>1. ven[o] \in VenueOrders /\ OrderOK(o) /\ used \in Uses /\ ven \in [Orders -> VenueOrders]
  BY DEF Inv, Typed
<1>2. CASE ven' = ven /\ used' = used
  <2>1. ven' = [ven EXCEPT ![o] = ven[o]]
    BY <1>1, <1>2
  <2> QED
    BY <1>1, <1>2, <2>1 DEF OrderOK
<1>3. CASE ven' = [ven EXCEPT ![o].state = "canceled"] /\ UNCHANGED used
  <2>1. PICK v : v = [ven[o] EXCEPT !.state = "canceled"]
    OBVIOUS
  <2>2. /\ v \in VenueOrders /\ v.state = "canceled" /\ v.qty = ven[o].qty /\ v.done = ven[o].done
        /\ v.listed = ven[o].listed /\ v.shown = ven[o].shown
    BY <1>1, <2>1 DEF VenueOrders
  <2>3. ven' = [ven EXCEPT ![o] = v]
    BY <1>3, <2>1
  <2> QED
    BY <1>1, <1>3, <2>2, <2>3 DEF OrderOK
<1>4. ASSUME Fault, NEW shown \in ven[o].listed..(ven[o].done - 1),
             ven' = [ven EXCEPT ![o].state = "canceled", ![o].shown = shown]
      PROVE  /\ used' \in Uses
             /\ \E v \in VenueOrders :
                  /\ ven' = [ven EXCEPT ![o] = v] /\ v.state \in {"open", "canceled"}
                  /\ v.qty = ven[o].qty /\ v.done = ven[o].done /\ v.listed = ven[o].listed
                  /\ v.listed <= v.shown /\ v.shown <= v.done
                  /\ v.state # "canceled" => v.shown = v.done
  <2>1. used' \in Uses
    BY <1>4, SavedDep DEF Inv
  <2>2. shown \in Units /\ ven[o].listed <= shown /\ shown <= ven[o].done
    BY <1>1, <1>4, ProtectionAssumption DEF VenueOrders, Units
  <2>3. PICK v : v = [ven[o] EXCEPT !.state = "canceled", !.shown = shown]
    OBVIOUS
  <2>4. /\ v \in VenueOrders /\ v.state = "canceled" /\ v.qty = ven[o].qty /\ v.done = ven[o].done
        /\ v.listed = ven[o].listed /\ v.shown = shown
    BY <1>1, <2>2, <2>3 DEF VenueOrders
  <2>5. ven' = [ven EXCEPT ![o] = v]
    BY <1>4, <2>3
  <2> QED
    BY <2>1, <2>2, <2>4, <2>5
<1> QED
  BY <1>2, <1>3, <1>4 DEF Cancels

\* So the order may take no more than before.
LEMMA CancelNumbers ==
    ASSUME Inv, NEW o \in Orders, ven[o].state = "open", NEW v \in VenueOrders,
           ven'[o] = v, v.state \in {"open", "canceled"}, v.qty = ven[o].qty, v.done = ven[o].done,
           row'[o].applied = row[o].applied
    PROVE  /\ Working(o)' <= Working(o) - 0 /\ Unbooked(o)' = Unbooked(o) + 0
           /\ Exposure(o)' <= Exposure(o)
<1>1. row[o] \in Rows /\ ven[o] \in VenueOrders /\ OrderOK(o)
  BY DEF Inv, Typed
<1> QED
  BY <1>1, ProtectionAssumption DEF OrderOK, Rows, VenueOrders, Working, Unbooked, Exposure, Units

LEMMA CancelOneInv ==
    ASSUME Inv, NEW o \in Orders, row[o].known, CancelOne(o),
           UNCHANGED <<dep, pos, sold, rej, backoff, blind>>, wk' \in Passes, WorkerOK'
    PROVE  Inv'
<1>1. row[o] \in Rows /\ ven[o] \in VenueOrders /\ OrderOK(o) /\ ven[o].state # "none"
  BY DEF Inv, Typed, OrderOK
<1>2. /\ dep' \in Deps /\ backoff' \subseteq Submits /\ rej' \in [Submits -> 0..MaxIdentical]
  BY DEF Inv, Typed
<1>3. CASE /\ row' = [row EXCEPT ![o] = [Read(o) EXCEPT !.applied = row[o].applied]]
           /\ UNCHANGED <<ven, used>>
  <2>0. PICK q : q = Read(o)
    OBVIOUS
  <2>1. PICK r : r = [q EXCEPT !.applied = row[o].applied]
    OBVIOUS
  <2>2. /\ q \in Rows /\ q.status = ven[o].state /\ q.known /\ q.qty = row[o].qty
        /\ row[o].filled <= q.filled /\ q.filled <= ven[o].done /\ ven[o].shown <= q.filled
    BY <1>1, <2>0, ReadRow
  <2>3. /\ r \in Rows /\ r.applied = row[o].applied /\ r.status = ven[o].state /\ r.known
        /\ r.qty = row[o].qty /\ r.filled = q.filled /\ r.pending = q.pending
    BY <1>1, <2>1, <2>2 DEF Rows
  <2>4. row'[o] = r /\ ven'[o] = ven[o] /\ (o \in Submits => row[o].status # "none")
    BY <1>1, <1>3, <2>0, <2>1 DEF Inv, Typed, OrderOK, Submits
  <2>5. /\ r.applied <= r.filled /\ r.filled <= ven[o].done
        /\ r.status = "filled" => ven[o].done <= r.filled
        /\ ven[o].state \in {"open", "filled", "canceled"}
    BY <1>1, <2>2, <2>3, ProtectionAssumption DEF OrderOK, Rows, VenueOrders, Units
  <2>6. OrderOK(o)'
    BY <1>1, <2>3, <2>4, <2>5 DEF OrderOK
  <2> QED
    BY <1>2, <1>3, <2>0, <2>1, <2>3, <2>4, <2>6, RowStep, Typing DEF Submits
<1>4. CASE /\ ven[o].state = "open" /\ ~row[o].pending
           /\ (ven' = ven /\ UNCHANGED used) \/ Cancels(o)
           /\ row' = [row EXCEPT ![o].status = ven'[o].state, ![o].pending = ven'[o].state = "open",
                                 ![o].filled = Max({@, ven'[o].shown})]
  <2>1. PICK v \in VenueOrders :
                /\ ven' = [ven EXCEPT ![o] = v] /\ v.state \in {"open", "canceled"}
                /\ v.qty = ven[o].qty /\ v.done = ven[o].done /\ v.listed = ven[o].listed
                /\ v.listed <= v.shown /\ v.shown <= v.done
                /\ v.state # "canceled" => v.shown = v.done
    BY <1>4, CancelEffect
  <2>2. used' \in Uses
    BY <1>4, CancelEffect
  <2>3. ven'[o] = v /\ \A x \in Orders \ {o} : ven'[x] = ven[x]
    BY <2>1 DEF Inv, Typed
  <2>4. PICK f \in Units : f = Max({row[o].filled, v.shown}) /\ f <= v.done /\ row[o].filled <= f
    <3>1. PICK a, b \in Int : a = row[o].filled /\ b = v.shown
      BY <1>1, ProtectionAssumption DEF Rows, VenueOrders, Units
    <3>2. Max({a, b}) \in {a, b} /\ a <= Max({a, b}) /\ b <= Max({a, b})
      BY MaxIsOne
    <3>3. a <= v.done /\ b <= v.done /\ a \in Units /\ b \in Units
      BY <1>1, <2>1, <3>1 DEF OrderOK, Rows, VenueOrders
    <3> QED
      BY <3>1, <3>2, <3>3
  <2>5. PICK p \in BOOLEAN : p = (v.state = "open")
    OBVIOUS
  <2>6. PICK r : r = [row[o] EXCEPT !.status = v.state, !.pending = p, !.filled = f]
    OBVIOUS
  <2>7. /\ r \in Rows /\ r.applied = row[o].applied /\ r.status = v.state
        /\ r.known = row[o].known /\ r.filled = f /\ r.qty = row[o].qty
    BY <1>1, <2>1, <2>6 DEF Rows, VenueOrders, Statuses, Active
  <2>8. row' = [row EXCEPT ![o] = r]
    BY <1>4, <2>3, <2>4, <2>5, <2>6
  <2>9. row'[o] = r /\ \A x \in Orders \ {o} : row'[x] = row[x] /\ ven'[x] = ven[x]
    BY <2>3, <2>8 DEF Inv, Typed
  <2>10. Typed'
    BY <1>2, <2>1, <2>2, <2>7, <2>8 DEF Inv, Typed
  <2>11. OrderOK(o)'
    <3>1. /\ r.known /\ r.applied <= v.listed /\ r.applied <= r.filled /\ r.filled <= v.done
          /\ v.done < v.qty /\ v.done <= v.qty /\ (o \in Submits => v.qty = r.qty) /\ o # "past"
      BY <1>1, <1>4, <2>1, <2>4, <2>7, ProtectionAssumption DEF OrderOK, Rows, VenueOrders, Units
    <3> QED
      BY <2>1, <2>3, <2>7, <2>9, <3>1 DEF OrderOK
  <2>12. /\ Working(o)' <= Working(o) - 0 /\ Unbooked(o)' = Unbooked(o) + 0
         /\ Exposure(o)' <= Exposure(o)
    BY <1>4, <2>1, <2>3, <2>7, <2>9, CancelNumbers
  <2>13. ASSUME o = "exit" PROVE ExitSized'
    BY <1>1, <2>7, <2>9, <2>13 DEF Inv, ExitSized, OrderOK
  <2>14. sold' = sold + 0
    BY Totals DEF Inv
  <2> QED
    BY <2>9, <2>10, <2>11, <2>12, <2>13, <2>14, OrderStep
<1>5. CASE Fault /\ UNCHANGED <<row, ven>>
  BY <1>2, <1>5, SavedDep, QuietStep, Typing
<1>6. CASE UNCHANGED <<row, ven, used>>
  BY <1>2, <1>6, QuietStep, Typing
<1> QED
  BY <1>3, <1>4, <1>5, <1>6 DEF CancelOne

LEMMA CancelOneRows ==
    ASSUME Inv, NEW o \in Orders, CancelOne(o)
    PROVE  \A x \in Orders \ {o} : row'[x] = row[x]
<1>1. PICK r : row' = [row EXCEPT ![o] = r]
  <2>1. CASE row' = [row EXCEPT ![o] = [Read(o) EXCEPT !.applied = row[o].applied]]
    BY <2>1
  <2>2. ASSUME NEW state, NEW shown,
               row' = [row EXCEPT ![o].status = state, ![o].pending = state = "open",
                                  ![o].filled = Max({@, shown})]
        PROVE  \E r : row' = [row EXCEPT ![o] = r]
    <3>1. row' = [row EXCEPT ![o] = [row[o] EXCEPT !.status = state, !.pending = state = "open",
                                                   !.filled = Max({@, shown})]]
      BY <2>2
    <3> QED
      BY <3>1
  <2>3. CASE row' = row
    <3>1. row' = [row EXCEPT ![o] = row[o]]
      BY <2>3 DEF Inv, Typed
    <3> QED
      BY <3>1
  <2> QED
    BY <2>1, <2>2, <2>3 DEF CancelOne
<1> QED
  BY <1>1 DEF Inv, Typed

LEMMA CancelProtectionInv == Inv /\ CancelProtection => Inv'
<1> SUFFICES ASSUME Inv, CancelProtection PROVE Inv'
  OBVIOUS
<1>1. active_orders \in SUBSET Orders /\ active_orders # {}
  BY DEF active_orders, Inv, WorkerOK, CancelProtection, At
<1>2. PICK o \in active_orders : o = First(active_orders)
  BY <1>1, FirstIn
<1>3. wk' \in Passes /\ wk' \in {Idle, To(wk, "resize")} /\ WorkerOK'
  BY Typing, ToStep, PlainPass DEF CancelProtection, Steps, PlainSteps
<1>4. CASE row[o].known
  BY <1>1, <1>2, <1>3, <1>4, CancelOneInv DEF CancelProtection
<1>5. CASE ~row[o].known
  BY <1>2, <1>3, <1>5, QuietStep, Typing DEF CancelProtection
<1> QED
  BY <1>4, <1>5

LEMMA CancelRestingInv == Inv /\ CancelResting => Inv'
<1> SUFFICES ASSUME Inv, CancelResting PROVE Inv'
  OBVIOUS
<1>1. wk.left \in SUBSET Orders /\ wk.left # {} /\ wk.pc \in {"cancel", "clear"}
  BY Typing DEF Passes, CancelResting
<1>2. PICK o \in wk.left : o = First(wk.left)
  BY <1>1, FirstIn
<1>3. row[o].known /\ CancelOne(o) /\ o \in Orders
  BY <1>1, <1>2 DEF Inv, WorkerOK, CancelResting
<1>4. wk' \in Passes /\ wk'.pc = wk.pc /\ wk'.left = wk.left \ {o}
  BY <1>2, Typing DEF CancelResting, Passes
<1>5. \A x \in wk'.left : row'[x].known
  BY <1>1, <1>3, <1>4, CancelOneRows DEF Inv, WorkerOK
<1>6. WorkerOK'
  BY <1>1, <1>4, <1>5 DEF WorkerOK, Walking
<1> QED
  BY <1>3, <1>4, <1>6, CancelOneInv DEF CancelResting

-----------------------------------------------------------------------------
(***************************************************************************)
(* Submitting an order.                                                    *)
(***************************************************************************)
\* An order that can execute nothing more and is booked, as far as it is seen,
\* may take nothing if nothing is hidden.
LEMMA SettledIsDone ==
    ASSUME Inv, NEW o \in Orders, Settled(o), ~Hidden
    PROVE  Working(o) = 0 /\ Unbooked(o) = 0 /\ Exposure(o) = 0
<1>1. row[o] \in Rows /\ ven[o] \in VenueOrders /\ OrderOK(o)
  BY DEF Inv, Typed
<1>2. ven[o].state # "open" /\ ven[o].done <= row[o].filled /\ row[o].filled <= row[o].applied
  BY <1>1, ProtectionAssumption DEF Settled, Over, Hidden, OrderOK, Rows, VenueOrders, Units
<1> QED
  BY <1>1, <1>2, ProtectionAssumption
  DEF OrderOK, Working, Unbooked, Exposure, Rows, VenueOrders, Units

\* Nothing is sent before every order is over and booked.
LEMMA SubmitInv ==
    ASSUME Inv, NEW o \in Submits, \A x \in Orders : Over(x), ~Unsettled, pos.qty > 0, Submit(o),
           UNCHANGED <<pos, sold, rej, backoff, used, blind>>
    PROVE  Inv'
<1>1. CASE rejection_latched(o)
  <2>1. wk' \in {Idle, Done(wk)} /\ dep' \in Deps /\ UNCHANGED <<row, ven>>
    BY <1>1, Typing, SavedDep DEF Submit, SaveOnly, Save, Details
  <2> QED
    BY <2>1, Typing, DoneStep, PlainStep DEF PlainSteps
<1>2. CASE ~rejection_latched(o)
  <2> DEFINE r == [NoRow EXCEPT !.status = "pending", !.qty = pos.qty,
                                !.stop = IF o = "exit" THEN 0 ELSE pos.stop]
             follows == row[o].status \notin {"none", "rejected"}
  <2>1. /\ o \in Orders /\ o \notin {"child", "past"} /\ row[o] \in Rows /\ ven[o] \in VenueOrders
        /\ OrderOK(o) /\ Over(o)
    BY Typing DEF Submits, Orders, Inv, Typed
  <2>2. ASSUME NEW x \in Orders PROVE Settled(x)
    <3>1. row[x] \in Rows
      BY Typing DEF Typed
    <3> QED
      BY <3>1, ProtectionAssumption DEF Settled, Unsettled, Rows, Units
  <2>3. /\ row["past"] \in Rows /\ ven["past"] \in VenueOrders /\ OrderOK("past") /\ Settled("past")
        /\ row[o].filled <= row[o].applied
    BY <2>1, <2>2, Typing DEF Orders, Inv, Typed, Settled
  <2>4. /\ NoRow \in Rows /\ NoRow.applied = 0 /\ NoRow.filled = 0 /\ NoRow.known = FALSE
        /\ NoRow.pending = FALSE
    BY Blank DEF NoRow
  <2>5. pos.qty \in 0..Qty /\ (IF o = "exit" THEN 0 ELSE pos.stop) \in 0..MaxStop
    BY Typing, ProtectionAssumption DEF Positions
  <2>6. /\ r \in Rows /\ r.status = "pending" /\ r.qty = pos.qty /\ r.applied = 0
        /\ r.filled = 0 /\ r.known = FALSE /\ r.pending = FALSE
    BY <2>4, <2>5 DEF Rows, Statuses, Active
  <2>7. /\ row' = [row EXCEPT ![o] = r, !["past"] = IF follows THEN PastRow(o, row[o]) ELSE @]
        /\ ven' = [ven EXCEPT ![o] = NoOrder, !["past"] = IF follows THEN PastOrder(o, row[o]) ELSE @]
        /\ dep' = dep /\ wk' = [wk EXCEPT !.pc = "placing", !.then = o]
    BY <1>2 DEF Submit
  <2> HIDE DEF r
  <2>8. Claims(o, row[o])
    BY <2>1, ProtectionAssumption DEF Claims, OrderOK, Rows, VenueOrders, Units
  <2>9. PICK e \in Rows, v \in VenueOrders :
             /\ e = IF follows THEN PastRow(o, row[o]) ELSE row["past"]
             /\ v = IF follows THEN PastOrder(o, row[o]) ELSE ven["past"]
    BY <2>1, <2>3, <2>8, Joined
  <2>10. /\ row' = [row EXCEPT ![o] = r, !["past"] = e]
         /\ ven' = [ven EXCEPT ![o] = NoOrder, !["past"] = v]
    BY <2>1, <2>7, <2>9, Typing DEF Typed
  <2>11. /\ row'[o] = r /\ ven'[o] = NoOrder /\ row'["past"] = e /\ ven'["past"] = v
         /\ \A x \in Orders \ {o, "past"} : row'[x] = row[x] /\ ven'[x] = ven[x]
    BY <2>1, <2>10, Typing DEF Typed, Orders
  <2>12. wk' \in Passes /\ wk'.pc = "placing" /\ wk'.then = o
    BY <2>1, <2>7, Typing DEF Passes, Steps
  <2>13. Typed'
    <3>1. row' \in [Orders -> Rows] /\ ven' \in [Orders -> VenueOrders]
      BY <2>1, <2>6, <2>10, Blank, Typing DEF Typed
    <3> QED
      BY <2>7, <2>12, <3>1, Typing DEF Typed
  <2>14. OrderOK("past")' /\ Over("past")'
    <3>1. CASE follows
      BY <2>1, <2>8, <2>9, <2>11, <3>1, JoinedOK
    <3>2. CASE ~follows
      <4>1. row'["past"] = row["past"] /\ ven'["past"] = ven["past"]
        BY <2>9, <2>11, <3>2
      <4> QED
        BY <2>3, <4>1 DEF OrderOK, Settled, Over
    <3> QED
      BY <3>1, <3>2
  <2>15. e.applied = 0 /\ e.filled <= 0
    <3>1. row["past"].applied = 0 /\ row["past"].filled <= 0
      BY <2>3 DEF OrderOK, Settled
    <3>2. CASE follows
      <4>1. /\ PastRow(o, row[o]).applied = 0
            /\ PastRow(o, row[o]).filled =
                 (IF o = "past" THEN 0 ELSE row["past"].filled) + row[o].filled - row[o].applied
        BY <2>1, <2>8, Joined
      <4>2. e.applied = 0 /\ e.filled = row["past"].filled + row[o].filled - row[o].applied
        BY <2>1, <2>9, <3>2, <4>1
      <4> QED
        BY <2>1, <2>3, <3>1, <4>2, ProtectionAssumption DEF Rows, Units
    <3>3. CASE ~follows
      BY <2>9, <3>1, <3>3
    <3> QED
      BY <3>2, <3>3
  <2>16. ASSUME NEW x \in Orders \ {o} PROVE Settled(x)'
    <3>1. CASE x = "past"
      BY <2>11, <2>14, <2>15, <3>1 DEF Settled, Over
    <3>2. CASE x # "past"
      BY <2>2, <2>11, <3>2 DEF Settled, Over
    <3> QED
      BY <3>1, <3>2
  <2>17. WorkerOK'
    BY <2>6, <2>11, <2>12, <2>16 DEF WorkerOK, Walking
  <2>18. /\ NoOrder.state = "none" /\ NoOrder.qty = 0 /\ NoOrder.done = 0 /\ NoOrder.listed = 0
         /\ NoOrder.shown = 0
    BY DEF NoOrder
  <2>19. OrderOK(o)'
    BY <2>1, <2>6, <2>11, <2>18 DEF OrderOK
  <2>20. PICK s, p, a, b \in Int : s = sold /\ p = pos.qty /\ a = Unbooked(o) /\ b = Unbooked("past")
    BY <2>1, Numbers, Totals, Typing DEF Orders
  <2>21. Working(o)' = 0 /\ Unbooked(o)' = 0 /\ Exposure(o)' = 0
    BY <2>6, <2>11, <2>18 DEF Working, Unbooked, Exposure
  <2>22. Working(o) = 0 /\ Exposure(o) = a /\ Working("past") = 0 /\ Exposure("past") = b
    BY <2>1, <2>3, <2>20, ProtectionAssumption
    DEF OrderOK, Over, Settled, Working, Unbooked, Exposure, Rows, VenueOrders, Units
  <2>23. v.state # "open" /\ v.done = b + a
    <3>1. b = ven["past"].done
      BY <2>3, <2>20, ProtectionAssumption DEF OrderOK, Unbooked, Rows, VenueOrders, Units
    <3>2. CASE follows
      <4>1. /\ PastOrder(o, row[o]).state = "canceled"
            /\ PastOrder(o, row[o]).done =
                 (IF o = "past" THEN 0 ELSE ven["past"].done) + ven[o].done - row[o].applied
        BY <2>1, <2>8, Joined
      <4>2. v.state = "canceled" /\ v.done = ven["past"].done + ven[o].done - row[o].applied
        BY <2>1, <2>9, <3>2, <4>1
      <4> QED
        BY <2>1, <2>3, <2>20, <3>1, <4>2, ProtectionAssumption DEF Unbooked, Rows, VenueOrders, Units
    <3>3. CASE ~follows
      <4>1. a = 0
        BY <2>1, <2>20, <3>3, ProtectionAssumption DEF OrderOK, Unbooked, Rows, VenueOrders, Units
      <4> QED
        BY <2>3, <2>9, <3>1, <3>3, <4>1 DEF OrderOK
    <3> QED
      BY <3>2, <3>3
  <2>24. Working("past")' = 0 /\ Unbooked("past")' = a + b /\ Exposure("past")' = a + b
    BY <2>11, <2>15, <2>20, <2>23 DEF Working, Unbooked, Exposure
  <2>25. /\ s + 0 + 0 <= s + 0 + 0 /\ p <= p /\ 0 + (a + b) - s <= a + b - s
         /\ p + s - 0 - (a + b) = p + s - a - b /\ 0 + (a + b) - p <= a + b - p
    BY <2>20
  <2>26. /\ sold' + Working(o)' + Working("past")' <= sold + Working(o) + Working("past")
         /\ pos'.qty <= pos.qty
         /\ Unbooked(o)' + Unbooked("past")' - sold' <= Unbooked(o) + Unbooked("past") - sold
         /\ pos'.qty + sold' - Unbooked(o)' - Unbooked("past")' =
               pos.qty + sold - Unbooked(o) - Unbooked("past")
         /\ Exposure(o)' + Exposure("past")' - pos'.qty <= Exposure(o) + Exposure("past") - pos.qty
    BY <2>20, <2>21, <2>22, <2>24, <2>25
  <2>27. (pos'.over => pos'.qty = 0) /\ (~blind => ~pos'.over)
    BY DEF Inv, Balanced, Exposed
  <2>28. ASSUME o = "exit" PROVE ExitSized'
    <3>1. p <= p - 0
      OBVIOUS
    <3> QED
      BY <2>6, <2>11, <2>20, <2>28, <3>1 DEF ExitSized
  <2> QED
    BY <2>1, <2>11, <2>13, <2>14, <2>17, <2>19, <2>26, <2>27, <2>28, TwoOrders
<1> QED
  BY <1>1, <1>2

LEMMA ProtectInv == Inv /\ Protect => Inv'
<1> SUFFICES ASSUME Inv, Protect PROVE Inv'
  OBVIOUS
<1>1. UNCHANGED <<pos, sold, rej, backoff, used, blind>>
  BY DEF Protect
<1>2. CASE wk' \in {Idle, Done(wk)} /\ dep' \in Deps /\ UNCHANGED <<row, ven>>
  BY <1>1, <1>2, Typing, DoneStep, PlainStep DEF PlainSteps
<1>3. CASE wk' = To(wk, "settle") /\ dep' = dep /\ UNCHANGED <<row, ven>>
  BY <1>1, <1>3, Typing, ToStep, PlainStep DEF Steps, PlainSteps
<1>4. CASE wk' = To(wk, "replace") /\ active_orders # {} /\ dep' = dep /\ UNCHANGED <<row, ven>>
  <2>1. wk' \in Passes /\ wk'.pc = "replace"
    BY <1>4, Typing, ToStep DEF Steps
  <2>2. WorkerOK'
    BY <1>4, <2>1 DEF WorkerOK, active_orders, Walking
  <2> QED
    BY <1>1, <1>4, <2>1, <2>2, Typing, QuietStep
<1>5. CASE Submit("bracket") /\ active_orders = {} /\ ~EconomicsFault /\ pos.qty > 0
  <2>1. ~Unsettled
    BY <1>5 DEF EconomicsFault
  <2> QED
    BY <1>1, <1>5, <2>1, NoneActive, SubmitInv DEF Submits
<1>6. pos.qty = 0 \/ pos.qty > 0
  BY Typing DEF Positions
<1>7. \/ SaveOnly(PauseOnFault, Done(wk))
      \/ Go(To(wk, "settle"))
      \/ SaveOnly(dep, Done(wk))
      \/ Go(Done(wk))
      \/ active_orders # {} /\ Go(To(wk, "replace"))
      \/ ~EconomicsFault /\ pos.qty > 0 /\ active_orders = {} /\ Submit("bracket")
  BY <1>6 DEF Protect
<1> QED
  BY <1>2, <1>3, <1>4, <1>5, <1>7, Typing, FaultDep DEF SaveOnly, Save, Go

LEMMA ResizedInv == Inv /\ Resized => Inv'
<1> SUFFICES ASSUME Inv, Resized PROVE Inv'
  OBVIOUS
<1>1. UNCHANGED <<pos, sold, rej, backoff, used, blind>> /\ \A o \in Orders : Over(o)
  BY DEF Resized, At, Inv, WorkerOK, Walking
<1>2. CASE EconomicsFault
  <2>1. wk' \in {Idle, Done(wk)} /\ dep' \in Deps /\ UNCHANGED <<row, ven>>
    BY <1>2, Typing, FaultDep DEF Resized, SaveOnly, Save
  <2> QED
    BY <1>1, <2>1, Typing, DoneStep, PlainStep DEF PlainSteps
<1>3. CASE ~EconomicsFault /\ pos.qty = 0
  BY <1>1, <1>3, Typing, ToStep, PlainStep DEF Resized, Go, Steps, PlainSteps
<1>4. CASE ~EconomicsFault /\ pos.qty # 0
  <2>1. Submit("bracket") /\ pos.qty > 0 /\ ~Unsettled
    BY <1>4, Typing DEF Resized, Positions, EconomicsFault
  <2> QED
    BY <1>1, <1>4, <2>1, SubmitInv DEF Submits
<1> QED
  BY <1>2, <1>3, <1>4

LEMMA SellInv == Inv /\ Sell => Inv'
<1> SUFFICES ASSUME Inv, Sell PROVE Inv'
  OBVIOUS
<1>1. UNCHANGED <<pos, sold, rej, backoff, used, blind>>
  BY DEF Sell
<1>2. pos.qty = 0 \/ pos.qty > 0
  BY Typing DEF Positions
<1>3. \/ Go(AfterExit(wk))
      \/ SaveOnly(Pause("position"), Done(wk))
      \/ SaveOnly(IF AllPending THEN dep ELSE Pause("position"), Done(wk))
      \/ pos.qty > 0 /\ ~Unsettled /\ active_orders = {} /\ Submit("exit")
  BY <1>2 DEF Sell
<1>4. CASE Go(AfterExit(wk))
  <2>1. CASE wk.closing
    <3>1. wk' = Canceling(wk, "clear") /\ dep' = dep /\ UNCHANGED <<row, ven>>
      BY <1>4, <2>1 DEF Go, AfterExit
    <3> QED
      BY <1>1, <3>1, Typing, QuietCancels, QuietStep
  <2>2. CASE ~wk.closing
    <3>1. wk' = To(wk, "settle") /\ dep' = dep /\ UNCHANGED <<row, ven>>
      BY <1>4, <2>2 DEF Go, AfterExit
    <3> QED
      BY <1>1, <3>1, Typing, ToStep, PlainStep DEF Steps, PlainSteps
  <2> QED
    BY <2>1, <2>2
<1>5. CASE \/ SaveOnly(Pause("position"), Done(wk))
           \/ SaveOnly(IF AllPending THEN dep ELSE Pause("position"), Done(wk))
  <2>1. wk' \in {Idle, Done(wk)} /\ dep' \in Deps /\ UNCHANGED <<row, ven>>
    BY <1>5, Typing, SavedDep DEF SaveOnly, Save, Details
  <2> QED
    BY <1>1, <2>1, Typing, DoneStep, PlainStep DEF PlainSteps
<1>6. CASE pos.qty > 0 /\ ~Unsettled /\ active_orders = {} /\ Submit("exit")
  BY <1>1, <1>6, NoneActive, SubmitInv DEF Submits
<1> QED
  BY <1>3, <1>4, <1>5, <1>6

\* What a pass knows while it places an order.
LEMMA Placing ==
    ASSUME Inv, wk.pc = "placing"
    PROVE  \E o \in Submits :
             /\ o = wk.then /\ o \in Orders /\ o \notin {"child", "past"}
             /\ row[o] \in Rows /\ ven[o] = NoOrder /\ OrderOK(o)
             /\ row[o].status = "pending" /\ row[o].known = FALSE
             /\ row[o].qty = pos.qty /\ pos.qty > 0 /\ row[o].applied = 0 /\ row[o].filled = 0
             /\ \A x \in Orders \ {o} : Settled(x)
<1>1. wk.then \in Submits /\ wk.then \in Orders /\ wk.then \notin {"child", "past"}
  BY DEF Inv, WorkerOK, Submits, Orders
<1>2. row[wk.then] \in Rows /\ OrderOK(wk.then)
  BY <1>1 DEF Inv, Typed
<1>3. row[wk.then].known = FALSE
  BY <1>2 DEF Inv, WorkerOK, Rows
<1> QED
  BY <1>1, <1>2, <1>3 DEF Inv, WorkerOK

\* The venue takes an order: every other order is over and booked, so this one
\* may take the whole position and no more.
LEMMA TakeInv == Inv /\ Take => Inv'
<1> SUFFICES ASSUME Inv, Take PROVE Inv'
  OBVIOUS
<1>1. PICK o \in Submits :
             /\ o = wk.then /\ o \in Orders /\ o \notin {"child", "past"}
             /\ row[o] \in Rows /\ ven[o] = NoOrder /\ OrderOK(o)
             /\ row[o].status = "pending" /\ row[o].known = FALSE
             /\ row[o].qty = pos.qty /\ pos.qty > 0 /\ row[o].applied = 0 /\ row[o].filled = 0
             /\ \A x \in Orders \ {o} : Settled(x)
  BY Placing DEF Take, At
<1> DEFINE v == [NoOrder EXCEPT !.state = "open", !.qty = row[o].qty]
<1>2. /\ NoOrder \in VenueOrders /\ NoOrder.state = "none" /\ NoOrder.done = 0
      /\ NoOrder.shown = 0 /\ NoOrder.listed = 0
  BY Blank DEF NoOrder
<1>3. /\ v \in VenueOrders /\ v.state = "open" /\ v.qty = pos.qty /\ v.done = 0
      /\ v.shown = 0 /\ v.listed = 0
  BY <1>1, <1>2 DEF VenueOrders, Rows
<1>4. /\ ven' = [ven EXCEPT ![o] = v] /\ Fits(o) /\ wk' = To(wk, "answer") /\ NewRun(o)
      /\ blind' = (blind \/ Hidden)
      /\ UNCHANGED <<dep, pos, row, sold, used>>
  BY <1>1 DEF Take
<1> HIDE DEF v
<1>5. ven'[o] = v /\ \A x \in Orders \ {o} : ven'[x] = ven[x]
  BY <1>1, <1>4 DEF Inv, Typed
<1>6. wk' \in Passes /\ wk'.pc = "answer" /\ wk'.then = o
  BY <1>1, <1>4, Typing, ToStep DEF Steps
<1>7. Typed'
  <2>1. rej' \in [Submits -> 0..MaxIdentical] /\ backoff' \subseteq Submits
    BY <1>4, Runs, Typing
  <2>2. ven' \in [Orders -> VenueOrders]
    BY <1>3, <1>4, Typing DEF Typed
  <2>3. blind' \in BOOLEAN
    BY <1>4
  <2> QED
    BY <1>4, <1>6, <2>1, <2>2, <2>3 DEF Inv, Typed
<1>8. WorkerOK'
  BY <1>1, <1>3, <1>4, <1>5, <1>6 DEF WorkerOK, Walking
<1>9. ASSUME NEW x \in Orders PROVE OrderOK(x)'
  <2>1. CASE x = o
    <3>1. row'[o] = row[o] /\ ven'[o] = v /\ pos.qty \in Int
      BY <1>4, <1>5, Typing DEF Positions
    <3> QED
      BY <1>1, <1>3, <2>1, <3>1 DEF OrderOK
  <2>2. CASE x # o
    BY <1>4, <1>5, <2>2 DEF OrderOK, Inv
  <2> QED
    BY <2>1, <2>2
<1>10. PICK s, p \in Int : s = sold /\ p = pos.qty
  BY Totals, Typing
<1>11. /\ Working(o) = 0 /\ Working(o)' = p /\ Exposure(o)' = p
       /\ Unbooked(o) = 0 /\ Unbooked(o)' = 0
  BY <1>1, <1>2, <1>3, <1>4, <1>5, <1>10 DEF Working, Exposure, Unbooked
<1>12. ASSUME NEW x \in Orders \ {o}
       PROVE  /\ Working(x)' = Working(x) /\ Unbooked(x)' = Unbooked(x)
              /\ Exposure(x)' = Exposure(x)
              /\ Working(x) \in Int /\ Unbooked(x) \in Int /\ Exposure(x) \in Int
  BY <1>4, <1>5, Numbers, Typing DEF Working, Exposure, Unbooked
<1>13. Covers'
  <2>1. Resting' = Resting + p
    BY <1>1, <1>11, <1>12 DEF Resting, Orders, Submits
  <2>2. PICK t, q, z \in Int : t = Resting /\ q = Qty /\ z = Spare
    BY Totals, Typing
  <2>3. p <= q + z - s - t
    BY <1>1, <1>4, <1>10, <2>2 DEF Fits
  <2>4. s + (t + p) <= q + z
    BY <2>3
  <2> QED
    BY <1>4, <1>10, <2>1, <2>2, <2>4 DEF Covers
<1>14. Balanced'
  <2>1. AllUnbooked' = AllUnbooked
    BY <1>1, <1>11, <1>12 DEF AllUnbooked, Orders, Submits
  <2> QED
    BY <1>4, <2>1 DEF Inv, Balanced
<1>15. ASSUME ~blind' PROVE Exposed'
  <2>1. ~blind /\ ~Hidden
    BY <1>4, <1>15
  <2>2. ASSUME NEW x \in Orders \ {o} PROVE Exposure(x)' = 0
    BY <1>1, <1>12, <2>1, SettledIsDone
  <2>3. AllExposure' = p
    BY <1>1, <1>11, <2>2 DEF AllExposure, Orders, Submits
  <2>4. ~pos.over
    BY <2>1 DEF Inv, Exposed
  <2> QED
    BY <1>4, <1>10, <2>3, <2>4 DEF Exposed
<1>16. ExitSized'
  BY <1>4 DEF Inv, ExitSized
<1> QED
  BY <1>7, <1>8, <1>9, <1>13, <1>14, <1>15, <1>16 DEF Inv

\* The venue has no order: the row is marked, as rejected or as unknown.
LEMMA NotPlaced ==
    ASSUME Inv, wk.pc = "placing", NEW status \in {"unknown", "rejected"},
           row' = [row EXCEPT ![wk.then].status = status],
           ven' = [ven EXCEPT ![wk.then] = NoOrder], wk' = To(wk, "reply"),
           used' \in Uses, rej' \in [Submits -> 0..MaxIdentical], backoff' \subseteq Submits,
           UNCHANGED <<dep, pos, sold, blind>>
    PROVE  Inv'
<1>1. PICK o \in Submits :
             /\ o = wk.then /\ o \in Orders /\ o \notin {"child", "past"}
             /\ row[o] \in Rows /\ ven[o] = NoOrder /\ OrderOK(o)
             /\ row[o].status = "pending" /\ row[o].known = FALSE
             /\ row[o].qty = pos.qty /\ pos.qty > 0 /\ row[o].applied = 0 /\ row[o].filled = 0
             /\ \A x \in Orders \ {o} : Settled(x)
  BY Placing
<1>2. ven' = ven
  BY <1>1, Typing DEF Typed
<1>3. PICK r : r = [row[o] EXCEPT !.status = status]
  OBVIOUS
<1>4. row' = [row EXCEPT ![o] = r]
  BY <1>1, <1>3
<1>5. /\ r \in Rows /\ r.applied = row[o].applied /\ OrderOK(o)' /\ r.qty = row[o].qty
  <2>1. NoOrder.state = "none"
    BY DEF NoOrder
  <2>2. /\ r \in Rows /\ r.applied = row[o].applied /\ r.filled = row[o].filled
        /\ r.status = status /\ r.known = row[o].known /\ r.qty = row[o].qty
        /\ r.pending = row[o].pending
    BY <1>1, <1>3 DEF Rows, Statuses, Active
  <2>3. row'[o] = r
    BY <1>1, <1>4, Typing DEF Typed
  <2> QED
    BY <1>1, <1>2, <2>1, <2>2, <2>3 DEF OrderOK
<1>6. wk' \in Passes /\ wk'.pc = "reply" /\ wk'.then = o
  BY <1>1, Typing, ToStep DEF Steps
<1>7. WorkerOK'
  BY <1>6 DEF WorkerOK, Walking
<1> QED
  BY <1>1, <1>2, <1>4, <1>5, <1>6, <1>7, Typing, RowStep

LEMMA RejectInv == Inv /\ Reject => Inv'
<1> SUFFICES ASSUME Inv, Reject PROVE Inv'
  OBVIOUS
<1>1. wk.then \in Submits
  BY Placing DEF Reject, At
<1>2. rej[wk.then] \in 0..MaxIdentical /\ MaxIdentical \in Nat
  BY <1>1, Typing, ProtectionAssumption DEF Typed
<1>3. Min({rej[wk.then] + 1, MaxIdentical}) \in 0..MaxIdentical
  <2>1. PICK a \in Nat : a = rej[wk.then] + 1
    BY <1>2
  <2>2. Min({a, MaxIdentical}) \in {a, MaxIdentical} /\ Min({a, MaxIdentical}) <= MaxIdentical
    BY <1>2, MinOfTwo
  <2>3. Min({a, MaxIdentical}) \in 0..MaxIdentical
    BY <1>2, <2>2
  <2> QED
    BY <2>1, <2>3
<1>4. rej' \in [Submits -> 0..MaxIdentical] /\ backoff' \subseteq Submits
  BY <1>1, <1>3, Typing DEF Reject, Typed
<1>5. used' \in Uses
  BY Typing, SavedDep DEF Reject
<1> QED
  BY <1>4, <1>5, NotPlaced DEF Reject, At

LEMMA NotSentInv == Inv /\ NotSent => Inv'
<1> SUFFICES ASSUME Inv, NotSent PROVE Inv'
  OBVIOUS
<1>1. wk.then \in Submits
  BY Placing DEF NotSent, At
<1>2. rej' \in [Submits -> 0..MaxIdentical] /\ backoff' \subseteq Submits /\ used' \in Uses
  BY <1>1, Typing, Runs, SavedDep DEF NotSent
<1> QED
  BY <1>2, NotPlaced DEF NotSent, At

LEMMA AnswerInv == Inv /\ Answer => Inv'
<1> SUFFICES ASSUME Inv, Answer PROVE Inv'
  OBVIOUS
<1>1. PICK o \in Submits : /\ o = wk.then /\ o \in Orders /\ o \notin {"child", "past"}
                           /\ ven[o].state # "none" /\ row[o].applied = 0
  BY DEF Inv, WorkerOK, Answer, At, Submits, Orders
<1>2. /\ row[o] \in Rows /\ ven[o] \in VenueOrders /\ OrderOK(o) /\ row[o].status # "none"
  BY <1>1 DEF Inv, Typed, OrderOK
<1>3. wk' \in Passes /\ wk'.pc = "reply" /\ wk'.then = o
  BY <1>1, Typing, ToStep DEF Steps, Answer
<1>4. WorkerOK'
  BY <1>3 DEF WorkerOK, Walking
<1>5. UNCHANGED <<dep, pos, ven, sold, rej, backoff, blind>> /\ used' \in Uses
  BY Typing, SavedDep DEF Answer, venue
<1>6. CASE row' = [row EXCEPT ![o] = [Read(o) EXCEPT !.applied = 0]]
  <2>0. PICK q : q = Read(o)
    OBVIOUS
  <2>1. PICK r : r = [q EXCEPT !.applied = 0]
    OBVIOUS
  <2>2. /\ q \in Rows /\ q.status = ven[o].state /\ q.known /\ q.qty = row[o].qty
        /\ row[o].filled <= q.filled /\ q.filled <= ven[o].done /\ ven[o].shown <= q.filled
    BY <1>1, <2>0, ReadRow
  <2>3. /\ r \in Rows /\ r.applied = row[o].applied /\ r.status = ven[o].state /\ r.known
        /\ r.qty = row[o].qty /\ r.filled = q.filled
    BY <1>1, <1>2, <2>1, <2>2 DEF Rows
  <2>4. row'[o] = r /\ ven'[o] = ven[o]
    BY <1>1, <1>5, <1>6, <2>0, <2>1 DEF Inv, Typed
  <2>5. /\ r.applied <= r.filled /\ r.filled <= ven[o].done
        /\ r.status = "filled" => ven[o].done <= r.filled
        /\ ven[o].state \in {"open", "filled", "canceled"}
    BY <1>1, <1>2, <2>2, <2>3, ProtectionAssumption DEF OrderOK, Rows, VenueOrders, Units
  <2>6. OrderOK(o)'
    BY <1>1, <1>2, <2>3, <2>4, <2>5 DEF OrderOK
  <2> QED
    BY <1>1, <1>2, <1>3, <1>4, <1>5, <1>6, <2>0, <2>1, <2>3, <2>6, RowStep, Typing DEF Typed
<1>7. CASE row' = [row EXCEPT ![o].status = "unknown"]
  <2>1. PICK r : r = [row[o] EXCEPT !.status = "unknown"]
    OBVIOUS
  <2>2. row' = [row EXCEPT ![o] = r]
    BY <1>7, <2>1
  <2>3. /\ r \in Rows /\ r.applied = row[o].applied /\ OrderOK(o)' /\ r.qty = row[o].qty
    BY <1>1, <1>2, <1>5, <2>1, <2>2, Marked
  <2> QED
    BY <1>1, <1>2, <1>3, <1>4, <1>5, <2>2, <2>3, RowStep, Typing DEF Typed
<1> QED
  BY <1>1, <1>6, <1>7 DEF Answer

LEMMA ReplyInv == Inv /\ Reply => Inv'
<1> SUFFICES ASSUME Inv, Reply PROVE Inv'
  OBVIOUS
<1>1. PICK o \in Submits : o = wk.then /\ o \in Orders /\ o \notin {"child", "past"}
  BY DEF Inv, WorkerOK, Reply, At, Submits, Orders
<1>2. UNCHANGED <<pos, ven, sold, rej, backoff, used, blind>>
  BY DEF Reply, venue
<1>3. row[o] \in Rows /\ ven[o] \in VenueOrders /\ OrderOK(o)
  BY <1>1 DEF Inv, Typed
<1>4. CASE row[o].status = "rejected"
  <2>1. row' = [row EXCEPT ![o] = NoRow] /\ wk' \in {Idle, Done(wk)} /\ dep' \in Deps
    BY <1>1, <1>4, Typing, SavedDep DEF Reply, Save, Details
  <2>2. wk' \in Passes /\ WorkerOK'
    BY <2>1, Typing, DoneStep, PlainPass DEF PlainSteps
  <2>3. NoRow \in Rows /\ NoRow.applied = 0 /\ row[o].applied = 0 /\ NoRow.status = "none"
    BY <1>3, <1>4, Blank, ProtectionAssumption DEF NoRow, OrderOK, Rows, VenueOrders, Units
  <2>4. row'[o] = NoRow /\ ven'[o] = ven[o]
    BY <1>1, <1>2, <2>1 DEF Inv, Typed
  <2>5. OrderOK(o)'
    BY <1>1, <1>3, <1>4, <2>4, ProtectionAssumption DEF OrderOK, NoRow, VenueOrders, Units
  <2> QED
    BY <1>1, <1>2, <2>1, <2>2, <2>3, <2>5, RowStep, Typing DEF Typed
<1>5. CASE row[o].status # "rejected" /\ row[o].status = "filled" /\ o = "exit"
  <2>1. wk' = To(wk, "apply") /\ dep' = dep /\ row' = row
    BY <1>1, <1>5 DEF Reply
  <2>2. wk' \in Passes /\ wk'.pc = "apply"
    BY <2>1, Typing, ToStep DEF Steps
  <2>3. WorkerOK'
    BY <1>5, <2>1, <2>2 DEF WorkerOK, Walking
  <2> QED
    BY <1>2, <2>1, <2>2, <2>3, Typing, QuietStep
<1>6. CASE row[o].status # "rejected" /\ ~(row[o].status = "filled" /\ o = "exit")
  <2>1. wk' \in {Idle, Done(wk)} /\ dep' \in Deps /\ row' = row
    BY <1>1, <1>6, Typing, SavedDep DEF Reply, Save, Details
  <2> QED
    BY <1>2, <2>1, Typing, DoneStep, PlainStep DEF PlainSteps
<1> QED
  BY <1>4, <1>5, <1>6

-----------------------------------------------------------------------------
(***************************************************************************)
(* The venue.                                                              *)
(***************************************************************************)
\* The venue moves one order that exists there; no pass is misled by it.
LEMMA VenueStep ==
    ASSUME Inv, NEW o \in Orders, NEW v \in VenueOrders, ven' = [ven EXCEPT ![o] = v],
           ven[o].state # "none", v.state # "none", ven[o].state = "open" \/ v.state = ven[o].state,
           ven[o].state # "open" => v.done = ven[o].done,
           UNCHANGED <<dep, pos, row, rej, backoff, wk, blind>>, used' \in Uses, OrderOK(o)',
           NEW k \in Nat, sold' \in Units, sold' = sold + k,
           Working(o)' <= Working(o) - k, Unbooked(o)' = Unbooked(o) + k, Exposure(o)' <= Exposure(o)
    PROVE  Inv'
<1>1. ven'[o] = v /\ \A x \in Orders \ {o} : row'[x] = row[x] /\ ven'[x] = ven[x]
  BY Typing DEF Typed
<1>2. Typed'
  BY Typing DEF Typed
<1>3. ASSUME NEW x \in Orders PROVE (Over(x) => Over(x)') /\ (Settled(x) => Settled(x)')
  BY <1>1 DEF Over, Settled
<1>4. ASSUME wk.pc = "placing" PROVE ven'[wk.then] = NoOrder
  <2>1. NoOrder.state = "none"
    BY DEF NoOrder
  <2> QED
    BY <1>1, <1>4, <2>1, Placing
<1>5. ASSUME wk.pc = "answer" PROVE ven'[wk.then].state # "none"
  <2>1. wk.then \in Orders
    BY <1>5 DEF Inv, WorkerOK, Submits, Orders
  <2> QED
    BY <1>1, <1>5, <2>1 DEF Inv, WorkerOK
<1>6. WorkerOK'
  BY <1>3, <1>4, <1>5 DEF Inv, WorkerOK, active_orders, Walking
<1>7. ExitSized'
  BY Typing DEF Inv, ExitSized, Positions
<1> QED
  BY <1>1, <1>2, <1>6, <1>7, OrderStep

LEMMA VenueExecutesInv ==
    ASSUME Inv, NEW o \in Orders, VenueExecutes(o)
    PROVE  Inv'
<1>1. /\ row[o] \in Rows /\ ven[o] \in VenueOrders /\ OrderOK(o) /\ ven[o].state = "open"
      /\ o # "past"
  BY Typing DEF Inv, Typed, VenueExecutes, OrderOK
<1> DEFINE v == [ven[o] EXCEPT !.done = @ + 1, !.shown = @ + 1,
                               !.state = IF ven[o].done + 1 = ven[o].qty THEN "filled" ELSE @]
<1>2. ven[o].done + 1 \in Units /\ ven[o].shown + 1 \in Units
  BY <1>1, ProtectionAssumption DEF OrderOK, VenueOrders, Units
<1>3. /\ v \in VenueOrders /\ v.done = ven[o].done + 1 /\ v.shown = ven[o].shown + 1
      /\ v.listed = ven[o].listed /\ v.qty = ven[o].qty
      /\ v.state = IF ven[o].done + 1 = ven[o].qty THEN "filled" ELSE "open"
  BY <1>1, <1>2 DEF VenueOrders
<1>4. ven' = [ven EXCEPT ![o] = v] /\ sold' = sold + 1
  BY DEF VenueExecutes
<1> HIDE DEF v
<1>5. ven'[o] = v /\ row' = row /\ pos' = pos
  BY <1>4, Typing DEF Typed, VenueExecutes
<1>6. OrderOK(o)'
  <2>1. /\ ven[o].shown = ven[o].done /\ v.shown = v.done /\ row[o].applied <= v.listed
        /\ v.listed <= v.shown /\ v.shown <= v.done /\ row[o].filled <= v.done /\ v.done <= v.qty
        /\ (v.state = "open" => v.done < v.qty) /\ v.state \in {"open", "filled"}
        /\ (v.state = "filled" => v.done = v.qty)
    BY <1>1, <1>3, ProtectionAssumption DEF OrderOK, VenueOrders, Rows, Units
  <2>2. row[o].status \notin {"rejected", "filled", "canceled"}
        /\ (o # "child" => row[o].status # "none")
    BY <1>1 DEF OrderOK
  <2> QED
    BY <1>1, <1>3, <1>5, <2>1, <2>2 DEF OrderOK
<1>7. /\ Working(o)' <= Working(o) - 1 /\ Unbooked(o)' = Unbooked(o) + 1
      /\ Exposure(o)' <= Exposure(o)
  BY <1>1, <1>3, <1>5, ProtectionAssumption
  DEF Working, Unbooked, Exposure, OrderOK, VenueOrders, Rows, Units
<1>8. sold' \in Units
  <2>1. Working(o) >= 1
    BY <1>1, ProtectionAssumption DEF Working, OrderOK, VenueOrders, Units
  <2>2. \A x \in Orders : Working(x) \in Nat
    BY Within
  <2>3. Resting >= 1
    BY <2>1, <2>2 DEF Resting, Orders
  <2>4. PICK s, t, q, z \in Int : s = sold /\ t = Resting /\ q = Qty /\ z = Spare
    BY Totals, Typing
  <2>5. s + t <= q + z /\ t >= 1 /\ s >= 0
    BY <2>3, <2>4, Typing, ProtectionAssumption DEF Inv, Covers, Typed, Units
  <2>6. s + 1 \in 0..(q + z)
    BY <2>5
  <2> QED
    BY <1>4, <2>4, <2>6 DEF Units
<1>9. v.state # "none" /\ UNCHANGED <<dep, pos, row, rej, backoff, wk, used, blind>>
  BY <1>3 DEF VenueExecutes
<1> QED
  BY <1>1, <1>3, <1>4, <1>6, <1>7, <1>8, <1>9, VenueStep, Typing

LEMMA VenueCancelsInv ==
    ASSUME Inv, NEW o \in Orders, VenueCancels(o)
    PROVE  Inv'
<1>1. /\ row[o] \in Rows /\ ven[o] \in VenueOrders /\ OrderOK(o) /\ ven[o].state = "open"
      /\ Cancels(o)
  BY Typing DEF Inv, Typed, VenueCancels
<1>2. PICK v \in VenueOrders :
           /\ ven' = [ven EXCEPT ![o] = v] /\ v.state \in {"open", "canceled"}
           /\ v.qty = ven[o].qty /\ v.done = ven[o].done /\ v.listed = ven[o].listed
           /\ v.listed <= v.shown /\ v.shown <= v.done
           /\ v.state # "canceled" => v.shown = v.done
  BY <1>1, CancelEffect
<1>3. used' \in Uses
  BY <1>1, CancelEffect
<1>4. UNCHANGED <<dep, pos, row, sold, rej, backoff, wk, blind>>
  BY DEF VenueCancels
<1>5. ven'[o] = v /\ row'[o] = row[o]
  BY <1>2, <1>4, Typing DEF Typed
<1>6. OrderOK(o)'
  <2>1. row[o].status \notin {"rejected", "filled", "canceled"} /\ o # "past"
        /\ (o # "child" => row[o].status # "none")
    BY <1>1 DEF OrderOK
  <2>2. /\ row[o].applied <= v.listed /\ row[o].filled <= v.done /\ v.done < v.qty /\ v.done <= v.qty
    BY <1>1, <1>2, ProtectionAssumption DEF OrderOK, Rows, VenueOrders, Units
  <2> QED
    BY <1>1, <1>2, <1>5, <2>1, <2>2 DEF OrderOK
<1>7. /\ Working(o)' <= Working(o) - 0 /\ Unbooked(o)' = Unbooked(o) + 0
      /\ Exposure(o)' <= Exposure(o)
  BY <1>1, <1>2, <1>5, CancelNumbers
<1>8. sold' = sold + 0 /\ sold' \in Units
  BY <1>4, Totals, Typing DEF Typed
<1> QED
  BY <1>1, <1>2, <1>3, <1>4, <1>6, <1>7, <1>8, VenueStep

LEMMA VenueListsInv ==
    ASSUME Inv, NEW o \in Orders, VenueLists(o)
    PROVE  Inv'
<1>1. row[o] \in Rows /\ ven[o] \in VenueOrders /\ OrderOK(o) /\ ven[o].listed < ven[o].done
  BY Typing DEF Inv, Typed, VenueLists
<1>2. PICK v : v = [ven[o] EXCEPT !.shown = ven[o].done, !.listed = ven[o].done]
  OBVIOUS
<1>3. /\ v \in VenueOrders /\ v.done = ven[o].done /\ v.listed = ven[o].done
      /\ v.shown = ven[o].done /\ v.qty = ven[o].qty /\ v.state = ven[o].state
  BY <1>1, <1>2 DEF VenueOrders
<1>4. ven' = [ven EXCEPT ![o] = v] /\ UNCHANGED <<dep, pos, row, sold, rej, backoff, wk, used, blind>>
  BY <1>2 DEF VenueLists
<1>5. ven'[o] = v /\ row'[o] = row[o]
  BY <1>4, Typing DEF Typed
<1>6. ven[o].state # "none"
  BY <1>1, ProtectionAssumption DEF OrderOK, VenueOrders, Units
<1>7. OrderOK(o)'
  <2>1. row[o].applied <= v.listed /\ v.listed <= v.shown /\ v.shown <= v.done
    BY <1>1, <1>3, ProtectionAssumption DEF OrderOK, Rows, VenueOrders, Units
  <2> QED
    BY <1>1, <1>3, <1>5, <2>1 DEF OrderOK
<1>8. /\ Working(o)' <= Working(o) - 0 /\ Unbooked(o)' = Unbooked(o) + 0
      /\ Exposure(o)' <= Exposure(o)
  BY <1>1, <1>3, <1>5, ProtectionAssumption DEF Working, Unbooked, Exposure, OrderOK, VenueOrders, Rows, Units
<1>9. sold' = sold + 0 /\ sold' \in Units
  BY <1>4, Totals, Typing DEF Typed
<1> QED
  BY <1>3, <1>4, <1>6, <1>7, <1>8, <1>9, VenueStep, Typing

-----------------------------------------------------------------------------
LEMMA NextInv == Inv /\ [Next]_vars => Inv'
<1> SUFFICES ASSUME Inv, [Next]_vars PROVE Inv'
  OBVIOUS
<1>1. CASE Begin \/ OpenWalk \/ ReadOrder \/ ReadFails \/ NotFound \/ EndWalk
  BY <1>1, BeginInv, OpenWalkInv, ReadOrderInv, ReadFailsInv, NotFoundInv, EndWalkInv
<1>2. CASE FlattenIdle \/ FlattenRemainders \/ FlattenPosition \/ NoPrice \/ Note \/ Manage \/ NewBar
  BY <1>2, FlattenIdleInv, FlattenRemaindersInv, FlattenPositionInv, NoPriceInv, NoteInv,
     ManageInv, NewBarInv
<1>3. CASE ChildNotSeen \/ AdoptChild \/ AdoptUnread
  BY <1>3, ChildNotSeenInv, AdoptChildInv, AdoptUnreadInv
<1>4. CASE Protect \/ CancelProtection \/ AfterCancel \/ Resized
  BY <1>4, ProtectInv, CancelProtectionInv, AfterCancelInv, ResizedInv
<1>5. CASE BeginExit \/ CancelResting \/ Canceled \/ Sell \/ ApplyExitFill
  BY <1>5, BeginExitInv, CancelRestingInv, CanceledInv, SellInv, ApplyExitFillInv
<1>6. CASE Take \/ Reject \/ NotSent \/ Answer \/ Reply
  BY <1>6, TakeInv, RejectInv, NotSentInv, AnswerInv, ReplyInv
<1>7. CASE Cleared \/ FinalWalk \/ Settle \/ Crash
  BY <1>7, ClearedInv, FinalWalkInv, SettleInv, CrashInv
<1>8. CASE PauseBook \/ ResumeBook \/ StopBook \/ FlattenBook
  BY <1>8, CommandInv DEF PauseBook, ResumeBook, StopBook, FlattenBook, BookStates
<1>9. CASE \E o \in Orders : VenueExecutes(o) \/ VenueCancels(o) \/ VenueLists(o)
  BY <1>9, VenueExecutesInv, VenueCancelsInv, VenueListsInv
<1>10. CASE \E o \in backoff : BackoffEnds(o)
  BY <1>10, BackoffInv
<1>11. CASE UNCHANGED vars
  <2>1. UNCHANGED <<dep, pos, row, ven, rej, backoff, wk, used, sold, blind>>
    BY <1>11 DEF vars
  <2>2. Typed' /\ WorkerOK'
    BY <2>1 DEF Inv, Typed, WorkerOK, Over, Settled, active_orders, Walking
  <2> QED
    BY <2>1, <2>2, Quiet
<1> QED
  BY <1>1, <1>2, <1>3, <1>4, <1>5, <1>6, <1>7, <1>8, <1>9, <1>10, <1>11 DEF Next, Worker

\* Every reachable state satisfies the invariant: the position is what the
\* venue has not sold but for executions the book has yet to record, those of
\* canceled orders that no read shows yet included, until more is booked than
\* it held; and it covers what every order may still take from it, unless an
\* order was placed beside units the books could not see (fill_ledger).
THEOREM Invariance == Spec => []Inv
<1>1. Init => Inv
  BY InitInv
<1>2. Inv /\ [Next]_vars => Inv'
  BY NextInv
<1> QED
  BY <1>1, <1>2, PTL DEF Spec

\* The worker, its rows and the venue stay within their types and bounds: no
\* booking takes the position below zero, and no execution sells more than the
\* account holds.
THEOREM TypeCorrect == Spec => []TypeOK
<1>1. Inv => TypeOK
  BY TypedIsTypeOK DEF Inv
<1> QED
  BY <1>1, Invariance, PTL

\* If nothing is hidden, a flat and idle book has nothing left at the venue.
LEMMA FlatWithoutSecrets ==
    ASSUME Inv, FlatAndIdle, ~Hidden
    PROVE  \A o \in Orders : Working(o) = 0 /\ Unbooked(o) = 0
<1>1. \A o \in Orders : Over(o)
  BY NoneActive DEF FlatAndIdle
<1>2. ASSUME NEW o \in Orders PROVE Settled(o)
  <2>1. row[o] \in Rows /\ ~(row[o].filled > row[o].applied)
    BY Typing DEF Typed, FlatAndIdle, EconomicsFault, Unsettled
  <2> QED
    BY <1>1, <2>1, ProtectionAssumption DEF Settled, Rows, Units
<1> QED
  BY <1>2, SettledIsDone

\* No unit of the position is offered twice: over replacements, exits, lost
\* answers and crashes, what is sold and what working orders may still sell
\* stay within the position (_ensure_live_bracket, _marketable_exit), unless an
\* order was placed while the child was not known or while a canceled order had
\* executed more than any read of it had shown.
THEOREM NotOversold == Spec => []NeverOversold
<1>1. Inv => NeverOversold
  <2> SUFFICES ASSUME Inv, ~blind PROVE sold + Resting <= Qty
    BY DEF NeverOversold
  <2>1. PICK s, p, q, t, e, u \in Int : /\ s = sold /\ p = pos.qty /\ q = Qty /\ t = Resting
                                        /\ e = AllExposure /\ u = AllUnbooked
    BY Totals, Typing
  <2>2. p + s = q + u /\ e <= p
    BY <2>1 DEF Inv, Balanced, Exposed
  <2>3. t = e - u
    BY <2>1, Within DEF Resting, AllExposure, AllUnbooked, Orders
  <2>4. s + t <= q
    BY <2>2, <2>3
  <2> QED
    BY <2>1, <2>4
<1> QED
  BY <1>1, Invariance, PTL

\* A book that looks flat and idle is flat at the venue: with no position, no
\* active row and nothing executed beyond what is booked, every unit is sold
\* once and nothing is working there (flat_and_idle), unless executions of a
\* canceled order are still to surface or the child is not known.
THEOREM FlatMeansFlat == Spec => []FlatIsFlat
<1>1. Inv => FlatIsFlat
  <2> SUFFICES ASSUME Inv, FlatAndIdle, ~Hidden PROVE sold = Qty /\ Resting = 0
    BY DEF FlatIsFlat
  <2>1. \A o \in Orders : Working(o) = 0 /\ Unbooked(o) = 0
    BY FlatWithoutSecrets
  <2>2. Resting = 0 /\ AllUnbooked = 0
    BY <2>1 DEF Resting, AllUnbooked, Orders
  <2>3. pos.qty + sold = Qty + AllUnbooked /\ pos.qty = 0
    BY DEF Inv, Balanced, FlatAndIdle, EconomicsFault
  <2> QED
    BY <2>2, <2>3, Totals, Typing
<1> QED
  BY <1>1, Invariance, PTL

-----------------------------------------------------------------------------
(***************************************************************************)
(* What a pass leaves behind.                                              *)
(***************************************************************************)
\* Unless a command overtook it, a pass carries out a flatten only on command;
\* the worker is idle without a pass.
Asked ==
    /\ ~wk.commanded /\ (wk.flatten \/ wk.closing) => dep.command = "flatten"
    /\ wk.pc = "idle" => ~wk.commanded /\ ~wk.closing /\ ~wk.flatten
    /\ wk.pc # "idle" => ~wk.maintained
    /\ wk.pc \notin Walking => wk.first = "none"

\* A position that is open when the book is settled is being flattened.
Ending ==
    wk.pc \in {"settle", "clear", "final"} \/ (wk.pc \in Walking /\ wk.then = "settle") =>
        pos.qty = 0 \/ wk.closing

\* The walk confirms every active order with the venue or records a fault, which
\* it drops only if no order is left unknown.
Seen == (\A o \in active_orders : row[o].known) \/ dep.detail # "none"
OnRecord(o) ==
    dep.detail # "none" /\ (row[o].status = "unknown" \/ wk.first # "none" \/ dep.detail # "read")
Tracks == dep.detail = IF wk.first = "none" THEN wk.began.detail ELSE wk.first
Noted ==
    /\ wk.pc \in Walking /\ ~wk.commanded => Tracks
    /\ wk.pc \in Walking /\ wk.then = "decide" /\ ~wk.commanded =>
         \A o \in active_orders : row[o].known \/ o \in wk.left \/ OnRecord(o)
    /\ wk.pc \in {"decide", "ensure", "protect"} /\ ~wk.commanded => Seen

PassOK == Asked /\ Ending /\ Noted

\* What PassProtects asks of a step.
Protected ==
    \/ \E o \in Orders : row[o].status \in Active /\ row[o].known
    \/ exit_fill_pending
    \/ dep.detail # "none"
Excused == wk.commanded \/ dep.command = "flatten"
Leaves == wk'.maintained /\ ~(wk.maintained \/ Excused) /\ pos'.qty > 0 => Protected'

\* A state of the pass that goes on from the current one.
Continues(w) ==
    /\ w \in Passes /\ w.pc # "idle" /\ ~w.maintained /\ w.commanded = wk.commanded
    /\ w.flatten => wk.flatten \/ dep.command = "flatten"
    /\ w.closing => wk.closing \/ wk.flatten
Follows(w) == Continues(w) /\ w.first = "none"

LEMMA FollowsSelf == Inv /\ PassOK /\ wk.pc \notin {"idle", "open", "walk"} => Follows(wk)
BY Typing DEF PassOK, Asked, Follows, Continues, Walking

LEMMA ContinuesSelf == Inv /\ PassOK /\ wk.pc \in {"open", "walk"} => Continues(wk)
BY Typing DEF PassOK, Asked, Continues

LEMMA FollowsTo ==
    ASSUME NEW w, Follows(w), NEW pc \in Steps \ {"idle"}
    PROVE  /\ Follows(To(w, pc)) /\ To(w, pc).pc = pc /\ To(w, pc).closing = w.closing
           /\ To(w, pc).then = w.then
BY DEF Follows, Continues, To, Passes

LEMMA FollowsWalkFrom ==
    ASSUME NEW w, Follows(w), NEW then \in Goals, NEW d \in Deps
    PROVE  /\ Follows(WalkFrom(w, then, d)) /\ WalkFrom(w, then, d).pc \in {"open", "walk"}
           /\ WalkFrom(w, then, d).then = then /\ WalkFrom(w, then, d).closing = w.closing
           /\ WalkFrom(w, then, d).began.detail = d.detail
<1>0. w \in Passes
  BY DEF Follows, Continues
<1>1. PICK x : x = WalkFrom(w, then, d)
  OBVIOUS
<1>2. /\ x \in Passes /\ x.pc \in {"open", "walk"} /\ x.then = then
  BY <1>0, <1>1, WalkStep DEF Walking
<1>3. /\ x.closing = w.closing /\ x.began = [status |-> d.status, detail |-> d.detail]
      /\ x.flatten = w.flatten /\ x.maintained = w.maintained /\ x.commanded = w.commanded
      /\ x.first = w.first
  BY <1>0, <1>1 DEF WalkFrom, Passes
<1>4. Follows(x) /\ x.began.detail = d.detail
  BY <1>2, <1>3 DEF Follows, Continues
<1> QED
  BY <1>1, <1>2, <1>3, <1>4

LEMMA FollowsWalk ==
    ASSUME Inv, NEW w, Follows(w), NEW then \in Goals
    PROVE  /\ Follows(Walk(w, then)) /\ Walk(w, then).pc \in {"open", "walk"}
           /\ Walk(w, then).then = then /\ Walk(w, then).closing = w.closing
           /\ Walk(w, then).began.detail = dep.detail
BY FollowsWalkFrom, Typing DEF Walk

LEMMA FollowsCanceling ==
    ASSUME NEW w, Follows(w), NEW pc \in {"cancel", "clear"}
    PROVE  /\ Follows(Canceling(w, pc)) /\ Canceling(w, pc).pc = pc
           /\ Canceling(w, pc).closing = w.closing
<1>1. Canceling(w, pc) \in Passes
  BY CancelingStep DEF Follows, Continues, Steps
<1> QED
  BY <1>1 DEF Follows, Continues, Canceling, Passes

LEMMA ContinuesFenced ==
    ASSUME Inv, Continues(wk), NEW n
    PROVE  Continues(Fenced(n)) /\ Fenced(n).pc = wk.pc /\ Fenced(n).closing = wk.closing
           /\ Fenced(n).then = wk.then /\ Fenced(n).left = wk.left
           /\ Fenced(n).began = wk.began /\ Fenced(n).first = wk.first
<1>1. Fenced(n) \in Passes
  BY FencedStep, Typing
<1>2. CASE n > 0
  BY <1>1, <1>2, Typing DEF Continues, Fenced, Passes
<1>3. CASE ~(n > 0)
  BY <1>1, <1>3 DEF Continues, Fenced
<1> QED
  BY <1>2, <1>3

LEMMA FollowsFenced ==
    ASSUME Inv, Follows(wk), NEW n
    PROVE  Follows(Fenced(n)) /\ Fenced(n).pc = wk.pc /\ Fenced(n).closing = wk.closing
BY ContinuesFenced DEF Follows

LEMMA FollowsClosing ==
    ASSUME Inv, Follows(wk), wk.flatten
    PROVE  Follows(Closing) /\ Closing.closing
BY Typing DEF Follows, Continues, Closing, Passes

LEMMA IdleFields ==
    /\ Idle.first = "none" /\ Maintained.first = "none" /\ Idle.pc = "idle" /\ ~Idle.commanded /\ ~Idle.closing /\ ~Idle.flatten /\ ~Idle.maintained
    /\ Maintained.pc = "idle" /\ ~Maintained.commanded /\ ~Maintained.closing
    /\ ~Maintained.flatten /\ Maintained.maintained
BY DEF Idle, Maintained

-----------------------------------------------------------------------------
\* Ways a step may end, each sufficient for the invariant and the property.
LEMMA GoesIdle ==
    ASSUME wk' = Idle
    PROVE  PassOK' /\ Leaves
BY IdleFields DEF PassOK, Asked, Ending, Noted, Leaves, Walking

LEMMA Completes ==
    ASSUME wk' = Maintained, ~Excused /\ pos'.qty > 0 => Protected'
    PROVE  PassOK' /\ Leaves
BY IdleFields DEF PassOK, Asked, Ending, Noted, Leaves, Walking

LEMMA AskedOn ==
    ASSUME PassOK, Continues(wk'), wk'.pc \in {"open", "walk"} \/ wk'.first = "none",
           dep'.command = dep.command
    PROVE  Asked' /\ Leaves
BY DEF PassOK, Asked, Continues, Leaves, Walking

LEMMA GoesOn ==
    ASSUME PassOK, Follows(wk'), dep'.command = dep.command,
           wk'.pc \notin {"settle", "clear", "final", "decide", "ensure", "protect"},
           wk'.pc \in {"open", "walk"} =>
               wk'.then \notin {"decide", "settle"} /\ wk'.began.detail = dep'.detail
    PROVE  PassOK' /\ Leaves
BY AskedOn DEF PassOK, Ending, Noted, Tracks, Walking, Follows

LEMMA GoesTo ==
    ASSUME PassOK, NEW w, Follows(w), dep'.command = dep.command,
           NEW pc \in {"replace", "resize", "exit", "answer", "reply", "apply"}, wk' = To(w, pc)
    PROVE  PassOK' /\ Leaves
<1>1. Follows(wk') /\ wk'.pc = pc
  BY FollowsTo DEF Steps
<1> QED
  BY <1>1, GoesOn

LEMMA GoesToSettle ==
    ASSUME PassOK, Follows(wk'), dep'.command = dep.command, pos'.qty = 0 \/ wk'.closing,
           \/ wk'.pc \in {"settle", "clear", "final"}
           \/ /\ wk'.pc \in {"open", "walk"} /\ wk'.then = "settle"
              /\ wk'.began.detail = dep'.detail
    PROVE  PassOK' /\ Leaves
BY AskedOn DEF PassOK, Ending, Noted, Tracks, Walking, Follows

LEMMA Finishes ==
    ASSUME PassOK, NEW w, Follows(w), wk' \in {Idle, Done(w)}, dep'.command = dep.command,
           wk' = Done(w) /\ ~Excused /\ pos'.qty > 0 => Protected'
    PROVE  PassOK' /\ Leaves
<1>1. CASE wk' = Idle
  BY <1>1, GoesIdle
<1>2. CASE wk' = Done(w) /\ w.closing
  <2>1. Follows(wk') /\ wk'.pc = "final" /\ wk'.closing
    BY <1>2, FollowsTo DEF Done, Steps
  <2> QED
    BY <2>1, GoesToSettle
<1>3. CASE wk' = Done(w) /\ ~w.closing
  BY <1>3, Completes DEF Done
<1> QED
  BY <1>1, <1>2, <1>3

\* What a save leaves of the command and the detail.
LEMMA SavedFields ==
    ASSUME Inv, NEW detail
    PROVE  /\ Pause(detail).command = dep.command /\ Pause(detail).detail = detail
           /\ [dep EXCEPT !.detail = detail].command = dep.command
           /\ [dep EXCEPT !.detail = detail].detail = detail
BY Typing DEF Pause, Deps

-----------------------------------------------------------------------------
LEMMA BeginPass == Inv /\ PassOK /\ Begin => PassOK' /\ Leaves
<1> SUFFICES ASSUME Inv, PassOK, Begin PROVE PassOK' /\ Leaves
  OBVIOUS
<1> DEFINE w == [Idle EXCEPT !.flatten = dep.command = "flatten"]
<1>1. (dep.command = "flatten") \in BOOLEAN
  OBVIOUS
<1>2. /\ w \in Passes /\ (w.flatten <=> dep.command = "flatten") /\ ~w.commanded /\ ~w.closing
      /\ ~w.maintained /\ w.first = "none"
  BY <1>1, Blank, IdleFields DEF Passes
<1>3. wk' = WalkFrom(w, "decide", dep) /\ UNCHANGED <<dep, pos, row>>
  BY DEF Begin, Walk
<1> HIDE DEF w
<1>4. /\ wk'.pc \in {"open", "walk"} /\ wk'.then = "decide" /\ wk'.left = Watched
  <2>1. w \in Passes /\ dep \in Deps /\ "decide" \in Goals
    BY <1>2, Typing DEF Goals
  <2>2. /\ WalkFrom(w, "decide", dep).pc \in Walking /\ WalkFrom(w, "decide", dep).then = "decide"
        /\ WalkFrom(w, "decide", dep).left = Watched
    BY <2>1, WalkStep
  <2> QED
    BY <1>3, <2>2 DEF Walking
<1>5. /\ wk'.flatten = w.flatten /\ ~wk'.commanded /\ ~wk'.closing /\ ~wk'.maintained
      /\ wk'.first = "none" /\ wk'.began = [status |-> dep.status, detail |-> dep.detail]
  BY <1>2, <1>3 DEF WalkFrom, Passes
<1>6. active_orders \subseteq Watched
  BY DEF Watched
<1>7. Asked' /\ Leaves
  BY <1>2, <1>3, <1>4, <1>5 DEF Asked, Leaves, Walking
<1>8. Ending'
  BY <1>4 DEF Ending
<1>9. Noted'
  <2>1. Tracks'
    BY <1>3, <1>5 DEF Tracks
  <2>2. \A o \in active_orders' : o \in wk'.left
    BY <1>3, <1>4, <1>6 DEF active_orders
  <2> QED
    BY <1>4, <2>1, <2>2 DEF Noted
<1> QED
  BY <1>7, <1>8, <1>9 DEF PassOK

\* Booking never adds to the position.
LEMMA BookedLess ==
    ASSUME Inv, NEW o \in Orders, Books(ven[o].listed - row[o].applied)
    PROVE  pos'.qty <= pos.qty /\ pos'.qty \in Nat
<1>1. row[o] \in Rows /\ ven[o] \in VenueOrders /\ OrderOK(o) /\ Typed
  BY DEF Inv, Typed
<1>2. PICK n \in Nat : n = ven[o].listed - row[o].applied
  BY <1>1, ProtectionAssumption DEF Rows, VenueOrders, OrderOK, Units
<1>3. pos' \in Positions /\ pos'.qty = IF n < pos.qty THEN pos.qty - n ELSE 0
  BY <1>1, <1>2, Booking
<1>4. pos.qty \in Nat
  BY <1>1 DEF Typed, Positions
<1> QED
  BY <1>2, <1>3, <1>4 DEF Positions

\* What a turn of the walk leaves on the deployment: the first new fault, or
\* what the walk began with.
LEMMA TurnKeeps ==
    ASSUME NEW w \in Passes, NEW d \in Deps, NEW faulty, Turn(w, d, faulty)
    PROVE  \/ wk' = Idle
           \/ \E f \in Details :
                /\ f = FirstFault(w, d) /\ wk' = [w EXCEPT !.first = f]
                /\ dep' = Retained(w, d, f) /\ dep'.command = d.command
                /\ dep'.detail = IF w.began.status = "running" /\ f = "none" THEN d.detail
                                 ELSE IF f = "none" THEN w.began.detail ELSE f
<1>1. PICK f \in Details : f = FirstFault(w, d)
  BY DEF FirstFault, Passes, Deps, Details
<1>2. PICK kept : kept = Retained(w, d, f)
  OBVIOUS
<1>3. \/ wk' = Idle
      \/ wk' = [w EXCEPT !.first = f] /\ dep' = kept
  BY <1>1, <1>2 DEF Turn, Save
<1>4. /\ kept.command = d.command
      /\ kept.detail = IF w.began.status = "running" /\ f = "none" THEN d.detail
                       ELSE IF f = "none" THEN w.began.detail ELSE f
  BY <1>2 DEF Retained, Deps
<1> QED
  BY <1>1, <1>2, <1>3, <1>4

\* A turn that leaves an order behind has confirmed it, has none, or saves a
\* fault for it.
Confirmed(o, d) ==
    \/ row'[o].known \/ row'[o].status = "none"
    \/ /\ d.status # "running" /\ d.detail # "none"
       /\ row'[o].status = "unknown" \/ d.detail # "read"

\* A step of the walk that leaves an order behind, if it is confirmed.
LEMMA WalkOn ==
    ASSUME Inv, PassOK, wk.pc \in {"open", "walk"},
           NEW w, Continues(w), w.pc = "walk", w.then = wk.then, w.closing = wk.closing,
           w.first = wk.first, w.began = wk.began,
           NEW d \in Deps, d.command = dep.command,
           d = dep \/ (d.status # "running" /\ d.detail # "none"),
           NEW faulty, Turn(w, d, faulty),
           pos'.qty \in Nat, pos'.qty <= pos.qty,
           \A x \in Orders : \/ Confirmed(x, d)
                             \/ row'[x] = row[x] /\ (x \in wk.left => x \in w.left)
    PROVE  PassOK' /\ Leaves
<1>0. w \in Passes
  BY DEF Continues
<1>1. CASE wk' = Idle
  BY <1>1, GoesIdle
<1>2. ASSUME NEW f \in Details,
             f = FirstFault(w, d), wk' = [w EXCEPT !.first = f], dep'.command = d.command,
             dep'.detail = IF w.began.status = "running" /\ f = "none" THEN d.detail
                           ELSE IF f = "none" THEN w.began.detail ELSE f
      PROVE  PassOK' /\ Leaves
  <2>1. /\ wk' \in Passes /\ wk'.pc = "walk" /\ wk'.then = wk.then /\ wk'.closing = wk.closing
        /\ wk'.first = f /\ wk'.began = wk.began /\ wk'.left = w.left
        /\ wk'.flatten = w.flatten /\ wk'.maintained = w.maintained /\ wk'.commanded = w.commanded
    BY <1>0, <1>2 DEF Passes
  <2>2. Continues(wk')
    BY <2>1 DEF Continues
  <2>3. Asked' /\ Leaves
    BY <1>2, <2>1, <2>2, AskedOn
  <2>4. Ending'
    <3>1. wk.then = "settle" => pos.qty = 0 \/ wk.closing
      BY DEF PassOK, Ending, Walking
    <3>2. pos.qty \in Nat
      BY Typing DEF Positions
    <3> QED
      BY <2>1, <3>1, <3>2 DEF Ending
  <2>5. ASSUME ~wk.commanded
        PROVE  /\ Tracks'
               /\ f = "none" => /\ wk.first = "none" /\ dep'.detail = dep.detail
                                /\ d.status = "running" \/ d.detail = dep.detail
               /\ f # "none" => dep'.detail = f
    <3>1. dep.detail = IF wk.first = "none" THEN wk.began.detail ELSE wk.first
      BY <2>5 DEF PassOK, Noted, Walking, Tracks
    <3>2. CASE f = "none"
      <4>1. wk.first = "none" /\ (d.status = "running" \/ d.detail = dep.detail)
        BY <1>2, <3>2 DEF FirstFault
      <4>2. d.detail = dep.detail /\ dep.detail = wk.began.detail
        BY <3>1, <4>1
      <4> QED
        BY <1>2, <2>1, <3>2, <4>1, <4>2 DEF Tracks
    <3>3. CASE f # "none"
      BY <1>2, <2>1, <3>3 DEF Tracks
    <3> QED
      BY <3>2, <3>3
  <2>6. Noted'
    <3>1. ASSUME wk.then = "decide", ~wk.commanded, NEW x \in Orders, row'[x].status \in Active
          PROVE  row'[x].known \/ x \in wk'.left \/ OnRecord(x)'
      <4>1. CASE f # "none"
        BY <2>1, <2>5, <3>1, <4>1 DEF OnRecord
      <4>2. CASE f = "none" /\ Confirmed(x, d)
        <5>1. \/ row'[x].known
              \/ /\ d.status # "running" /\ d.detail # "none"
                 /\ row'[x].status = "unknown" \/ d.detail # "read"
          BY <3>1, <4>2 DEF Confirmed, Active
        <5> QED
          BY <2>5, <3>1, <4>2, <5>1 DEF OnRecord
      <4>3. CASE f = "none" /\ row'[x] = row[x] /\ (x \in wk.left => x \in w.left)
        <5>1. row[x].known \/ x \in wk.left \/ OnRecord(x)
          BY <3>1, <4>3 DEF PassOK, Noted, Walking, active_orders
        <5> QED
          BY <2>1, <2>5, <3>1, <4>3, <5>1 DEF OnRecord
      <4> QED
        BY <4>1, <4>2, <4>3
    <3> QED
      BY <2>1, <2>2, <2>5, <3>1 DEF Noted, active_orders, Continues
  <2> QED
    BY <2>3, <2>4, <2>6 DEF PassOK
<1> QED
  BY <1>0, <1>1, <1>2, TurnKeeps

\* The deployments a turn may save.
LEMMA TurnSaves ==
    ASSUME Inv
    PROVE  /\ \A detail : Pause(detail).status # "running" /\ Pause(detail).command = dep.command
           /\ \A n : Overdrawn(n).command = dep.command
                     /\ (Overdrawn(n) = dep \/ Overdrawn(n).detail # "none")
                     /\ (Overdrawn(n) = dep \/ Overdrawn(n).status # "running")
<1>1. ASSUME NEW detail PROVE /\ Pause(detail).status # "running" /\ Pause(detail).detail = detail
                              /\ Pause(detail).command = dep.command
  BY Typing DEF Pause, Deps
<1> QED
  BY <1>1 DEF Overdrawn

LEMMA OpenWalkPass == Inv /\ PassOK /\ OpenWalk => PassOK' /\ Leaves
<1> SUFFICES ASSUME Inv, PassOK, OpenWalk PROVE PassOK' /\ Leaves
  OBVIOUS
<1>1. wk.pc = "open" /\ Continues(wk) /\ UNCHANGED <<pos, row>>
  BY ContinuesSelf DEF OpenWalk, At
<1>2. PICK w : w = To(wk, "walk")
  OBVIOUS
<1>3. /\ Continues(w) /\ w.pc = "walk" /\ w.then = wk.then /\ w.closing = wk.closing
      /\ w.first = wk.first /\ w.began = wk.began /\ w.left = wk.left
  BY <1>1, <1>2 DEF To, Continues, Passes, Steps
<1>4. PICK d \in Deps : d = Pause("over")
  BY Typing, SavedDep DEF Details
<1>5. d.command = dep.command /\ d.status # "running" /\ d.detail # "none" /\ Turn(w, d, TRUE)
  BY <1>2, <1>4, TurnSaves, SavedFields DEF OpenWalk
<1>6. pos'.qty \in Nat /\ pos'.qty <= pos.qty
  BY <1>1, Typing DEF Positions
<1> QED
  BY <1>1, <1>3, <1>5, <1>6, WalkOn

LEMMA ReadOrderPass == Inv /\ PassOK /\ ReadOrder => PassOK' /\ Leaves
<1> SUFFICES ASSUME Inv, PassOK, ReadOrder PROVE PassOK' /\ Leaves
  OBVIOUS
<1>1. wk.left \in SUBSET Orders /\ wk.left # {} /\ wk.pc = "walk" /\ Continues(wk)
  BY Typing, ContinuesSelf DEF Passes, ReadOrder, At
<1>2. PICK o \in wk.left : o = First(wk.left)
  BY <1>1, FirstIn
<1>3. o \in Orders /\ ven[o].state # "none"
  BY <1>1, <1>2 DEF ReadOrder
<1>4. PICK r \in Rows : r = Read(o)
  BY <1>3, ReadRow
<1>5. /\ r.known /\ Claims(o, r)
  <2>1. /\ r.known /\ ven[o].shown <= r.filled /\ r.filled <= ven[o].done /\ r.applied = ven[o].listed
    BY <1>3, <1>4, ReadRow
  <2>2. row[o] \in Rows /\ ven[o] \in VenueOrders /\ OrderOK(o)
    BY <1>3 DEF Inv, Typed
  <2> QED
    BY <2>1, <2>2, ProtectionAssumption DEF Claims, OrderOK, Rows, VenueOrders, Units
<1> DEFINE n == ven[o].listed - row[o].applied
           w == [Fenced(n) EXCEPT !.left = @ \ {o}]
<1>6. /\ Kept(o, r) /\ Books(n)
      /\ Turn(w, IF Booked(r) THEN Overdrawn(n) ELSE Pause("position"), ~Booked(r))
  BY <1>2, <1>4 DEF ReadOrder
<1>7. \A x \in Orders \ {o} : row'[x] = row[x] \/ row'[x].known
  <2>1. PastRow(o, r).known
    BY <1>3, <1>5, Joined
  <2> QED
    BY <1>3, <1>5, <1>6, <2>1, KeptRow
<1>8. row'[o].known \/ row'[o].status = "none"
  <2>1. PastRow(o, r).known /\ NoRow.status = "none"
    BY <1>3, <1>5, Joined DEF NoRow
  <2> QED
    BY <1>3, <1>5, <1>6, <2>1, KeptRow
<1>9. pos'.qty <= pos.qty /\ pos'.qty \in Nat
  BY <1>3, <1>6, BookedLess
<1>10. /\ Continues(w) /\ w.pc = "walk" /\ w.then = wk.then /\ w.left = wk.left \ {o}
       /\ w.closing = wk.closing /\ w.first = wk.first /\ w.began = wk.began
  <2>1. PICK x : x = Fenced(n)
    OBVIOUS
  <2>2. /\ Continues(x) /\ x.pc = wk.pc /\ x.closing = wk.closing
        /\ x.then = wk.then /\ x.left = wk.left /\ x.began = wk.began /\ x.first = wk.first
    BY <1>1, <2>1, ContinuesFenced
  <2>3. w = [x EXCEPT !.left = @ \ {o}]
    BY <2>1
  <2> HIDE DEF w
  <2> QED
    BY <1>1, <2>2, <2>3 DEF Continues, Passes
<1>11. PICK d \in Deps : d = IF Booked(r) THEN Overdrawn(n) ELSE Pause("position")
  BY Typing, SavedDep, FaultDep DEF Details
<1> HIDE DEF w, n
<1>12. d.command = dep.command /\ (d = dep \/ (d.status # "running" /\ d.detail # "none"))
       /\ Turn(w, d, ~Booked(r))
  <2>1. Pause("position").command = dep.command /\ Pause("position").status # "running"
        /\ Pause("position").detail = "position"
    BY TurnSaves, SavedFields
  <2>2. Overdrawn(n).command = dep.command
        /\ (Overdrawn(n) = dep \/ (Overdrawn(n).status # "running" /\ Overdrawn(n).detail # "none"))
    BY TurnSaves, SavedFields DEF Overdrawn
  <2> QED
    BY <1>6, <1>11, <2>1, <2>2
<1>13. \A x \in Orders : \/ Confirmed(x, d)
                         \/ row'[x] = row[x] /\ (x \in wk.left => x \in w.left)
  BY <1>7, <1>8, <1>10 DEF Confirmed
<1> QED
  BY <1>1, <1>9, <1>10, <1>12, <1>13, WalkOn

LEMMA ReadFailsPass == Inv /\ PassOK /\ (ReadFails \/ NotFound) => PassOK' /\ Leaves
<1> SUFFICES ASSUME Inv, PassOK, ReadFails \/ NotFound PROVE PassOK' /\ Leaves
  OBVIOUS
<1>1. wk.left \in SUBSET Orders /\ wk.left # {} /\ wk.pc = "walk" /\ Continues(wk) /\ pos' = pos
  BY Typing, ContinuesSelf DEF Passes, ReadFails, NotFound, At
<1>2. PICK o \in wk.left : o = First(wk.left)
  BY <1>1, FirstIn
<1>3. o \in Orders
  BY <1>1, <1>2
<1>4. PICK w : w = [wk EXCEPT !.left = @ \ {o}]
  OBVIOUS
<1>5. /\ Continues(w) /\ w.pc = "walk" /\ w.then = wk.then /\ w.left = wk.left \ {o}
      /\ w.closing = wk.closing /\ w.first = wk.first /\ w.began = wk.began
  BY <1>1, <1>4 DEF Continues, Passes
<1>6. PICK detail \in {"read", "unconfirmed"} :
         /\ Turn(w, Pause(detail), TRUE)
         /\ detail = "read" => row'[o].status = "unknown"
  <2>1. CASE ReadFails
    <3>1. row[o] \in Rows /\ row' = [row EXCEPT ![o].status = "unknown"]
      BY <1>2, <1>3, <2>1, Typing DEF ReadFails, Typed
    <3>2. row'[o].status = "unknown"
      BY <1>3, <3>1, Typing DEF Typed, Rows
    <3>3. Turn(w, Pause("read"), TRUE)
      BY <1>2, <1>4, <2>1 DEF ReadFails
    <3> QED
      BY <3>2, <3>3
  <2>2. CASE NotFound
    <3>1. Turn(w, Pause("unconfirmed"), TRUE)
      BY <1>2, <1>4, <2>2 DEF NotFound
    <3> QED
      BY <3>1
  <2> QED
    BY <2>1, <2>2
<1>7. PICK d \in Deps : d = Pause(detail)
  BY Typing, SavedDep DEF Details
<1>8. /\ d.command = dep.command /\ d.status # "running" /\ d.detail = detail /\ Turn(w, d, TRUE)
  BY <1>6, <1>7, TurnSaves, SavedFields
<1>9. \A x \in Orders \ {o} : row'[x] = row[x]
  BY <1>2, <1>3, Typing DEF ReadFails, NotFound, Typed
<1>10. \A x \in Orders : \/ Confirmed(x, d)
                         \/ row'[x] = row[x] /\ (x \in wk.left => x \in w.left)
  BY <1>5, <1>6, <1>8, <1>9 DEF Confirmed
<1>11. pos'.qty \in Nat /\ pos'.qty <= pos.qty
  BY <1>1, Typing DEF Positions
<1> QED
  BY <1>1, <1>5, <1>8, <1>10, <1>11, WalkOn

LEMMA EndWalkPass == Inv /\ PassOK /\ EndWalk => PassOK' /\ Leaves
<1> SUFFICES ASSUME Inv, PassOK, EndWalk PROVE PassOK' /\ Leaves
  OBVIOUS
<1> DEFINE w == [wk EXCEPT !.pc = wk.then, !.then = "idle", !.began = NotBegun, !.first = "none",
                           !.flatten = dep.command = "flatten"]
<1>1. /\ wk.then \in Goals /\ wk.pc = "walk" /\ wk.left = {} /\ Continues(wk)
      /\ UNCHANGED <<pos, row>> /\ wk \in Passes
  BY ContinuesSelf, Typing DEF Inv, WorkerOK, EndWalk, At, Walking
<1>2. (dep.command = "flatten") \in BOOLEAN /\ NotBegun \in [status : BookStates, detail : Details]
  BY DEF NotBegun, BookStates, Details
<1>3. Follows(w) /\ w.pc = wk.then /\ w.closing = wk.closing /\ w.commanded = wk.commanded
  BY <1>1, <1>2 DEF Follows, Continues, Passes, Goals, Steps, Details
<1> HIDE DEF w
<1>4. PICK kept \in Deps : kept = Retained(wk, dep, wk.first)
  BY <1>1, Typing, KeptDep DEF Passes
<1>5. /\ kept.command = dep.command
      /\ ~wk.commanded => kept.detail = dep.detail
  <2>1. /\ kept.command = dep.command
        /\ kept.detail = IF wk.began.status = "running" /\ wk.first = "none" THEN dep.detail
                         ELSE IF wk.first = "none" THEN wk.began.detail ELSE wk.first
    BY <1>4, Typing DEF Retained, Deps
  <2>2. ~wk.commanded => dep.detail = IF wk.first = "none" THEN wk.began.detail ELSE wk.first
    BY <1>1 DEF PassOK, Noted, Tracks, Walking
  <2> QED
    BY <2>1, <2>2
<1>6. \/ wk' = Idle
      \/ wk' = w /\ dep' = kept
      \/ wk' = w /\ dep' = [dep EXCEPT !.detail = "none"] /\ Disproved
  BY <1>4 DEF EndWalk, Save, w
<1>7. wk' = Idle \/ dep'.command = dep.command
  BY <1>5, <1>6, SavedFields
<1>8. CASE wk' = Idle
  BY <1>8, GoesIdle
<1>9. CASE wk' = w /\ wk.then = "settle"
  <2>1. pos'.qty = 0 \/ wk'.closing
    BY <1>1, <1>3, <1>9 DEF PassOK, Ending, Walking
  <2>2. dep'.command = dep.command
    BY <1>3, <1>7, <1>9, IdleFields DEF Follows, Continues
  <2> QED
    BY <1>3, <1>9, <2>1, <2>2, GoesToSettle
<1>10. CASE wk' = w /\ wk.then = "decide"
  <2>1. dep'.command = dep.command /\ wk' # Idle
    BY <1>3, <1>7, <1>10, IdleFields DEF Follows, Continues
  <2>2. Asked' /\ Leaves
    BY <1>3, <1>10, <2>1, AskedOn DEF Follows
  <2>3. Ending'
    BY <1>3, <1>10 DEF Ending, Walking
  <2>4. ASSUME ~wk.commanded PROVE Seen'
    <3>1. \A o \in active_orders : row[o].known \/ OnRecord(o)
      BY <1>1, <1>10, <2>4 DEF PassOK, Noted, Walking
    <3>2. CASE dep' = kept
      BY <1>1, <1>5, <2>4, <3>1, <3>2 DEF Seen, active_orders, OnRecord
    <3>3. CASE Disproved
      <4>1. \A o \in active_orders : ~OnRecord(o)
        BY <3>3 DEF Disproved, OnRecord, active_orders
      <4> QED
        BY <1>1, <3>1, <4>1 DEF Seen, active_orders
    <3> QED
      BY <1>6, <2>1, <3>2, <3>3
  <2>5. Noted'
    BY <1>3, <1>10, <2>4 DEF Noted, Walking
  <2> QED
    BY <2>2, <2>3, <2>5 DEF PassOK
<1>11. CASE wk' = w /\ wk.then \notin {"settle", "decide"}
  <2>1. dep'.command = dep.command
    BY <1>3, <1>7, <1>11, IdleFields DEF Follows, Continues
  <2> QED
    BY <1>1, <1>3, <1>11, <2>1, GoesOn DEF Goals
<1> QED
  BY <1>6, <1>8, <1>9, <1>10, <1>11

LEMMA FlattenPass ==
    Inv /\ PassOK /\ (FlattenIdle \/ FlattenRemainders \/ FlattenPosition) => PassOK' /\ Leaves
<1> SUFFICES ASSUME Inv, PassOK, FlattenIdle \/ FlattenRemainders \/ FlattenPosition
             PROVE  PassOK' /\ Leaves
  OBVIOUS
<1>1. wk.pc = "decide" /\ wk.flatten /\ dep' = dep
  BY DEF FlattenIdle, FlattenRemainders, FlattenPosition, At, Flattening
<1>2. Follows(Closing) /\ Closing.closing
  BY <1>1, FollowsSelf, FollowsClosing
<1>3. CASE FlattenIdle
  <2>1. wk' = To(Closing, "final")
    BY <1>2, <1>3 DEF FlattenIdle, Done
  <2> QED
    BY <1>1, <1>2, <2>1, FollowsTo, GoesToSettle DEF Steps
<1>4. CASE FlattenRemainders
  BY <1>1, <1>2, <1>4, FollowsCanceling, GoesToSettle DEF FlattenRemainders
<1>5. CASE FlattenPosition
  BY <1>1, <1>2, <1>5, FollowsWalk, GoesOn DEF FlattenPosition, Goals
<1> QED
  BY <1>3, <1>4, <1>5

LEMMA NoPricePass == Inv /\ PassOK /\ NoPrice => PassOK' /\ Leaves
<1> SUFFICES ASSUME Inv, PassOK, NoPrice PROVE PassOK' /\ Leaves
  OBVIOUS
<1>1. wk.pc = "decide" /\ dep' = dep
  BY DEF NoPrice, At
<1>2. CASE Flattening
  <2>1. Follows(Closing) /\ wk' = Walk(Closing, "note")
    BY <1>1, <1>2, FollowsSelf, FollowsClosing DEF NoPrice, Flattening
  <2> QED
    BY <1>1, <2>1, FollowsWalk, GoesOn DEF Goals
<1>3. CASE ~Flattening
  BY <1>3, GoesIdle DEF NoPrice
<1> QED
  BY <1>2, <1>3

LEMMA NotePass == Inv /\ PassOK /\ Note => PassOK' /\ Leaves
<1> SUFFICES ASSUME Inv, PassOK, Note PROVE PassOK' /\ Leaves
  OBVIOUS
<1>1. Follows(wk)
  BY FollowsSelf DEF Note, At
<1>2. /\ wk' \in {Idle, Done(wk)} /\ dep'.command = dep.command
      /\ wk' = Idle \/ dep'.detail # "none"
  BY SavedFields DEF Note, Save
<1>3. wk' = Done(wk) /\ wk' # Idle => Protected'
  BY <1>2 DEF Protected
<1>4. CASE wk' = Idle
  BY <1>4, GoesIdle
<1>5. CASE wk' # Idle
  BY <1>1, <1>2, <1>3, <1>5, Finishes
<1> QED
  BY <1>4, <1>5

LEMMA FinishesWith ==
    ASSUME PassOK, NEW w, Follows(w), dep'.command = dep.command,
           \/ wk' = Idle
           \/ wk' = Done(w) /\ (~Excused /\ pos'.qty > 0 => Protected')
    PROVE  PassOK' /\ Leaves
BY GoesIdle, Finishes

\* A pass that ends with a fault records it, or its save is refused.
LEMMA FaultedPass ==
    ASSUME Inv, PassOK, NEW w, Follows(w), NEW now, NEW detail, detail # "none",
           Save(now, Pause(detail), Done(w))
    PROVE  PassOK' /\ Leaves
<1>1. CASE now.stale
  BY <1>1, GoesIdle DEF Save
<1>2. CASE ~now.stale
  <2>1. dep' = Pause(detail) /\ wk' = Done(w)
    BY <1>2 DEF Save
  <2>2. dep'.command = dep.command /\ Protected'
    BY <2>1, SavedFields DEF Protected
  <2> QED
    BY <2>1, <2>2, FinishesWith
<1> QED
  BY <1>1, <1>2

\* A pass that is not excused does not flatten.
LEMMA NotExcused == PassOK /\ ~Excused => ~wk.flatten /\ ~wk.closing
BY DEF PassOK, Asked, Excused

LEMMA PendingProtects ==
    ASSUME Inv, NEW o \in active_orders, cancel_pending(o)
    PROVE  Protected
<1>1. o \in Orders /\ row[o].status \in Active /\ OrderOK(o) /\ row[o].pending
  BY DEF active_orders, Inv, cancel_pending
<1> QED
  BY <1>1 DEF OrderOK, Protected

\* The pass goes on to protect, or has a position to exit.
LEMMA ManagedPass ==
    ASSUME Inv, PassOK, wk.pc = "decide", UNCHANGED <<dep, row>>,
           wk' \in {Walk(wk, "adopt"), To(wk, "ensure")}
    PROVE  PassOK' /\ Leaves
<1>1. Follows(wk)
  BY FollowsSelf
<1>2. CASE wk' = Walk(wk, "adopt")
  BY <1>1, <1>2, FollowsWalk, GoesOn DEF Goals
<1>3. CASE wk' = To(wk, "ensure")
  <2>1. Follows(wk') /\ wk'.pc = "ensure"
    BY <1>1, <1>3, FollowsTo DEF Steps
  <2>2. Asked' /\ Leaves
    BY <2>1, AskedOn DEF Follows
  <2>3. ~wk.commanded => Seen'
    BY DEF PassOK, Noted, Seen, active_orders
  <2>4. Ending' /\ Noted'
    BY <2>1, <2>3 DEF Ending, Noted, Follows, Continues, Walking
  <2> QED
    BY <2>2, <2>4 DEF PassOK
<1> QED
  BY <1>2, <1>3

LEMMA ManagePass == Inv /\ PassOK /\ Manage => PassOK' /\ Leaves
<1> SUFFICES ASSUME Inv, PassOK, Manage PROVE PassOK' /\ Leaves
  OBVIOUS
<1>1. wk.pc = "decide" /\ UNCHANGED <<dep, pos, row>>
  BY DEF Manage, At
<1>2. CASE pos.qty = 0
  <2>1. Follows(wk') /\ wk'.pc = "settle"
    BY <1>1, <1>2, FollowsSelf, FollowsTo DEF Manage, Steps
  <2> QED
    BY <1>1, <1>2, <2>1, GoesToSettle
<1>3. CASE pos.qty # 0
  BY <1>1, <1>3, ManagedPass DEF Manage, Managed
<1> QED
  BY <1>2, <1>3

LEMMA NewBarPass == Inv /\ PassOK /\ NewBar => PassOK' /\ Leaves
<1> SUFFICES ASSUME Inv, PassOK, NewBar PROVE PassOK' /\ Leaves
  OBVIOUS
<1>1. wk.pc = "decide" /\ UNCHANGED <<dep, row>>
  BY DEF NewBar, At
<1>2. CASE wk' = Idle
  BY <1>2, GoesIdle
<1>3. CASE wk' = Managed(pos')
  BY <1>1, <1>3, ManagedPass DEF Managed
<1> QED
  BY <1>2, <1>3 DEF NewBar

\* After adoption the pass protects or exits; an order it then has not
\* confirmed is on record as a fault.
LEMMA AdoptedPass ==
    ASSUME Inv, PassOK, wk.pc \in {"ensure", "adopt"}, NEW w, Follows(w),
           wk' = AfterAdopt(w), dep'.command = dep.command,
           (Seen => Seen') \/ dep'.detail # "none"
    PROVE  PassOK' /\ Leaves
<1>1. CASE wk.pc = "adopt"
  <2>1. wk' = To(w, "exit")
    BY <1>1 DEF AfterAdopt
  <2> QED
    BY <2>1, GoesTo
<1>2. CASE wk.pc = "ensure"
  <2>1. Follows(wk') /\ wk'.pc = "protect"
    BY <1>2, FollowsTo DEF AfterAdopt, Steps
  <2>2. Asked' /\ Leaves
    BY <2>1, AskedOn DEF Follows
  <2>3. ~wk.commanded => Seen'
    BY <1>2 DEF PassOK, Noted, Seen
  <2>4. Ending' /\ Noted'
    BY <2>1, <2>3 DEF Ending, Noted, Follows, Continues, Walking
  <2> QED
    BY <2>2, <2>4 DEF PassOK
<1> QED
  BY <1>1, <1>2

LEMMA AdoptPass ==
    Inv /\ PassOK /\ (ChildNotSeen \/ AdoptChild \/ AdoptUnread) => PassOK' /\ Leaves
<1> SUFFICES ASSUME Inv, PassOK, ChildNotSeen \/ AdoptChild \/ AdoptUnread PROVE PassOK' /\ Leaves
  OBVIOUS
<1>1. wk.pc \in {"ensure", "adopt"}
  BY DEF ChildNotSeen, AdoptChild, AdoptUnread
<1>2. Follows(wk)
  BY <1>1, FollowsSelf
<1>3. CASE ChildNotSeen
  <2>1. UNCHANGED <<dep, row>> /\ wk' = AfterAdopt(wk)
    BY <1>3 DEF ChildNotSeen
  <2>2. Seen => Seen'
    BY <2>1 DEF Seen, active_orders
  <2> QED
    BY <1>1, <1>2, <2>1, <2>2, AdoptedPass
<1>4. CASE AdoptChild
  <2> DEFINE n == ven["child"].listed
             read == [Imported EXCEPT !.status = ven["child"].state, !.filled = ven["child"].shown,
                                      !.applied = n]
  <2>1. Unadopted /\ "child" \in Orders /\ ven["child"] \in VenueOrders /\ OrderOK("child")
    BY <1>4, Typing DEF AdoptChild, Orders, Typed, Inv
  <2>2. /\ read \in Rows /\ read.known /\ read.filled = ven["child"].shown
        /\ read.applied = ven["child"].listed
    BY <2>1, ImportedRow DEF Rows, VenueOrders, Statuses, Active
  <2>3. Kept("child", read)
    BY <1>4 DEF AdoptChild
  <2>4. Follows(Fenced(n))
    BY <1>2, FollowsFenced
  <2>5. \/ wk' = Idle
        \/ wk' = AfterAdopt(Fenced(n)) /\ dep' \in {Overdrawn(n), Pause("position")}
    BY <1>4 DEF AdoptChild, Save
  <2> HIDE DEF n, read
  <2>6. \A x \in Orders : row'[x] \in {row[x], NoRow} \/ row'[x].known
    <3>1. Claims("child", read)
      BY <2>1, <2>2, ImportedRow, ProtectionAssumption DEF Claims, OrderOK, VenueOrders, Units
    <3>2. PastRow("child", read).known
      BY <2>1, <2>2, <3>1, Joined
    <3> QED
      BY <2>1, <2>2, <2>3, <3>1, <3>2, KeptRow
  <2>7. CASE wk' = Idle
    BY <2>7, GoesIdle
  <2>8. CASE wk' = AfterAdopt(Fenced(n)) /\ dep' \in {Overdrawn(n), Pause("position")}
    <3>1. dep'.command = dep.command /\ (dep' = dep \/ dep'.detail # "none")
      BY <2>8, SavedFields DEF Overdrawn
    <3>2. dep' = dep /\ Seen => Seen'
      <4>1. NoRow.status = "none"
        BY DEF NoRow
      <4> QED
        BY <2>6, <4>1 DEF Seen, active_orders, Active
    <3> QED
      BY <1>1, <2>4, <2>8, <3>1, <3>2, AdoptedPass
  <2> QED
    BY <2>5, <2>7, <2>8
<1>5. CASE AdoptUnread
  <2>1. wk' = Idle \/ (wk' = AfterAdopt(wk) /\ dep' = Pause("read"))
    BY <1>5 DEF AdoptUnread, Save
  <2> QED
    BY <1>1, <1>2, <2>1, GoesIdle, SavedFields, AdoptedPass
<1> QED
  BY <1>3, <1>4, <1>5

\* A submit that is held back is on record; one that is made goes to the venue.
LEMMA SubmitPass ==
    ASSUME Inv, PassOK, Follows(wk), NEW o \in Submits, Submit(o)
    PROVE  PassOK' /\ Leaves
<1>1. CASE rejection_latched(o)
  BY <1>1, FaultedPass DEF Submit, SaveOnly
<1>2. CASE ~rejection_latched(o)
  <2>1. wk' = [wk EXCEPT !.pc = "placing", !.then = o] /\ dep' = dep
    BY <1>2 DEF Submit
  <2>2. Follows(wk') /\ wk'.pc = "placing"
    BY <2>1 DEF Follows, Continues, Passes, Steps, Submits, Orders
  <2> QED
    BY <2>1, <2>2, GoesOn
<1> QED
  BY <1>1, <1>2

LEMMA ProtectPass == Inv /\ PassOK /\ Protect => PassOK' /\ Leaves
<1> SUFFICES ASSUME Inv, PassOK, Protect PROVE PassOK' /\ Leaves
  OBVIOUS
<1>1. wk.pc = "protect" /\ Follows(wk) /\ pos' = pos
  BY FollowsSelf DEF Protect, At
<1>2. pos.qty = 0 \/ pos.qty > 0
  BY Typing DEF Positions
<1>0. Covered => active_orders # {}
  BY DEF Covered, AttachedEntryCovers, active_orders, Orders
<1>3. \/ SaveOnly(PauseOnFault, Done(wk))
      \/ pos.qty = 0 /\ Go(To(wk, "settle"))
      \/ active_orders # {} /\ SaveOnly(dep, Done(wk))
      \/ wk.flatten /\ Go(Done(wk))
      \/ Go(To(wk, "replace"))
      \/ Submit("bracket")
  BY <1>0, <1>2 DEF Protect
<1>4. CASE SaveOnly(PauseOnFault, Done(wk))
  BY <1>1, <1>4, FaultedPass DEF SaveOnly, PauseOnFault
<1>5. CASE pos.qty = 0 /\ Go(To(wk, "settle"))
  BY <1>1, <1>5, FollowsTo, GoesToSettle DEF Go, Steps
<1>6. CASE active_orders # {} /\ SaveOnly(dep, Done(wk))
  <2>1. UNCHANGED <<dep, row>> /\ wk' \in {Idle, Done(wk)}
    BY <1>6 DEF SaveOnly, Save
  <2>2. PICK o \in active_orders : TRUE
    BY <1>6
  <2>3. ~Excused => Protected
    <3> SUFFICES ASSUME ~wk.commanded PROVE Protected
      BY DEF Excused
    <3>1. Seen
      BY <1>1 DEF PassOK, Noted
    <3> QED
      BY <2>2, <3>1 DEF Seen, Protected, active_orders
  <2>4. ~Excused => Protected'
    BY <2>1, <2>3 DEF Protected, exit_fill_pending
  <2> QED
    BY <1>1, <2>1, <2>4, FinishesWith
<1>7. CASE wk.flatten /\ Go(Done(wk))
  BY <1>1, <1>7, NotExcused, FinishesWith DEF Go
<1>8. CASE Go(To(wk, "replace"))
  BY <1>1, <1>8, GoesTo DEF Go
<1>9. CASE Submit("bracket")
  BY <1>1, <1>9, SubmitPass DEF Submits
<1> QED
  BY <1>3, <1>4, <1>5, <1>6, <1>7, <1>8, <1>9

LEMMA ReplacePass ==
    Inv /\ PassOK /\ (CancelProtection \/ AfterCancel \/ Resized) => PassOK' /\ Leaves
<1> SUFFICES ASSUME Inv, PassOK, CancelProtection \/ AfterCancel \/ Resized PROVE PassOK' /\ Leaves
  OBVIOUS
<1>1. Follows(wk)
  BY FollowsSelf DEF CancelProtection, AfterCancel, Resized, At
<1>2. CASE CancelProtection
  BY <1>1, <1>2, GoesTo DEF CancelProtection
<1>3. CASE AfterCancel
  <2>1. CASE active_orders = {}
    BY <1>1, <1>3, <2>1, FollowsWalk, GoesOn DEF AfterCancel, Goals
  <2>2. CASE active_orders # {} /\ cancel_pending(First(active_orders))
    <3>1. dep' = dep /\ row' = row /\ wk' = Done(wk)
      BY <1>3, <2>2 DEF AfterCancel
    <3>2. First(active_orders) \in active_orders
      BY <2>2, FirstIn DEF active_orders
    <3>3. Protected
      BY <2>2, <3>2, PendingProtects
    <3>4. Protected'
      BY <3>1, <3>3 DEF Protected, exit_fill_pending
    <3> QED
      BY <1>1, <3>1, <3>4, FinishesWith
  <2>3. CASE active_orders # {} /\ ~cancel_pending(First(active_orders))
    BY <1>1, <1>3, <2>3, FaultedPass DEF AfterCancel
  <2> QED
    BY <2>1, <2>2, <2>3
<1>4. CASE Resized
  <2>1. CASE EconomicsFault
    BY <1>1, <1>4, <2>1, FaultedPass DEF Resized, SaveOnly, PauseOnFault
  <2>2. CASE ~EconomicsFault /\ pos.qty = 0
    BY <1>1, <1>4, <2>2, FollowsTo, GoesToSettle DEF Resized, Go, Steps
  <2>3. CASE ~EconomicsFault /\ pos.qty # 0
    BY <1>1, <1>4, <2>3, SubmitPass DEF Resized, Submits
  <2> QED
    BY <2>1, <2>2, <2>3
<1> QED
  BY <1>2, <1>3, <1>4

LEMMA ExitPass ==
    Inv /\ PassOK /\ (BeginExit \/ CancelResting \/ Canceled) => PassOK' /\ Leaves
<1> SUFFICES ASSUME Inv, PassOK, BeginExit \/ CancelResting \/ Canceled PROVE PassOK' /\ Leaves
  OBVIOUS
<1>1. Follows(wk)
  BY FollowsSelf DEF BeginExit, CancelResting, Canceled, At
<1>2. CASE BeginExit
  <2>1. CASE exit_fill_pending
    BY <1>1, <1>2, <2>1, GoesTo DEF BeginExit
  <2>2. CASE ~exit_fill_pending /\ EconomicsFault
    BY <1>1, <1>2, <2>2, FaultedPass DEF BeginExit, PauseOnFault
  <2>3. CASE ~exit_fill_pending /\ ~EconomicsFault
    <3>1. Follows(wk') /\ wk'.pc = "cancel" /\ dep' = dep
      BY <1>1, <1>2, <2>3, FollowsCanceling DEF BeginExit
    <3> QED
      BY <3>1, GoesOn
  <2> QED
    BY <2>1, <2>2, <2>3
<1>3. CASE CancelResting
  <2>1. /\ Follows(wk') /\ wk'.pc = wk.pc /\ wk'.closing = wk.closing
        /\ UNCHANGED <<dep, pos>> /\ wk.pc \in {"cancel", "clear"}
    BY <1>1, <1>3 DEF CancelResting, Follows, Continues, Passes
  <2>2. CASE wk.pc = "cancel"
    BY <2>1, <2>2, GoesOn
  <2>3. CASE wk.pc = "clear"
    BY <2>1, <2>3, GoesToSettle DEF PassOK, Ending
  <2> QED
    BY <2>1, <2>2, <2>3
<1>4. CASE Canceled
  <2>1. CASE active_orders # {} /\ AllPending
    <3>1. dep' = dep /\ row' = row /\ wk' \in {Idle, Done(wk)}
      BY <1>4, <2>1 DEF Canceled, Save
    <3>2. Protected
      BY <2>1, PendingProtects DEF AllPending
    <3>3. Protected'
      BY <3>1, <3>2 DEF Protected, exit_fill_pending
    <3> QED
      BY <1>1, <3>1, <3>3, FinishesWith
  <2>2. CASE ~(active_orders # {} /\ AllPending)
    BY <1>1, <1>4, <2>2, FollowsWalk, GoesOn DEF Canceled, Goals
  <2> QED
    BY <2>1, <2>2
<1> QED
  BY <1>2, <1>3, <1>4

\* A book that is flat after the exit is settled, or cleared on a flatten.
LEMMA AfterExitPass ==
    ASSUME PassOK, NEW w, Follows(w), wk' = AfterExit(w), dep'.command = dep.command,
           pos'.qty = 0
    PROVE  PassOK' /\ Leaves
<1>1. Follows(wk') /\ wk'.pc \in {"clear", "settle"}
  <2>1. CASE w.closing
    BY <2>1, FollowsCanceling DEF AfterExit
  <2>2. CASE ~w.closing
    BY <2>2, FollowsTo DEF AfterExit, Steps
  <2> QED
    BY <2>1, <2>2
<1> QED
  BY <1>1, GoesToSettle

LEMMA SellPass == Inv /\ PassOK /\ Sell => PassOK' /\ Leaves
<1> SUFFICES ASSUME Inv, PassOK, Sell PROVE PassOK' /\ Leaves
  OBVIOUS
<1>1. Follows(wk) /\ pos' = pos
  BY FollowsSelf DEF Sell, At
<1>2. pos.qty = 0 \/ pos.qty > 0
  BY Typing DEF Positions
<1>3. \/ pos.qty = 0 /\ Go(AfterExit(wk))
      \/ SaveOnly(Pause("position"), Done(wk))
      \/ active_orders # {} /\ SaveOnly(IF AllPending THEN dep ELSE Pause("position"), Done(wk))
      \/ Submit("exit")
  BY <1>2 DEF Sell
<1>4. CASE pos.qty = 0 /\ Go(AfterExit(wk))
  BY <1>1, <1>4, AfterExitPass DEF Go
<1>5. CASE SaveOnly(Pause("position"), Done(wk))
  BY <1>1, <1>5, FaultedPass DEF SaveOnly
<1>6. CASE active_orders # {} /\ SaveOnly(IF AllPending THEN dep ELSE Pause("position"), Done(wk))
  <2>1. CASE AllPending
    <3>1. dep' = dep /\ row' = row /\ wk' \in {Idle, Done(wk)}
      BY <1>6, <2>1 DEF SaveOnly, Save
    <3>2. Protected
      BY <1>6, <2>1, PendingProtects DEF AllPending
    <3>3. Protected'
      BY <3>1, <3>2 DEF Protected, exit_fill_pending
    <3> QED
      BY <1>1, <3>1, <3>3, FinishesWith
  <2>2. CASE ~AllPending
    BY <1>1, <1>6, <2>2, FaultedPass DEF SaveOnly
  <2> QED
    BY <2>1, <2>2
<1>7. CASE Submit("exit")
  BY <1>1, <1>7, SubmitPass DEF Submits
<1> QED
  BY <1>3, <1>4, <1>5, <1>6, <1>7

\* A filled exit that is booked in full leaves no position: it was for all of
\* it, so the pass that ends with one open still waits for its fills.
LEMMA ApplyExitFillPass == Inv /\ PassOK /\ ApplyExitFill => PassOK' /\ Leaves
<1> SUFFICES ASSUME Inv, PassOK, ApplyExitFill PROVE PassOK' /\ Leaves
  OBVIOUS
<1> DEFINE n == ven["exit"].listed - row["exit"].applied
           w == Fenced(n)
           r == [row["exit"] EXCEPT !.applied = ven["exit"].listed]
<1>1. "exit" \in Orders /\ row["exit"].status = "filled" /\ wk.pc = "apply"
  BY DEF Inv, WorkerOK, ApplyExitFill, At, Orders
<1>2. row["exit"] \in Rows /\ ven["exit"] \in VenueOrders /\ OrderOK("exit") /\ ExitSized
  BY <1>1 DEF Inv, Typed
<1>3. /\ row["exit"].filled = ven["exit"].done /\ ven["exit"].done = ven["exit"].qty
      /\ ven["exit"].qty = row["exit"].qty
  BY <1>1, <1>2, ProtectionAssumption DEF OrderOK, Rows, VenueOrders, Units, Submits
<1>4. r \in Rows /\ r.status = "filled" /\ r.applied = ven["exit"].listed
      /\ r.filled = row["exit"].filled
  BY <1>1, <1>2 DEF Rows, VenueOrders
<1>5. Kept("exit", r) /\ Books(n)
  BY DEF ApplyExitFill
<1>10. Claims("exit", r)
  BY <1>2, <1>3, <1>4, ProtectionAssumption DEF OrderOK, Claims, Rows, VenueOrders, Units
<1>6. Follows(w)
  BY <1>1, FollowsSelf, FollowsFenced
<1>7. \/ Booked(r) /\ row'["exit"] = NoRow
      \/ ~Booked(r) /\ row'["exit"] = r
  BY <1>1, <1>4, <1>5, <1>10, KeptRow
<1>8. CASE ~Booked(r)
  <2>1. row'["exit"] = r /\ r.applied # r.filled /\ r.applied <= r.filled
    BY <1>4, <1>7, <1>8, <1>10 DEF Booked, Claims
  <2>2. r.applied < r.filled
    BY <1>4, <2>1, ProtectionAssumption DEF Rows, Units
  <2>3. dep'.command = dep.command /\ wk' \in {Idle, Done(w)}
    BY <1>4, <2>1, <2>2, TurnSaves DEF ApplyExitFill, Save
  <2>4. Protected'
    BY <1>4, <2>1, <2>2 DEF Protected, exit_fill_pending
  <2> HIDE DEF w
  <2> QED
    BY <1>6, <2>3, <2>4, FinishesWith
<1>9. CASE Booked(r)
  <2>1. row'["exit"] = NoRow /\ ven["exit"].listed = ven["exit"].done
    BY <1>3, <1>4, <1>7, <1>9 DEF Booked
  <2>2. ~(NoRow.applied < NoRow.filled)
    BY DEF NoRow
  <2>3. n \in Nat /\ pos.qty <= n
    BY <1>1, <1>2, <1>3, <2>1, ProtectionAssumption DEF ExitSized, OrderOK, Rows, VenueOrders, Units
  <2>4. pos'.qty = 0
    <3>1. pos'.qty = IF n < pos.qty THEN pos.qty - n ELSE 0
      BY <1>5, <2>3, Booking, Typing
    <3>2. pos.qty \in Nat
      BY Typing DEF Positions
    <3> QED
      BY <2>3, <3>1, <3>2
  <2>5. dep'.command = dep.command /\ wk' = AfterExit(w)
    <3>1. ~(row["exit"].filled > ven["exit"].listed)
      BY <1>2, <1>3, <2>1, ProtectionAssumption DEF VenueOrders, Units
    <3> QED
      BY <2>4, <3>1, TurnSaves DEF ApplyExitFill
  <2> HIDE DEF w
  <2> QED
    BY <1>6, <2>4, <2>5, AfterExitPass
<1> QED
  BY <1>8, <1>9

LEMMA PlacePass ==
    Inv /\ PassOK /\ (Take \/ Reject \/ NotSent \/ Answer) => PassOK' /\ Leaves
<1> SUFFICES ASSUME Inv, PassOK, Take \/ Reject \/ NotSent \/ Answer PROVE PassOK' /\ Leaves
  OBVIOUS
<1>1. wk.pc \in {"placing", "answer"} /\ dep' = dep /\ wk' \in {To(wk, "answer"), To(wk, "reply")}
  BY DEF Take, Reject, NotSent, Answer, At
<1>2. Follows(wk)
  BY <1>1, FollowsSelf
<1> QED
  BY <1>1, <1>2, GoesTo

LEMMA ReplyPass == Inv /\ PassOK /\ Reply => PassOK' /\ Leaves
<1> SUFFICES ASSUME Inv, PassOK, Reply PROVE PassOK' /\ Leaves
  OBVIOUS
<1>1. Follows(wk)
  BY FollowsSelf DEF Reply, At
<1>2. PICK o \in Orders : o = wk.then
  BY DEF Inv, WorkerOK, Reply, At, Submits, Orders
<1>3. CASE row[o].status = "open" /\ o = "bracket"
  <2>1. dep' = dep /\ row' = row /\ wk' \in {Idle, Done(wk)}
    BY <1>2, <1>3 DEF Reply, Save
  <2>2. row[o].known
    BY <1>3 DEF Inv, OrderOK
  <2>3. Protected'
    BY <1>3, <2>1, <2>2 DEF Protected, Active
  <2> QED
    BY <1>1, <2>1, <2>3, FinishesWith
<1>4. CASE row[o].status = "filled" /\ o = "exit"
  BY <1>1, <1>2, <1>4, GoesTo DEF Reply
<1>5. CASE ~(row[o].status = "open" /\ o = "bracket") /\ ~(row[o].status = "filled" /\ o = "exit")
  <2>1. Save(wk, Pause("rejected"), Done(wk)) \/ Save(wk, Pause("position"), Done(wk))
    BY <1>2, <1>5 DEF Reply
  <2> QED
    BY <1>1, <2>1, FaultedPass
<1> QED
  BY <1>3, <1>4, <1>5

LEMMA SettlePass == Inv /\ PassOK /\ (Cleared \/ FinalWalk \/ Settle) => PassOK' /\ Leaves
<1> SUFFICES ASSUME Inv, PassOK, Cleared \/ FinalWalk \/ Settle PROVE PassOK' /\ Leaves
  OBVIOUS
<1>1. Follows(wk) /\ pos' = pos /\ (pos.qty = 0 \/ wk.closing)
  BY FollowsSelf DEF Cleared, FinalWalk, Settle, At, PassOK, Ending
<1>2. CASE Cleared \/ FinalWalk
  <2>1. wk' = Idle \/ (dep' \in {dep, Pause("position")} /\ wk' = WalkFrom(wk, "settle", dep'))
    BY <1>2 DEF Cleared, FinalWalk, Save, Walk
  <2>2. CASE wk' = Idle
    BY <2>2, GoesIdle
  <2>3. CASE dep' \in {dep, Pause("position")} /\ wk' = WalkFrom(wk, "settle", dep')
    <3>1. PICK d \in Deps : d = dep'
      BY <2>3, Typing, SavedDep DEF Details
    <3>2. /\ Follows(wk') /\ wk'.pc \in {"open", "walk"} /\ wk'.then = "settle"
          /\ wk'.closing = wk.closing /\ wk'.began.detail = dep'.detail
      <4>1. "settle" \in Goals /\ wk' = WalkFrom(wk, "settle", d)
        BY <2>3, <3>1 DEF Goals
      <4>2. /\ Follows(WalkFrom(wk, "settle", d))
            /\ WalkFrom(wk, "settle", d).pc \in {"open", "walk"}
            /\ WalkFrom(wk, "settle", d).then = "settle"
            /\ WalkFrom(wk, "settle", d).closing = wk.closing
            /\ WalkFrom(wk, "settle", d).began.detail = d.detail
        BY <1>1, <4>1, FollowsWalkFrom
      <4> QED
        BY <3>1, <4>1, <4>2
    <3>3. dep'.command = dep.command
      BY <2>3, SavedFields
    <3> QED
      BY <1>1, <3>2, <3>3, GoesToSettle
  <2> QED
    BY <2>1, <2>2, <2>3
<1>3. CASE Settle
  <2>1. wk' \in {Idle, Maintained}
    BY <1>3 DEF Settle, Save
  <2>2. ~(~Excused /\ pos'.qty > 0)
    BY <1>1, NotExcused
  <2> QED
    BY <2>1, <2>2, GoesIdle, Completes
<1> QED
  BY <1>2, <1>3

LEMMA CommandPass ==
    ASSUME Inv, PassOK, NEW status, NEW command, Commanded(status, command)
    PROVE  PassOK' /\ Leaves
<1>1. (wk.pc # "idle") \in BOOLEAN
  OBVIOUS
<1>2. /\ wk'.pc = wk.pc /\ wk'.then = wk.then /\ wk'.closing = wk.closing
      /\ wk'.flatten = wk.flatten /\ wk'.first = wk.first /\ wk'.maintained = wk.maintained
      /\ (wk'.commanded <=> wk.pc # "idle") /\ pos' = pos
  BY <1>1, Typing DEF Commanded, Passes
<1> QED
  BY <1>2 DEF PassOK, Asked, Ending, Noted, Leaves, Walking

LEMMA OutsidePass ==
    ASSUME PassOK, UNCHANGED <<dep, pos, row, wk>>
    PROVE  PassOK' /\ Leaves
BY DEF PassOK, Asked, Ending, Noted, Seen, Tracks, OnRecord, Leaves, active_orders, Walking

LEMMA NextPass == Inv /\ PassOK /\ [Next]_vars => PassOK' /\ Leaves
<1> SUFFICES ASSUME Inv, PassOK, [Next]_vars PROVE PassOK' /\ Leaves
  OBVIOUS
<1>1. CASE Begin \/ OpenWalk \/ ReadOrder \/ ReadFails \/ NotFound \/ EndWalk
  BY <1>1, BeginPass, OpenWalkPass, ReadOrderPass, ReadFailsPass, EndWalkPass
<1>2. CASE FlattenIdle \/ FlattenRemainders \/ FlattenPosition \/ NoPrice \/ Note \/ Manage \/ NewBar
  BY <1>2, FlattenPass, NoPricePass, NotePass, ManagePass, NewBarPass
<1>3. CASE ChildNotSeen \/ AdoptChild \/ AdoptUnread
  BY <1>3, AdoptPass
<1>4. CASE Protect \/ CancelProtection \/ AfterCancel \/ Resized
  BY <1>4, ProtectPass, ReplacePass
<1>5. CASE BeginExit \/ CancelResting \/ Canceled \/ Sell \/ ApplyExitFill
  BY <1>5, ExitPass, SellPass, ApplyExitFillPass
<1>6. CASE Take \/ Reject \/ NotSent \/ Answer \/ Reply
  BY <1>6, PlacePass, ReplyPass
<1>7. CASE Cleared \/ FinalWalk \/ Settle
  BY <1>7, SettlePass
<1>8. CASE Crash
  BY <1>8, GoesIdle DEF Crash
<1>9. CASE PauseBook \/ ResumeBook \/ StopBook \/ FlattenBook
  BY <1>9, CommandPass DEF PauseBook, ResumeBook, StopBook, FlattenBook
<1>10. CASE \E o \in Orders : VenueExecutes(o) \/ VenueCancels(o) \/ VenueLists(o)
  BY <1>10, OutsidePass DEF VenueExecutes, VenueCancels, VenueLists
<1>11. CASE \E o \in backoff : BackoffEnds(o)
  BY <1>11, OutsidePass DEF BackoffEnds
<1>12. CASE UNCHANGED vars
  BY <1>12, OutsidePass DEF vars
<1> QED
  BY <1>1, <1>2, <1>3, <1>4, <1>5, <1>6, <1>7, <1>8, <1>9, <1>10, <1>11, <1>12 DEF Next, Worker

\* A pass that no command overtakes and no missing price cuts short leaves an
\* open position with a sell order it knows to be working, an exit whose fills
\* it waits for, or a fault on the deployment (_maintain_strategy_book).
THEOREM PassesProtect == Spec => PassProtects
<1>1. Init => PassOK
  BY IdleFields DEF Init, PassOK, Asked, Ending, Noted, Walking
<1>2. Inv /\ PassOK /\ [Next]_vars => PassOK' /\ Leaves
  BY NextPass
<1>3. Leaves =>
        [wk'.maintained /\ ~(wk.maintained \/ wk.commanded \/ dep.command = "flatten") /\ pos'.qty > 0 =>
           \/ \E o \in Orders : row'[o].status \in Active /\ row'[o].known
           \/ exit_fill_pending'
           \/ dep'.detail # "none"]_vars
  BY DEF Leaves, Excused, Protected
<1> QED
  BY <1>1, <1>2, <1>3, Invariance, PTL DEF Spec, PassProtects
=============================================================================
