----------------------------- MODULE WalkProofs -----------------------------
(***************************************************************************)
(* Proofs about the walk of OrderReconcile while processes take the book   *)
(* one at a time, as its lease makes them: the bracket an entry carries is *)
(* never lost from sight, and a walk that meets a failure does not leave   *)
(* the book running.                                                       *)
(***************************************************************************)
EXTENDS OrderReconcileProofs

\* The lease is respected: a process begins when no other is under way.
OneAtATime == \A p, q \in Procs : pc[p] # "idle" /\ pc[q] # "idle" => p = q

-----------------------------------------------------------------------------
(* What a process at place `at' knows while nobody works beside it.        *)

Early == {"opening", "list", "apply"}         \* before the turns
Between == {"walk", "judge", "retain"}        \* between two turns
Turns == {"save", "ingest", "settle", "fault"}   \* in the turn of cur

\* r is as the stored row s in what decides whether o is read and followed.
Same(r, s) == r.st = s.st /\ r.kid = s.kid /\ (r.settled => s.settled)

\* The rows of the orders still to be visited are the stored ones.
Current(m, at) ==
    /\ at \in Early => \A o \in Orders : Same(m.rows[o], row[o])
    /\ at \in Between => \A o \in m.todo : Same(m.rows[o], row[o])
    /\ at \in Turns => m.cur \in m.todo /\ \A o \in m.todo \ {m.cur} : Same(m.rows[o], row[o])
    /\ at = "canceling" => m.upd = row[m.cur]

\* Before a fill of the entry is applied its row names the bracket, or the
\* bracket has a row.
Naming(m, at) ==
    /\ at = "placing" => applied["entry"] = 0 /\ ~row["entry"].settled
    /\ at \in {"save", "settle"} /\ m.cur = "entry" => m.upd.kid
    /\ at = "ingest" /\ m.cur = "entry" => row["entry"].kid
    /\ at \in {"opening", "list"} =>
          \A o \in Orders : o \in m.todo \/ m.listed[o] # Unlisted => row[o].st # "none"
    /\ at = "apply" /\ m.reread # {} => row["child"].st # "none"

Named ==
    row["child"].st = "none" /\ ~row["entry"].kid =>
        applied["entry"] = 0 /\ ~row["entry"].settled

\* What is left to do when the bracket was imported and when the walk ends.
Ending(m, at) ==
    /\ at \in Early => m.then = "walk"
    /\ at = "child" => m.then = "child"
    /\ at = "finish" => m.then = "finish"
    /\ at \in Turns \cup {"walk"} =>
          m.then \in {"walk", "child"} /\ (m.then = "child" => m.todo \subseteq {"child"})
    /\ at \in {"judge", "retain", "child", "finish"} /\ m.then # "walk" => m.todo = {}
    /\ at \in Between \cup Turns \cup {"child"} /\ m.then = "child" /\ Bracketed =>
          row["child"].st # "none"
    /\ at \in {"judge", "retain", "finish"} /\ m.then = "finish" => ~Untracked

\* What p knows in full.
Ready(m, at) == Current(m, at) /\ Ending(m, at) /\ (Bracketed => Naming(m, at))

Tracking ==
    /\ Inv
    /\ Bracketed => Named
    /\ \A p \in Procs : Ready(mem[p], pc[p])

\* An order last read as UNKNOWN is still to be visited.
Seeing(m, at) ==
    /\ \A o \in Orders : row[o].st = "unknown" =>
          /\ at \in Early => o \in m.walked
          /\ at \in Between \cup {"save", "ingest", "settle", "child", "finish"} => o \in m.todo
    /\ at = "save" => m.upd.st = m.got
    /\ at = "ingest" => m.got = "unknown" \/ (m.upd.st # "unknown" /\ row[m.cur].st # "unknown")
    /\ at = "settle" => m.upd.st # "unknown" /\ row[m.cur].st # "unknown"

\* A step after which p, alone at work, has seen every order last read as
\* UNKNOWN if it had before it and the step does not fault the book.
Sees(p) == Seeing(mem[p], pc[p])

Advances(p) ==
    /\ Tracking'
    /\ \A q \in Procs \ {p} : pc'[q] = "idle"
    /\ Sees(p) /\ book'.status = "running" => Sees(p)'

-----------------------------------------------------------------------------
(* Rules for steps of one process.                                         *)

Resting == {"idle", "attach", "placed", "after", "nofill"}

LEMMA RestReady ==
    ASSUME NEW m, NEW at \in Resting
    PROVE  Ready(m, at) /\ Seeing(m, at) /\ Ready(m, at)' /\ Seeing(m, at)'
BY DEF Resting, Ready, Current, Ending, Naming, Seeing, Early, Between, Turns

LEMMA ByItself ==
    ASSUME Inv, OneAtATime, OneAtATime', NEW p \in Procs, NEW at,
           pc' = [pc EXCEPT ![p] = at], pc[p] # "idle" \/ at # "idle"
    PROVE  pc'[p] = at /\ \A q \in Procs \ {p} : pc'[q] = "idle"
<1>1. pc \in [Procs -> Places]
  BY DEF Inv, Typed
<1>2. pc'[p] = at /\ \A q \in Procs \ {p} : pc'[q] = pc[q]
  BY <1>1
<1> QED
  BY <1>2 DEF OneAtATime

LEMMA StepRule ==
    ASSUME Tracking, Inv', OneAtATime, OneAtATime', NEW p \in Procs, NEW m, NEW at,
           pc' = [pc EXCEPT ![p] = at], mem' = [mem EXCEPT ![p] = m],
           pc[p] # "idle" \/ at # "idle",
           Ready(m, at)', Bracketed => Named',
           Sees(p) /\ book'.status = "running" => Seeing(m, at)'
    PROVE  Advances(p)
<1>1. pc'[p] = at /\ \A q \in Procs \ {p} : pc'[q] = "idle"
  BY ByItself DEF Tracking
<1>2. mem'[p] = m
  BY DEF Tracking, Inv, Typed
<1>3. \A q \in Procs : Ready(mem[q], pc[q])'
  <2>1. TAKE q \in Procs
  <2>2. CASE q = p
    BY <1>1, <1>2, <2>2 DEF Ready, Current, Ending, Naming, Untracked
  <2>3. CASE q # p
    BY <1>1, <2>3 DEF Ready, Current, Ending, Naming, Early, Between, Turns
  <2> QED
    BY <2>2, <2>3
<1>4. Sees(p) /\ book'.status = "running" => Sees(p)'
  BY <1>1, <1>2 DEF Sees, Seeing
<1> QED
  BY <1>1, <1>3, <1>4 DEF Advances, Tracking

\* A step that writes no order row and books nothing.
LEMMA QuietRule ==
    ASSUME Tracking, Inv', OneAtATime, OneAtATime', NEW p \in Procs, NEW m, NEW at,
           pc' = [pc EXCEPT ![p] = at], mem' = [mem EXCEPT ![p] = m],
           pc[p] # "idle" \/ at # "idle", UNCHANGED <<row, applied>>,
           Ready(m, at), Sees(p) /\ book'.status = "running" => Seeing(m, at)
    PROVE  Advances(p)
<1>1. Ready(m, at)'
  BY DEF Ready, Current, Ending, Naming, Untracked
<1>2. Bracketed => Named'
  BY DEF Tracking, Named
<1>3. Sees(p) /\ book'.status = "running" => Seeing(m, at)'
  BY DEF Seeing
<1> QED
  BY <1>1, <1>2, <1>3, StepRule

\* A process that stops working on the book, writing no row.
LEMMA RestRule ==
    ASSUME Tracking, Inv', OneAtATime, OneAtATime', NEW p \in Procs, NEW m, NEW at \in Resting,
           pc' = [pc EXCEPT ![p] = at], mem' = [mem EXCEPT ![p] = m],
           pc[p] # "idle", UNCHANGED <<row, applied>>
    PROVE  Advances(p)
BY QuietRule, RestReady

LEMMA ReturnRule ==
    ASSUME Tracking, Inv', OneAtATime, OneAtATime', NEW p \in Procs, Return(p),
           pc[p] # "idle", UNCHANGED <<row, applied>>
    PROVE  Advances(p)
BY RestRule DEF Return, Resting
LEMMA Here ==
    ASSUME Tracking, NEW p \in Procs
    PROVE  /\ Inv /\ mem[p] \in Mems /\ MemOK(mem[p], pc[p])
           /\ Ready(mem[p], pc[p]) /\ (Bracketed => Named)
BY ProcFacts DEF Tracking

LEMMA SavedRow ==
    ASSUME Inv, NEW o \in Orders, NEW r, RowOK(o, r), SaveOrder(o, r)
    PROVE  /\ row'[o].st = r.st /\ row'[o].kid = r.kid
           /\ row'[o].settled = (row[o].settled \/ r.settled)
           /\ \A q \in Orders \ {o} : row'[q] = row[q]
<1>1. RowOK(o, row[o]) /\ row \in [Orders -> OrderRow]
  BY StoreFacts
<1>2. PICK u : u = Upsert(row[o], r)
  OBVIOUS
<1>3. u.st = r.st /\ u.kid = r.kid /\ u.settled = (row[o].settled \/ r.settled)
  BY <1>1, <1>2, UpsertSound
<1>4. row' = [row EXCEPT ![o] = u]
  BY <1>2 DEF SaveOrder
<1> QED
  BY <1>1, <1>3, <1>4

-----------------------------------------------------------------------------
(* The submit.                                                             *)

LEMMA SubmitReady ==
    ASSUME Tracking, Inv', OneAtATime, OneAtATime', NEW p \in Procs, Submit(p)
    PROVE  Advances(p)
<1>1. Inv /\ row["entry"].st = "none" /\ "entry" \in Orders
  BY EntryOrder DEF Submit, Tracking
<1>2. venue["entry"].st = "none" /\ VenueOK("entry") /\ RowOK("entry", row["entry"])
  BY <1>1 DEF Inv, Unaccepted
<1>3. applied["entry"] = 0
  <2>1. applied["entry"] \in Nat /\ venue["entry"].shown \in Nat
    BY <1>1, Numbers DEF Inv
  <2>2. applied["entry"] <= venue["entry"].shown /\ venue["entry"].shown <= 0
    BY <1>2 DEF VenueOK
  <2> QED
    BY <2>1, <2>2
<1>4. PICK r : r = [NoRow EXCEPT !.st = "pending"]
  OBVIOUS
<1>5. r \in OrderRow /\ r.st = "pending" /\ r.since = 0 /\ r.settled = FALSE /\ r.kid = FALSE
  BY <1>4, NoRowTyped DEF OrderRow, Statuses
<1>6. RowOK("entry", r)
  BY <1>1, <1>5, Numbers DEF RowOK, Inv
<1>7. ~row'["entry"].settled
  <2>1. SaveOrder("entry", r)
    BY <1>4 DEF Submit
  <2>2. ~row["entry"].settled
    BY <1>2 DEF RowOK
  <2> QED
    BY <1>1, <1>5, <1>6, <2>1, <2>2, SavedRow
<1>8. PICK m : mem' = [mem EXCEPT ![p] = m] /\ pc' = [pc EXCEPT ![p] = "placing"]
  BY DEF Submit, Wrote
<1>9. applied' = applied
  BY DEF Submit
<1>10. Ready(m, "placing")' /\ (Bracketed => Named') /\ Seeing(m, "placing")'
  BY <1>3, <1>7, <1>9 DEF Ready, Current, Ending, Naming, Seeing, Early, Between, Turns, Named
<1> QED
  BY <1>8, <1>10, StepRule

LEMMA PlacedReady ==
    ASSUME Tracking, Inv', OneAtATime, OneAtATime', NEW p \in Procs, NEW r,
           RowOK("entry", r), r.settled = FALSE, Placed(p, r)
    PROVE  Advances(p)
<1>1. Inv /\ pc[p] = "placing" /\ "entry" \in Orders /\ Ready(mem[p], pc[p])
  BY EntryOrder, Here DEF Placed
<1>2. Bracketed => applied["entry"] = 0 /\ ~row["entry"].settled
  BY <1>1 DEF Ready, Naming
<1>3. row'["entry"].settled = row["entry"].settled /\ applied' = applied
  <2>1. row["entry"].settled \in BOOLEAN
    BY <1>1, StoreFacts DEF OrderRow
  <2> QED
    BY <1>1, <2>1, SavedRow DEF Placed
<1>4. Bracketed => Named'
  BY <1>2, <1>3 DEF Named
<1>5. PICK m, at : mem' = [mem EXCEPT ![p] = m] /\ pc' = [pc EXCEPT ![p] = at]
                   /\ at \in {"attach", "placed"}
  BY DEF Placed, Goes
<1>6. at \in Resting
  BY <1>5 DEF Resting
<1> QED
  BY <1>1, <1>4, <1>5, <1>6, StepRule, RestReady

LEMMA PlaceReady ==
    ASSUME Tracking, Inv', OneAtATime, OneAtATime', NEW p \in Procs, Place(p)
    PROVE  Advances(p)
<1>0. Inv
  BY DEF Tracking
<1>1. CASE PlaceOk(p) \/ PlacePending(p) \/ PlaceRejected(p) \/ PlaceError(p)
  <2>1. PICK r : RowOK("entry", r) /\ r.settled = FALSE /\ Placed(p, r)
    BY <1>0, <1>1, PlaceRow
  <2> QED
    BY <2>1, PlacedReady
<1>2. CASE Attach(p)
  <2>1. Bracketed /\ pc[p] = "attach" /\ "child" \in Orders /\ "entry" \in Orders
    BY <1>0, <1>2, Here, EntryOrder DEF Attach, MemOK
  <2>2. PICK r : r = [NoRow EXCEPT !.st = "open", !.vid = TRUE]
    OBVIOUS
  <2>3. r \in OrderRow /\ r.st = "open" /\ r.since = 0 /\ r.settled = FALSE
    BY <2>2, NoRowTyped DEF OrderRow, Statuses
  <2>4. RowOK("child", r)
    BY <1>0, <2>1, <2>3, Numbers DEF RowOK, Inv
  <2>5. row'["child"].st # "none"
    <3>1. SaveOrder("child", r)
      BY <1>2, <2>2 DEF Attach
    <3> QED
      BY <1>0, <2>1, <2>3, <2>4, <3>1, SavedRow
  <2>6. PICK m : mem' = [mem EXCEPT ![p] = m] /\ pc' = [pc EXCEPT ![p] = "placed"]
    BY <1>2 DEF Attach, Goes
  <2> QED
    BY <2>1, <2>5, <2>6, StepRule, RestReady DEF Named, Resting
<1>3. CASE AfterPlace(p) \/ AfterWalk(p) \/ NoLocalFill(p)
  <2>1. PICK m, at : mem' = [mem EXCEPT ![p] = m] /\ pc' = [pc EXCEPT ![p] = at]
                     /\ at \in {"idle", "nofill"}
    <3>1. ASSUME NEW b, LastWrite(p, b)
          PROVE  mem' = [mem EXCEPT ![p] = Blank] /\ pc' = [pc EXCEPT ![p] = "idle"]
      BY <3>1 DEF LastWrite, Return
    <3>2. ASSUME NEW r, Conclude(p, r)
          PROVE  \E m, at : mem' = [mem EXCEPT ![p] = m] /\ pc' = [pc EXCEPT ![p] = at]
                            /\ at \in {"idle", "nofill"}
      BY <3>1, <3>2 DEF Conclude, Goes, Return
    <3> QED
      BY <1>3, <3>1, <3>2 DEF AfterPlace, AfterWalk, NoLocalFill
  <2>2. pc[p] # "idle" /\ UNCHANGED <<row, applied>>
    BY <1>3 DEF AfterPlace, AfterWalk, NoLocalFill
  <2> QED
    BY <2>1, <2>2, RestRule DEF Resting
<1> QED
  BY <1>1, <1>2, <1>3, SubmitReady DEF Place

-----------------------------------------------------------------------------
(* The walk up to its turns.                                               *)

LEMMA UnreadFields ==
    ASSUME Inv, NEW m, MemOK(m, "idle"), NEW u, u = Unread(m)
    PROVE  /\ u \in Mems /\ u.rows = row /\ u.listed = m.listed /\ u.then = m.then
           /\ u.todo = {o \in Orders : row[o].vid /\ Needs(row[o], applied[o])}
           /\ u.walked = {o \in Orders : row[o].st # "none"}
<1>1. PICK l : l = Look(m)
  OBVIOUS
<1>2. l \in Mems /\ l.then = m.then
  BY <1>1, LookOK
<1>3. u.then = m.then /\ u.walked = {o \in Orders : row[o].st # "none"}
  BY <1>1, <1>2 DEF Unread, Mems
<1> QED
  BY <1>3, UnreadOK

\* A fresh snapshot of the orders is current, and lists what has a row.
LEMMA SnapshotReady ==
    ASSUME NEW m, NEW at \in {"opening", "list"}, m.rows = row, m.then = "walk",
           m.todo = {o \in Orders : row[o].vid /\ Needs(row[o], applied[o])},
           m.walked = {o \in Orders : row[o].st # "none"},
           Bracketed => \A o \in Orders : m.listed[o] # Unlisted => row[o].st # "none"
    PROVE  Ready(m, at) /\ Seeing(m, at)
<1>1. \A o \in m.todo : row[o].st # "none"
  BY DEF Needs
<1>2. Current(m, at) /\ (Bracketed => Naming(m, at))
  BY <1>1 DEF Current, Naming, Same, Early, Between, Turns
<1>3. Ending(m, at)
  BY DEF Ending, Early, Between, Turns
<1>4. Seeing(m, at)
  BY DEF Seeing, Early, Between
<1> QED
  BY <1>2, <1>3, <1>4 DEF Ready

LEMMA BeginWalkReady ==
    ASSUME Tracking, Inv', OneAtATime, OneAtATime', NEW p \in Procs, BeginWalk(p)
    PROVE  Advances(p)
<1>0. Inv
  BY DEF Tracking
<1>1. PICK u : u = Unread(Blank)
  OBVIOUS
<1>2. /\ u \in Mems /\ u.rows = row /\ u.listed = Blank.listed /\ u.then = "walk"
      /\ u.todo = {o \in Orders : row[o].vid /\ Needs(row[o], applied[o])}
      /\ u.walked = {o \in Orders : row[o].st # "none"}
  BY <1>0, <1>1, BlankOK, BlankMem, UnreadFields
<1>3. PICK m : m = [u EXCEPT !.started = book.status, !.detail = book.detail,
                             !.before = book.detail]
  OBVIOUS
<1>4. /\ m.rows = u.rows /\ m.listed = u.listed /\ m.then = u.then
      /\ m.todo = u.todo /\ m.walked = u.walked
  BY <1>2, <1>3 DEF Mems
<1>5. \A o \in Orders : m.listed[o] = Unlisted
  BY <1>2, <1>4, BlankMem DEF Unlisted
<1>6. PICK at \in {"opening", "list"} :
         pc' = [pc EXCEPT ![p] = at] /\ mem' = [mem EXCEPT ![p] = m]
  BY <1>1, <1>3 DEF BeginWalk
<1>7. Ready(m, at) /\ Seeing(m, at)
  BY <1>2, <1>4, <1>5, SnapshotReady
<1> QED
  BY <1>6, <1>7, QuietRule DEF BeginWalk, store

LEMMA OpenReady ==
    ASSUME Tracking, Inv', OneAtATime, OneAtATime', NEW p \in Procs, Open(p)
    PROVE  Advances(p)
<1>0. Inv /\ pc[p] = "opening" /\ UNCHANGED <<row, applied>> /\ Ready(mem[p], "opening")
      /\ MemOK(mem[p], "idle")
  BY Here, ProcFacts DEF Tracking, Open
<1>1. CASE Return(p)
  BY <1>0, <1>1, ReturnRule
<1>2. CASE ~Return(p)
  <2>1. PICK u, b : u = Unread(mem[p]) /\ b = Faulted(mem[p].snap, "unprojected")
    OBVIOUS
  <2>2. Wrote(p, b, "list", u)
    BY <1>2, <2>1 DEF Open, WriteOrAbort
  <2>3. /\ u \in Mems /\ u.rows = row /\ u.listed = mem[p].listed /\ u.then = mem[p].then
        /\ u.todo = {o \in Orders : row[o].vid /\ Needs(row[o], applied[o])}
        /\ u.walked = {o \in Orders : row[o].st # "none"}
    BY <1>0, <2>1, UnreadFields
  <2>4. PICK m : m = [u EXCEPT !.snap = b]
    OBVIOUS
  <2>5. /\ m.rows = u.rows /\ m.listed = u.listed /\ m.then = u.then
        /\ m.todo = u.todo /\ m.walked = u.walked
    BY <2>3, <2>4 DEF Mems
  <2>6. /\ u.then = "walk"
        /\ Bracketed => \A o \in Orders : m.listed[o] # Unlisted => row[o].st # "none"
    BY <1>0, <2>3, <2>5 DEF Ready, Ending, Naming, Early
  <2>7. Ready(m, "list") /\ Seeing(m, "list")
    BY <2>3, <2>5, <2>6, SnapshotReady
  <2> QED
    BY <1>0, <2>2, <2>4, <2>7, QuietRule DEF Wrote
<1> QED
  BY <1>1, <1>2

LEMMA ListReady ==
    ASSUME Tracking, Inv', OneAtATime, OneAtATime', NEW p \in Procs, List(p)
    PROVE  Advances(p)
<1>0. Inv /\ pc[p] = "list" /\ UNCHANGED <<row, applied>> /\ Ready(mem[p], "list")
      /\ mem[p] \in Mems /\ pc \in [Procs -> Places] /\ mem \in [Procs -> Mems]
  BY Here DEF Tracking, List, store, Inv, Typed
<1>1. PICK o \in mem[p].todo : o = FirstOf(mem[p].todo)
  BY <1>0, FirstOfIn DEF List, Mems
<1>2. o \in Orders
  BY <1>0, <1>1 DEF Mems
<1>3. PICK m : mem' = [mem EXCEPT ![p] = m] /\ m = mem'[p]
  BY <1>0 DEF List
<1>4. /\ m.rows = mem[p].rows /\ m.then = mem[p].then /\ m.walked = mem[p].walked
      /\ m.todo = mem[p].todo \ {o}
      /\ \A q \in Orders \ {o} : m.listed[q] = mem[p].listed[q]
  BY <1>0, <1>1, <1>2, <1>3 DEF List, Mems
<1>5. Bracketed => row[o].st # "none"
  BY <1>0, <1>1, <1>2 DEF Ready, Naming
<1>6. Ready(m, "list")
  <2>1. Current(m, "list")
    BY <1>0, <1>4 DEF Ready, Current, Early, Between, Turns
  <2>2. Bracketed => Naming(m, "list")
    BY <1>0, <1>2, <1>4, <1>5 DEF Ready, Naming
  <2>3. Ending(m, "list")
    BY <1>0, <1>4 DEF Ready, Ending, Early, Between, Turns
  <2> QED
    BY <2>1, <2>2, <2>3 DEF Ready
<1>7. Sees(p) => Seeing(m, "list")
  BY <1>0, <1>4 DEF Sees, Seeing, Early, Between
<1>8. pc' = [pc EXCEPT ![p] = "list"]
  BY <1>0 DEF List
<1> QED
  BY <1>0, <1>3, <1>6, <1>7, <1>8, QuietRule

LEMMA PlanReady ==
    ASSUME Tracking, Inv', OneAtATime, OneAtATime', NEW p \in Procs, Plan(p)
    PROVE  Advances(p)
<1>0. Inv /\ pc[p] = "list" /\ UNCHANGED <<row, applied>> /\ Ready(mem[p], "list")
      /\ mem[p] \in Mems
  BY Here DEF Tracking, Plan, store
<1>1. PICK sh, rq, k : /\ sh = ShortParents(mem[p])
                       /\ rq = (IF mem[p].linked THEN Listed(mem[p], "child") ELSE Unlisted)
                       /\ k = [mem[p] EXCEPT !.short = sh, !.required = rq]
  OBVIOUS
<1>2. PICK new, rr : /\ new = {o \in Orders : ~Held(k, o) /\ k.listed[o] > k.known[o]}
                     /\ rr = (IF "entry" \in new /\ "child" \in new THEN new ELSE {})
  OBVIOUS
<1>3. PICK m : m = [k EXCEPT !.reread = rr]
  OBVIOUS
<1>4. mem' = [mem EXCEPT ![p] = m] /\ pc' = [pc EXCEPT ![p] = "apply"]
  BY <1>1, <1>2, <1>3 DEF Plan
<1>5. /\ k.listed = mem[p].listed /\ k.known = mem[p].known
      /\ m.rows = mem[p].rows /\ m.then = mem[p].then /\ m.walked = mem[p].walked
      /\ m.reread = rr
  BY <1>0, <1>1, <1>3 DEF Mems
<1>6. Bracketed /\ rr # {} => row["child"].st # "none"
  <2>1. SUFFICES ASSUME Bracketed, rr # {} PROVE row["child"].st # "none"
    OBVIOUS
  <2>2. "child" \in Orders /\ mem[p].listed["child"] > mem[p].known["child"]
    BY <1>2, <1>5, <2>1
  <2>3. mem[p].listed["child"] # Unlisted
    <3>1. mem[p].known["child"] \in Nat /\ mem[p].listed["child"] \in Int
      BY <1>0, <2>2, MemNumbers
    <3> QED
      BY <2>2, <3>1 DEF Unlisted
  <2> QED
    BY <1>0, <2>1, <2>2, <2>3 DEF Ready, Naming
<1>7. Ready(m, "apply")
  <2>1. Current(m, "apply")
    BY <1>0, <1>5 DEF Ready, Current, Early, Between, Turns
  <2>2. Bracketed => Naming(m, "apply")
    BY <1>5, <1>6 DEF Naming
  <2>3. Ending(m, "apply")
    BY <1>0, <1>5 DEF Ready, Ending, Early, Between, Turns
  <2> QED
    BY <2>1, <2>2, <2>3 DEF Ready
<1>8. Sees(p) => Seeing(m, "apply")
  BY <1>0, <1>5 DEF Sees, Seeing, Early, Between
<1> QED
  BY <1>0, <1>4, <1>7, <1>8, QuietRule

\* What the fill transaction does to the rows.
LEMMA AppliedRows ==
    ASSUME Inv, NEW p \in Procs, NEW o \in Orders, NEW k \in Nat, NEW copy, RowOK(o, copy),
           k <= venue[o].shown, ApplyFill(p, o, k, copy)
    PROVE  /\ \A q \in Orders \ {o} : row'[q] = row[q] /\ applied'[q] = applied[q]
           /\ row'[o].kid = row[o].kid
           /\ row'[o].settled => row[o].settled
           /\ \/ row'[o] = row[o] /\ applied'[o] = applied[o]
              \/ row'[o].st \in {"filled", copy.st}
<1>1. /\ row \in [Orders -> OrderRow] /\ applied \in [Orders -> Units]
      /\ applied[o] \in Nat /\ venue[o].shown \in Nat
  BY Numbers DEF Inv, Typed
<1>2. CASE AlreadyApplied(o, k)
  BY <1>2 DEF ApplyFill, store
<1>3. CASE ~AlreadyApplied(o, k)
  <2>1. applied[o] < venue[o].shown
    BY <1>1, <1>3 DEF AlreadyApplied
  <2>2. PICK u, n : u = Progressed(o, copy) /\ n = Max(applied[o], k)
    OBVIOUS
  <2>3. u.kid = row[o].kid /\ u.settled = FALSE /\ u.st \in {"filled", copy.st}
    BY <2>1, <2>2, ProgressedFacts
  <2>4. row' = [row EXCEPT ![o] = u] /\ applied' = [applied EXCEPT ![o] = n]
    BY <1>3, <2>2 DEF ApplyFill
  <2> QED
    BY <1>1, <2>3, <2>4
<1> QED
  BY <1>2, <1>3

LEMMA NextUnit ==
    ASSUME Inv, NEW p \in Procs, NEW o \in Orders, mem[p].listed[o] > mem[p].known[o]
    PROVE  mem[p].known[o] + 1 \in Nat /\ mem[p].known[o] + 1 <= venue[o].shown
<1>1. mem[p] \in Mems /\ MemOK(mem[p], "idle")
  BY ProcFacts
<1>2. mem[p].known[o] \in Nat /\ mem[p].listed[o] \in Int /\ venue[o].shown \in Nat
  BY <1>1, MemNumbers, Numbers DEF Inv
<1>3. mem[p].listed[o] <= venue[o].shown
  BY <1>1 DEF MemOK
<1> QED
  BY <1>2, <1>3

LEMMA ApplyListedReady ==
    ASSUME Tracking, Inv', OneAtATime, OneAtATime', NEW p \in Procs, ApplyListed(p)
    PROVE  Advances(p)
<1>0. Inv /\ pc[p] = "apply" /\ Ready(mem[p], "apply") /\ mem[p] \in Mems
      /\ pc \in [Procs -> Places] /\ mem \in [Procs -> Mems]
  BY Here DEF Tracking, ApplyListed, Inv, Typed
<1>1. PICK o : o = Earliest(mem[p])
  OBVIOUS
<1>2. o \in Orders /\ mem[p].listed[o] > mem[p].known[o] /\ mem[p].reread # {}
  <2>1. mem[p].reread # {}
    BY DEF ApplyListed, Pending
  <2> QED
    BY <1>0, <1>1, <2>1, EarliestPending DEF ApplyListed
<1>3. PICK k : k = mem[p].known[o] + 1
  OBVIOUS
<1>4. k \in Nat /\ k <= venue[o].shown
  BY <1>0, <1>2, <1>3, NextUnit
<1>5. ApplyFill(p, o, k, row[o]) /\ RowOK(o, row[o])
  BY <1>0, <1>1, <1>2, <1>3, StoreFacts DEF ApplyListed
<1>6. /\ \A q \in Orders : row'[q].st \in {row[q].st, "filled"}
      /\ row'["entry"].kid = row["entry"].kid
  BY <1>0, <1>2, <1>4, <1>5, AppliedRows, EntryOrder
<1>7. PICK m : mem' = [mem EXCEPT ![p] = m] /\ m = mem'[p]
  BY <1>0 DEF ApplyListed
<1>8. /\ m.rows = row' /\ m.then = mem[p].then /\ m.walked = mem[p].walked
      /\ m.reread = mem[p].reread /\ m.todo = mem[p].todo
  BY <1>0, <1>7 DEF ApplyListed, Mems
<1>9. Bracketed => row'["child"].st # "none"
  BY <1>0, <1>2, <1>6, EntryOrder DEF Ready, Naming
<1>10. Ready(m, "apply")'
  <2>1. Current(m, "apply")'
    BY <1>8 DEF Current, Early, Between, Turns, Same
  <2>2. Bracketed => Naming(m, "apply")'
    BY <1>9 DEF Naming
  <2>3. Ending(m, "apply")'
    BY <1>0, <1>8 DEF Ready, Ending, Early, Between, Turns
  <2> QED
    BY <2>1, <2>2, <2>3 DEF Ready
<1>11. Sees(p) => Seeing(m, "apply")'
  BY <1>0, <1>6, <1>8 DEF Sees, Seeing, Early, Between
<1>12. pc' = [pc EXCEPT ![p] = "apply"]
  BY <1>0 DEF ApplyListed
<1>13. Bracketed => Named'
  BY <1>9 DEF Named
<1> QED
  BY <1>0, <1>7, <1>10, <1>11, <1>12, <1>13, StepRule

LEMMA IngestReady ==
    ASSUME Tracking, Inv', OneAtATime, OneAtATime', NEW p \in Procs, Ingest(p)
    PROVE  Advances(p)
<1>0. Inv /\ pc[p] = "ingest" /\ Ready(mem[p], "ingest") /\ mem[p] \in Mems
      /\ pc \in [Procs -> Places] /\ mem \in [Procs -> Mems] /\ MemOK(mem[p], "ingest")
  BY Here DEF Tracking, Ingest, Inv, Typed
<1>1. PICK o : o = mem[p].cur
  OBVIOUS
<1>2. o \in Orders /\ mem[p].listed[o] > mem[p].known[o]
      /\ RowOK(o, mem[p].upd) /\ mem[p].upd.st # "none"
  BY <1>0, <1>1 DEF Ingest, Mems, MemOK
<1>3. PICK k : k = mem[p].known[o] + 1
  OBVIOUS
<1>4. k \in Nat /\ k <= venue[o].shown
  BY <1>0, <1>2, <1>3, NextUnit
<1>5. ApplyFill(p, o, k, mem[p].upd)
  BY <1>1, <1>3 DEF Ingest
<1>6. /\ \A q \in Orders \ {o} : row'[q] = row[q] /\ applied'[q] = applied[q]
      /\ row'[o].kid = row[o].kid
      /\ row'[o].settled => row[o].settled
      /\ \/ row'[o] = row[o] /\ applied'[o] = applied[o]
         \/ row'[o].st \in {"filled", mem[p].upd.st}
  BY <1>0, <1>2, <1>4, <1>5, AppliedRows
<1>7. PICK m : mem' = [mem EXCEPT ![p] = m] /\ m = mem'[p]
  BY <1>0 DEF Ingest
<1>8. /\ m.rows = mem[p].rows /\ m.then = mem[p].then /\ m.todo = mem[p].todo
      /\ m.cur = o /\ m.upd = mem[p].upd /\ m.got = mem[p].got
  BY <1>0, <1>1, <1>7 DEF Ingest, Mems
<1>9. Ready(m, "ingest")'
  <2>1. Current(m, "ingest")'
    <3>1. m.todo \subseteq Orders /\ o \in m.todo
      BY <1>0, <1>1, <1>8 DEF Mems, Ready, Current, Turns
    <3>2. \A q \in m.todo \ {o} : Same(m.rows[q], row'[q])
      BY <1>0, <1>1, <1>6, <1>8, <3>1 DEF Ready, Current, Turns
    <3> QED
      BY <1>8, <3>1, <3>2 DEF Current, Early, Between, Same
  <2>2. Bracketed => Naming(m, "ingest")'
    BY <1>0, <1>1, <1>6, <1>8 DEF Ready, Naming
  <2>3. Bracketed /\ row["child"].st # "none" => row'["child"].st # "none"
    BY <1>2, <1>6, EntryOrder
  <2>4. Ending(m, "ingest")'
    BY <1>0, <1>8, <2>3 DEF Ready, Ending, Early, Between, Turns
  <2> QED
    BY <2>1, <2>2, <2>4 DEF Ready
<1>10. Sees(p) => Seeing(m, "ingest")'
  <2>1. SUFFICES ASSUME Sees(p) PROVE Seeing(m, "ingest")'
    OBVIOUS
  <2>2. o \in m.todo
    BY <1>0, <1>1, <1>8 DEF Ready, Current, Turns
  <2>3. \A q \in Orders : row'[q].st = "unknown" => q \in m.todo
    BY <1>0, <1>6, <1>8, <2>1, <2>2 DEF Sees, Seeing
  <2>4. m.got = "unknown" \/ (m.upd.st # "unknown" /\ row'[o].st # "unknown")
    BY <1>0, <1>1, <1>6, <1>8, <2>1 DEF Sees, Seeing
  <2> QED
    BY <1>8, <2>3, <2>4 DEF Seeing, Early, Between
<1>11. pc' = [pc EXCEPT ![p] = "ingest"]
  BY <1>0 DEF Ingest
<1>12. Bracketed => Named'
  <2>1. SUFFICES ASSUME Bracketed PROVE Named'
    OBVIOUS
  <2>2. CASE o = "entry"
    BY <1>0, <1>1, <1>6, <2>1, <2>2 DEF Ready, Naming, Named
  <2>3. CASE o = "child"
    <3>1. row'["entry"] = row["entry"] /\ applied'["entry"] = applied["entry"]
      BY <1>6, <2>3, EntryOrder
    <3>2. row'["child"].st = "none" => row["child"].st = "none"
      BY <1>2, <1>6, <2>3
    <3> QED
      BY <2>1, <3>1, <3>2 DEF Tracking, Named
  <2> QED
    BY <1>2, <2>2, <2>3, EntryOrder
<1> QED
  BY <1>0, <1>7, <1>9, <1>10, <1>11, <1>12, StepRule

-----------------------------------------------------------------------------
(* The supervision between turns.                                          *)

\* What Ready and Seeing ask of a process between two turns.
Paced(m) ==
    /\ \A o \in m.todo : Same(m.rows[o], row[o])
    /\ m.then # "walk" => m.todo = {}
    /\ m.then = "child" /\ Bracketed => row["child"].st # "none"
    /\ m.then = "finish" => ~Untracked

AllSeen(m) == \A o \in Orders : row[o].st = "unknown" => o \in m.todo

LEMMA PacedReady ==
    ASSUME NEW m, NEW at, m.then \in {"walk", "child", "finish"},
           at = m.then \/ at = "judge" \/ at = "retain", Paced(m)
    PROVE  Ready(m, at) /\ (AllSeen(m) => Seeing(m, at))
<1>1. Current(m, at) /\ Naming(m, at)
  BY DEF Paced, Current, Naming, Early, Between, Turns
<1>2. Ending(m, at)
  BY DEF Paced, Ending, Early, Between, Turns
<1>3. AllSeen(m) => Seeing(m, at)
  BY DEF AllSeen, Seeing, Early, Between
<1> QED
  BY <1>1, <1>2, <1>3 DEF Ready

LEMMA ReadyPaced ==
    ASSUME NEW m, NEW at \in {"judge", "retain"}, Ready(m, at)
    PROVE  Paced(m) /\ (Seeing(m, at) => AllSeen(m))
BY DEF Ready, Current, Ending, Seeing, Paced, AllSeen, Between

\* Two memories with the same rows, orders to visit and end.
LEMMA PacedSame ==
    ASSUME NEW m, NEW n, n.rows = m.rows, n.todo = m.todo, n.then = m.then
    PROVE  (Paced(m) => Paced(n)) /\ (AllSeen(m) => AllSeen(n))
BY DEF Paced, AllSeen

LEMMA SuperviseReady ==
    ASSUME Tracking, Inv', OneAtATime, OneAtATime', NEW p \in Procs, pc[p] # "idle",
           NEW m \in Mems, NEW s, Supervise(p, m, s), UNCHANGED <<row, applied>>,
           Paced(m), Sees(p) /\ book'.status = "running" => AllSeen(m)
    PROVE  Advances(p)
<1>2. PICK f : f = FirstNewFault(m.first, m.before, m.snap)
  OBVIOUS
<1>4. PICK k : k = [m EXCEPT !.first = f]
  OBVIOUS
<1>5. k.rows = m.rows /\ k.then = m.then /\ k.todo = m.todo /\ k.snap = m.snap
  BY <1>4 DEF Mems
<1>7. PICK n : n = [k EXCEPT !.before = k.snap.detail]
  OBVIOUS
<1>8. n.rows = m.rows /\ n.then = m.then /\ n.todo = m.todo
  <2>1. PICK d : d = k.snap.detail
    OBVIOUS
  <2>2. n = [m EXCEPT !.first = f, !.before = d]
    BY <1>4, <1>7, <2>1 DEF Mems
  <2> QED
    BY <2>2 DEF Mems
<1>9. Goes(p, m.then, n, s) \/ Goes(p, "retain", k, s)
  BY <1>2, <1>4, <1>5, <1>7 DEF Supervise
<1>10. m.then \in {"walk", "child", "finish"}
  BY DEF Mems
<1>11. Paced(k) /\ Paced(n) /\ (AllSeen(m) => AllSeen(k) /\ AllSeen(n))
  BY <1>5, <1>8, PacedSame
<1>12. CASE Goes(p, m.then, n, s)
  <2>1. Ready(n, m.then) /\ (AllSeen(n) => Seeing(n, m.then))
    BY <1>8, <1>10, <1>11, PacedReady
  <2>2. pc' = [pc EXCEPT ![p] = m.then] /\ mem' = [mem EXCEPT ![p] = n]
    BY <1>12 DEF Goes
  <2> QED
    BY <1>11, <2>1, <2>2, QuietRule
<1>13. CASE Goes(p, "retain", k, s)
  <2>1. Ready(k, "retain") /\ (AllSeen(k) => Seeing(k, "retain"))
    BY <1>5, <1>10, <1>11, PacedReady
  <2>2. pc' = [pc EXCEPT ![p] = "retain"] /\ mem' = [mem EXCEPT ![p] = k]
    BY <1>13 DEF Goes
  <2> QED
    BY <1>11, <2>1, <2>2, QuietRule
<1> QED
  BY <1>9, <1>12, <1>13

LEMMA EndApplyReady ==
    ASSUME Tracking, Inv', OneAtATime, OneAtATime', NEW p \in Procs, EndApply(p)
    PROVE  Advances(p)
<1>0. Inv /\ pc[p] = "apply" /\ Ready(mem[p], "apply") /\ mem[p] \in Mems
      /\ UNCHANGED <<row, applied>>
  BY Here DEF Tracking, EndApply
<1>1. PICK w, c : w = mem[p].walked /\ c = mem[p].cover
  OBVIOUS
<1>2. w \in SUBSET Orders /\ c \in [Orders -> Units]
  BY <1>0, <1>1 DEF Mems
<1>3. PICK m : m = [mem[p] EXCEPT !.todo = w, !.known = c]
  OBVIOUS
<1>4. m \in Mems /\ m.rows = mem[p].rows /\ m.todo = w /\ m.then = mem[p].then
  BY <1>0, <1>2, <1>3 DEF Mems
<1>5. Supervise(p, m, seen[p])
  BY <1>1, <1>3 DEF EndApply
<1>6. Paced(m)
  BY <1>0, <1>2, <1>4 DEF Paced, Ready, Current, Ending, Early
<1>7. Sees(p) => AllSeen(m)
  BY <1>0, <1>1, <1>4 DEF Sees, Seeing, AllSeen, Early
<1> QED
  BY <1>0, <1>4, <1>5, <1>6, <1>7, SuperviseReady

\* Reading the rows of the orders applied up front again keeps them current.
LEMMA LookPaced ==
    ASSUME Inv, NEW m, MemOK(m, "idle"), NEW l, l = Look(m)
    PROVE  /\ l \in Mems /\ l.todo = m.todo /\ l.then = m.then
           /\ Paced(m) => Paced(l)
           /\ AllSeen(m) => AllSeen(l)
<1>1. /\ l \in Mems /\ l.todo = m.todo /\ l.then = m.then
      /\ \A o \in Orders : l.rows[o] = IF o \in m.reread THEN row[o] ELSE m.rows[o]
  BY LookOK
<1>2. m.todo \subseteq Orders
  BY DEF MemOK, Mems
<1>3. \A o \in m.todo : Same(m.rows[o], row[o]) => Same(l.rows[o], row[o])
  BY <1>1, <1>2 DEF Same
<1> QED
  BY <1>1, <1>3 DEF Paced, AllSeen

LEMMA JudgeReady ==
    ASSUME Tracking, Inv', OneAtATime, OneAtATime', NEW p \in Procs, Judge(p)
    PROVE  Advances(p)
<1>0. Inv /\ pc[p] = "judge" /\ Ready(mem[p], "judge") /\ mem[p] \in Mems
      /\ UNCHANGED <<row, applied>> /\ MemOK(mem[p], "idle")
  BY Here, ProcFacts DEF Tracking, Judge
<1>1. PICK l, u : /\ l = Look(mem[p])
                  /\ u = (IF p \in Tickets /\ mem[p].then = "finish" THEN row["entry"]
                          ELSE NoRow)
  OBVIOUS
<1>2. u \in OrderRow
  BY <1>0, <1>1, StoreFacts, NoRowTyped, EntryOrder
<1>3. Paced(mem[p]) /\ (Sees(p) => AllSeen(mem[p]))
  BY <1>0, ReadyPaced DEF Sees
<1>4. l \in Mems /\ Paced(l) /\ (Sees(p) => AllSeen(l))
  BY <1>0, <1>1, <1>3, LookPaced
<1>5. PICK m : m = [l EXCEPT !.upd = u]
  OBVIOUS
<1>6. m \in Mems /\ m.rows = l.rows /\ m.todo = l.todo /\ m.then = l.then
  BY <1>2, <1>4, <1>5 DEF Mems
<1>7. Supervise(p, m, TRUE)
  BY <1>1, <1>5 DEF Judge
<1> QED
  BY <1>0, <1>4, <1>6, <1>7, PacedSame, SuperviseReady

LEMMA RetainReady ==
    ASSUME Tracking, Inv', OneAtATime, OneAtATime', NEW p \in Procs, Retain(p)
    PROVE  Advances(p)
<1>0. Inv /\ pc[p] = "retain" /\ Ready(mem[p], "retain") /\ mem[p] \in Mems
      /\ UNCHANGED <<row, applied>> /\ MemOK(mem[p], "idle")
  BY Here, ProcFacts DEF Tracking, Retain
<1>1. CASE Return(p)
  BY <1>0, <1>1, ReturnRule
<1>2. CASE ~Return(p)
  <2>1. PICK l, b, d : l = Look(mem[p]) /\ b = Retained(mem[p]) /\ d = b.detail
    OBVIOUS
  <2>2. PICK k, t : k = [l EXCEPT !.before = d] /\ t = mem[p].then
    OBVIOUS
  <2>3. Wrote(p, b, t, k)
    BY <1>2, <2>1, <2>2 DEF Retain, WriteOrAbort
  <2>4. Paced(mem[p]) /\ (Sees(p) => AllSeen(mem[p]))
    BY <1>0, ReadyPaced DEF Sees
  <2>5. l \in Mems /\ Paced(l) /\ (Sees(p) => AllSeen(l)) /\ l.then = t
    BY <1>0, <2>1, <2>2, <2>4, LookPaced
  <2>6. PICK m : m = [k EXCEPT !.snap = b]
    OBVIOUS
  <2>7. m.rows = l.rows /\ m.todo = l.todo /\ m.then = t
    <3>1. m = [l EXCEPT !.before = d, !.snap = b]
      BY <2>2, <2>5, <2>6 DEF Mems
    <3> QED
      BY <2>5, <3>1 DEF Mems
  <2>8. Paced(m) /\ (Sees(p) => AllSeen(m)) /\ t \in {"walk", "child", "finish"}
    BY <1>0, <2>2, <2>5, <2>7, PacedSame DEF Mems
  <2>9. Ready(m, t) /\ (AllSeen(m) => Seeing(m, t))
    BY <2>7, <2>8, PacedReady
  <2> QED
    BY <1>0, <2>3, <2>6, <2>8, <2>9, QuietRule DEF Wrote
<1> QED
  BY <1>1, <1>2

-----------------------------------------------------------------------------
(* The turns.                                                              *)

LEMMA TurnedFields ==
    ASSUME Inv, NEW p \in Procs, NEW o, NEW n, n = Turned(p, o)
    PROVE  /\ n \in Mems /\ n.rows = mem[p].rows /\ n.then = mem[p].then
           /\ n.todo = mem[p].todo \ {o}
<1>1. mem[p] \in Mems
  BY ProcFacts
<1>2. PICK t : t = mem[p].todo \ {o}
  OBVIOUS
<1>3. n = [mem[p] EXCEPT !.todo = t, !.upd = NoRow, !.got = "none", !.due = FALSE]
  BY <1>2 DEF Turned
<1>4. n.rows = mem[p].rows /\ n.then = mem[p].then /\ n.todo = t
  BY <1>1, <1>3 DEF Mems
<1> QED
  BY <1>2, <1>4, TurnedOK

\* p is in the turn of o, or about to take it.
AtTurn(p, o) ==
    \/ pc[p] = "walk" /\ o \in mem[p].todo
    \/ pc[p] \in Turns /\ o = mem[p].cur

LEMMA TurnFacts ==
    ASSUME Tracking, NEW p \in Procs, NEW o, AtTurn(p, o)
    PROVE  /\ o \in mem[p].todo /\ o \in Orders
           /\ \A q \in mem[p].todo \ {o} : Same(mem[p].rows[q], row[q])
           /\ pc[p] = "walk" => Same(mem[p].rows[o], row[o])
           /\ mem[p].then \in {"walk", "child"}
           /\ mem[p].then = "child" => mem[p].todo = {"child"} /\ o = "child"
           /\ mem[p].then = "child" /\ Bracketed => row["child"].st # "none"
<1>1. Ready(mem[p], pc[p]) /\ mem[p] \in Mems
  BY Here
<1>2. /\ o \in mem[p].todo
      /\ \A q \in mem[p].todo \ {o} : Same(mem[p].rows[q], row[q])
      /\ pc[p] = "walk" => Same(mem[p].rows[o], row[o])
  BY <1>1 DEF AtTurn, Ready, Current, Between, Turns
<1>3. /\ mem[p].then \in {"walk", "child"}
      /\ mem[p].then = "child" => mem[p].todo \subseteq {"child"}
      /\ mem[p].then = "child" /\ Bracketed => row["child"].st # "none"
  BY <1>1 DEF AtTurn, Ready, Ending, Between
<1>4. o \in Orders
  BY <1>1, <1>2 DEF Mems
<1> QED
  BY <1>2, <1>3, <1>4

\* Once an order had its turn the walk is between turns.
LEMMA TurnedPaced ==
    ASSUME Tracking, NEW p \in Procs, NEW o, AtTurn(p, o), NEW n, n = Turned(p, o)
    PROVE  Paced(n) /\ n.then \in {"walk", "child", "finish"}
<1>1. n.rows = mem[p].rows /\ n.then = mem[p].then /\ n.todo = mem[p].todo \ {o}
  BY TurnedFields DEF Tracking
<1> QED
  BY <1>1, TurnFacts DEF Paced

\* A turn that ends without writing a row.
LEMMA TurnEnds ==
    ASSUME Tracking, Inv', OneAtATime, OneAtATime', NEW p \in Procs, NEW o, AtTurn(p, o),
           NEW n, n = Turned(p, o), NEW m, m.rows = n.rows, m.todo = n.todo, m.then = n.then,
           pc' = [pc EXCEPT ![p] = "judge"], mem' = [mem EXCEPT ![p] = m],
           UNCHANGED <<row, applied>>,
           Sees(p) /\ book'.status = "running" => AllSeen(n)
    PROVE  Advances(p)
<1>1. Paced(n) /\ n.then \in {"walk", "child", "finish"}
  BY TurnedPaced
<1>2. Paced(m) /\ (AllSeen(n) => AllSeen(m))
  BY <1>1, PacedSame
<1>3. Ready(m, "judge") /\ (AllSeen(m) => Seeing(m, "judge"))
  BY <1>1, <1>2, PacedReady
<1>4. pc[p] # "idle"
  BY DEF AtTurn, Turns
<1> QED
  BY <1>2, <1>3, <1>4, QuietRule

LEMMA TurnIs ==
    ASSUME Tracking, NEW p \in Procs, NEW o, Turn(p, o)
    PROVE  AtTurn(p, o) /\ o \in mem[p].todo /\ o \in Orders
BY Here, FirstOfIn DEF Turn, AtTurn, Mems

LEMMA SkipReady ==
    ASSUME Tracking, Inv', OneAtATime, OneAtATime', NEW p \in Procs, NEW o \in Orders, Skip(p, o)
    PROVE  Advances(p)
<1>1. AtTurn(p, o) /\ pc[p] = "walk"
  BY TurnIs DEF Skip, Turn
<1>2. PICK n : n = Turned(p, o)
  OBVIOUS
<1>3. /\ pc' = [pc EXCEPT ![p] = "judge"] /\ mem' = [mem EXCEPT ![p] = n]
      /\ UNCHANGED <<row, applied>>
  BY <1>2 DEF Skip, Goes
<1>4. row[o].st # "unknown"
  BY <1>1, TurnFacts DEF Skip, Reads, Needs, Same
<1>5. n.todo = mem[p].todo \ {o}
  BY <1>2, TurnedFields DEF Tracking
<1>6. Sees(p) => AllSeen(n)
  BY <1>1, <1>4, <1>5 DEF Sees, Seeing, AllSeen, Between
<1> QED
  BY <1>1, <1>2, <1>3, <1>6, TurnEnds

\* A turn under way: what does not depend on its place.
LEMMA InTurn ==
    ASSUME Tracking, NEW p \in Procs, NEW o, AtTurn(p, o),
           \A q \in Orders \ {o} : row'[q] = row[q],
           Bracketed /\ row["child"].st # "none" => row'["child"].st # "none",
           NEW m, m.cur = o, m.todo = mem[p].todo, m.rows = mem[p].rows, m.then = mem[p].then,
           NEW at \in Turns
    PROVE  Current(m, at)' /\ Ending(m, at)'
<1>1. mem[p].todo \subseteq Orders
  BY Here DEF Mems
<1>2. \A q \in m.todo \ {o} : Same(m.rows[q], row'[q])
  BY <1>1, TurnFacts
<1>3. Current(m, at)'
  BY <1>2, TurnFacts DEF Current, Early, Between, Turns, Same
<1>4. Ending(m, at)'
  BY TurnFacts DEF Ending, Early, Between, Turns
<1> QED
  BY <1>3, <1>4

\* A saved row that keeps the name of the bracket, and settles only with it.
LEMMA NamedSaved ==
    ASSUME Tracking, NEW o \in Orders, NEW r, RowOK(o, r), r.st # "none", SaveOrder(o, r),
           applied' = applied,
           o = "entry" /\ Bracketed => (row["entry"].kid => r.kid)
                                       /\ (r.settled => row["entry"].settled \/ r.kid)
    PROVE  /\ Bracketed => Named'
           /\ Bracketed /\ row["child"].st # "none" => row'["child"].st # "none"
<1>1. /\ row'[o].st = r.st /\ row'[o].kid = r.kid
      /\ row'[o].settled = (row[o].settled \/ r.settled)
      /\ \A q \in Orders \ {o} : row'[q] = row[q]
  BY SavedRow DEF Tracking
<1>2. Bracketed /\ row["child"].st # "none" => row'["child"].st # "none"
  BY <1>1, EntryOrder
<1>3. ASSUME Bracketed PROVE Named'
  <2>1. CASE o = "entry"
    <3>1. row'["child"] = row["child"]
      BY <1>1, <1>3, <2>1, EntryOrder
    <3> QED
      BY <1>1, <1>3, <2>1, <3>1 DEF Tracking, Named
  <2>2. CASE o = "child"
    BY <1>1, <2>2 DEF Named
  <2> QED
    BY <2>1, <2>2, EntryOrder
<1> QED
  BY <1>2, <1>3

\* A turn that ends in a fault to record.
LEMMA FaultAhead ==
    ASSUME Tracking, Inv', OneAtATime, OneAtATime', NEW p \in Procs, NEW o, AtTurn(p, o),
           \A q \in Orders \ {o} : row'[q] = row[q],
           Bracketed /\ row["child"].st # "none" => row'["child"].st # "none",
           Bracketed => Named',
           NEW m, m.cur = o, m.todo = mem[p].todo, m.rows = mem[p].rows, m.then = mem[p].then,
           pc' = [pc EXCEPT ![p] = "fault"], mem' = [mem EXCEPT ![p] = m]
    PROVE  Advances(p)
<1>1. "fault" \in Turns
  BY DEF Turns
<1>2. Current(m, "fault")' /\ Ending(m, "fault")'
  BY <1>1, InTurn
<1>3. Naming(m, "fault")' /\ Seeing(m, "fault")'
  BY DEF Naming, Seeing, Early, Between
<1> QED
  BY <1>2, <1>3, StepRule DEF Ready

LEMMA NotFoundReady ==
    ASSUME Tracking, Inv', OneAtATime, OneAtATime', NEW p \in Procs, NEW o \in Orders,
           NotFound(p, o)
    PROVE  Advances(p)
<1>1. AtTurn(p, o) /\ mem[p] \in Mems
  BY TurnIs, Here DEF NotFound
<1>2. PICK m : m = [mem[p] EXCEPT !.cur = o, !.got = "unconfirmed"]
  OBVIOUS
<1>3. m.cur = o /\ m.todo = mem[p].todo /\ m.rows = mem[p].rows /\ m.then = mem[p].then
  BY <1>1, <1>2 DEF Mems
<1>4. /\ pc' = [pc EXCEPT ![p] = "fault"] /\ mem' = [mem EXCEPT ![p] = m]
      /\ UNCHANGED <<row, applied>>
  BY <1>2 DEF NotFound, Goes
<1>5. Bracketed => Named'
  BY <1>4 DEF Tracking, Named
<1> QED
  BY <1>1, <1>3, <1>4, <1>5, FaultAhead

LEMMA ReadFailedReady ==
    ASSUME Tracking, Inv', OneAtATime, OneAtATime', NEW p \in Procs, NEW o \in Orders,
           ReadFailed(p, o)
    PROVE  Advances(p)
<1>1. AtTurn(p, o) /\ mem[p] \in Mems /\ Inv /\ MemOK(mem[p], "idle") /\ pc[p] = "walk"
  BY TurnIs, Here, ProcFacts DEF ReadFailed, Turn
<1>2. PICK m : m = [mem[p] EXCEPT !.cur = o, !.got = "order_read"]
  OBVIOUS
<1>3. m.cur = o /\ m.todo = mem[p].todo /\ m.rows = mem[p].rows /\ m.then = mem[p].then
  BY <1>1, <1>2 DEF Mems
<1>4. PICK r, u : r = mem[p].rows[o] /\ u = [r EXCEPT !.st = "unknown"]
  OBVIOUS
<1>5. r \in OrderRow /\ RowOK(o, r)
  BY <1>1, <1>4, MemNumbers DEF MemOK
<1>6. u.st = "unknown" /\ u.kid = r.kid /\ u.settled = r.settled /\ RowOK(o, u)
  <2>1. RowOK(o, u)
    BY <1>1, <1>4, <1>5, UnknownRow
  <2> QED
    BY <1>4, <1>5, <2>1 DEF OrderRow
<1>7. /\ pc' = [pc EXCEPT ![p] = "fault"] /\ mem' = [mem EXCEPT ![p] = m]
      /\ SaveOrder(o, u) /\ applied' = applied
  BY <1>2, <1>4 DEF ReadFailed, Goes
<1>8. u.kid = row[o].kid /\ (u.settled => row[o].settled)
  BY <1>1, <1>4, <1>6, TurnFacts DEF Same
<1>9. /\ Bracketed => Named'
      /\ Bracketed /\ row["child"].st # "none" => row'["child"].st # "none"
  BY <1>6, <1>7, <1>8, NamedSaved
<1>10. \A q \in Orders \ {o} : row'[q] = row[q]
  BY <1>1, <1>6, <1>7, SavedRow
<1> QED
  BY <1>1, <1>3, <1>7, <1>9, <1>10, FaultAhead

LEMMA RecordedKeeps ==
    ASSUME NEW m \in Mems, NEW o, NEW v, NEW n, n = Recorded(m, o, v)
    PROVE  /\ n.todo = m.todo /\ n.then = m.then /\ n.rows = m.rows /\ n.upd = m.upd
           /\ n.cur = m.cur /\ n.got = m.got
<1>1. PICK S, L : n = [m EXCEPT !.listed = L, !.short = S]
  <2>1. PICK L : L = [m.listed EXCEPT ![o] = v]
    OBVIOUS
  <2>2. PICK S : S = IF v >= m.upd.filled /\ (o = "entry" => v >= m.required)
                     THEN m.short \ {o}
                     ELSE IF o = "entry" /\ m.required # Unlisted THEN m.short \cup {o}
                     ELSE m.short
    OBVIOUS
  <2>3. n = [m EXCEPT !.listed = L, !.short = S]
    BY <2>1, <2>2 DEF Recorded
  <2> QED
    BY <2>3
<1> QED
  BY <1>1 DEF Mems

LEMMA ReadReady ==
    ASSUME Tracking, Inv', OneAtATime, OneAtATime', NEW p \in Procs, NEW o \in Orders, Read(p, o)
    PROVE  Advances(p)
<1>0. /\ AtTurn(p, o) /\ mem[p] \in Mems /\ Inv /\ MemOK(mem[p], "idle") /\ pc[p] = "walk"
      /\ UNCHANGED <<row, applied>> /\ pc' = [pc EXCEPT ![p] = "save"] /\ Accepted(o)
  BY TurnIs, Here, ProcFacts DEF Read, Turn, store
<1> DEFINE r == mem[p].rows[o]
<1>1. RowOK(o, r)
  BY <1>0 DEF MemOK
<1>2. PICK st \in {venue[o].st, "unknown"}, q \in Reported(o), relisted \in BOOLEAN :
          LET m == [mem[p] EXCEPT !.cur = o, !.got = st,
                                  !.upd = Adopted(Observed(r, st, q), o),
                                  !.due = r.since > SettleDelay,
                                  !.linked = IF o = "entry" /\ r.vid THEN Bracketed ELSE @]
              behind == r.vid /\ m.listed[o] # Unlisted /\ m.listed[o] < q
          IN /\ relisted \/ behind
             /\ failures' = failures + (IF st = "unknown" THEN 1 ELSE 0)
                                     + (IF relisted THEN 0 ELSE 1)
             /\ failures' <= MaxFailures
             /\ mem' = [mem EXCEPT ![p] =
                          CASE ~behind -> m
                            [] behind /\ relisted -> Recorded(m, o, venue[o].shown)
                            [] behind /\ ~relisted ->
                                 [m EXCEPT !.listed[o] = Unlisted, !.short = @ \cup {o}]]
  BY DEF Read
<1> HIDE DEF r
<1>3. PICK u : u = Adopted(Observed(r, st, q), o)
  OBVIOUS
<1>4. u.st = st /\ (o = "entry" => u.kid = Bracketed) /\ u \in OrderRow
  <2>1. PICK w : w = Observed(r, st, q)
    OBVIOUS
  <2>2. RowOK(o, w) /\ w.st = st
    BY <1>0, <1>1, <2>1, ObservedRow
  <2> QED
    BY <1>0, <1>3, <2>1, <2>2, AdoptedRow DEF RowOK
<1>5. PICK d : d = (r.since > SettleDelay)
  OBVIOUS
<1>6. PICK z : z = IF o = "entry" /\ r.vid THEN Bracketed ELSE mem[p].linked
  OBVIOUS
<1>7. PICK m : m = [mem[p] EXCEPT !.cur = o, !.got = st, !.upd = u, !.due = d, !.linked = z]
  OBVIOUS
<1>8. /\ m.todo = mem[p].todo /\ m.then = mem[p].then /\ m.rows = mem[p].rows /\ m.upd = u
      /\ m.cur = o /\ m.got = st /\ m.listed = mem[p].listed
  BY <1>0, <1>7 DEF Mems
<1>9. m \in Mems
  <2>1. d \in BOOLEAN
    <3>1. r.since \in Nat /\ SettleDelay \in Nat
      BY <1>1, RowNumbers, ReconcileAssumption DEF RowOK
    <3> QED
      BY <1>5, <3>1
  <2>2. z \in {FALSE, Bracketed} /\ st \in Got
    BY <1>0, <1>6 DEF Mems, Got, Accepted, VenueStatuses
  <2> QED
    BY <1>0, <1>4, <1>7, <2>1, <2>2 DEF Mems
<1>10. PICK n1 : n1 = Recorded(m, o, venue[o].shown)
  OBVIOUS
<1>11. PICK n2 : n2 = [m EXCEPT !.listed[o] = Unlisted, !.short = m.short \cup {o}]
  OBVIOUS
<1>12. /\ n1.todo = m.todo /\ n1.then = m.then /\ n1.rows = m.rows /\ n1.upd = m.upd
       /\ n1.cur = m.cur /\ n1.got = m.got
  BY <1>9, <1>10, RecordedKeeps
<1>13. /\ n2.todo = m.todo /\ n2.then = m.then /\ n2.rows = m.rows /\ n2.upd = m.upd
       /\ n2.cur = m.cur /\ n2.got = m.got
  BY <1>9, <1>11 DEF Mems
<1>14. PICK n : mem' = [mem EXCEPT ![p] = n] /\ n \in {m, n1, n2}
  <2>1. m = [mem[p] EXCEPT !.cur = o, !.got = st,
                                  !.upd = Adopted(Observed(r, st, q), o),
                                  !.due = r.since > SettleDelay,
                                  !.linked = IF o = "entry" /\ r.vid THEN Bracketed ELSE @]
    BY <1>3, <1>5, <1>6, <1>7
  <2>2. PICK behind \in BOOLEAN :
           behind = (r.vid /\ m.listed[o] # Unlisted /\ m.listed[o] < q)
    OBVIOUS
  <2>3. mem' = [mem EXCEPT ![p] =
                          CASE ~behind -> m
                            [] behind /\ relisted -> n1
                            [] behind /\ ~relisted -> n2]
    BY <1>2, <1>10, <1>11, <2>1, <2>2
  <2> QED
    BY <2>3
<1>15. /\ n.todo = mem[p].todo /\ n.then = mem[p].then /\ n.rows = mem[p].rows /\ n.upd = u
       /\ n.cur = o /\ n.got = st
  <2>1. CASE n = m
    BY <1>8, <2>1
  <2>2. CASE n = n1
    BY <1>8, <1>12, <2>2
  <2>3. CASE n = n2
    BY <1>8, <1>13, <2>3
  <2> QED
    BY <1>14, <2>1, <2>2, <2>3
<1>16. Ready(n, "save")'
  <2>1. Current(n, "save")' /\ Ending(n, "save")'
    BY <1>0, <1>15, InTurn DEF Turns
  <2>2. Bracketed => Naming(n, "save")'
    BY <1>4, <1>15 DEF Naming
  <2> QED
    BY <2>1, <2>2 DEF Ready
<1>17. Sees(p) => Seeing(n, "save")'
  <2>1. Sees(p) => \A w \in Orders : row[w].st = "unknown" => w \in n.todo
    BY <1>0, <1>15 DEF Sees, Seeing, Between
  <2>2. n.upd.st = n.got /\ row' = row
    BY <1>0, <1>4, <1>15
  <2> QED
    BY <2>1, <2>2 DEF Seeing, Early
<1>18. Bracketed => Named'
  BY <1>0 DEF Tracking, Named
<1> QED
  BY <1>0, <1>14, <1>16, <1>17, <1>18, StepRule

LEMMA SaveReady ==
    ASSUME Tracking, Inv', OneAtATime, OneAtATime', NEW p \in Procs, Save(p)
    PROVE  Advances(p)
<1>1. /\ Inv /\ mem[p] \in Mems /\ MemOK(mem[p], "save") /\ mem[p].cur \in Orders
      /\ pc[p] = "save" /\ Ready(mem[p], "save")
  BY Here DEF Save, Mems
<1>2. PICK m, o : m = mem[p] /\ o = mem[p].cur
  OBVIOUS
<1>3. PICK n : n = IF m.listed[o] # Unlisted THEN m.listed[o] ELSE venue[o].shown
  OBVIOUS
<1>4. PICK k : k = IF m.listed[o] # Unlisted THEN m ELSE Recorded(m, o, n)
  OBVIOUS
<1>5. PICK f : f = [k EXCEPT !.got = "uncovered"]
  OBVIOUS
<1>6. /\ SaveOrder(o, m.upd) /\ applied' = applied
      /\ Goes(p, "fault", f, seen[p]) \/ Goes(p, "ingest", k, seen[p])
  BY <1>2, <1>3, <1>4, <1>5 DEF Save
<1>7. AtTurn(p, o) /\ o \in Orders
  BY <1>1, <1>2 DEF AtTurn, Turns
<1>8. RowOK(o, m.upd) /\ m.upd.st # "none" /\ (o = "entry" /\ Bracketed => m.upd.kid)
  BY <1>1, <1>2 DEF MemOK, Ready, Naming
<1>9. /\ Bracketed => Named'
      /\ Bracketed /\ row["child"].st # "none" => row'["child"].st # "none"
  BY <1>6, <1>7, <1>8, NamedSaved
<1>10. /\ row'[o].st = m.upd.st /\ row'[o].kid = m.upd.kid
       /\ \A q \in Orders \ {o} : row'[q] = row[q]
  BY <1>1, <1>6, <1>7, <1>8, SavedRow
<1>11. /\ k \in Mems /\ k.todo = m.todo /\ k.then = m.then /\ k.rows = m.rows
       /\ k.upd = m.upd /\ k.cur = o /\ k.got = m.got
  <2>1. m.listed[o] # Unlisted => k = m
    BY <1>4
  <2>2. m.listed[o] = Unlisted => k = Recorded(m, o, n) /\ n \in -1..Qty
    <3>1. venue[o].shown \in Nat /\ venue[o].shown <= Qty
      BY <1>1, <1>7, Numbers DEF Inv
    <3> QED
      BY <1>3, <1>4, <3>1, ReconcileAssumption
  <2> QED
    BY <1>1, <1>2, <1>7, <2>1, <2>2, RecordedKeeps, RecordedMem
<1>12. CASE Goes(p, "fault", f, seen[p])
  <2>1. f.cur = o /\ f.todo = mem[p].todo /\ f.rows = mem[p].rows /\ f.then = mem[p].then
    BY <1>2, <1>5, <1>11 DEF Mems
  <2> QED
    BY <1>7, <1>9, <1>10, <1>12, <2>1, FaultAhead DEF Goes
<1>13. CASE Goes(p, "ingest", k, seen[p])
  <2>1. Current(k, "ingest")' /\ Ending(k, "ingest")'
    BY <1>2, <1>7, <1>9, <1>10, <1>11, InTurn DEF Turns
  <2>2. Bracketed => Naming(k, "ingest")'
    BY <1>8, <1>10, <1>11 DEF Naming
  <2>3. Sees(p) => Seeing(k, "ingest")'
    <3>1. SUFFICES ASSUME Sees(p) PROVE Seeing(k, "ingest")'
      OBVIOUS
    <3>2. /\ \A q \in Orders : row[q].st = "unknown" => q \in m.todo
          /\ m.upd.st = m.got
      BY <1>1, <1>2, <3>1 DEF Sees, Seeing
    <3>3. \A q \in Orders : row'[q].st = "unknown" => q \in k.todo
      BY <1>2, <1>7, <1>10, <1>11, <3>2, TurnFacts
    <3>4. k.got = "unknown" \/ (k.upd.st # "unknown" /\ row'[o].st # "unknown")
      BY <1>10, <1>11, <3>2
    <3> QED
      BY <1>11, <3>3, <3>4 DEF Seeing, Early, Between
  <2>4. pc' = [pc EXCEPT ![p] = "ingest"] /\ mem' = [mem EXCEPT ![p] = k]
    BY <1>13 DEF Goes
  <2> QED
    BY <1>9, <2>1, <2>2, <2>3, <2>4, StepRule DEF Ready
<1> QED
  BY <1>6, <1>12, <1>13

LEMMA FillsFailedReady ==
    ASSUME Tracking, Inv', OneAtATime, OneAtATime', NEW p \in Procs, FillsFailed(p)
    PROVE  Advances(p)
<1>1. /\ Inv /\ mem[p] \in Mems /\ MemOK(mem[p], "save") /\ mem[p].cur \in Orders
      /\ pc[p] = "save" /\ Ready(mem[p], "save")
  BY Here DEF FillsFailed, Mems
<1>2. PICK o, u : o = mem[p].cur /\ u = [mem[p].upd EXCEPT !.st = "unknown"]
  OBVIOUS
<1>3. /\ RowOK(o, u) /\ u.st # "none" /\ (o = "entry" /\ Bracketed => u.kid)
  BY <1>1, <1>2, UnknownRow DEF MemOK, Ready, Naming
<1>4. PICK m : m = [mem[p] EXCEPT !.got = "fill_read"]
  OBVIOUS
<1>5. m.cur = o /\ m.todo = mem[p].todo /\ m.rows = mem[p].rows /\ m.then = mem[p].then
  BY <1>1, <1>2, <1>4 DEF Mems
<1>6. /\ pc' = [pc EXCEPT ![p] = "fault"] /\ mem' = [mem EXCEPT ![p] = m]
      /\ SaveOrder(o, u) /\ applied' = applied
  BY <1>2, <1>4 DEF FillsFailed, Goes
<1>7. AtTurn(p, o) /\ o \in Orders
  BY <1>1, <1>2 DEF AtTurn, Turns
<1>8. /\ Bracketed => Named'
      /\ Bracketed /\ row["child"].st # "none" => row'["child"].st # "none"
  BY <1>3, <1>6, <1>7, NamedSaved
<1>9. \A q \in Orders \ {o} : row'[q] = row[q]
  BY <1>1, <1>3, <1>6, <1>7, SavedRow
<1> QED
  BY <1>5, <1>6, <1>7, <1>8, <1>9, FaultAhead

LEMMA FaultReady ==
    ASSUME Tracking, Inv', OneAtATime, OneAtATime', NEW p \in Procs, Fault(p)
    PROVE  Advances(p)
<1>1. /\ Inv /\ mem[p] \in Mems /\ MemOK(mem[p], "fault") /\ pc[p] = "fault"
      /\ UNCHANGED <<row, applied>> /\ mem[p].snap \in Deployment
  BY Here, ProcFacts DEF Fault
<1>2. CASE Return(p)
  BY <1>1, <1>2, ReturnRule
<1>3. CASE ~Return(p)
  <2>1. PICK n, b, o : /\ n = Turned(p, mem[p].cur) /\ b = Faulted(mem[p].snap, mem[p].got)
                       /\ o = mem[p].cur
    OBVIOUS
  <2>2. Wrote(p, b, "judge", n)
    BY <1>3, <2>1 DEF Fault, WriteOrAbort
  <2>3. n \in Mems
    BY <1>1, <2>1, TurnedFields
  <2>4. PICK m : m = [n EXCEPT !.snap = b]
    OBVIOUS
  <2>5. m.rows = n.rows /\ m.todo = n.todo /\ m.then = n.then
    BY <2>3, <2>4 DEF Mems
  <2>6. book'.status # "running"
    <3>1. mem[p].got \in Details
      BY <1>1 DEF MemOK, Details
    <3>2. b.status # "running"
      BY <1>1, <2>1, <3>1, FaultedBook
    <3> QED
      BY <2>2, <3>2 DEF Wrote
  <2>7. AtTurn(p, o)
    BY <1>1, <2>1 DEF AtTurn, Turns
  <2>8. pc' = [pc EXCEPT ![p] = "judge"] /\ mem' = [mem EXCEPT ![p] = m]
    BY <2>2, <2>4 DEF Wrote
  <2> QED
    BY <1>1, <2>1, <2>5, <2>6, <2>7, <2>8, TurnEnds
<1> QED
  BY <1>2, <1>3

LEMMA CloseReady ==
    ASSUME Tracking, Inv', OneAtATime, OneAtATime', NEW p \in Procs, Close(p)
    PROVE  Advances(p)
<1>1. /\ Inv /\ mem[p] \in Mems /\ MemOK(mem[p], "ingest") /\ mem[p].cur \in Orders
      /\ pc[p] = "ingest" /\ Ready(mem[p], "ingest") /\ UNCHANGED <<row, applied>>
  BY Here DEF Close, Mems
<1>2. PICK m, o : m = mem[p] /\ o = mem[p].cur
  OBVIOUS
<1>3. AtTurn(p, o) /\ o \in Orders
  BY <1>1, <1>2 DEF AtTurn, Turns
<1>4. PICK n, x, u : n = Turned(p, o) /\ u = [row[o] EXCEPT !.settled = TRUE]
                     /\ x = [m EXCEPT !.upd = u]
  OBVIOUS
<1>5. \/ \E g : Goes(p, "fault", [m EXCEPT !.got = g], seen[p])
      \/ Goes(p, "settle", x, seen[p]) /\ row[o].st = "canceled"
      \/ Goes(p, "judge", n, seen[p]) /\ m.got # "unknown"
  <2>1. m.cover[o] \in Nat /\ m.upd.filled \in Nat
    BY <1>1, <1>2, <1>3, MemNumbers, RowNumbers
  <2>2. m.cover[o] < m.upd.filled \/ m.cover[o] >= m.upd.filled
    BY <2>1
  <2> QED
    BY <1>2, <1>4, <2>2 DEF Close, Settles
<1>6. CASE \E g : Goes(p, "fault", [m EXCEPT !.got = g], seen[p])
  <2>1. PICK g : Goes(p, "fault", [m EXCEPT !.got = g], seen[p])
    BY <1>6
  <2>2. PICK f : f = [m EXCEPT !.got = g]
    OBVIOUS
  <2>3. f.cur = o /\ f.todo = mem[p].todo /\ f.rows = mem[p].rows /\ f.then = mem[p].then
    BY <1>1, <1>2, <2>2 DEF Mems
  <2>4. Bracketed => Named'
    BY <1>1 DEF Tracking, Named
  <2>5. pc' = [pc EXCEPT ![p] = "fault"] /\ mem' = [mem EXCEPT ![p] = f]
    BY <2>1, <2>2 DEF Goes
  <2> QED
    BY <1>1, <1>3, <2>3, <2>4, <2>5, FaultAhead
<1>7. CASE Goes(p, "settle", x, seen[p]) /\ row[o].st = "canceled"
  <2>1. /\ x.cur = o /\ x.todo = mem[p].todo /\ x.rows = mem[p].rows /\ x.then = mem[p].then
        /\ x.upd = u
    BY <1>1, <1>2, <1>4 DEF Mems
  <2>2. u.st = "canceled" /\ u.kid = row[o].kid
    BY <1>1, <1>3, <1>4, <1>7, StoreFacts DEF OrderRow
  <2>3. Current(x, "settle")' /\ Ending(x, "settle")'
    BY <1>1, <1>3, <2>1, InTurn DEF Turns
  <2>4. Bracketed => Naming(x, "settle")'
    BY <1>1, <1>2, <2>1, <2>2 DEF Ready, Naming
  <2>5. Sees(p) => Seeing(x, "settle")'
    <3>1. Sees(p) => \A q \in Orders : row[q].st = "unknown" => q \in x.todo
      BY <1>1, <2>1 DEF Sees, Seeing
    <3>2. row'[o].st = "canceled" /\ x.upd.st = "canceled" /\ x.cur = o /\ row' = row
      BY <1>1, <1>7, <2>1, <2>2
    <3> QED
      BY <3>1, <3>2 DEF Seeing, Early
  <2>6. Bracketed => Named'
    BY <1>1 DEF Tracking, Named
  <2>7. pc' = [pc EXCEPT ![p] = "settle"] /\ mem' = [mem EXCEPT ![p] = x]
    BY <1>7 DEF Goes
  <2> QED
    BY <2>3, <2>4, <2>5, <2>6, <2>7, StepRule DEF Ready
<1>8. CASE Goes(p, "judge", n, seen[p]) /\ m.got # "unknown"
  <2>1. n.todo = mem[p].todo \ {o}
    BY <1>1, <1>4, TurnedFields
  <2>2. Sees(p) => AllSeen(n)
    BY <1>1, <1>2, <1>8, <2>1 DEF Sees, Seeing, AllSeen
  <2>3. pc' = [pc EXCEPT ![p] = "judge"] /\ mem' = [mem EXCEPT ![p] = n]
    BY <1>8 DEF Goes
  <2> QED
    BY <1>1, <1>3, <1>4, <2>2, <2>3, TurnEnds
<1> QED
  BY <1>5, <1>6, <1>7, <1>8

LEMMA SettleReady ==
    ASSUME Tracking, Inv', OneAtATime, OneAtATime', NEW p \in Procs, Settle(p)
    PROVE  Advances(p)
<1>1. /\ Inv /\ mem[p] \in Mems /\ MemOK(mem[p], "settle") /\ mem[p].cur \in Orders
      /\ pc[p] = "settle" /\ Ready(mem[p], "settle") /\ applied' = applied
  BY Here DEF Settle, Mems
<1>2. PICK o, u, n : o = mem[p].cur /\ u = mem[p].upd /\ n = Turned(p, o)
  OBVIOUS
<1>3. AtTurn(p, o) /\ o \in Orders
  BY <1>1, <1>2 DEF AtTurn, Turns
<1>4. RowOK(o, u) /\ u.st # "none" /\ (o = "entry" /\ Bracketed => u.kid)
  BY <1>1, <1>2 DEF MemOK, Ready, Naming
<1>5. /\ pc' = [pc EXCEPT ![p] = "judge"] /\ mem' = [mem EXCEPT ![p] = n]
      /\ SaveOrder(o, u)
  BY <1>2 DEF Settle, Goes
<1>6. /\ Bracketed => Named'
      /\ Bracketed /\ row["child"].st # "none" => row'["child"].st # "none"
  BY <1>1, <1>3, <1>4, <1>5, NamedSaved
<1>7. /\ row'[o].st = u.st
      /\ \A q \in Orders \ {o} : row'[q] = row[q]
  BY <1>1, <1>3, <1>4, <1>5, SavedRow
<1>8. n.rows = mem[p].rows /\ n.then = mem[p].then /\ n.todo = mem[p].todo \ {o}
  BY <1>1, <1>2, TurnedFields
<1>9. n.todo \subseteq Orders
  BY <1>1, <1>8 DEF Mems
<1>10. Current(n, "judge")'
  <2>1. \A q \in n.todo : Same(n.rows[q], row'[q])
    BY <1>3, <1>7, <1>8, <1>9, TurnFacts
  <2> QED
    BY <2>1 DEF Current, Early, Turns, Same
<1>11. Ending(n, "judge")'
  <2>1. n.then \in {"walk", "child"} /\ (n.then = "child" => n.todo = {})
        /\ (n.then = "child" /\ Bracketed => row'["child"].st # "none")
    BY <1>3, <1>6, <1>8, TurnFacts
  <2> QED
    BY <2>1 DEF Ending, Early, Turns
<1>12. Naming(n, "judge")'
  BY DEF Naming
<1>13. Sees(p) => Seeing(n, "judge")'
  <2>1. Sees(p) => /\ u.st # "unknown"
                   /\ \A q \in Orders : row[q].st = "unknown" => q \in mem[p].todo
    BY <1>1, <1>2 DEF Sees, Seeing
  <2>2. Sees(p) => \A q \in Orders : row'[q].st = "unknown" => q \in n.todo
    BY <1>7, <1>8, <2>1
  <2> QED
    BY <2>2 DEF Seeing, Early
<1> QED
  BY <1>1, <1>5, <1>6, <1>10, <1>11, <1>12, <1>13, StepRule DEF Ready

-----------------------------------------------------------------------------
(* The end of the walk, and cancels.                                       *)

LEMMA EndTurnsReady ==
    ASSUME Tracking, Inv', OneAtATime, OneAtATime', NEW p \in Procs, EndTurns(p)
    PROVE  Advances(p)
<1>1. /\ Inv /\ mem[p] \in Mems /\ MemOK(mem[p], "idle") /\ pc[p] = "walk"
      /\ mem[p].todo = {} /\ ~Untracked /\ UNCHANGED <<row, applied>>
  BY Here, ProcFacts DEF EndTurns
<1>2. PICK l, d : l = Look(mem[p]) /\ d = book.detail
  OBVIOUS
<1>3. l \in Mems /\ l.todo = {}
  BY <1>1, <1>2, LookPaced
<1>4. PICK m : m = [l EXCEPT !.before = d, !.then = "finish"]
  OBVIOUS
<1>5. m.todo = {} /\ m.then = "finish"
  BY <1>3, <1>4 DEF Mems
<1>6. pc' = [pc EXCEPT ![p] = "judge"] /\ mem' = [mem EXCEPT ![p] = m]
  BY <1>2, <1>4 DEF EndTurns, Goes
<1>7. Paced(m) /\ (Sees(p) => AllSeen(m))
  BY <1>1, <1>5 DEF Paced, AllSeen, Sees, Seeing, Between
<1>8. Ready(m, "judge") /\ (AllSeen(m) => Seeing(m, "judge"))
  BY <1>5, <1>7, PacedReady
<1> QED
  BY <1>1, <1>6, <1>7, <1>8, QuietRule

LEMMA ImportReady ==
    ASSUME Tracking, Inv', OneAtATime, OneAtATime', NEW p \in Procs, Import(p)
    PROVE  Advances(p)
<1>1. /\ Inv /\ mem[p] \in Mems /\ MemOK(mem[p], "idle") /\ pc[p] = "walk"
      /\ mem[p].todo = {} /\ applied' = applied /\ "child" \in Orders
      /\ pc \in [Procs -> Places] /\ mem \in [Procs -> Mems]
  BY Here, ProcFacts, EntryOrder DEF Import, Untracked, Inv, Typed
<1>2. PICK r : r = [NoRow EXCEPT !.st = "unknown", !.vid = TRUE]
  OBVIOUS
<1>3. r \in OrderRow /\ r.st = "unknown" /\ r.since = 0 /\ r.settled = FALSE /\ r.kid = FALSE
  BY <1>2, NoRowTyped DEF OrderRow, Statuses
<1>4. RowOK("child", r)
  BY <1>1, <1>3, Numbers DEF RowOK, Inv
<1>5. SaveOrder("child", r) /\ pc' = [pc EXCEPT ![p] = "walk"]
  BY <1>2 DEF Import, Goes
<1>6. /\ row'["child"].st = "unknown" /\ row'["child"].kid = FALSE
      /\ \A q \in Orders \ {"child"} : row'[q] = row[q]
  BY <1>1, <1>3, <1>4, <1>5, SavedRow
<1>7. PICK l : l = Look(mem[p])
  OBVIOUS
<1>8. l \in Mems /\ l.rows \in [Orders -> OrderRow]
  <2>1. l \in Mems
    BY <1>1, <1>7, LookPaced
  <2> QED
    BY <2>1 DEF Mems
<1>9. PICK m : m = [l EXCEPT
                 !.todo = {"child"}, !.rows["child"] = r, !.known = applied, !.then = "child",
                 !.outer = [started |-> mem[p].started, detail |-> mem[p].detail,
                            first |-> mem[p].first, before |-> book.detail],
                 !.started = book.status, !.detail = book.detail, !.first = "none",
                 !.before = book.detail]
  OBVIOUS
<1>10. mem' = [mem EXCEPT ![p] = m]
  BY <1>2, <1>7, <1>9 DEF Import, Goes
<1>11. m.todo = {"child"} /\ m.then = "child" /\ m.rows["child"] = r
  <2>1. PICK R, a, w, s, d : /\ R = [l.rows EXCEPT !["child"] = r] /\ a = applied
                             /\ w = [started |-> mem[p].started, detail |-> mem[p].detail,
                                     first |-> mem[p].first, before |-> book.detail]
                             /\ s = book.status /\ d = book.detail
    OBVIOUS
  <2>2. m = [l EXCEPT !.todo = {"child"}, !.rows = R, !.known = a, !.then = "child",
                      !.outer = w, !.started = s, !.detail = d, !.first = "none", !.before = d]
    BY <1>8, <1>9, <2>1 DEF Mems
  <2>3. m.todo = {"child"} /\ m.then = "child" /\ m.rows = R
    BY <1>8, <2>2 DEF Mems
  <2> QED
    BY <1>1, <1>8, <2>1, <2>3
<1>12. Current(m, "walk")'
  BY <1>3, <1>6, <1>11 DEF Current, Same, Early, Turns
<1>13. Ending(m, "walk")' /\ Naming(m, "walk")'
  BY <1>6, <1>11 DEF Ending, Naming, Early, Between, Turns
<1>14. Sees(p) => Seeing(m, "walk")'
  <2>1. Sees(p) => \A q \in Orders : row'[q].st = "unknown" => q \in m.todo
    BY <1>1, <1>6, <1>11 DEF Sees, Seeing, Between
  <2> QED
    BY <2>1 DEF Seeing, Early
<1>15. Bracketed => Named'
  BY <1>6 DEF Named
<1> QED
  BY <1>1, <1>5, <1>10, <1>12, <1>13, <1>14, <1>15, StepRule DEF Ready

LEMMA RejoinReady ==
    ASSUME Tracking, Inv', OneAtATime, OneAtATime', NEW p \in Procs, Rejoin(p)
    PROVE  Advances(p)
<1>1. /\ Inv /\ mem[p] \in Mems /\ pc[p] = "child" /\ UNCHANGED <<row, applied>>
      /\ Ready(mem[p], "child")
  BY Here DEF Rejoin
<1>2. PICK u : u = mem[p].outer
  OBVIOUS
<1>3. PICK m : m = [mem[p] EXCEPT
               !.started = u.started, !.detail = u.detail, !.first = u.first,
               !.before = u.before, !.outer = Blank.outer, !.then = "finish"]
  OBVIOUS
<1>4. m.todo = mem[p].todo /\ m.then = "finish"
  BY <1>1, <1>3 DEF Mems
<1>5. pc' = [pc EXCEPT ![p] = "judge"] /\ mem' = [mem EXCEPT ![p] = m]
  BY <1>2, <1>3 DEF Rejoin, Goes
<1>6. mem[p].todo = {} /\ ~Untracked
  BY <1>1 DEF Ready, Ending, Untracked
<1>7. Paced(m) /\ (Sees(p) => AllSeen(m))
  BY <1>1, <1>4, <1>6 DEF Paced, AllSeen, Sees, Seeing
<1>8. Ready(m, "judge") /\ (AllSeen(m) => Seeing(m, "judge"))
  BY <1>4, <1>7, PacedReady
<1> QED
  BY <1>1, <1>5, <1>7, <1>8, QuietRule

LEMMA FinishReady ==
    ASSUME Tracking, Inv', OneAtATime, OneAtATime', NEW p \in Procs, Finish(p)
    PROVE  Advances(p)
<1>1. pc[p] = "finish" /\ UNCHANGED <<row, applied>>
  BY DEF Finish
<1>2. PICK m, at : mem' = [mem EXCEPT ![p] = m] /\ pc' = [pc EXCEPT ![p] = at]
                   /\ at \in {"idle", "after"}
  BY DEF Finish, WriteOrAbort, Wrote, LastWrite, Goes, Return
<1> QED
  BY <1>1, <1>2, RestRule DEF Resting

LEMMA CancelReady ==
    ASSUME Tracking, Inv', OneAtATime, OneAtATime', NEW p \in Procs, NEW o \in Orders,
           Cancel(p, o)
    PROVE  Advances(p)
<1>1. PICK r, m : r = row[o] /\ m = [Blank EXCEPT !.cur = o, !.upd = r]
  OBVIOUS
<1>2. m.cur = o /\ m.upd = r
  BY <1>1, BlankMem DEF Mems
<1>3. /\ pc' = [pc EXCEPT ![p] = "canceling"] /\ mem' = [mem EXCEPT ![p] = m]
      /\ UNCHANGED <<row, applied>>
  BY <1>1 DEF Cancel, Goes
<1>4. Ready(m, "canceling") /\ Seeing(m, "canceling")
  BY <1>1, <1>2 DEF Ready, Current, Ending, Naming, Seeing, Early, Between, Turns
<1> QED
  BY <1>3, <1>4, QuietRule

LEMMA ConfirmCancelReady ==
    ASSUME Tracking, Inv', OneAtATime, OneAtATime', NEW p \in Procs, ConfirmCancel(p)
    PROVE  Advances(p)
<1>1. /\ Inv /\ mem[p] \in Mems /\ MemOK(mem[p], "canceling") /\ pc[p] = "canceling"
      /\ Ready(mem[p], "canceling") /\ applied' = applied /\ mem[p].cur \in Orders
  BY Here DEF ConfirmCancel, Mems
<1>2. PICK o, u : o = mem[p].cur /\ u = mem[p].upd
  OBVIOUS
<1>3. u = row[o] /\ o \in Orders /\ RowOK(o, u) /\ u \in OrderRow
  BY <1>1, <1>2 DEF Ready, Current, MemOK, RowOK
<1>4. CASE UNCHANGED row
  BY <1>1, <1>4, ReturnRule DEF ConfirmCancel
<1>5. CASE ~UNCHANGED row
  <2>1. Accepted(o) /\ \E q \in Reported(o), st \in {venue[o].st, "unknown"} :
           SaveOrder(o, Observed(u, st, q))
    BY <1>2, <1>5 DEF ConfirmCancel
  <2>2. PICK q \in Reported(o), st \in {venue[o].st, "unknown"} : SaveOrder(o, Observed(u, st, q))
    BY <2>1
  <2>3. PICK r : r = Observed(u, st, q)
    OBVIOUS
  <2>4. RowOK(o, r) /\ r.st # "none" /\ r.kid = u.kid
    BY <1>1, <1>3, <2>1, <2>3, ObservedRow
  <2>5. r.settled = u.settled
    <3>1. PICK f, s : r = [u EXCEPT !.vid = TRUE, !.st = st, !.filled = f, !.since = s]
      BY <2>3 DEF Observed
    <3> QED
      BY <1>3, <3>1 DEF OrderRow
  <2>6. Bracketed => Named'
    BY <1>1, <1>3, <2>2, <2>3, <2>4, <2>5, NamedSaved
  <2>7. mem' = [mem EXCEPT ![p] = Blank] /\ pc' = [pc EXCEPT ![p] = "idle"]
    BY DEF ConfirmCancel, Return
  <2>8. PICK m : m = Blank
    OBVIOUS
  <2> QED
    BY <1>1, <2>6, <2>7, <2>8, StepRule, RestReady DEF Resting
<1> QED
  BY <1>4, <1>5

-----------------------------------------------------------------------------
(* Every step.                                                             *)

LEMMA ProcReady ==
    ASSUME Tracking, Inv', OneAtATime, OneAtATime', NEW p \in Procs,
           Place(p) \/ Walk(p) \/ ConfirmCancel(p) \/ Crash(p) \/ \E o \in Orders : Cancel(p, o)
    PROVE  Advances(p)
<1>1. CASE Crash(p)
  BY <1>1, ReturnRule DEF Crash
<1>2. CASE Walk(p)
  BY <1>2, BeginWalkReady, OpenReady, ListReady, PlanReady, ApplyListedReady, EndApplyReady,
     SkipReady, NotFoundReady, ReadFailedReady, ReadReady, SaveReady, FillsFailedReady,
     FaultReady, IngestReady, CloseReady, SettleReady, JudgeReady, RetainReady,
     EndTurnsReady, ImportReady, RejoinReady, FinishReady DEF Walk
<1> QED
  BY <1>1, <1>2, PlaceReady, ConfirmCancelReady, CancelReady

\* Steps of nobody at work on the book: the venue, the clock and the operator.
Elsewhere == Venue \/ Tick \/ (\E s \in Runs : Command(s)) \/ UNCHANGED vars

LEMMA TickReady ==
    ASSUME Tracking, Inv', Tick
    PROVE  Tracking' /\ \A p \in Procs : Sees(p) => Sees(p)'
<1>0. Inv /\ pc' = pc /\ applied' = applied
  BY DEF Tracking, Tick
<1>1. \A o \in Orders : /\ row'[o].st = row[o].st /\ row'[o].kid = row[o].kid
                        /\ row'[o].settled = row[o].settled
  <2>1. TAKE o \in Orders
  <2>2. PICK a : a = Older(row[o].since)
    OBVIOUS
  <2>3. row'[o] = [row[o] EXCEPT !.since = a] /\ row[o] \in OrderRow
    BY <1>0, <2>2, StoreFacts DEF Tick
  <2> QED
    BY <2>3 DEF OrderRow
<1>2. ASSUME NEW p \in Procs
      PROVE  /\ mem'[p].todo = mem[p].todo /\ mem'[p].then = mem[p].then
             /\ mem'[p].cur = mem[p].cur /\ mem'[p].got = mem[p].got
             /\ mem'[p].walked = mem[p].walked /\ mem'[p].listed = mem[p].listed
             /\ mem'[p].reread = mem[p].reread
             /\ mem'[p].upd.st = mem[p].upd.st /\ mem'[p].upd.kid = mem[p].upd.kid
             /\ mem'[p].upd = [mem[p].upd EXCEPT !.since = Older(mem[p].upd.since)]
             /\ \A o \in Orders : /\ mem'[p].rows[o].st = mem[p].rows[o].st
                                  /\ mem'[p].rows[o].kid = mem[p].rows[o].kid
                                  /\ mem'[p].rows[o].settled = mem[p].rows[o].settled
  <2>1. mem[p] \in Mems /\ mem[p].upd \in OrderRow /\ \A o \in Orders : mem[p].rows[o] \in OrderRow
    BY <1>0, ProcFacts DEF Mems
  <2>2. PICK R, u : /\ R = [o \in Orders |-> [mem[p].rows[o] EXCEPT
                                 !.since = Older(mem[p].rows[o].since)]]
                    /\ u = [mem[p].upd EXCEPT !.since = Older(mem[p].upd.since)]
    OBVIOUS
  <2>3. mem'[p] = [mem[p] EXCEPT !.rows = R, !.upd = u]
    BY <1>2, <2>2 DEF Tick
  <2>4. /\ mem'[p].todo = mem[p].todo /\ mem'[p].then = mem[p].then
        /\ mem'[p].cur = mem[p].cur /\ mem'[p].got = mem[p].got
        /\ mem'[p].walked = mem[p].walked /\ mem'[p].listed = mem[p].listed
        /\ mem'[p].reread = mem[p].reread /\ mem'[p].rows = R /\ mem'[p].upd = u
    BY <2>1, <2>3 DEF Mems
  <2>5. u.st = mem[p].upd.st /\ u.kid = mem[p].upd.kid
    <3>1. PICK a : a = Older(mem[p].upd.since)
      OBVIOUS
    <3> QED
      BY <2>1, <2>2, <3>1 DEF OrderRow
  <2>6. \A o \in Orders : /\ R[o].st = mem[p].rows[o].st /\ R[o].kid = mem[p].rows[o].kid
                          /\ R[o].settled = mem[p].rows[o].settled
    <3>1. TAKE o \in Orders
    <3>2. PICK a : a = Older(mem[p].rows[o].since)
      OBVIOUS
    <3>3. R[o] = [mem[p].rows[o] EXCEPT !.since = a] /\ mem[p].rows[o] \in OrderRow
      BY <2>1, <2>2, <3>2
    <3> QED
      BY <3>3 DEF OrderRow
  <2> QED
    BY <2>2, <2>4, <2>5, <2>6
<1>3. "entry" \in Orders /\ (Bracketed => "child" \in Orders)
  BY EntryOrder
<1>4. Bracketed => Named'
  BY <1>0, <1>1, <1>3 DEF Tracking, Named
<1>5. (Bracketed => (Untracked' <=> Untracked)) /\ (~Bracketed => ~Untracked')
  BY <1>1, <1>3 DEF Untracked
<1>6. ASSUME NEW p \in Procs
      PROVE  Ready(mem[p], pc[p])' /\ (Sees(p) => Sees(p)')
  <2>1. Ready(mem[p], pc[p]) /\ mem[p].cur \in Orders /\ mem[p].todo \subseteq Orders
    BY <1>6, Here DEF Mems
  <2>2. Current(mem[p], pc[p])'
    <3>1. ASSUME pc[p] = "canceling" PROVE mem'[p].upd = row'[mem'[p].cur]
      <4>1. mem[p].upd = row[mem[p].cur]
        BY <2>1, <3>1 DEF Ready, Current
      <4>2. row'[mem[p].cur] = [row[mem[p].cur] EXCEPT !.since = Older(row[mem[p].cur].since)]
        BY <2>1 DEF Tick
      <4> QED
        BY <1>2, <4>1, <4>2
    <3>2. \A o \in Orders : Same(mem[p].rows[o], row[o]) => Same(mem'[p].rows[o], row'[o])
      BY <1>1, <1>2 DEF Same
    <3>3. Current(mem[p], pc[p])
      BY <2>1 DEF Ready
    <3> QED
      BY <1>0, <1>2, <2>1, <3>1, <3>2, <3>3 DEF Current, Same
  <2>3. Ending(mem[p], pc[p])'
    BY <1>0, <1>1, <1>2, <1>3, <1>5, <2>1 DEF Ready, Ending
  <2>4. Bracketed => Naming(mem[p], pc[p])'
    BY <1>0, <1>1, <1>2, <1>3, <2>1 DEF Ready, Naming
  <2>5. Sees(p) => Sees(p)'
    BY <1>0, <1>1, <1>2, <2>1 DEF Sees, Seeing
  <2> QED
    BY <2>2, <2>3, <2>4, <2>5 DEF Ready
<1> QED
  BY <1>4, <1>6 DEF Tracking

LEMMA ElsewhereReady ==
    ASSUME Tracking, Inv', Elsewhere
    PROVE  Tracking' /\ \A p \in Procs : Sees(p) => Sees(p)'
<1>1. CASE ~Tick
  <2>1. UNCHANGED <<row, applied, pc, mem>>
    BY <1>1 DEF Elsewhere, Venue, VenueAccept, VenueRefuse, VenueFill, VenueShow, VenueCancel,
                Command, vars, store
  <2> QED
    BY <2>1 DEF Tracking, Named, Ready, Current, Ending, Naming, Untracked, Sees, Seeing
<1> QED
  BY <1>1, TickReady

LEMMA StepKinds ==
    ASSUME [Next]_vars
    PROVE  \/ Elsewhere
           \/ \E p \in Procs : \/ Place(p) \/ Walk(p) \/ ConfirmCancel(p) \/ Crash(p)
                               \/ \E o \in Orders : Cancel(p, o)
BY DEF Next, Elsewhere, Runs

LEMMA NextTracking == Tracking /\ OneAtATime /\ OneAtATime' /\ [Next]_vars => Tracking'
<1> SUFFICES ASSUME Tracking, OneAtATime, OneAtATime', [Next]_vars PROVE Tracking'
  OBVIOUS
<1>1. Inv'
  BY NextInv DEF Tracking
<1> QED
  BY <1>1, StepKinds, ElsewhereReady, ProcReady DEF Advances

LEMMA InitTracking == Init => Tracking
<1> SUFFICES ASSUME Init PROVE Tracking
  OBVIOUS
<1>1. Inv
  BY InitInv
<1>2. \A p \in Procs : Ready(mem[p], pc[p])
  <2>1. TAKE p \in Procs
  <2>2. pc[p] = "idle"
    BY DEF Init
  <2> QED
    BY <2>2 DEF Ready, Current, Ending, Naming, Early, Between, Turns
<1>3. Bracketed => Named
  <2>1. applied["entry"] = 0 /\ row["entry"] = NoRow
    BY EntryOrder DEF Init
  <2> QED
    BY <2>1, NoRowTyped DEF Named
<1> QED
  BY <1>1, <1>2, <1>3 DEF Tracking

\* While processes take the book one at a time, as its lease makes them, and
\* over crashes, failed reads and unknown submits, a bracket working at the
\* venue has a row, is named by its entry's row, or its entry is still to be
\* read: no save of an order, a cancel's late confirmation included, drops the
\* child's id once a fill of the entry is applied or the entry has settled
\* (_import_attached_children, _cancel_one_order, save_order).
THEOREM BracketNeverLost == Spec /\ []OneAtATime => []BracketTracked
<1>1. Tracking => BracketTracked
  <2> SUFFICES ASSUME Tracking, Bracketed, Accepted("child"), row["child"].st = "none",
                      ~row["entry"].kid
               PROVE  Needs(row["entry"], applied["entry"])
    BY DEF BracketTracked
  <2>1. Inv /\ Named /\ "entry" \in Orders /\ "child" \in Orders
    BY EntryOrder DEF Tracking
  <2>2. applied["entry"] = 0 /\ ~row["entry"].settled
    BY <2>1 DEF Named
  <2>3. Accepted("entry")
    BY <2>1 DEF Inv, Unaccepted, Accepted
  <2>4. RowOK("entry", row["entry"]) /\ row["entry"].st \in Statuses
    BY <2>1, StoreFacts DEF OrderRow
  <2>5. row["entry"].st # "none" /\ row["entry"].st # "rejected"
    BY <2>1, <2>3, <2>4 DEF Inv, Unaccepted, Accepted, RowOK
  <2>6. 0 < Qty
    BY ReconcileAssumption
  <2> QED
    BY <2>2, <2>4, <2>5, <2>6 DEF Needs, Statuses
<1> QED
  BY <1>1, InitTracking, NextTracking, PTL DEF Spec

-----------------------------------------------------------------------------
(* Walks fail closed.                                                      *)

\* No operator has given a command and no fault has paused the book.
Unpaused == commands = 0 /\ book.status = "running"

Closing ==
    /\ Tracking /\ Kept
    /\ commands \in Nat
    /\ Unpaused => pos = Balance /\ \A p \in Procs : Sees(p)

LEMMA CommandsCount ==
    ASSUME [Next]_vars
    PROVE  commands' = commands \/ (commands' = commands + 1 /\ \E s \in Runs : Command(s))
<1>1. CASE Elsewhere
  BY <1>1 DEF Elsewhere, Venue, VenueAccept, VenueRefuse, VenueFill, VenueShow, VenueCancel,
              Tick, Command, vars
<1>2. ASSUME NEW p \in Procs, Place(p) PROVE commands' = commands
  BY <1>2 DEF Place, Submit, PlaceOk, PlacePending, PlaceRejected, PlaceError, Placed, Attach,
              AfterPlace, AfterWalk, NoLocalFill
<1>3. ASSUME NEW p \in Procs, Walk(p) PROVE commands' = commands
  BY <1>3 DEF Walk, BeginWalk, Open, List, Plan, ApplyListed, EndApply, Skip, NotFound,
              ReadFailed, Read, Save, FillsFailed, Fault, Ingest, Close, Settle, Judge,
              Retain, EndTurns, Import, Rejoin, Finish
<1>4. ASSUME NEW p \in Procs, ConfirmCancel(p) \/ Crash(p) \/ \E o \in Orders : Cancel(p, o)
      PROVE  commands' = commands
  BY <1>4 DEF ConfirmCancel, Crash, Cancel
<1> QED
  BY <1>1, <1>2, <1>3, <1>4, StepKinds

\* Nothing but a command makes a book run again.
LEMMA StillUnpaused ==
    ASSUME Tickets = {}, Closing, [Next]_vars, Unpaused'
    PROVE  Unpaused /\ commands' = commands
<1>1. commands \in Nat /\ Inv
  BY DEF Closing, Kept
<1>2. commands' = commands
  BY <1>1, CommandsCount DEF Unpaused
<1>3. \A s \in Runs : ~Command(s)
  BY <1>1, <1>2 DEF Command
<1>4. book.status = "running"
  <2>1. CASE BookKept
    BY <2>1 DEF BookKept, Unpaused
  <2>2. CASE \E o \in Orders : Books(o)
    BY <1>1, <2>2, ProjectedFacts DEF Books, Unpaused
  <2>3. CASE \E p \in Procs : Submit(p)
    BY <2>3 DEF Submit
  <2> QED
    BY <1>1, <1>3, <2>1, <2>2, <2>3, Effect
<1> QED
  BY <1>2, <1>4 DEF Unpaused

\* While it does the position is what the applied fills leave: a unit that finds
\* no stop to open a position with faults the book.
LEMMA PosNext ==
    ASSUME Tickets = {}, Closing, [Next]_vars, Unpaused'
    PROVE  (pos = Balance)'
<1>1. /\ Kept /\ Inv /\ pos = Balance /\ pos \in Int /\ Balance \in Int
      /\ \A s \in Runs : ~Command(s)
  <2>1. commands' = commands /\ commands \in Nat /\ Unpaused
    BY StillUnpaused DEF Closing
  <2>2. \A s \in Runs : ~Command(s)
    BY <2>1 DEF Command
  <2> QED
    BY <2>1, <2>2, BalanceFacts DEF Closing, Kept, Inv, Typed
<1>2. CASE BookKept \/ \E p \in Procs : Submit(p)
  <2>1. UNCHANGED <<applied, pos>>
    BY <1>2 DEF BookKept, Submit
  <2> QED
    BY <1>1, <2>1 DEF Balance
<1>3. ASSUME NEW o \in Orders, Books(o) PROVE (pos = Balance)'
  <2>1. Balance' = Balance + Side(o)
    BY <1>1, <1>3, BalanceMoves
  <2>2. Projects(o)
    <3>1. CASE ~Projects(o)
      <4>1. book' = Stopless([book EXCEPT !.cash = [book.cash EXCEPT ![o] = book.cash[o] + 1]])
        BY <1>3, <3>1 DEF Books, ProjectedBook
      <4>2. PICK b : b = [book EXCEPT !.cash = [book.cash EXCEPT ![o] = book.cash[o] + 1]]
        OBVIOUS
      <4>3. b \in Deployment
        <5>1. book \in Deployment /\ book.cash \in [Orders -> Nat]
          BY <1>1, StoreFacts DEF Deployment
        <5>4. PICK n \in Nat : n = book.cash[o] + 1
          BY <5>1
        <5>2. PICK c \in [Orders -> Nat] : c = [book.cash EXCEPT ![o] = book.cash[o] + 1]
          <6>1. [book.cash EXCEPT ![o] = n] \in [Orders -> Nat]
            BY <5>1
          <6> QED
            BY <5>4, <6>1
        <5>3. b = [book EXCEPT !.cash = c]
          BY <4>2, <5>2
        <5> QED
          BY <5>1, <5>2, <5>3 DEF Deployment
      <4>4. PICK f : f = Faulted(b, "no_stop")
        OBVIOUS
      <4>5. f \in Deployment /\ f.status # "running"
        BY <4>3, <4>4, FaultedBook DEF Details, Faults
      <4>6. book' = [f EXCEPT !.stop = FALSE]
        BY <4>1, <4>2, <4>4 DEF Stopless
      <4>7. book'.status # "running"
        BY <4>5, <4>6 DEF Deployment
      <4> QED
        BY <4>7 DEF Unpaused
    <3> QED
      BY <3>1
  <2>3. pos' = pos + Side(o)
    BY <1>3, <2>2 DEF Books, ProjectedPos
  <2> QED
    BY <1>1, <2>1, <2>3
<1> QED
  BY <1>1, <1>2, <1>3, Effect

LEMMA NextClosing ==
    ASSUME Tickets = {}, Closing, OneAtATime, OneAtATime', [Next]_vars
    PROVE  Closing'
<1>1. Tracking' /\ Kept' /\ Inv'
  BY NextTracking, NextKept DEF Closing, Kept
<1>2. commands' \in Nat
  BY CommandsCount DEF Closing
<1>3. ASSUME Unpaused' PROVE (pos = Balance)' /\ \A p \in Procs : Sees(p)'
  <2>1. (pos = Balance)'
    BY <1>3, PosNext
  <2>2. \A p \in Procs : Sees(p)
    BY <1>3, StillUnpaused DEF Closing
  <2>3. CASE Elsewhere
    BY <1>1, <2>1, <2>2, <2>3, ElsewhereReady DEF Closing
  <2>4. ASSUME NEW p \in Procs,
               \/ Place(p) \/ Walk(p) \/ ConfirmCancel(p) \/ Crash(p)
               \/ \E o \in Orders : Cancel(p, o)
        PROVE  \A q \in Procs : Sees(q)'
    <3>1. Advances(p)
      BY <1>1, <2>4, ProcReady DEF Closing
    <3>2. Sees(p)'
      BY <1>3, <2>2, <3>1 DEF Advances, Unpaused
    <3>3. \A q \in Procs \ {p} : Sees(q)'
      BY <3>1 DEF Advances, Sees, Seeing, Early, Between
    <3> QED
      BY <3>2, <3>3
  <2> QED
    BY <2>1, <2>3, <2>4, StepKinds
<1> QED
  BY <1>1, <1>2, <1>3 DEF Closing

LEMMA InitClosing == Init => Closing
<1> SUFFICES ASSUME Init PROVE Closing
  OBVIOUS
<1>1. Tracking /\ Kept /\ Inv
  BY InitTracking, InitKept DEF Kept
<1>2. commands \in Nat
  BY DEF Init
<1>3. pos = Balance
  <2>1. \A o \in Orders : applied[o] = 0
    BY DEF Init
  <2>2. Balance = 0
    BY <1>1, <2>1, BalanceFacts
  <2> QED
    BY <2>2 DEF Init
<1>4. \A p \in Procs : Sees(p)
  BY DEF Init, Sees, Seeing, Early, Between
<1> QED
  BY <1>1, <1>2, <1>3, <1>4 DEF Closing

\* With no operator about and workers taking the book one at a time, a walk that
\* leaves the book running has read every order it found UNKNOWN, imported the
\* bracket its entry names and left no inventory without a position; each fault
\* on the way, a read that failed, a listing that came short, a unit without a
\* stop, has paused the book and nothing since has resumed it
\* (reconcile_open_orders, _record_reconcile_fault).
THEOREM FailsClosed ==
    ASSUME Tickets = {}
    PROVE  Spec /\ []OneAtATime => []WalkFailsClosed
<1>1. Closing /\ OneAtATime /\ OneAtATime' /\ [Next]_vars => Closing'
  BY NextClosing
<1>2. Closing => WalkFailsClosed
  <2> SUFFICES ASSUME Closing, commands = 0, NEW p \in Workers, pc[p] = "finish",
                      book.status = "running"
               PROVE  /\ \A o \in Orders : row[o].st # "unknown"
                      /\ ~Unprojected /\ ~Untracked
    BY DEF WalkFailsClosed
  <2>1. p \in Procs /\ Unpaused /\ Tracking /\ Inv
    BY DEF Procs, Unpaused, Closing, Kept
  <2>2. Ready(mem[p], "finish") /\ Seeing(mem[p], "finish") /\ pos = Balance
    BY <2>1, Here DEF Closing, Sees
  <2>3. mem[p].then = "finish"
    BY <2>2 DEF Ready, Ending
  <2>4. mem[p].todo = {} /\ ~Untracked
    BY <2>2, <2>3 DEF Ready, Ending
  <2>5. \A o \in Orders : row[o].st # "unknown"
    BY <2>2, <2>4 DEF Seeing
  <2>6. ~Unprojected
    <3>1. Balance \in Int /\ pos = Balance
      BY <2>1, <2>2, BalanceFacts
    <3>2. Balance # 0 => ~(Balance * pos <= 0)
      <4>1. CASE Balance > 0
        BY <3>1, <4>1
      <4>2. CASE Balance < 0
        BY <3>1, <4>2
      <4> QED
        BY <3>1, <4>1, <4>2
    <3>3. ~(Abs(Balance) > Abs(pos))
      BY <3>1 DEF Abs
    <3> QED
      BY <3>2, <3>3 DEF Unprojected
  <2> QED
    BY <2>4, <2>5, <2>6
<1> QED
  BY <1>1, <1>2, InitClosing, PTL DEF Spec
=============================================================================
