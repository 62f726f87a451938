------------------------ MODULE OrderReconcileProofs ------------------------
(***************************************************************************)
(* Proofs about OrderReconcile, for any number of passes and requests, any *)
(* quantity and any settlement delay.                                      *)
(***************************************************************************)
EXTENDS OrderReconcile, TLAPS

Runs == {"running", "paused", "stopped"}

Supervisions == [started : Runs, detail : Details, first : Details, before : Details]

Got == VenueStatuses \cup Details \cup {"unknown"}

\* The locals of a process.
Mems == [snap : Deployment, cover : [Orders -> Units], started : Runs, detail : Details,
         first : Details, before : Details, outer : Supervisions,
         then : {"walk", "child", "finish"}, rows : [Orders -> OrderRow],
         walked : SUBSET Orders, todo : SUBSET Orders, listed : [Orders -> -1..Qty],
         short : SUBSET Orders, linked : {FALSE, Bracketed}, required : -1..Qty,
         reread : SUBSET Orders, known : [Orders -> Units], cur : Orders,
         upd : OrderRow, got : Got, due : BOOLEAN]

Places == {"idle", "placing", "attach", "placed", "after", "nofill", "opening", "list",
           "apply", "walk", "save", "ingest", "fault", "settle", "judge", "retain",
           "child", "finish", "canceling"}

Typed ==
    /\ venue \in [Orders -> VenueOrder]
    /\ earlier \in [1..Qty -> Units]
    /\ row \in [Orders -> OrderRow]
    /\ applied \in [Orders -> Units]
    /\ book \in Deployment
    /\ pos \in Int
    /\ pc \in [Procs -> Places]
    /\ mem \in [Procs -> Mems]
    /\ seen \in [Procs -> BOOLEAN]
    /\ fence \in [Procs -> BOOLEAN]

\* What the venue's order o is, and that only listed units are applied.
VenueOK(o) ==
    /\ applied[o] <= venue[o].shown
    /\ venue[o].shown <= venue[o].exec
    /\ venue[o].st \in {"none", "inflight", "refused"} => venue[o].exec = 0
    /\ venue[o].exec = Qty <=> venue[o].st = "filled"
    /\ venue[o].age > 0 <=> venue[o].st = "canceled"
    /\ venue[o].age > SettleDelay => venue[o].shown = venue[o].exec

\* Before the create is accepted nothing has happened, and a submit is the
\* first thing that does.
Unaccepted ==
    /\ row["entry"].st = "none" => venue["entry"].st = "none"
    /\ ~Accepted("entry") => \A o \in Orders \ {"entry"} : venue[o].st = "none"

\* A row of o, stored or remembered, claims nothing the venue contradicts: a
\* cancel is not dated before it happened, and a settled order is over and
\* booked to the last unit.
RowOK(o, r) ==
    /\ r \in OrderRow
    /\ r.st = "rejected" => venue[o].st = "refused"
    /\ r.st = "canceled" => venue[o].st = "canceled"
    /\ r.since <= venue[o].age
    /\ r.settled => venue[o].st = "canceled" /\ applied[o] = venue[o].exec

\* What a process at place `at' may rely on.
MemOK(m, at) ==
    /\ m \in Mems
    /\ \A o \in Orders : /\ m.known[o] <= applied[o] /\ m.cover[o] <= applied[o]
                         /\ m.listed[o] <= venue[o].shown
                         /\ m.snap.cash[o] <= applied[o]
                         /\ RowOK(o, m.rows[o])
    /\ at \in {"save", "ingest", "settle", "canceling"} => RowOK(m.cur, m.upd)
    /\ at \in {"save", "ingest", "settle"} => m.upd.st # "none"
    /\ at \in {"save", "ingest"} /\ m.due =>
          /\ m.upd.filled >= venue[m.cur].exec
          /\ venue[m.cur].age > SettleDelay
    /\ at = "fault" => m.got \in Faults
    /\ at = "attach" => Bracketed

\* A copy whose revision is the row's is the row.
Fresh(p) == seen[p] => mem[p].snap = book

Sold == IF Bracketed THEN applied["child"] ELSE 0

Inv ==
    /\ Typed
    /\ Unaccepted
    /\ \A o \in Orders : /\ VenueOK(o)
                         /\ RowOK(o, row[o])
                         /\ book.cash[o] <= applied[o]
    /\ pos <= applied["entry"] /\ -Sold <= pos
    /\ \A p \in Procs : MemOK(mem[p], pc[p]) /\ Fresh(p)

-----------------------------------------------------------------------------
(* The locals of a process.                                                *)

LEMMA EntryOrder ==
    /\ "entry" \in Orders
    /\ \A o \in Orders : o \in {"entry", "child"}
    /\ "child" \in Orders <=> Bracketed
BY ReconcileAssumption DEF Orders

LEMMA NoRowTyped == NoRow \in OrderRow /\ NoRow.st = "none" /\ NoRow.since = 0
                    /\ NoRow.settled = FALSE /\ NoRow.vid = FALSE /\ NoRow.kid = FALSE
                    /\ NoRow.filled = 0
BY ReconcileAssumption DEF NoRow, OrderRow, Statuses, Units, Ages

LEMMA BlankMem ==
    /\ Blank \in Mems
    /\ Blank.snap = Created /\ Created \in Deployment
    /\ \A o \in Orders : /\ Blank.known[o] = 0 /\ Blank.cover[o] = 0 /\ Blank.listed[o] = -1
                         /\ Blank.rows[o] = NoRow /\ Created.cash[o] = 0
    /\ Blank.upd = NoRow /\ Blank.cur = "entry" /\ Blank.then = "walk"
<1>1. NoRow \in OrderRow
  BY NoRowTyped
<1>2. Created \in Deployment /\ Created.cash = [o \in Orders |-> 0]
  BY DEF Created, Deployment, Details
<1>3. 0 \in Units /\ Unlisted \in -1..Qty /\ "none" \in Details /\ "none" \in Got
  BY ReconcileAssumption DEF Units, Unlisted, Details, Got
<1>4. Blank.outer \in Supervisions
  BY <1>3 DEF Supervisions, Blank, Runs
<1>5. Blank \in Mems
  BY <1>1, <1>2, <1>3, <1>4, EntryOrder DEF Mems, Blank, Runs, Supervisions
<1> QED
  BY <1>2, <1>5 DEF Blank, Unlisted

\* The numbers a process remembers, and the ones of the state.
LEMMA MemNumbers ==
    ASSUME NEW m \in Mems, NEW o \in Orders
    PROVE  /\ m.known[o] \in Units /\ m.known[o] \in Nat /\ m.cover[o] \in Nat
           /\ m.listed[o] \in Int /\ m.listed[o] <= Qty /\ m.listed[o] >= -1
           /\ m.snap \in Deployment /\ m.snap.cash[o] \in Nat
           /\ m.rows[o] \in OrderRow /\ m.upd \in OrderRow /\ m.cur \in Orders
<1>1. m.known[o] \in Units /\ m.cover[o] \in Units /\ m.listed[o] \in -1..Qty /\ m.snap \in Deployment
      /\ m.rows[o] \in OrderRow /\ m.upd \in OrderRow /\ m.cur \in Orders
  BY DEF Mems
<1>2. m.snap.cash[o] \in Nat
  BY <1>1 DEF Deployment
<1> QED
  BY <1>1, <1>2, ReconcileAssumption DEF Units

LEMMA RowNumbers ==
    ASSUME NEW r \in OrderRow
    PROVE  r.filled \in Nat /\ r.filled <= Qty /\ r.since \in Nat /\ r.since <= SettleDelay + 1
BY ReconcileAssumption DEF OrderRow, Units, Ages

LEMMA VenueNumbers ==
    ASSUME NEW v \in VenueOrder
    PROVE  /\ v.exec \in Nat /\ v.exec <= Qty /\ v.shown \in Nat /\ v.shown <= Qty
           /\ v.age \in Nat /\ v.age <= SettleDelay + 1
BY ReconcileAssumption DEF VenueOrder, Units, Ages

LEMMA Numbers ==
    ASSUME Typed, NEW o \in Orders
    PROVE  /\ venue[o] \in VenueOrder /\ row[o] \in OrderRow
           /\ venue[o].shown \in Nat /\ venue[o].exec \in Nat /\ venue[o].age \in Nat
           /\ venue[o].shown <= Qty /\ venue[o].exec <= Qty
           /\ applied[o] \in Nat /\ applied[o] <= Qty /\ book.cash[o] \in Nat
<1>1. venue[o] \in VenueOrder /\ row[o] \in OrderRow /\ applied[o] \in Units
  BY DEF Typed
<1>2. book.cash[o] \in Nat
  BY DEF Typed, Deployment
<1> QED
  BY <1>1, <1>2, VenueNumbers, ReconcileAssumption DEF Units

\* A row no order has is a sound row of any order.
LEMMA NoRowSound ==
    ASSUME Inv, NEW o \in Orders
    PROVE  RowOK(o, NoRow)
BY NoRowTyped, ReconcileAssumption DEF Inv, Typed, VenueOrder, Ages, RowOK

\* A process that ends remembers nothing.
LEMMA BlankOK ==
    ASSUME Inv
    PROVE  MemOK(Blank, "idle") /\ MemOK(Blank, "placing")
<1>1. \A o \in Orders : applied[o] \in Nat /\ venue[o].shown \in Nat
  BY ReconcileAssumption DEF Inv, Typed, VenueOrder, Units
<1> QED
  BY <1>1, BlankMem, NoRowSound DEF MemOK

\* Once something is sound it stays so, while the venue and the ledger move on.
Onward ==
    \A o \in Orders :
       /\ venue[o].shown <= venue'[o].shown
       /\ venue[o].age <= venue'[o].age
       /\ venue[o].st \in {"refused", "canceled"} =>
             venue'[o].st = venue[o].st /\ venue'[o].exec = venue[o].exec
       /\ applied[o] <= applied'[o]
       /\ applied[o] = venue[o].exec /\ venue[o].st = "canceled" => applied'[o] = applied[o]

LEMMA OnwardRow ==
    ASSUME Inv, Typed', Onward, NEW o \in Orders, NEW r, RowOK(o, r)
    PROVE  RowOK(o, r)'
<1>1. r.since \in Nat /\ venue[o].age \in Nat /\ venue'[o].age \in Nat
  BY ReconcileAssumption DEF RowOK, OrderRow, Inv, Typed, VenueOrder, Ages
<1> QED
  BY <1>1 DEF RowOK, Onward

LEMMA OnwardMem ==
    ASSUME Inv, Typed', Onward, NEW m, NEW at, MemOK(m, at)
    PROVE  MemOK(m, at)'
<1> USE DEF MemOK
<1>1. m \in Mems /\ m.cur \in Orders
  BY DEF Mems
<1>2. \A o \in Orders :
         /\ venue[o].shown \in Nat /\ venue'[o].shown \in Nat /\ applied[o] \in Nat
         /\ applied'[o] \in Nat /\ venue[o].age \in Nat /\ venue'[o].age \in Nat
         /\ m.cover[o] \in Int /\ m.known[o] \in Int /\ m.listed[o] \in Int /\ m.snap.cash[o] \in Int
  <2>1. \A o \in Orders : /\ venue[o].shown \in Nat /\ applied[o] \in Nat
                          /\ venue[o].age \in Nat
    BY Numbers DEF Inv
  <2>2. \A o \in Orders : /\ venue'[o] \in VenueOrder /\ applied'[o] \in Nat
    BY ReconcileAssumption DEF Typed, Units
  <2> QED
    BY <1>1, <2>1, <2>2, VenueNumbers, MemNumbers
<1>3. \A o \in Orders : /\ m.known[o] <= applied'[o] /\ m.cover[o] <= applied'[o]
                        /\ m.listed[o] <= venue'[o].shown
                        /\ m.snap.cash[o] <= applied'[o]
  BY <1>2 DEF Onward
<1>4. \A o \in Orders : RowOK(o, m.rows[o])'
  BY OnwardRow
<1>5. at \in {"save", "ingest", "settle", "canceling"} => RowOK(m.cur, m.upd)'
  BY <1>1, OnwardRow
<1>6. at \in {"save", "ingest"} /\ m.due =>
          /\ m.upd.filled >= venue'[m.cur].exec
          /\ venue'[m.cur].age > SettleDelay
  <2>1. SUFFICES ASSUME at \in {"save", "ingest"}, m.due
                 PROVE  /\ m.upd.filled >= venue'[m.cur].exec
                        /\ venue'[m.cur].age > SettleDelay
    OBVIOUS
  <2>2. venue[m.cur].age > SettleDelay /\ venue[m.cur].st = "canceled"
    BY <2>1, <1>1, <1>2, ReconcileAssumption DEF Inv, VenueOK
  <2>3. venue'[m.cur].exec = venue[m.cur].exec
    BY <1>1, <2>2 DEF Onward
  <2> QED
    BY <1>1, <1>2, <2>1, <2>2, <2>3, ReconcileAssumption DEF Onward
<1> QED
  BY <1>1, <1>3, <1>4, <1>5, <1>6

-----------------------------------------------------------------------------
(* Rules for steps of one process.                                         *)

\* A step that may rewrite rows soundly and does not remove the entry's.
RowsGo ==
    /\ row' \in [Orders -> OrderRow]
    /\ \A o \in Orders : RowOK(o, row'[o])
    /\ row'["entry"].st = "none" => row["entry"].st = "none"

LEMMA RowsStay ==
    ASSUME Inv, UNCHANGED row
    PROVE  RowsGo
BY DEF Inv, Typed, RowsGo

\* save_order keeps the first cancel time and the settlement of the stored row.
LEMMA UpsertSound ==
    ASSUME Inv, NEW o \in Orders, NEW r, NEW old, RowOK(o, r), RowOK(o, old)
    PROVE  /\ RowOK(o, Upsert(old, r))
           /\ Upsert(old, r).st = r.st
           /\ Upsert(old, r).kid = r.kid /\ Upsert(old, r).vid = r.vid
           /\ Upsert(old, r).filled = r.filled
           /\ Upsert(old, r).settled = (old.settled \/ r.settled)
<1> DEFINE a == IF old.since > 0 THEN old.since
                ELSE IF r.since = 0 /\ r.st = "canceled" THEN 1 ELSE r.since
           b == IF old.settled THEN TRUE ELSE r.settled
           u == [r EXCEPT !.since = a, !.settled = b]
<1>1. r \in OrderRow /\ old \in OrderRow
  BY DEF RowOK
<1>2. a \in Nat /\ a <= venue[o].age
  <2>1. venue[o].age \in Nat /\ old.since \in Nat /\ r.since \in Nat
    BY <1>1, Numbers, RowNumbers DEF Inv
  <2>2. old.since <= venue[o].age /\ r.since <= venue[o].age
    BY DEF RowOK
  <2>3. r.st = "canceled" => venue[o].age > 0
    BY DEF RowOK, Inv, VenueOK
  <2> QED
    BY <2>1, <2>2, <2>3
<1>3. a \in Ages
  BY <1>2, Numbers, VenueNumbers, ReconcileAssumption DEF Inv, Ages
<1>4. b \in BOOLEAN /\ b = (old.settled \/ r.settled)
  BY <1>1 DEF OrderRow
<1> HIDE DEF a, b
<1>5. /\ u \in OrderRow /\ u.st = r.st /\ u.since = a /\ u.settled = b
      /\ u.vid = r.vid /\ u.kid = r.kid /\ u.filled = r.filled
  BY <1>1, <1>3, <1>4 DEF OrderRow
<1>6. Upsert(old, r) = u
  BY DEF Upsert, a, b
<1> HIDE DEF u
<1>7. u.settled => venue[o].st = "canceled" /\ applied[o] = venue[o].exec
  BY <1>4, <1>5 DEF RowOK
<1>8. RowOK(o, u)
  BY <1>2, <1>5, <1>7 DEF RowOK
<1> QED
  BY <1>4, <1>5, <1>6, <1>8

LEMMA SaveGoes ==
    ASSUME Inv, NEW o \in Orders, NEW r, RowOK(o, r), r.st # "none", SaveOrder(o, r)
    PROVE  RowsGo
<1>1. RowOK(o, row[o])
  BY DEF Inv
<1>2. PICK u : u = Upsert(row[o], r)
  OBVIOUS
<1>3. RowOK(o, u) /\ u.st # "none"
  BY <1>1, <1>2, UpsertSound
<1>4. row' = [row EXCEPT ![o] = u]
  BY <1>2 DEF SaveOrder
<1>5. row \in [Orders -> OrderRow] /\ \A q \in Orders : RowOK(q, row[q])
  BY DEF Inv, Typed
<1>6. u \in OrderRow
  BY <1>3 DEF RowOK
<1>7. row' \in [Orders -> OrderRow] /\ \A q \in Orders : row'[q] = IF q = o THEN u ELSE row[q]
  BY <1>4, <1>5, <1>6
<1>8. \A q \in Orders : RowOK(q, row'[q])
  BY <1>3, <1>5, <1>7
<1>9. row'["entry"].st = "none" => row["entry"].st = "none"
  BY <1>3, <1>7, EntryOrder
<1> QED
  BY <1>7, <1>8, <1>9 DEF RowsGo

\* A step of p that leaves the venue and the ledger alone.
LEMMA ProcStep ==
    ASSUME Inv, NEW p \in Procs, NEW m, NEW at \in Places, MemOK(m, at),
           UNCHANGED <<venue, earlier, applied, pos>>, RowsGo,
           pc' = [pc EXCEPT ![p] = at], mem' = [mem EXCEPT ![p] = m],
           book' \in Deployment, \A o \in Orders : book'.cash[o] <= applied[o],
           seen' \in [Procs -> BOOLEAN], fence' \in [Procs -> BOOLEAN],
           seen'[p] => m.snap = book',
           \A q \in Procs \ {p} : seen'[q] => seen[q] /\ book' = book
    PROVE  Inv'
<1>1. /\ pc' \in [Procs -> Places] /\ mem' \in [Procs -> Mems]
      /\ \A q \in Procs : /\ pc'[q] = IF q = p THEN at ELSE pc[q]
                          /\ mem'[q] = IF q = p THEN m ELSE mem[q]
  BY DEF Inv, Typed, MemOK
<1>2. Typed'
  BY <1>1 DEF Inv, Typed, RowsGo
<1>3. \A o \in Orders : (VenueOK(o))' /\ (RowOK(o, row[o]))' /\ book'.cash[o] <= applied'[o]
  BY DEF Inv, VenueOK, RowOK, RowsGo
<1>4. Unaccepted'
  BY DEF Inv, Unaccepted, RowsGo, Accepted
<1>5. \A q \in Procs : MemOK(mem[q], pc[q])'
  BY <1>1 DEF Inv, MemOK, RowOK
<1>6. \A q \in Procs : Fresh(q)'
  BY <1>1 DEF Inv, Fresh
<1>7. pos' <= applied'["entry"] /\ -Sold' <= pos'
  BY DEF Inv, Sold
<1> QED
  BY <1>2, <1>3, <1>4, <1>5, <1>6, <1>7 DEF Inv

LEMMA GoesStep ==
    ASSUME Inv, NEW p \in Procs, NEW m, NEW at \in Places, MemOK(m, at), NEW s \in BOOLEAN,
           Goes(p, at, m, s), s => m.snap = book,
           UNCHANGED <<venue, earlier, applied, pos>>, RowsGo
    PROVE  Inv'
<1>1. book' = book /\ fence' = fence /\ seen' = [seen EXCEPT ![p] = s]
  BY DEF Goes
<1>2. /\ seen' \in [Procs -> BOOLEAN] /\ fence' \in [Procs -> BOOLEAN]
      /\ \A q \in Procs : seen'[q] = IF q = p THEN s ELSE seen[q]
  BY <1>1 DEF Inv, Typed
<1>3. book \in Deployment /\ \A o \in Orders : book.cash[o] <= applied[o]
  BY DEF Inv, Typed
<1> QED
  BY <1>1, <1>2, <1>3, ProcStep DEF Goes

\* The pass or request ends without a write.
LEMMA ReturnStep ==
    ASSUME Inv, NEW p \in Procs, Return(p), UNCHANGED <<venue, earlier, applied, pos>>, RowsGo
    PROVE  Inv'
<1>1. /\ seen' \in [Procs -> BOOLEAN] /\ fence' \in [Procs -> BOOLEAN]
      /\ \A q \in Procs : seen'[q] = IF q = p THEN FALSE ELSE seen[q]
  BY DEF Inv, Typed, Return
<1>2. book' = book /\ book \in Deployment /\ \A o \in Orders : book.cash[o] <= applied[o]
  BY DEF Inv, Typed, Return
<1>3. "idle" \in Places
  BY DEF Places
<1> QED
  BY <1>1, <1>2, <1>3, BlankOK, ProcStep DEF Return

LEMMA LastWriteStep ==
    ASSUME Inv, NEW p \in Procs, NEW b \in Deployment,
           \A o \in Orders : b.cash[o] <= applied[o],
           LastWrite(p, b), UNCHANGED <<venue, earlier, applied, pos>>, RowsGo
    PROVE  Inv'
<1>1. CASE Accepts(p)
  <2>1. /\ book' = b /\ seen' = [q \in Procs |-> FALSE] /\ fence' = [q \in Procs |-> FALSE]
        /\ pc' = [pc EXCEPT ![p] = "idle"] /\ mem' = [mem EXCEPT ![p] = Blank]
    BY <1>1 DEF LastWrite
  <2>2. /\ seen' \in [Procs -> BOOLEAN] /\ fence' \in [Procs -> BOOLEAN]
        /\ \A q \in Procs : ~seen'[q]
    BY <2>1
  <2>3. "idle" \in Places
    BY DEF Places
  <2> QED
    BY <2>1, <2>2, <2>3, BlankOK, ProcStep
<1>2. CASE ~Accepts(p)
  BY <1>2, ReturnStep DEF LastWrite
<1> QED
  BY <1>1, <1>2

LEMMA WroteStep ==
    ASSUME Inv, NEW p \in Procs, NEW b \in Deployment,
           \A o \in Orders : b.cash[o] <= applied[o],
           NEW m, NEW at \in Places, MemOK(m, at), Wrote(p, b, at, m),
           UNCHANGED <<venue, earlier, applied, pos>>, RowsGo
    PROVE  Inv'
<1> DEFINE n == [m EXCEPT !.snap = b]
<1>1. m \in Mems
  BY DEF MemOK
<1>2. /\ n \in Mems /\ n.snap = b /\ n.cover = m.cover /\ n.known = m.known /\ n.listed = m.listed
      /\ n.rows = m.rows /\ n.upd = m.upd /\ n.cur = m.cur /\ n.due = m.due /\ n.got = m.got
  BY <1>1 DEF Mems
<1>3. /\ book' = b /\ seen' = Alone(p) /\ fence' = AloneFenced(p)
      /\ pc' = [pc EXCEPT ![p] = at] /\ mem' = [mem EXCEPT ![p] = n]
  BY DEF Wrote
<1> HIDE DEF n
<1>4. MemOK(n, at)
  BY <1>2 DEF MemOK
<1>5. /\ seen' \in [Procs -> BOOLEAN] /\ fence' \in [Procs -> BOOLEAN]
      /\ \A q \in Procs : seen'[q] = (q = p)
  BY <1>3 DEF Alone, AloneFenced
<1> QED
  BY <1>2, <1>3, <1>4, <1>5, ProcStep

LEMMA WriteOrAbortStep ==
    ASSUME Inv, NEW p \in Procs, NEW b \in Deployment,
           \A o \in Orders : b.cash[o] <= applied[o], NEW ok,
           NEW m, NEW at \in Places, MemOK(m, at), WriteOrAbort(p, ok, b, at, m),
           UNCHANGED <<venue, earlier, applied, pos>>, RowsGo
    PROVE  Inv'
BY WroteStep, ReturnStep DEF WriteOrAbort

-----------------------------------------------------------------------------
(* The start, the venue and time.                                          *)

LEMMA InitInv == Init => Inv
<1> SUFFICES ASSUME Init PROVE Inv
  OBVIOUS
<1> USE DEF Init
<1>1. \A o \in Orders : /\ venue[o] \in VenueOrder /\ venue[o].st = "none" /\ venue[o].exec = 0
                        /\ venue[o].shown = 0 /\ venue[o].age = 0
  BY ReconcileAssumption DEF VenueOrder, VenueStatuses, Units, Ages
<1>2. Typed
  <2>1. venue \in [Orders -> VenueOrder]
    BY <1>1
  <2>2. "idle" \in Places /\ 0 \in Units
    BY ReconcileAssumption DEF Places, Units
  <2> QED
    BY <2>1, <2>2, NoRowTyped, BlankMem DEF Typed
<1>3. \A o \in Orders : applied[o] = 0 /\ row[o] = NoRow
  OBVIOUS
<1>4. \A o \in Orders : RowOK(o, NoRow)
  BY <1>1, NoRowTyped DEF RowOK
<1>5. \A o \in Orders : VenueOK(o) /\ RowOK(o, row[o]) /\ book.cash[o] <= applied[o]
  BY <1>1, <1>3, <1>4, BlankMem, ReconcileAssumption DEF VenueOK
<1>6. Unaccepted
  BY <1>1, EntryOrder DEF Unaccepted, Accepted
<1>7. pos <= applied["entry"] /\ -Sold <= pos
  BY <1>3, EntryOrder DEF Sold
<1>8. \A p \in Procs : mem[p] = Blank /\ pc[p] = "idle" /\ seen[p] = FALSE
  OBVIOUS
<1>9. MemOK(Blank, "idle")
  BY <1>1, <1>3, <1>4, BlankMem DEF MemOK
<1> QED
  BY <1>2, <1>5, <1>6, <1>7, <1>8, <1>9 DEF Inv, Fresh

\* A step of the venue alone.
LEMMA VenueStep ==
    ASSUME Inv, venue' \in [Orders -> VenueOrder], earlier' \in [1..Qty -> Units],
           UNCHANGED <<store, pc, mem, seen, fence>>,
           Unaccepted', \A o \in Orders : VenueOK(o)', Onward
    PROVE  Inv'
<1> USE DEF store
<1>1. Typed'
  BY DEF Inv, Typed
<1>2. \A o \in Orders : RowOK(o, row[o])'
  BY <1>1, OnwardRow DEF Inv
<1>3. \A p \in Procs : MemOK(mem[p], pc[p])'
  BY <1>1, OnwardMem DEF Inv
<1>4. \A o \in Orders : book'.cash[o] <= applied'[o]
  BY DEF Inv
<1>5. pos' <= applied'["entry"] /\ -Sold' <= pos'
  BY DEF Inv, Sold
<1>6. \A p \in Procs : Fresh(p)'
  BY DEF Inv, Fresh
<1> QED
  BY <1>1, <1>2, <1>3, <1>4, <1>5, <1>6 DEF Inv

LEMMA VenueInv ==
    ASSUME Inv, Venue
    PROVE  Inv'
<1> USE DEF VenueStatuses
<1>0. /\ venue \in [Orders -> VenueOrder] /\ earlier \in [1..Qty -> Units]
      /\ \A o \in Orders : VenueOK(o)
      /\ Unaccepted
  BY DEF Inv, Typed
<1>1. \A o \in Orders : /\ venue[o] \in VenueOrder /\ venue[o].exec \in Nat
                        /\ venue[o].shown \in Nat /\ venue[o].age \in Nat
                        /\ applied[o] \in Nat /\ venue[o].exec <= Qty
  BY Numbers DEF Inv
<1>2. ASSUME VenueAccept PROVE Inv'
  <2>1. /\ venue' = [o \in Orders |-> [venue[o] EXCEPT !.st = "open"]]
        /\ venue["entry"].st = "inflight" /\ earlier' = earlier
        /\ UNCHANGED <<store, pc, mem, seen, fence>>
    BY <1>2 DEF VenueAccept
  <2>2. \A o \in Orders :
           /\ venue'[o] \in VenueOrder /\ venue'[o].st = "open" /\ venue'[o].exec = venue[o].exec
           /\ venue'[o].shown = venue[o].shown /\ venue'[o].age = venue[o].age
    BY <1>1, <2>1 DEF VenueOrder
  <2>3. \A o \in Orders : venue[o].st \in {"none", "inflight"}
    BY <1>0, <1>1, <2>1, EntryOrder DEF Unaccepted, Accepted, VenueOrder
  <2>4. \A o \in Orders : VenueOK(o)' /\ venue[o].age = 0
    BY <1>0, <1>1, <2>1, <2>2, <2>3, ReconcileAssumption DEF VenueOK, store
  <2>5. row["entry"].st # "none"
    BY <1>0, <2>1 DEF Unaccepted
  <2>6. Unaccepted'
    BY <2>1, <2>2, <2>5, EntryOrder DEF Unaccepted, Accepted, store
  <2>7. Onward
    BY <1>1, <2>1, <2>2, <2>3 DEF Onward, store
  <2>8. venue' \in [Orders -> VenueOrder]
    BY <2>1, <2>2
  <2> QED
    BY <1>0, <2>1, <2>4, <2>6, <2>7, <2>8, VenueStep
<1>3. ASSUME VenueRefuse PROVE Inv'
  <2>1. /\ venue' = [venue EXCEPT !["entry"].st = "refused"]
        /\ venue["entry"].st = "inflight" /\ earlier' = earlier
        /\ UNCHANGED <<store, pc, mem, seen, fence>>
    BY <1>3 DEF VenueRefuse
  <2>2. \A o \in Orders :
           /\ venue'[o] \in VenueOrder /\ venue'[o].exec = venue[o].exec
           /\ venue'[o].st = IF o = "entry" THEN "refused" ELSE venue[o].st
           /\ venue'[o].shown = venue[o].shown /\ venue'[o].age = venue[o].age
    BY <1>0, <1>1, <2>1 DEF VenueOrder
  <2>3. \A o \in Orders : venue[o].st \in {"none", "inflight"}
    BY <1>0, <1>1, <2>1, EntryOrder DEF Unaccepted, Accepted, VenueOrder
  <2>4. \A o \in Orders : VenueOK(o)'
    BY <1>0, <1>1, <2>1, <2>2, <2>3, ReconcileAssumption DEF VenueOK, store
  <2>5. row["entry"].st # "none"
    BY <1>0, <2>1 DEF Unaccepted
  <2>6. Unaccepted'
    BY <1>0, <2>1, <2>2, <2>5, EntryOrder DEF Unaccepted, Accepted, store
  <2>7. Onward
    BY <1>1, <2>1, <2>2, <2>3 DEF Onward, store
  <2>8. venue' \in [Orders -> VenueOrder]
    BY <1>0, <2>1, <2>2
  <2> QED
    BY <1>0, <2>1, <2>4, <2>6, <2>7, <2>8, VenueStep
<1>4. ASSUME NEW o \in Orders, VenueFill(o) PROVE Inv'
  <2> DEFINE s == IF venue[o].exec + 1 = Qty THEN "filled" ELSE "open"
  <2>1. /\ venue' = [venue EXCEPT ![o].exec = venue[o].exec + 1, ![o].st = s]
        /\ venue[o].st = "open" /\ (o = "child" => venue[o].exec < venue["entry"].exec)
        /\ UNCHANGED <<store, pc, mem, seen, fence>>
        /\ earlier' = IF o = "entry" THEN earlier
                      ELSE [earlier EXCEPT ![venue[o].exec + 1] = venue["entry"].exec]
    BY <1>4 DEF VenueFill
  <2>a. venue[o].st = "open" /\ applied' = applied
    BY <2>1 DEF store
  <2>2. venue[o].exec < Qty /\ venue[o].exec + 1 \in Units
    BY <1>0, <1>1, <2>1, ReconcileAssumption DEF VenueOK, Units
  <2>3. \A q \in Orders :
           /\ venue'[q] \in VenueOrder
           /\ venue'[q].exec = IF q = o THEN venue[o].exec + 1 ELSE venue[q].exec
           /\ venue'[q].st = IF q = o THEN s ELSE venue[q].st
           /\ venue'[q].shown = venue[q].shown /\ venue'[q].age = venue[q].age
    BY <1>0, <1>1, <2>1, <2>2 DEF VenueOrder
  <2>4. \A q \in Orders : VenueOK(q)'
    <3>1. TAKE q \in Orders
    <3>2. CASE q # o
      BY <1>0, <2>1, <2>3, <3>2 DEF VenueOK, store
    <3>3. CASE q = o
      <4>1. venue[o].age = 0
        BY <1>0, <1>1, <2>1 DEF VenueOK
      <4>2. VenueOK(o) /\ applied' = applied
        BY <1>0, <2>1 DEF store
      <4> QED
        BY <1>1, <2>a, <2>2, <2>3, <3>3, <4>1, <4>2, ReconcileAssumption DEF VenueOK
    <3> QED
      BY <3>2, <3>3
  <2>5. Accepted("entry")
    BY <1>0, <2>1, EntryOrder DEF Unaccepted, Accepted
  <2>6. Unaccepted'
    BY <1>0, <2>1, <2>3, <2>5, EntryOrder DEF Unaccepted, Accepted, store
  <2>7. Onward
    BY <1>1, <2>a, <2>3 DEF Onward
  <2>8. venue' \in [Orders -> VenueOrder]
    BY <1>0, <2>1, <2>3
  <2>9. earlier' \in [1..Qty -> Units]
    <3>1. venue["entry"].exec \in Units
      BY <1>1, EntryOrder, ReconcileAssumption DEF Units
    <3> QED
      BY <1>0, <2>1, <3>1
  <2> QED
    BY <2>1, <2>4, <2>6, <2>7, <2>8, <2>9, VenueStep
<1>5. ASSUME NEW o \in Orders, VenueShow(o) PROVE Inv'
  <2>1. /\ venue' = [venue EXCEPT ![o].shown = venue[o].shown + 1]
        /\ venue[o].shown < venue[o].exec /\ earlier' = earlier
        /\ UNCHANGED <<store, pc, mem, seen, fence>>
    BY <1>5 DEF VenueShow
  <2>2. venue[o].shown + 1 \in Units
    BY <1>1, <2>1, ReconcileAssumption DEF Units
  <2>3. \A q \in Orders :
           /\ venue'[q] \in VenueOrder /\ venue'[q].exec = venue[q].exec
           /\ venue'[q].shown = IF q = o THEN venue[o].shown + 1 ELSE venue[q].shown
           /\ venue'[q].st = venue[q].st /\ venue'[q].age = venue[q].age
    BY <1>0, <1>1, <2>1, <2>2 DEF VenueOrder
  <2>4. \A q \in Orders : VenueOK(q)'
    BY <1>0, <1>1, <2>1, <2>3, ReconcileAssumption DEF VenueOK, store
  <2>6. Unaccepted'
    BY <1>0, <2>1, <2>3, EntryOrder DEF Unaccepted, Accepted, store
  <2>7. Onward
    BY <1>1, <2>1, <2>3 DEF Onward, store
  <2>8. venue' \in [Orders -> VenueOrder]
    BY <1>0, <2>1, <2>3
  <2> QED
    BY <1>0, <2>1, <2>4, <2>6, <2>7, <2>8, VenueStep
<1>6. ASSUME NEW o \in Orders, VenueCancel(o) PROVE Inv'
  <2>1. /\ venue' = [venue EXCEPT ![o].st = "canceled", ![o].age = 1]
        /\ venue[o].st = "open" /\ earlier' = earlier
        /\ UNCHANGED <<store, pc, mem, seen, fence>>
    BY <1>6 DEF VenueCancel
  <2>2. 1 \in Ages
    BY ReconcileAssumption DEF Ages
  <2>3. \A q \in Orders :
           /\ venue'[q] \in VenueOrder /\ venue'[q].exec = venue[q].exec
           /\ venue'[q].shown = venue[q].shown
           /\ venue'[q].st = IF q = o THEN "canceled" ELSE venue[q].st
           /\ venue'[q].age = IF q = o THEN 1 ELSE venue[q].age
    BY <1>0, <1>1, <2>1, <2>2 DEF VenueOrder
  <2>4. \A q \in Orders : VenueOK(q)'
    BY <1>0, <1>1, <2>1, <2>3, ReconcileAssumption DEF VenueOK, store
  <2>5. Accepted("entry")
    BY <1>0, <2>1, EntryOrder DEF Unaccepted, Accepted
  <2>6. Unaccepted'
    BY <1>0, <2>1, <2>3, <2>5, EntryOrder DEF Unaccepted, Accepted, store
  <2>7. Onward
    <3>1. venue[o].age = 0
      BY <1>0, <1>1, <2>1 DEF VenueOK
    <3>2. venue[o].st = "open" /\ applied' = applied
      BY <2>1 DEF store
    <3> QED
      BY <1>1, <2>3, <3>1, <3>2 DEF Onward
  <2>8. venue' \in [Orders -> VenueOrder]
    BY <1>0, <2>1, <2>3
  <2> QED
    BY <1>0, <2>1, <2>4, <2>6, <2>7, <2>8, VenueStep
<1> QED
  BY <1>2, <1>3, <1>4, <1>5, <1>6 DEF Venue

LEMMA OlderFacts ==
    /\ \A n \in Ages : Older(n) \in Ages /\ n <= Older(n) /\ (Older(n) > 0 <=> n > 0)
    /\ \A n \in Ages : Older(n) > SettleDelay <=> n >= SettleDelay
    /\ \A m, n \in Ages : m <= n => Older(m) <= Older(n)
BY ReconcileAssumption DEF Older, Ages

\* What a row is a tick later.
Aged(r) == [r EXCEPT !.since = Older(r.since)]

LEMMA AgedFields ==
    ASSUME NEW r \in OrderRow
    PROVE  /\ Aged(r) \in OrderRow /\ Aged(r).since = Older(r.since)
           /\ Aged(r).st = r.st /\ Aged(r).filled = r.filled /\ Aged(r).settled = r.settled
           /\ Aged(r).kid = r.kid /\ Aged(r).vid = r.vid
<1>1. r.since \in Ages
  BY DEF OrderRow
<1>2. PICK n \in Ages : n = Older(r.since)
  BY <1>1, OlderFacts
<1>3. Aged(r) = [r EXCEPT !.since = n]
  BY <1>2 DEF Aged
<1> QED
  BY <1>2, <1>3 DEF OrderRow

LEMMA TickInv ==
    ASSUME Inv, Tick
    PROVE  Inv'
<1>0. /\ venue \in [Orders -> VenueOrder] /\ row \in [Orders -> OrderRow]
      /\ mem \in [Procs -> Mems]
      /\ \A o \in Orders : VenueOK(o) /\ RowOK(o, row[o])
      /\ \A p \in Procs : MemOK(mem[p], pc[p])
      /\ Unaccepted
  BY DEF Inv, Typed
<1>1. /\ venue' = [o \in Orders |-> [venue[o] EXCEPT !.age = Older(venue[o].age)]]
      /\ row' = [o \in Orders |-> Aged(row[o])]
      /\ UNCHANGED <<earlier, applied, book, pos, pc, seen, fence>>
  BY DEF Tick, Aged
<1>2. /\ mem' = [p \in Procs |->
                   [mem[p] EXCEPT !.rows = [o \in Orders |-> Aged(mem[p].rows[o])],
                                  !.upd = Aged(mem[p].upd)]]
      /\ \A o \in Orders : venue[o].age = SettleDelay => venue[o].shown = venue[o].exec
  BY DEF Tick, Aged
<1>3. \A o \in Orders : /\ venue'[o] \in VenueOrder /\ venue'[o].st = venue[o].st
                        /\ venue'[o].exec = venue[o].exec /\ venue'[o].shown = venue[o].shown
                        /\ venue'[o].age = Older(venue[o].age)
                        /\ venue[o].age \in Ages
  <2>1. TAKE o \in Orders
  <2>2. venue[o] \in VenueOrder /\ venue[o].age \in Ages
    BY <1>0 DEF VenueOrder
  <2>3. PICK n \in Ages : n = Older(venue[o].age)
    BY <2>2, OlderFacts
  <2>4. venue'[o] = [venue[o] EXCEPT !.age = n]
    BY <1>1, <2>3
  <2> QED
    BY <2>2, <2>3, <2>4 DEF VenueOrder
<1>4. \A p \in Procs :
         /\ mem'[p] \in Mems
         /\ mem'[p].rows = [o \in Orders |-> Aged(mem[p].rows[o])]
         /\ mem'[p].upd = Aged(mem[p].upd) /\ mem'[p].cover = mem[p].cover /\ mem'[p].known = mem[p].known
         /\ mem'[p].listed = mem[p].listed /\ mem'[p].snap = mem[p].snap
         /\ mem'[p].cur = mem[p].cur /\ mem'[p].due = mem[p].due /\ mem'[p].got = mem[p].got
  <2>1. TAKE p \in Procs
  <2>2. mem[p] \in Mems /\ mem[p].upd \in OrderRow /\ mem[p].rows \in [Orders -> OrderRow]
    BY <1>0 DEF Mems
  <2>3. PICK u \in OrderRow : u = Aged(mem[p].upd)
    BY <2>2, AgedFields
  <2>4. PICK R \in [Orders -> OrderRow] : R = [o \in Orders |-> Aged(mem[p].rows[o])]
    BY <2>2, AgedFields
  <2>5. mem'[p] = [mem[p] EXCEPT !.rows = R, !.upd = u]
    BY <1>2, <2>3, <2>4
  <2>6. /\ mem'[p] \in Mems /\ mem'[p].rows = R /\ mem'[p].upd = u
        /\ mem'[p].cover = mem[p].cover /\ mem'[p].known = mem[p].known
        /\ mem'[p].listed = mem[p].listed /\ mem'[p].snap = mem[p].snap
        /\ mem'[p].cur = mem[p].cur /\ mem'[p].due = mem[p].due /\ mem'[p].got = mem[p].got
    BY <2>2, <2>5 DEF Mems
  <2> QED
    BY <2>3, <2>4, <2>6
<1>5. Typed'
  <2>1. venue' \in [Orders -> VenueOrder] /\ row' \in [Orders -> OrderRow]
    BY <1>0, <1>1, <1>3, AgedFields
  <2>2. mem' \in [Procs -> Mems]
    BY <1>2, <1>4
  <2> QED
    BY <1>1, <2>1, <2>2 DEF Inv, Typed
<1>6. \A o \in Orders : \A r : RowOK(o, r) => RowOK(o, Aged(r))'
  <2>1. TAKE o \in Orders
  <2>2. SUFFICES ASSUME NEW r, RowOK(o, r) PROVE RowOK(o, Aged(r))'
    OBVIOUS
  <2>3. r \in OrderRow /\ r.since \in Ages
    BY <2>2 DEF RowOK, OrderRow
  <2>4. Older(r.since) <= venue'[o].age
    BY <1>3, <2>2, <2>3, OlderFacts DEF RowOK
  <2> QED
    BY <1>1, <1>3, <2>2, <2>3, <2>4, AgedFields DEF RowOK
<1>7. \A o \in Orders : VenueOK(o)'
  <2>1. TAKE o \in Orders
  <2>2. venue'[o].age > SettleDelay => venue[o].shown = venue[o].exec
    <3>1. venue'[o].age > SettleDelay => venue[o].age >= SettleDelay
      BY <1>3, OlderFacts
    <3>2. venue[o].age >= SettleDelay => venue[o].age = SettleDelay \/ venue[o].age > SettleDelay
      BY <1>3, ReconcileAssumption DEF Ages
    <3> QED
      BY <1>0, <1>2, <3>1, <3>2 DEF VenueOK
  <2>3. venue'[o].age > 0 <=> venue[o].age > 0
    BY <1>3, OlderFacts
  <2> QED
    BY <1>0, <1>1, <1>3, <2>2, <2>3 DEF VenueOK
<1>8. \A o \in Orders : row'[o] = Aged(row[o]) /\ row'[o].st = row[o].st
  BY <1>0, <1>1, AgedFields
<1>9. \A o \in Orders : RowOK(o, row[o])'
  BY <1>0, <1>6, <1>8
<1>10. Unaccepted'
  BY <1>0, <1>3, <1>8, EntryOrder DEF Unaccepted, Accepted
<1>11. ASSUME NEW p \in Procs PROVE MemOK(mem[p], pc[p])'
  <2>1. MemOK(mem[p], pc[p]) /\ mem[p] \in Mems /\ pc'[p] = pc[p]
    BY <1>0, <1>1
  <2>2. mem[p].upd \in OrderRow /\ mem[p].cur \in Orders
    BY <2>1 DEF Mems
  <2>3. /\ mem'[p].upd.st = mem[p].upd.st /\ mem'[p].upd.filled = mem[p].upd.filled
    <3>1. mem'[p].upd = Aged(mem[p].upd)
      BY <1>4
    <3> QED
      BY <2>2, <3>1, AgedFields
  <2>4. \A o \in Orders : RowOK(o, mem[p].rows[o]) /\ mem'[p].rows[o] = Aged(mem[p].rows[o])
    BY <1>4, <2>1 DEF MemOK
  <2>5. \A o \in Orders : RowOK(o, mem[p].rows[o])'
    BY <1>6, <2>4
  <2>6. pc[p] \in {"save", "ingest", "settle", "canceling"} => RowOK(mem[p].cur, mem[p].upd)'
    BY <1>4, <1>6, <2>1, <2>2 DEF MemOK
  <2>7. venue[mem[p].cur].age > SettleDelay => venue'[mem[p].cur].age > SettleDelay
    BY <1>3, <2>2, OlderFacts, ReconcileAssumption DEF Ages
  <2>8. \A o \in Orders : /\ mem'[p].known[o] <= applied'[o] /\ mem'[p].cover[o] <= applied'[o]
                          /\ mem'[p].listed[o] <= venue'[o].shown
                          /\ mem'[p].snap.cash[o] <= applied'[o]
    BY <1>1, <1>3, <1>4, <2>1 DEF MemOK
  <2>9. pc'[p] \in {"save", "ingest"} /\ mem'[p].due =>
          /\ mem'[p].upd.filled >= venue'[mem'[p].cur].exec
          /\ venue'[mem'[p].cur].age > SettleDelay
    BY <1>3, <1>4, <2>1, <2>2, <2>3, <2>7 DEF MemOK
  <2> QED
    BY <1>4, <2>1, <2>3, <2>5, <2>6, <2>8, <2>9 DEF MemOK
<1>12. /\ \A o \in Orders : book'.cash[o] <= applied'[o]
       /\ pos' <= applied'["entry"] /\ -Sold' <= pos'
  BY <1>1 DEF Inv, Sold
<1>13. \A p \in Procs : Fresh(p)'
  BY <1>1, <1>4 DEF Inv, Fresh
<1> QED
  BY <1>5, <1>7, <1>9, <1>10, <1>11, <1>12, <1>13 DEF Inv

-----------------------------------------------------------------------------
(* Submitting the entry.                                                   *)

\* A step of p that moves the venue or the ledger on.
LEMMA MovingStep ==
    ASSUME Inv, NEW p \in Procs, NEW m, NEW at \in Places, MemOK(m, at)', Onward,
           venue' \in [Orders -> VenueOrder], earlier' \in [1..Qty -> Units],
           row' \in [Orders -> OrderRow], applied' \in [Orders -> Units], pos' \in Int,
           pc' = [pc EXCEPT ![p] = at], mem' = [mem EXCEPT ![p] = m],
           book' \in Deployment,
           seen' \in [Procs -> BOOLEAN], fence' \in [Procs -> BOOLEAN],
           Unaccepted',
           \A o \in Orders : VenueOK(o)' /\ RowOK(o, row[o])' /\ book'.cash[o] <= applied'[o],
           pos' <= applied'["entry"], -Sold' <= pos',
           seen'[p] => m.snap = book',
           \A q \in Procs \ {p} : seen'[q] => seen[q] /\ book' = book
    PROVE  Inv'
<1>1. m \in Mems
  BY DEF MemOK
<1>2. /\ pc' \in [Procs -> Places] /\ mem' \in [Procs -> Mems]
      /\ \A q \in Procs : /\ pc'[q] = IF q = p THEN at ELSE pc[q]
                          /\ mem'[q] = IF q = p THEN m ELSE mem[q]
  BY <1>1 DEF Inv, Typed
<1>3. Typed'
  BY <1>2 DEF Typed
<1>4. \A q \in Procs : MemOK(mem[q], pc[q])'
  <2>1. TAKE q \in Procs
  <2>2. CASE q = p
    BY <1>2, <2>2
  <2>3. CASE q # p
    <3>1. MemOK(mem[q], pc[q])
      BY DEF Inv
    <3>2. PICK n, a : n = mem[q] /\ a = pc[q]
      OBVIOUS
    <3>3. MemOK(n, a)'
      BY <1>3, <3>1, <3>2, OnwardMem
    <3> QED
      BY <1>2, <2>3, <3>2, <3>3
  <2> QED
    BY <2>2, <2>3
<1>5. \A q \in Procs : Fresh(q)'
  BY <1>2 DEF Inv, Fresh
<1> QED
  BY <1>3, <1>4, <1>5 DEF Inv

LEMMA FaultedBook ==
    ASSUME NEW b \in Deployment, NEW d \in Details
    PROVE  /\ Faulted(b, d) \in Deployment /\ Faulted(b, d).cash = b.cash
           /\ Faulted(b, d).status # "running" /\ Faulted(b, d).stop = b.stop
           /\ Faulted(b, d).detail = d
BY DEF Faulted, FaultStatus, Deployment

LEMMA SubmitInv ==
    ASSUME Inv, NEW p \in Procs, Submit(p)
    PROVE  Inv'
<1>0. /\ venue \in [Orders -> VenueOrder] /\ row \in [Orders -> OrderRow]
      /\ book \in Deployment /\ Unaccepted /\ row["entry"].st = "none"
      /\ \A o \in Orders : VenueOK(o) /\ RowOK(o, row[o]) /\ book.cash[o] <= applied[o]
  BY DEF Inv, Typed, Submit
<1>1. venue["entry"].st = "none" /\ \A o \in Orders : venue[o].st = "none"
  BY <1>0, EntryOrder DEF Unaccepted, Accepted
<1>2. PICK r : r = [NoRow EXCEPT !.st = "pending"]
  OBVIOUS
<1>3. r \in OrderRow /\ r.st = "pending" /\ r.since = 0 /\ r.settled = FALSE
  BY <1>2, NoRowTyped DEF OrderRow, Statuses
<1>4. RowOK("entry", r)
  BY <1>3, EntryOrder, Numbers DEF RowOK, Inv
<1>5. PICK b : b = [book EXCEPT !.stop = TRUE, !.detail = "none"]
  OBVIOUS
<1>6. b \in Deployment /\ b.cash = book.cash
  BY <1>0, <1>5 DEF Deployment, Details
<1>7. PICK m : m = [Blank EXCEPT !.snap = b]
  OBVIOUS
<1>8. /\ m \in Mems /\ m.snap = b /\ m.cover = Blank.cover /\ m.known = Blank.known /\ m.listed = Blank.listed
      /\ m.rows = Blank.rows /\ m.upd = Blank.upd /\ m.cur = Blank.cur
  BY <1>6, <1>7, BlankMem DEF Mems
<1>9. /\ book' = b /\ seen' = Alone(p) /\ fence' = AloneFenced(p)
      /\ pc' = [pc EXCEPT ![p] = "placing"] /\ mem' = [mem EXCEPT ![p] = m]
      /\ SaveOrder("entry", r) /\ UNCHANGED <<earlier, applied, pos>>
  BY <1>2, <1>5, <1>7 DEF Submit, Wrote
<1>10. venue' = [venue EXCEPT !["entry"].st = "inflight"]
  BY DEF Submit
<1>11. \A o \in Orders :
          /\ venue'[o] \in VenueOrder /\ venue'[o].exec = venue[o].exec
          /\ venue'[o].st = IF o = "entry" THEN "inflight" ELSE venue[o].st
          /\ venue'[o].shown = venue[o].shown /\ venue'[o].age = venue[o].age
  BY <1>0, <1>10 DEF VenueOrder, VenueStatuses
<1>12. venue' \in [Orders -> VenueOrder]
  BY <1>0, <1>10, <1>11
<1>13. RowsGo
  BY <1>3, <1>4, <1>9, SaveGoes, EntryOrder
<1>14. Onward
  BY <1>1, <1>9, <1>11, Numbers DEF Onward, Inv
<1>15. /\ seen' \in [Procs -> BOOLEAN] /\ fence' \in [Procs -> BOOLEAN]
       /\ \A q \in Procs : seen'[q] = (q = p)
  BY <1>9 DEF Alone, AloneFenced
<1>16. MemOK(m, "placing")
  BY <1>0, <1>6, <1>8, BlankOK DEF MemOK
<1>17. \A o \in Orders : VenueOK(o)'
  BY <1>0, <1>1, <1>9, <1>11, ReconcileAssumption DEF VenueOK
<1>18. row'["entry"].st = "pending"
  <2>1. PICK u : u = Upsert(row["entry"], r)
    OBVIOUS
  <2>2. u.st = "pending" /\ row' = [row EXCEPT !["entry"] = u]
    BY <1>0, <1>3, <1>4, <1>9, <2>1, UpsertSound, EntryOrder DEF SaveOrder
  <2> QED
    BY <1>0, <2>2, EntryOrder
<1>19. Unaccepted'
  BY <1>1, <1>11, <1>18, EntryOrder DEF Unaccepted, Accepted
<1>20. /\ row' \in [Orders -> OrderRow] /\ applied' \in [Orders -> Units] /\ pos' \in Int
       /\ earlier' \in [1..Qty -> Units] /\ pos' <= applied'["entry"] /\ -Sold' <= pos'
       /\ \A o \in Orders : book'.cash[o] <= applied'[o]
  BY <1>0, <1>6, <1>9, <1>13 DEF RowsGo, Inv, Typed, Sold
<1>21. \A o \in Orders : \A x : RowOK(o, x) => RowOK(o, x)'
  BY <1>1, <1>9, <1>11 DEF RowOK
<1>22. \A o \in Orders : RowOK(o, row[o])'
  BY <1>13, <1>21 DEF RowsGo
<1>23. MemOK(m, "placing")'
  BY <1>9, <1>11, <1>16, <1>21 DEF MemOK
<1>24. "placing" \in Places
  BY DEF Places
<1> QED
  BY <1>6, <1>8, <1>9, <1>12, <1>14, <1>15, <1>17, <1>19, <1>20, <1>22, <1>23, <1>24, MovingStep

LEMMA PlacedInv ==
    ASSUME Inv, NEW p \in Procs, NEW r, RowOK("entry", r), r.st # "none",
           r.kid => Bracketed, Placed(p, r)
    PROVE  Inv'
<1>1. PICK n : n = [mem[p] EXCEPT !.upd = r, !.snap = book]
  OBVIOUS
<1>2. r \in OrderRow /\ mem[p] \in Mems /\ MemOK(mem[p], pc[p]) /\ book \in Deployment
      /\ \A o \in Orders : book.cash[o] <= applied[o]
  BY DEF RowOK, Inv, Typed
<1>3. /\ n \in Mems /\ n.snap = book /\ n.cover = mem[p].cover /\ n.known = mem[p].known /\ n.listed = mem[p].listed
      /\ n.rows = mem[p].rows
  BY <1>1, <1>2 DEF Mems
<1>4. PICK at \in {"attach", "placed"} : at = IF r.kid THEN "attach" ELSE "placed"
  OBVIOUS
<1>5. Goes(p, at, n, TRUE) /\ SaveOrder("entry", r) /\ UNCHANGED <<venue, earlier, applied, pos>>
  BY <1>1, <1>4 DEF Placed
<1>6. MemOK(n, at)
  BY <1>2, <1>3, <1>4 DEF MemOK
<1>7. RowsGo
  BY <1>5, SaveGoes, EntryOrder
<1>8. at \in Places
  BY DEF Places
<1> QED
  BY <1>3, <1>5, <1>6, <1>7, <1>8, GoesStep

\* The four outcomes of the create leave a sound row.
LEMMA ReportedTyped ==
    ASSUME Inv, NEW o \in Orders, NEW q \in Reported(o)
    PROVE  q \in Units /\ q <= venue[o].exec
           /\ (venue[o].age > SettleDelay => q = venue[o].exec)
<1>1. /\ venue[o].shown \in Nat /\ venue[o].exec \in Nat /\ venue[o].exec <= Qty
      /\ venue[o].age \in Nat
  BY Numbers DEF Inv
<1>2. VenueOK(o)
  BY DEF Inv
<1>3. CASE venue[o].st = "filled"
  BY <1>1, <1>2, <1>3, ReconcileAssumption DEF Reported, VenueOK, Units
<1>4. CASE venue[o].st # "filled"
  <2>1. q \in venue[o].shown..venue[o].exec
    BY <1>4 DEF Reported
  <2> QED
    BY <1>1, <1>2, <2>1, ReconcileAssumption DEF VenueOK, Units
<1> QED
  BY <1>3, <1>4

\* The row each answer of the create leaves.
LEMMA PlaceRow ==
    ASSUME Inv, NEW p \in Procs,
           PlaceOk(p) \/ PlacePending(p) \/ PlaceRejected(p) \/ PlaceError(p)
    PROVE  \E r : /\ RowOK("entry", r) /\ r.st # "none" /\ (r.kid => Bracketed)
                  /\ r.settled = FALSE /\ Placed(p, r)
<1>0. "entry" \in Orders /\ venue["entry"].age \in Nat /\ Bracketed \in BOOLEAN
  BY EntryOrder, Numbers, ReconcileAssumption DEF Inv
<1>1. CASE PlaceOk(p)
  <2>1. PICK q \in Reported("entry") :
           Placed(p, [NoRow EXCEPT !.st = venue["entry"].st, !.vid = TRUE,
                                   !.filled = q, !.kid = Bracketed])
    BY <1>1 DEF PlaceOk
  <2>2. PICK r : r = [NoRow EXCEPT !.st = venue["entry"].st, !.vid = TRUE,
                                   !.filled = q, !.kid = Bracketed]
    OBVIOUS
  <2>3. venue["entry"].st \in {"open", "filled", "canceled"} /\ q \in Units
    BY <1>0, <1>1, ReportedTyped DEF PlaceOk, Accepted
  <2>4. /\ r \in OrderRow /\ r.st = venue["entry"].st /\ r.since = 0 /\ r.settled = FALSE
        /\ r.kid = Bracketed
    BY <1>0, <2>2, <2>3, NoRowTyped DEF OrderRow, Statuses
  <2>5. RowOK("entry", r) /\ r.st # "none" /\ (r.kid => Bracketed)
    BY <1>0, <2>3, <2>4 DEF RowOK
  <2> QED
    BY <2>1, <2>2, <2>4, <2>5
<1>2. CASE PlacePending(p)
  <2>1. PICK known \in {FALSE, Bracketed} :
           Placed(p, [NoRow EXCEPT !.st = "unknown", !.vid = TRUE, !.kid = known])
    BY <1>2 DEF PlacePending
  <2>2. PICK r : r = [NoRow EXCEPT !.st = "unknown", !.vid = TRUE, !.kid = known]
    OBVIOUS
  <2>a. known = FALSE \/ known = Bracketed
    BY <2>1
  <2>3. known \in BOOLEAN /\ (known => Bracketed)
    <3>1. CASE known = FALSE
      BY <3>1
    <3>2. CASE known = Bracketed
      BY <1>0, <3>2
    <3> QED
      BY <2>a, <3>1, <3>2
  <2>4. /\ r \in OrderRow /\ r.st = "unknown" /\ r.since = 0 /\ r.settled = FALSE
        /\ r.kid = known
    BY <2>2, <2>3, NoRowTyped DEF OrderRow, Statuses
  <2>5. RowOK("entry", r) /\ r.st # "none" /\ (r.kid => Bracketed)
    BY <1>0, <2>3, <2>4 DEF RowOK
  <2> QED
    BY <2>1, <2>2, <2>4, <2>5
<1>3. CASE PlaceRejected(p)
  <2>1. PICK r : r = [NoRow EXCEPT !.st = "rejected", !.vid = TRUE]
    OBVIOUS
  <2>2. venue["entry"].st = "refused" /\ Placed(p, r)
    BY <1>3, <2>1 DEF PlaceRejected
  <2>3. /\ r \in OrderRow /\ r.st = "rejected" /\ r.since = 0 /\ r.settled = FALSE
        /\ r.kid = FALSE
    BY <2>1, NoRowTyped DEF OrderRow, Statuses
  <2>4. RowOK("entry", r) /\ r.st # "none" /\ (r.kid => Bracketed)
    BY <1>0, <2>2, <2>3 DEF RowOK
  <2> QED
    BY <2>2, <2>3, <2>4
<1>4. CASE PlaceError(p)
  <2>1. PICK r : r = [NoRow EXCEPT !.st = "unknown"]
    OBVIOUS
  <2>2. Placed(p, r)
    BY <1>4, <2>1 DEF PlaceError
  <2>3. /\ r \in OrderRow /\ r.st = "unknown" /\ r.since = 0 /\ r.settled = FALSE
        /\ r.kid = FALSE
    BY <2>1, NoRowTyped DEF OrderRow, Statuses
  <2>4. RowOK("entry", r) /\ r.st # "none" /\ (r.kid => Bracketed)
    BY <1>0, <2>3 DEF RowOK
  <2> QED
    BY <2>2, <2>3, <2>4
<1> QED
  BY <1>1, <1>2, <1>3, <1>4

LEMMA PlaceInv ==
    ASSUME Inv, NEW p \in Procs,
           PlaceOk(p) \/ PlacePending(p) \/ PlaceRejected(p) \/ PlaceError(p)
    PROVE  Inv'
<1>1. PICK r : /\ RowOK("entry", r) /\ r.st # "none" /\ (r.kid => Bracketed)
               /\ r.settled = FALSE /\ Placed(p, r)
  BY PlaceRow
<1> QED
  BY <1>1, PlacedInv

LEMMA AttachInv ==
    ASSUME Inv, NEW p \in Procs, Attach(p)
    PROVE  Inv'
<1>1. PICK n : n = [mem[p] EXCEPT !.snap = book]
  OBVIOUS
<1>2. /\ mem[p] \in Mems /\ MemOK(mem[p], pc[p]) /\ book \in Deployment
      /\ \A o \in Orders : book.cash[o] <= applied[o]
  BY DEF Inv, Typed
<1>3. /\ n \in Mems /\ n.snap = book /\ n.cover = mem[p].cover /\ n.known = mem[p].known /\ n.listed = mem[p].listed
      /\ n.rows = mem[p].rows
  BY <1>1, <1>2 DEF Mems
<1>4. PICK r : r = [NoRow EXCEPT !.st = "open", !.vid = TRUE]
  OBVIOUS
<1>5. r \in OrderRow /\ r.st = "open" /\ r.since = 0 /\ r.settled = FALSE
  BY <1>4, NoRowTyped DEF OrderRow, Statuses
<1>6. "child" \in Orders
  BY <1>2, EntryOrder DEF Attach, MemOK
<1>7. RowOK("child", r)
  BY <1>5, <1>6, Numbers DEF RowOK, Inv
<1>8. Goes(p, "placed", n, TRUE) /\ SaveOrder("child", r)
      /\ UNCHANGED <<venue, earlier, applied, pos>>
  BY <1>1, <1>4 DEF Attach
<1>9. RowsGo
  BY <1>5, <1>6, <1>7, <1>8, SaveGoes
<1>10. MemOK(n, "placed") /\ "placed" \in Places
  BY <1>2, <1>3 DEF MemOK, Places
<1> QED
  BY <1>3, <1>8, <1>9, <1>10, GoesStep

LEMMA ConcludeInv ==
    ASSUME Inv, NEW p \in Procs, NEW r, Conclude(p, r), UNCHANGED <<venue, earlier, row, applied, pos>>
    PROVE  Inv'
<1>0. RowsGo
  BY RowsStay
<1>1. /\ mem[p] \in Mems /\ mem[p].snap \in Deployment /\ book \in Deployment
      /\ \A o \in Orders : mem[p].snap.cash[o] <= applied[o] /\ book.cash[o] <= applied[o]
  BY DEF Inv, Typed, MemOK, Mems
<1>2. \/ LastWrite(p, Faulted(mem[p].snap, "entry_unconfirmed"))
      \/ LastWrite(p, [mem[p].snap EXCEPT !.stop = FALSE])
      \/ Goes(p, "nofill", [Blank EXCEPT !.snap = book], TRUE)
      \/ Return(p)
  BY DEF Conclude
<1>3. CASE LastWrite(p, Faulted(mem[p].snap, "entry_unconfirmed"))
  <2>1. PICK b : b = Faulted(mem[p].snap, "entry_unconfirmed")
    OBVIOUS
  <2>2. b \in Deployment /\ b.cash = mem[p].snap.cash
    BY <1>1, <2>1, FaultedBook DEF Details, Faults
  <2> QED
    BY <1>0, <1>1, <1>3, <2>1, <2>2, LastWriteStep
<1>4. CASE LastWrite(p, [mem[p].snap EXCEPT !.stop = FALSE])
  <2>1. PICK b : b = [mem[p].snap EXCEPT !.stop = FALSE]
    OBVIOUS
  <2>2. b \in Deployment /\ b.cash = mem[p].snap.cash
    BY <1>1, <2>1 DEF Deployment
  <2> QED
    BY <1>0, <1>1, <1>4, <2>1, <2>2, LastWriteStep
<1>5. CASE Goes(p, "nofill", [Blank EXCEPT !.snap = book], TRUE)
  <2>1. PICK m : m = [Blank EXCEPT !.snap = book]
    OBVIOUS
  <2>2. /\ m \in Mems /\ m.snap = book /\ m.cover = Blank.cover /\ m.known = Blank.known /\ m.listed = Blank.listed
        /\ m.rows = Blank.rows
    BY <1>1, <2>1, BlankMem DEF Mems
  <2>3. MemOK(m, "nofill") /\ "nofill" \in Places
    BY <1>1, <2>2, BlankOK DEF MemOK, Places
  <2> QED
    BY <1>0, <1>5, <2>1, <2>2, <2>3, GoesStep
<1>6. CASE Return(p)
  BY <1>0, <1>6, ReturnStep
<1> QED
  BY <1>2, <1>3, <1>4, <1>5, <1>6

LEMMA NoLocalFillInv ==
    ASSUME Inv, NEW p \in Procs, NoLocalFill(p)
    PROVE  Inv'
<1>0. RowsGo
  BY RowsStay DEF NoLocalFill
<1>1. /\ mem[p].snap \in Deployment
      /\ \A o \in Orders : mem[p].snap.cash[o] <= applied[o]
  BY DEF Inv, Typed, MemOK, Mems
<1>2. PICK b : b = Faulted(mem[p].snap, "no_local_fill")
  OBVIOUS
<1>3. b \in Deployment /\ b.cash = mem[p].snap.cash
  BY <1>1, <1>2, FaultedBook DEF Details, Faults
<1> QED
  BY <1>0, <1>1, <1>2, <1>3, LastWriteStep DEF NoLocalFill

-----------------------------------------------------------------------------
(* Supervision of the book.                                                *)

\* The places at which a process relies on nothing in particular.
Plain == {"idle", "placing", "placed", "after", "nofill", "opening", "list", "apply",
          "walk", "judge", "retain", "child", "finish"}

LEMMA PlainMem ==
    ASSUME NEW m, NEW at, MemOK(m, at)
    PROVE  MemOK(m, "idle") /\ \A a \in Plain : a \in Places /\ MemOK(m, a)
BY DEF MemOK, Plain, Places

LEMMA SameMem ==
    ASSUME NEW m, NEW n \in Mems, MemOK(m, "idle"),
           n.cover = m.cover /\ n.known = m.known, n.listed = m.listed, n.snap = m.snap, n.rows = m.rows
    PROVE  MemOK(n, "idle")
BY DEF MemOK

LEMMA ProcFacts ==
    ASSUME Inv, NEW p \in Procs
    PROVE  /\ mem[p] \in Mems /\ MemOK(mem[p], pc[p]) /\ MemOK(mem[p], "idle")
           /\ mem[p].snap \in Deployment /\ mem[p].then \in Plain
           /\ \A o \in Orders : mem[p].snap.cash[o] <= applied[o]
           /\ seen[p] \in BOOLEAN /\ (seen[p] => mem[p].snap = book)
<1>1. MemOK(mem[p], pc[p]) /\ Fresh(p) /\ seen[p] \in BOOLEAN
  BY DEF Inv, Typed
<1>2. mem[p] \in Mems
  BY <1>1 DEF MemOK
<1>3. mem[p].snap \in Deployment /\ mem[p].then \in Plain
  BY <1>2 DEF Mems, Plain
<1> QED
  BY <1>1, <1>2, <1>3, PlainMem DEF MemOK, Fresh

LEMMA StoreFacts ==
    ASSUME Inv
    PROVE  /\ book \in Deployment /\ applied \in [Orders -> Units]
           /\ row \in [Orders -> OrderRow]
           /\ \A o \in Orders : book.cash[o] <= applied[o] /\ RowOK(o, row[o])
BY DEF Inv, Typed

\* The supervision changes neither cash nor the stored stop.
LEMMA RetainedBook ==
    ASSUME NEW m \in Mems
    PROVE  /\ Retained(m) \in Deployment /\ Retained(m).cash = m.snap.cash
           /\ Retained(m).stop = m.snap.stop
           /\ Retained(m).status = "running" => m.snap.status = "running"
<1>1. /\ m.snap \in Deployment /\ m.started \in Runs /\ m.first \in Details
      /\ m.detail \in Details
  BY DEF Mems
<1>2. PICK s : s = RetainedStatus(m.started, m.snap.status, m.first)
  OBVIOUS
<1>3. s \in Runs /\ (s = "running" => m.snap.status = "running")
  BY <1>1, <1>2 DEF RetainedStatus, Runs, Deployment
<1>4. PICK d \in Details : d = IF m.first # "none" THEN m.first ELSE m.detail
  BY <1>1
<1>5. Retained(m) = m.snap \/ Retained(m) = [m.snap EXCEPT !.status = s, !.detail = d]
  BY <1>2, <1>4 DEF Retained
<1> QED
  BY <1>1, <1>3, <1>5 DEF Deployment, Runs

LEMMA SuperviseInv ==
    ASSUME Inv, NEW p \in Procs, NEW m, MemOK(m, "idle"), NEW s \in BOOLEAN,
           s => m.snap = book, Supervise(p, m, s),
           UNCHANGED <<venue, earlier, row, applied, pos>>
    PROVE  Inv'
<1>0. RowsGo
  BY RowsStay
<1>1. m \in Mems
  BY DEF MemOK
<1>2. PICK f : f = FirstNewFault(m.first, m.before, m.snap)
  OBVIOUS
<1>3. f \in Details
  BY <1>1, <1>2 DEF FirstNewFault, Mems, Deployment
<1>4. PICK k : k = [m EXCEPT !.first = f]
  OBVIOUS
<1>5. /\ k \in Mems /\ k.cover = m.cover /\ k.known = m.known /\ k.listed = m.listed /\ k.snap = m.snap
      /\ k.rows = m.rows /\ k.then = m.then
  BY <1>1, <1>3, <1>4 DEF Mems
<1>6. m.snap.detail \in Details /\ m.then \in Plain
  BY <1>1 DEF Mems, Deployment, Plain
<1>7. PICK n : n = [k EXCEPT !.before = k.snap.detail]
  OBVIOUS
<1>8. /\ n \in Mems /\ n.cover = m.cover /\ n.known = m.known /\ n.listed = m.listed /\ n.snap = m.snap
      /\ n.rows = m.rows
  BY <1>5, <1>6, <1>7 DEF Mems
<1>9. MemOK(k, "idle") /\ MemOK(n, "idle")
  BY <1>5, <1>8, SameMem
<1>10. Goes(p, m.then, n, s) \/ Goes(p, "retain", k, s)
  BY <1>2, <1>4, <1>5, <1>7 DEF Supervise
<1>11. CASE Goes(p, m.then, n, s)
  BY <1>0, <1>6, <1>8, <1>9, <1>11, PlainMem, GoesStep
<1>12. CASE Goes(p, "retain", k, s)
  <2>1. "retain" \in Plain
    BY DEF Plain
  <2> QED
    BY <1>0, <1>5, <1>9, <1>12, <2>1, PlainMem, GoesStep
<1> QED
  BY <1>10, <1>11, <1>12

LEMMA LookOK ==
    ASSUME Inv, NEW m, MemOK(m, "idle")
    PROVE  /\ MemOK(Look(m), "idle") /\ Look(m).snap = book /\ Look(m) \in Mems
           /\ Look(m).then = m.then /\ Look(m).cover = applied
           /\ Look(m).known = m.known /\ Look(m).listed = m.listed
           /\ Look(m).todo = m.todo /\ Look(m).cur = m.cur /\ Look(m).first = m.first
           /\ Look(m).walked = m.walked /\ Look(m).reread = m.reread
           /\ \A o \in Orders : Look(m).rows[o] = IF o \in m.reread THEN row[o] ELSE m.rows[o]
<1>1. m \in Mems /\ m.rows \in [Orders -> OrderRow]
  BY DEF MemOK, Mems
<1>2. /\ book \in Deployment /\ applied \in [Orders -> Units]
      /\ row \in [Orders -> OrderRow]
      /\ \A o \in Orders : book.cash[o] <= applied[o] /\ RowOK(o, row[o])
  BY StoreFacts
<1>3. PICK R \in [Orders -> OrderRow] :
         R = [o \in Orders |-> IF o \in m.reread THEN row[o] ELSE m.rows[o]]
  BY <1>1, <1>2
<1>4. PICK k : k = [m EXCEPT !.snap = book, !.cover = applied, !.rows = R]
  OBVIOUS
<1>5. Look(m) = k
  BY <1>3, <1>4 DEF Look
<1>6. /\ k \in Mems /\ k.snap = book /\ k.rows = R /\ k.known = m.known /\ k.listed = m.listed
      /\ k.then = m.then /\ k.todo = m.todo /\ k.cur = m.cur /\ k.first = m.first
      /\ k.walked = m.walked /\ k.reread = m.reread /\ k.cover = applied
  BY <1>1, <1>2, <1>3, <1>4 DEF Mems
<1>7. \A o \in Orders : RowOK(o, R[o])
  BY <1>2, <1>3 DEF MemOK
<1>8. MemOK(k, "idle")
  <2>1. \A o \in Orders : applied[o] <= applied[o]
    BY Numbers DEF Inv
  <2> QED
    BY <1>2, <1>6, <1>7, <2>1 DEF MemOK
<1> QED
  BY <1>3, <1>5, <1>6, <1>8

LEMMA JudgeInv ==
    ASSUME Inv, NEW p \in Procs, Judge(p)
    PROVE  Inv'
<1>1. MemOK(mem[p], "idle")
  BY ProcFacts
<1>2. PICK l : l = Look(mem[p])
  OBVIOUS
<1>3. l \in Mems /\ MemOK(l, "idle") /\ l.snap = book
  BY <1>1, <1>2, LookOK
<1>4. PICK u : u = IF p \in Tickets /\ mem[p].then = "finish" THEN row["entry"] ELSE NoRow
  OBVIOUS
<1>5. u \in OrderRow
  BY <1>4, StoreFacts, NoRowTyped, EntryOrder
<1>6. PICK m : m = [l EXCEPT !.upd = u]
  OBVIOUS
<1>7. /\ m \in Mems /\ m.cover = l.cover /\ m.known = l.known /\ m.listed = l.listed /\ m.snap = l.snap
      /\ m.rows = l.rows
  BY <1>3, <1>5, <1>6 DEF Mems
<1>8. MemOK(m, "idle")
  BY <1>3, <1>7, SameMem
<1>9. Supervise(p, m, TRUE) /\ UNCHANGED <<venue, earlier, row, applied, pos>>
  BY <1>2, <1>4, <1>6 DEF Judge
<1> QED
  BY <1>3, <1>7, <1>8, <1>9, SuperviseInv

LEMMA RetainInv ==
    ASSUME Inv, NEW p \in Procs, Retain(p)
    PROVE  Inv'
<1>0. RowsGo
  BY RowsStay DEF Retain
<1>1. /\ MemOK(mem[p], "idle") /\ mem[p] \in Mems /\ mem[p].then \in Plain
      /\ \A o \in Orders : mem[p].snap.cash[o] <= applied[o]
  BY ProcFacts
<1>2. PICK b : b = Retained(mem[p])
  OBVIOUS
<1>3. b \in Deployment /\ b.cash = mem[p].snap.cash
  BY <1>1, <1>2, RetainedBook
<1>4. PICK l : l = Look(mem[p])
  OBVIOUS
<1>5. l \in Mems /\ MemOK(l, "idle") /\ l.snap = book
  BY <1>1, <1>4, LookOK
<1>6. PICK m : m = [l EXCEPT !.before = b.detail]
  OBVIOUS
<1>7. b.detail \in Details
  BY <1>3 DEF Deployment
<1>8. /\ m \in Mems /\ m.cover = l.cover /\ m.known = l.known /\ m.listed = l.listed /\ m.snap = l.snap
      /\ m.rows = l.rows
  BY <1>5, <1>6, <1>7 DEF Mems
<1>9. MemOK(m, "idle")
  BY <1>5, <1>8, SameMem
<1>10. MemOK(m, mem[p].then) /\ mem[p].then \in Places
  BY <1>1, <1>9, PlainMem
<1>11. WriteOrAbort(p, Accepts(p), b, mem[p].then, m) /\ UNCHANGED <<venue, earlier, applied, pos>>
  BY <1>2, <1>4, <1>6 DEF Retain
<1> QED
  BY <1>0, <1>1, <1>3, <1>10, <1>11, WriteOrAbortStep

-----------------------------------------------------------------------------
(* The fill transaction.                                                   *)

LEMMA ProjectedFacts ==
    ASSUME Inv, NEW o \in Orders
    PROVE  /\ ProjectedBook(o) \in Deployment
           /\ \A q \in Orders :
                 ProjectedBook(o).cash[q] = IF q = o THEN book.cash[o] + 1 ELSE book.cash[q]
           /\ ProjectedBook(o).status = "running" => book.status = "running"
           /\ ProjectedBook(o).stop => book.stop /\ pos # 0
           /\ ProjectedPos(o) \in {0, pos + Side(o)}
           /\ pos = 0 /\ ~book.stop => ProjectedPos(o) = 0
           /\ pos # 0 => ProjectedPos(o) = pos + Side(o)
<1>1. book \in Deployment /\ book.cash \in [Orders -> Nat] /\ pos \in Int
  BY DEF Inv, Typed, Deployment
<1>2. PICK c : c = [book.cash EXCEPT ![o] = book.cash[o] + 1]
  OBVIOUS
<1>3. /\ c \in [Orders -> Nat]
      /\ \A q \in Orders : c[q] = IF q = o THEN book.cash[o] + 1 ELSE book.cash[q]
  BY <1>1, <1>2
<1>4. PICK paid : paid = [book EXCEPT !.cash = c]
  OBVIOUS
<1>5. /\ paid \in Deployment /\ paid.cash = c /\ paid.status = book.status
      /\ paid.stop = book.stop
  BY <1>1, <1>3, <1>4 DEF Deployment
<1>6. PICK f : f = Faulted(paid, "no_stop")
  OBVIOUS
<1>7. f \in Deployment /\ f.cash = c /\ f.status # "running"
  BY <1>5, <1>6, FaultedBook DEF Details, Faults
<1>8. PICK g : g = [f EXCEPT !.stop = FALSE]
  OBVIOUS
<1>9. g \in Deployment /\ g.cash = c /\ g.status # "running" /\ g.stop = FALSE
  BY <1>7, <1>8 DEF Deployment
<1>10. PICK h : h = [paid EXCEPT !.stop = FALSE]
  OBVIOUS
<1>11. h \in Deployment /\ h.cash = c /\ h.status = book.status /\ h.stop = FALSE
  BY <1>5, <1>10 DEF Deployment
<1>12. g = Stopless(paid)
  BY <1>6, <1>8 DEF Stopless
<1>13. \/ ProjectedBook(o) = g
       \/ ProjectedBook(o) = h
       \/ ProjectedBook(o) = paid /\ pos # 0
  BY <1>2, <1>4, <1>10, <1>12 DEF ProjectedBook, Projects
<1>14. /\ ProjectedBook(o) \in Deployment
       /\ ProjectedBook(o).cash = c
       /\ ProjectedBook(o).status = "running" => book.status = "running"
       /\ ProjectedBook(o).stop => book.stop /\ pos # 0
  BY <1>5, <1>9, <1>11, <1>13
<1>15. /\ ProjectedPos(o) \in {0, pos + Side(o)}
       /\ pos = 0 /\ ~book.stop => ProjectedPos(o) = 0
       /\ pos # 0 => ProjectedPos(o) = pos + Side(o)
  BY DEF ProjectedPos, Projects
<1> QED
  BY <1>3, <1>14, <1>15

\* The row the transaction leaves is sound, once the fill counts as applied.
LEMMA ProgressedFacts ==
    ASSUME Inv, NEW o \in Orders, NEW copy, RowOK(o, copy), applied[o] < venue[o].shown
    PROVE  /\ RowOK(o, Progressed(o, copy)) /\ Progressed(o, copy).settled = FALSE
           /\ Progressed(o, copy).st \in {"filled", copy.st}
           /\ Progressed(o, copy).kid = row[o].kid /\ Progressed(o, copy).vid = row[o].vid
<1>1. /\ copy \in OrderRow /\ row[o] \in OrderRow /\ RowOK(o, row[o])
      /\ applied[o] \in Nat /\ applied[o] + 1 <= Qty
      /\ applied[o] # venue[o].exec
  <2>1. /\ applied[o] \in Nat /\ venue[o].shown \in Nat /\ venue[o].shown <= Qty
        /\ venue[o].exec \in Nat
    BY Numbers DEF Inv
  <2>2. VenueOK(o) /\ RowOK(o, row[o]) /\ row[o] \in OrderRow
    BY DEF Inv, Typed
  <2> QED
    BY <2>1, <2>2, ReconcileAssumption DEF VenueOK, RowOK
<1>2. row[o].settled = FALSE
  BY <1>1 DEF RowOK, OrderRow
<1>3. PICK u : u = Upsert(row[o], copy)
  OBVIOUS
<1>4. RowOK(o, u)
  BY <1>1, <1>3, UpsertSound
<1>5. PICK a : a = u.since
  OBVIOUS
<1>6. a \in Ages /\ a <= venue[o].age
  BY <1>4, <1>5 DEF RowOK, OrderRow
<1>7. PICK s : s = IF applied[o] + 1 >= Qty THEN "filled" ELSE copy.st
  OBVIOUS
<1>8. s \in Statuses /\ s \in {"filled", copy.st}
  BY <1>1, <1>7 DEF OrderRow, Statuses
<1>9. PICK n : n = Max(copy.filled, applied[o] + 1)
  OBVIOUS
<1>10. n \in Units
  BY <1>1, <1>9, RowNumbers, ReconcileAssumption DEF Max, Units
<1>11. PICK r : r = [row[o] EXCEPT !.st = s, !.filled = n, !.since = a]
  OBVIOUS
<1>12. Progressed(o, copy) = r
  BY <1>3, <1>5, <1>7, <1>9, <1>11 DEF Progressed
<1>13. /\ r \in OrderRow /\ r.st = s /\ r.since = a /\ r.settled = row[o].settled
       /\ r.kid = row[o].kid /\ r.vid = row[o].vid
  BY <1>1, <1>6, <1>8, <1>10, <1>11 DEF OrderRow
<1>14. RowOK(o, r)
  BY <1>2, <1>6, <1>8, <1>13 DEF RowOK
<1> QED
  BY <1>2, <1>8, <1>12, <1>13, <1>14

\* What apply_fill_transaction does to the state, for the next listed unit.
LEMMA ApplyFacts ==
    ASSUME Inv, NEW p \in Procs, NEW o \in Orders, NEW k \in Nat, NEW copy,
           RowOK(o, copy), o = "entry" => copy.st # "none",
           k <= applied[o] + 1, k <= venue[o].shown,
           ApplyFill(p, o, k, copy), UNCHANGED <<venue, earlier, pc>>
    PROVE  /\ row' \in [Orders -> OrderRow] /\ applied' \in [Orders -> Units] /\ pos' \in Int
           /\ book' \in Deployment
           /\ Unaccepted' /\ Onward /\ k <= applied'[o]
           /\ \A q \in Orders :
                 VenueOK(q)' /\ RowOK(q, row[q])' /\ book'.cash[q] <= applied'[q]
           /\ pos' <= applied'["entry"] /\ -Sold' <= pos'
           /\ seen' \in [Procs -> BOOLEAN] /\ fence' \in [Procs -> BOOLEAN]
           /\ \A q \in Procs \ {p} : seen'[q] => seen[q] /\ book' = book
<1>0. /\ row \in [Orders -> OrderRow] /\ applied \in [Orders -> Units] /\ pos \in Int
      /\ book \in Deployment /\ Unaccepted
      /\ \A q \in Orders : VenueOK(q) /\ RowOK(q, row[q]) /\ book.cash[q] <= applied[q]
      /\ pos <= applied["entry"] /\ -Sold <= pos
      /\ seen \in [Procs -> BOOLEAN] /\ fence \in [Procs -> BOOLEAN]
  BY DEF Inv, Typed
<1>1. \A q \in Orders : /\ applied[q] \in Nat /\ book.cash[q] \in Nat
                        /\ venue[q].shown \in Nat /\ venue[q].exec \in Nat
                        /\ venue[q].age \in Nat /\ venue[q].shown <= Qty
  BY Numbers DEF Inv
<1>2. CASE AlreadyApplied(o, k)
  <2>1. /\ UNCHANGED <<row, applied, book, pos>>
        /\ seen' = [seen EXCEPT ![p] = TRUE] /\ fence' = [fence EXCEPT ![p] = (p \in Workers)]
    BY <1>2 DEF ApplyFill, store
  <2>2. k <= applied'[o]
    BY <1>2, <2>1 DEF AlreadyApplied
  <2>3. Onward
    BY <1>1, <2>1 DEF Onward
  <2>4. Unaccepted'
    BY <1>0, <2>1 DEF Unaccepted, Accepted
  <2>5. \A q \in Orders : VenueOK(q)' /\ RowOK(q, row[q])' /\ book'.cash[q] <= applied'[q]
    BY <1>0, <2>1 DEF VenueOK, RowOK
  <2>6. seen' \in [Procs -> BOOLEAN] /\ fence' \in [Procs -> BOOLEAN]
        /\ \A q \in Procs \ {p} : seen'[q] = seen[q]
    BY <1>0, <2>1
  <2>7. pos' <= applied'["entry"] /\ -Sold' <= pos'
    BY <1>0, <2>1 DEF Sold
  <2> QED
    BY <1>0, <2>1, <2>2, <2>3, <2>4, <2>5, <2>6, <2>7
<1>3. CASE ~AlreadyApplied(o, k)
  <2>1. k = applied[o] + 1 /\ applied[o] < venue[o].shown
    BY <1>1, <1>3 DEF AlreadyApplied
  <2>2. PICK r : r = Progressed(o, copy)
    OBVIOUS
  <2>3. RowOK(o, r) /\ r.settled = FALSE /\ r.st \in {"filled", copy.st}
    BY <2>1, <2>2, ProgressedFacts
  <2>4. PICK b : b = ProjectedBook(o)
    OBVIOUS
  <2>5. /\ b \in Deployment
        /\ \A q \in Orders : b.cash[q] = IF q = o THEN book.cash[o] + 1 ELSE book.cash[q]
        /\ ProjectedPos(o) \in {0, pos + Side(o)}
    BY <2>4, ProjectedFacts
  <2>6. /\ applied' = [applied EXCEPT ![o] = Max(applied[o], k)]
        /\ row' = [row EXCEPT ![o] = r] /\ book' = b /\ pos' = ProjectedPos(o)
        /\ seen' = Alone(p) /\ fence' = AloneFenced(p)
    BY <1>3, <2>2, <2>4 DEF ApplyFill
  <2>7. Max(applied[o], k) = applied[o] + 1 /\ applied[o] + 1 \in Units
    BY <1>1, <2>1, ReconcileAssumption DEF Max, Units
  <2>8. /\ applied' \in [Orders -> Units]
        /\ \A q \in Orders : applied'[q] = IF q = o THEN applied[o] + 1 ELSE applied[q]
    BY <1>0, <2>6, <2>7
  <2>9. r \in OrderRow
    BY <2>3 DEF RowOK
  <2>10. /\ row' \in [Orders -> OrderRow]
         /\ \A q \in Orders : row'[q] = IF q = o THEN r ELSE row[q]
    BY <1>0, <2>6, <2>9
  <2>11. Onward
    <3>1. applied[o] # venue[o].exec
      BY <1>0, <1>1, <2>1 DEF VenueOK
    <3> QED
      BY <1>1, <2>8, <3>1 DEF Onward
  <2>12. \A q \in Orders : VenueOK(q)'
    <3>1. TAKE q \in Orders
    <3>2. applied'[q] <= venue[q].shown
      BY <1>0, <1>1, <2>1, <2>8 DEF VenueOK
    <3> QED
      BY <1>0, <3>2 DEF VenueOK
  <2>13. \A q \in Orders : RowOK(q, row[q])'
    <3>1. TAKE q \in Orders
    <3>2. CASE q = o
      BY <2>3, <2>10, <3>2 DEF RowOK
    <3>3. CASE q # o
      BY <1>0, <2>8, <2>10, <3>3 DEF RowOK
    <3> QED
      BY <3>2, <3>3
  <2>14. Unaccepted'
    <3>1. row'["entry"].st = "none" => row["entry"].st = "none"
      BY <2>3, <2>10, EntryOrder
    <3> QED
      BY <1>0, <3>1 DEF Unaccepted, Accepted
  <2>15. \A q \in Orders : book'.cash[q] <= applied'[q]
    BY <1>0, <1>1, <2>5, <2>6, <2>8
  <2>16. /\ seen' \in [Procs -> BOOLEAN] /\ fence' \in [Procs -> BOOLEAN]
         /\ \A q \in Procs : seen'[q] = (q = p)
    BY <2>6 DEF Alone, AloneFenced
  <2>17. pos' \in Int /\ pos' <= applied'["entry"] /\ -Sold' <= pos'
    <3>1. pos' = 0 \/ pos' = pos + Side(o)
      BY <2>5, <2>6
    <3>2. applied["entry"] \in Nat /\ Sold \in Nat
      BY <1>1, EntryOrder, ReconcileAssumption DEF Sold
    <3>3. CASE o = "entry"
      <4>1. applied'["entry"] = applied["entry"] + 1 /\ Sold' = Sold /\ Side(o) = 1
        BY <2>8, <3>3, EntryOrder DEF Sold, Side
      <4> QED
        BY <1>0, <3>1, <3>2, <4>1
    <3>4. CASE o # "entry"
      <4>1. o = "child" /\ Bracketed
        BY <3>4, EntryOrder
      <4>2. applied'["entry"] = applied["entry"] /\ Sold' = Sold + 1 /\ Side(o) = -1
        BY <2>8, <4>1, EntryOrder DEF Sold, Side
      <4> QED
        BY <1>0, <3>1, <3>2, <4>2
    <3> QED
      BY <3>3, <3>4
  <2>18. k <= applied'[o]
    BY <1>1, <2>1, <2>8
  <2> QED
    BY <2>5, <2>6, <2>8, <2>10, <2>11, <2>12, <2>13, <2>14, <2>15, <2>16, <2>17, <2>18
<1> QED
  BY <1>2, <1>3

-----------------------------------------------------------------------------
(* The walk.                                                               *)

LEMMA UnreadOK ==
    ASSUME Inv, NEW m, MemOK(m, "idle")
    PROVE  /\ MemOK(Unread(m), "idle") /\ Unread(m).snap = book /\ Unread(m) \in Mems
           /\ Unread(m).rows = row /\ Unread(m).known = applied /\ Unread(m).listed = m.listed
           /\ Unread(m).todo = {o \in Orders : row[o].vid /\ Needs(row[o], applied[o])}
<1>1. PICK l : l = Look(m)
  OBVIOUS
<1>2. l \in Mems /\ MemOK(l, "idle") /\ l.snap = book /\ l.listed = m.listed
  BY <1>1, LookOK
<1>3. PICK W \in SUBSET Orders : W = {o \in Orders : row[o].st # "none"}
  OBVIOUS
<1>4. PICK T \in SUBSET Orders : T = {o \in Orders : row[o].vid /\ Needs(row[o], applied[o])}
  OBVIOUS
<1>5. PICK z \in {FALSE, Bracketed} : z = (Bracketed /\ row["entry"].vid /\ row["child"].vid)
  BY ReconcileAssumption
<1>6. PICK k : k = [l EXCEPT !.rows = row, !.walked = W, !.todo = T, !.linked = z, !.known = applied]
  OBVIOUS
<1>7. Unread(m) = k
  BY <1>1, <1>3, <1>4, <1>5, <1>6 DEF Unread
<1>8. /\ k \in Mems /\ k.snap = l.snap /\ k.listed = l.listed /\ k.rows = row /\ k.cover = l.cover
      /\ k.known = applied /\ k.todo = T
  BY <1>2, <1>6, StoreFacts DEF Mems
<1>9. MemOK(k, "idle")
  <2>1. \A o \in Orders : applied[o] <= applied[o] /\ RowOK(o, row[o])
    BY StoreFacts, Numbers DEF Inv
  <2> QED
    BY <1>2, <1>8, <2>1 DEF MemOK
<1> QED
  BY <1>2, <1>4, <1>7, <1>8, <1>9

LEMMA BeginWalkInv ==
    ASSUME Inv, NEW p \in Procs, BeginWalk(p)
    PROVE  Inv'
<1>0. RowsGo /\ UNCHANGED <<venue, earlier, row, applied, pos, book>>
  BY RowsStay DEF BeginWalk, store
<1>1. PICK l : l = Unread(Blank)
  OBVIOUS
<1>2. l \in Mems /\ MemOK(l, "idle") /\ l.snap = book
  BY <1>1, BlankOK, UnreadOK
<1>3. PICK m : m = [l EXCEPT !.started = book.status, !.detail = book.detail,
                             !.before = book.detail]
  OBVIOUS
<1>4. book.status \in Runs /\ book.detail \in Details
  BY StoreFacts DEF Deployment, Runs
<1>5. /\ m \in Mems /\ m.cover = l.cover /\ m.known = l.known /\ m.listed = l.listed /\ m.snap = l.snap
      /\ m.rows = l.rows
  BY <1>2, <1>3, <1>4 DEF Mems
<1>6. PICK at \in {"opening", "list"} :
         at = IF book.status = "running" /\ Unprojected THEN "opening" ELSE "list"
  OBVIOUS
<1>7. at \in Places /\ MemOK(m, at)
  <2>1. at \in Plain /\ MemOK(m, "idle")
    BY <1>2, <1>5, SameMem DEF Plain
  <2> QED
    BY <2>1, PlainMem
<1>8. /\ pc' = [pc EXCEPT ![p] = at] /\ mem' = [mem EXCEPT ![p] = m]
      /\ seen' = [seen EXCEPT ![p] = TRUE] /\ fence' = [fence EXCEPT ![p] = (p \in Workers)]
  BY <1>1, <1>3, <1>6 DEF BeginWalk
<1>9. /\ seen' \in [Procs -> BOOLEAN] /\ fence' \in [Procs -> BOOLEAN]
      /\ \A q \in Procs \ {p} : seen'[q] = seen[q]
  BY <1>8 DEF Inv, Typed
<1> QED
  BY <1>0, <1>2, <1>5, <1>7, <1>8, <1>9, StoreFacts, ProcStep

LEMMA OpenInv ==
    ASSUME Inv, NEW p \in Procs, Open(p)
    PROVE  Inv'
<1>0. RowsGo
  BY RowsStay DEF Open
<1>1. /\ MemOK(mem[p], "idle") /\ mem[p].snap \in Deployment
      /\ \A o \in Orders : mem[p].snap.cash[o] <= applied[o]
  BY ProcFacts
<1>2. PICK b : b = Faulted(mem[p].snap, "unprojected")
  OBVIOUS
<1>3. b \in Deployment /\ b.cash = mem[p].snap.cash
  BY <1>1, <1>2, FaultedBook DEF Details, Faults
<1>4. MemOK(Unread(mem[p]), "idle") /\ "list" \in Plain
  BY <1>1, UnreadOK DEF Plain
<1>5. MemOK(Unread(mem[p]), "list") /\ "list" \in Places
  BY <1>4, PlainMem
<1> QED
  BY <1>0, <1>1, <1>2, <1>3, <1>5, WriteOrAbortStep DEF Open

LEMMA FirstOfIn ==
    ASSUME NEW S \in SUBSET Orders, S # {}
    PROVE  FirstOf(S) \in S /\ FirstOf(S) \in Orders
BY EntryOrder DEF FirstOf

\* p changes only its locals.
LEMMA LocalStep ==
    ASSUME Inv, NEW p \in Procs, NEW m, NEW at \in Places, MemOK(m, at), m.snap = mem[p].snap,
           UNCHANGED <<venue, earlier, row, applied, book, pos, seen, fence>>,
           pc' = [pc EXCEPT ![p] = at], mem' = [mem EXCEPT ![p] = m]
    PROVE  Inv'
<1>1. RowsGo
  BY RowsStay
<1>2. /\ seen' \in [Procs -> BOOLEAN] /\ fence' \in [Procs -> BOOLEAN]
      /\ seen'[p] => m.snap = book
  BY ProcFacts DEF Inv, Typed
<1> QED
  BY <1>1, <1>2, StoreFacts, ProcStep

LEMMA ListInv ==
    ASSUME Inv, NEW p \in Procs, List(p)
    PROVE  Inv'
<1>0. /\ UNCHANGED <<venue, earlier, row, applied, pos, book, seen, fence>>
      /\ pc' = pc /\ pc[p] = "list" /\ mem[p].todo # {}
  BY DEF List, store
<1>1. PICK o : o = FirstOf(mem[p].todo)
  OBVIOUS
<1>2. mem[p] \in Mems /\ MemOK(mem[p], "idle") /\ mem \in [Procs -> Mems]
  BY ProcFacts DEF Inv, Typed
<1>3. o \in Orders
  BY <1>0, <1>1, <1>2, FirstOfIn DEF Mems
<1>4. PICK v : v = IF Held(mem[p], o) THEN Unlisted ELSE venue[o].shown
  OBVIOUS
<1>5. v \in -1..Qty /\ v <= venue[o].shown
  BY <1>3, <1>4, Numbers, ReconcileAssumption DEF Inv, Unlisted
<1>6. PICK m : m = [mem[p] EXCEPT !.todo = mem[p].todo \ {o}, !.listed[o] = v]
  OBVIOUS
<1>7. /\ m \in Mems /\ m.cover = mem[p].cover /\ m.known = mem[p].known /\ m.snap = mem[p].snap /\ m.rows = mem[p].rows
      /\ \A q \in Orders : m.listed[q] = IF q = o THEN v ELSE mem[p].listed[q]
  BY <1>2, <1>3, <1>5, <1>6 DEF Mems
<1>8. PICK n : n = [mem[p] EXCEPT !.todo = mem[p].todo \ {o}, !.short = mem[p].short \cup {o}]
  OBVIOUS
<1>9. /\ n \in Mems /\ n.cover = mem[p].cover /\ n.known = mem[p].known /\ n.snap = mem[p].snap /\ n.rows = mem[p].rows
      /\ n.listed = mem[p].listed
  BY <1>2, <1>3, <1>8 DEF Mems
<1>10. mem' = [mem EXCEPT ![p] = m] \/ mem' = [mem EXCEPT ![p] = n]
  <2>1. \/ mem' = [mem EXCEPT ![p].todo = @ \ {o}, ![p].listed[o] = v]
        \/ mem' = [mem EXCEPT ![p].todo = @ \ {o}, ![p].short = @ \cup {o}]
    BY <1>1, <1>4 DEF List
  <2> QED
    BY <1>2, <1>6, <1>8, <2>1 DEF Mems
<1>11. MemOK(m, "idle") /\ MemOK(n, "idle") /\ "list" \in Plain
  BY <1>2, <1>5, <1>7, <1>9 DEF MemOK, Plain
<1>12. MemOK(m, "list") /\ MemOK(n, "list") /\ "list" \in Places
  BY <1>11, PlainMem
<1>13. pc' = [pc EXCEPT ![p] = "list"]
  BY <1>0 DEF Inv, Typed
<1> QED
  BY <1>0, <1>7, <1>9, <1>10, <1>12, <1>13, LocalStep

LEMMA PlanInv ==
    ASSUME Inv, NEW p \in Procs, Plan(p)
    PROVE  Inv'
<1>0. UNCHANGED <<venue, earlier, row, applied, pos, book, seen, fence>>
  BY DEF Plan, store
<1>1. mem[p] \in Mems /\ MemOK(mem[p], "idle")
  BY ProcFacts
<1>2. PICK S : S = ShortParents(mem[p])
  OBVIOUS
<1>3. S \in SUBSET Orders
  BY <1>1, <1>2, EntryOrder DEF ShortParents, Mems
<1>4. PICK d : d = IF mem[p].linked THEN Listed(mem[p], "child") ELSE Unlisted
  OBVIOUS
<1>5. PICK m : m = [mem[p] EXCEPT !.short = S, !.required = d]
  OBVIOUS
<1>6. PICK N \in SUBSET Orders : N = {o \in Orders : ~Held(m, o) /\ m.listed[o] > m.known[o]}
  OBVIOUS
<1>7. PICK R \in SUBSET Orders : R = IF "entry" \in N /\ "child" \in N THEN N ELSE {}
  OBVIOUS
<1>8. PICK n : n = [m EXCEPT !.reread = R]
  OBVIOUS
<1>9. pc' = [pc EXCEPT ![p] = "apply"] /\ mem' = [mem EXCEPT ![p] = n]
  BY <1>2, <1>4, <1>5, <1>6, <1>7, <1>8 DEF Plan
<1>10. d \in -1..Qty
  <2>1. CASE mem[p].linked /\ "child" \in Orders
    <3>1. mem[p].listed["child"] \in -1..Qty /\ d = Listed(mem[p], "child")
      BY <1>1, <1>4, <2>1 DEF Mems
    <3> QED
      BY <3>1, ReconcileAssumption DEF Listed, Unlisted
  <2>2. CASE mem[p].linked /\ "child" \notin Orders
    <3>1. mem[p].linked \in {FALSE, Bracketed}
      BY <1>1 DEF Mems
    <3> QED
      BY <2>2, <3>1, EntryOrder
  <2>3. CASE ~mem[p].linked
    BY <1>4, <2>3, ReconcileAssumption DEF Unlisted
  <2> QED
    BY <2>1, <2>2, <2>3
<1>11. /\ n \in Mems /\ n.cover = mem[p].cover /\ n.known = mem[p].known /\ n.snap = mem[p].snap /\ n.rows = mem[p].rows
       /\ n.listed = mem[p].listed
  BY <1>1, <1>3, <1>5, <1>7, <1>8, <1>10 DEF Mems
<1>12. MemOK(n, "idle") /\ "apply" \in Plain
  BY <1>1, <1>11, SameMem DEF Plain
<1>13. MemOK(n, "apply") /\ "apply" \in Places
  BY <1>12, PlainMem
<1> QED
  BY <1>0, <1>9, <1>11, <1>13, LocalStep

LEMMA EarliestPending ==
    ASSUME NEW m \in Mems, Pending(m) # {}
    PROVE  Earliest(m) \in Orders /\ m.listed[Earliest(m)] > m.known[Earliest(m)]
<1>1. Pending(m) \subseteq Orders /\ \A o \in Pending(m) : m.listed[o] > m.known[o]
  BY DEF Pending, Mems
<1>2. Earliest(m) \in Pending(m)
  BY <1>1, EntryOrder DEF Earliest
<1> QED
  BY <1>1, <1>2

LEMMA ApplyListedInv ==
    ASSUME Inv, NEW p \in Procs, ApplyListed(p)
    PROVE  Inv'
<1>1. mem[p] \in Mems /\ MemOK(mem[p], "idle") /\ mem \in [Procs -> Mems]
  BY ProcFacts DEF Inv, Typed
<1>2. PICK o : o = Earliest(mem[p])
  OBVIOUS
<1>3. o \in Orders /\ mem[p].listed[o] > mem[p].known[o]
  BY <1>1, <1>2, EarliestPending DEF ApplyListed
<1>4. PICK k : k = mem[p].known[o] + 1
  OBVIOUS
<1>5. /\ k \in Nat /\ k \in Units /\ k <= applied[o] + 1 /\ k <= venue[o].shown
  <2>1. /\ mem[p].known[o] \in Nat /\ mem[p].listed[o] \in Int /\ mem[p].listed[o] <= Qty
        /\ applied[o] \in Nat /\ venue[o].shown \in Nat
    BY <1>1, <1>3, MemNumbers, Numbers DEF Inv
  <2>2. mem[p].known[o] <= applied[o] /\ mem[p].listed[o] <= venue[o].shown
    BY <1>1, <1>3 DEF MemOK
  <2> QED
    BY <1>3, <1>4, <2>1, <2>2, ReconcileAssumption DEF Units
<1>6. /\ ApplyFill(p, o, k, row[o]) /\ UNCHANGED <<venue, earlier, pc>> /\ pc[p] = "apply"
      /\ mem' = [mem EXCEPT ![p].known[o] = k, ![p].snap = book', ![p].cover = applied',
                            ![p].rows = row']
  BY <1>2, <1>4 DEF ApplyListed
<1>7. RowOK(o, row[o]) /\ (o = "entry" => row[o].st # "none")
  <2>1. VenueOK(o) /\ RowOK(o, row[o]) /\ Unaccepted
    BY <1>3 DEF Inv
  <2>2. venue[o].exec # 0
    BY <1>3, <1>4, <1>5, <2>1, MemNumbers, <1>1, Numbers DEF VenueOK, Inv
  <2> QED
    BY <2>1, <2>2 DEF VenueOK, Unaccepted
<1>8. /\ row' \in [Orders -> OrderRow] /\ applied' \in [Orders -> Units] /\ pos' \in Int
      /\ book' \in Deployment
      /\ Unaccepted' /\ Onward /\ k <= applied'[o]
      /\ \A q \in Orders : VenueOK(q)' /\ RowOK(q, row[q])' /\ book'.cash[q] <= applied'[q]
      /\ pos' <= applied'["entry"] /\ -Sold' <= pos'
      /\ seen' \in [Procs -> BOOLEAN] /\ fence' \in [Procs -> BOOLEAN]
      /\ \A q \in Procs \ {p} : seen'[q] => seen[q] /\ book' = book
  BY <1>3, <1>5, <1>6, <1>7, ApplyFacts
<1>9. PICK b, a, r : b = book' /\ a = applied' /\ r = row'
  OBVIOUS
<1>10. PICK n : n = [mem[p] EXCEPT !.known[o] = k, !.snap = b, !.cover = a, !.rows = r]
  OBVIOUS
<1>11. mem' = [mem EXCEPT ![p] = n]
  BY <1>1, <1>3, <1>6, <1>9, <1>10 DEF Mems
<1>12. /\ n \in Mems /\ n.snap = book' /\ n.rows = row' /\ n.cover = applied' /\ n.listed = mem[p].listed
       /\ \A q \in Orders : n.known[q] = IF q = o THEN k ELSE mem[p].known[q]
  BY <1>1, <1>3, <1>5, <1>8, <1>9, <1>10 DEF Mems
<1>13. \A q \in Orders : /\ n.known[q] <= applied'[q] /\ n.cover[q] <= applied'[q] /\ n.listed[q] <= venue'[q].shown
                         /\ n.snap.cash[q] <= applied'[q]
  <2>1. TAKE q \in Orders
  <2>2. mem[p].known[q] <= applied[q] /\ applied[q] <= applied'[q]
        /\ mem[p].listed[q] <= venue[q].shown
    BY <1>1, <1>8 DEF MemOK, Onward
  <2>3. mem[p].known[q] \in Nat /\ applied[q] \in Nat /\ applied'[q] \in Nat
    BY <1>1, <1>8, MemNumbers, Numbers, ReconcileAssumption DEF Inv, Units
  <2> QED
    BY <1>6, <1>8, <1>12, <2>2, <2>3
<1>14. \A q \in Orders : RowOK(q, n.rows[q])'
  BY <1>8, <1>12
<1>15. MemOK(n, "apply")'
  BY <1>12, <1>13, <1>14 DEF MemOK
<1>16. "apply" \in Places /\ pc' = [pc EXCEPT ![p] = "apply"]
  BY <1>6 DEF Places, Inv, Typed
<1>17. venue' \in [Orders -> VenueOrder] /\ earlier' \in [1..Qty -> Units]
  BY <1>6 DEF Inv, Typed
<1> QED
  BY <1>8, <1>11, <1>12, <1>15, <1>16, <1>17, MovingStep

LEMMA EndApplyInv ==
    ASSUME Inv, NEW p \in Procs, EndApply(p)
    PROVE  Inv'
<1>1. mem[p] \in Mems /\ MemOK(mem[p], "idle") /\ seen[p] \in BOOLEAN
      /\ (seen[p] => mem[p].snap = book)
  BY ProcFacts
<1>2. PICK m : m = [mem[p] EXCEPT !.todo = mem[p].walked, !.known = mem[p].cover]
  OBVIOUS
<1>3. /\ m \in Mems /\ m.listed = mem[p].listed /\ m.snap = mem[p].snap
      /\ m.rows = mem[p].rows /\ m.known = mem[p].cover /\ m.cover = mem[p].cover
  BY <1>1, <1>2 DEF Mems
<1>4. MemOK(m, "idle")
  BY <1>1, <1>3 DEF MemOK
<1> QED
  BY <1>1, <1>2, <1>3, <1>4, SuperviseInv DEF EndApply

-----------------------------------------------------------------------------
(* One order's turn.                                                       *)

LEMMA TurnedOK ==
    ASSUME Inv, NEW p \in Procs, NEW o
    PROVE  /\ Turned(p, o) \in Mems /\ MemOK(Turned(p, o), "idle")
           /\ Turned(p, o).snap = mem[p].snap
           /\ "judge" \in Places /\ MemOK(Turned(p, o), "judge")
<1>1. mem[p] \in Mems /\ MemOK(mem[p], "idle")
  BY ProcFacts
<1>2. PICK m : m = Turned(p, o)
  OBVIOUS
<1>3. mem[p].todo \ {o} \in SUBSET Orders /\ "none" \in Got
  BY <1>1 DEF Mems, Got, Details
<1>4. /\ m \in Mems /\ m.cover = mem[p].cover /\ m.known = mem[p].known
      /\ m.listed = mem[p].listed /\ m.snap = mem[p].snap /\ m.rows = mem[p].rows
  BY <1>1, <1>2, <1>3, NoRowTyped DEF Mems, Turned
<1>5. MemOK(m, "idle") /\ "judge" \in Plain
  BY <1>1, <1>4, SameMem DEF Plain
<1> QED
  BY <1>2, <1>4, <1>5, PlainMem

LEMMA SkipInv ==
    ASSUME Inv, NEW p \in Procs, NEW o \in Orders, Skip(p, o)
    PROVE  Inv'
<1>0. RowsGo
  BY RowsStay DEF Skip
<1>1. PICK m : m = Turned(p, o)
  OBVIOUS
<1>2. "judge" \in Places /\ MemOK(m, "judge") /\ m.snap = mem[p].snap
  BY <1>1, TurnedOK
<1> QED
  BY <1>0, <1>1, <1>2, ProcFacts, GoesStep DEF Skip

\* A turn that ends in fault g: p notes the order and the fault.
LEMMA FaultMem ==
    ASSUME Inv, NEW p \in Procs, NEW o \in Orders, NEW g \in Faults
    PROVE  LET n == [mem[p] EXCEPT !.cur = o, !.got = g]
           IN  n \in Mems /\ MemOK(n, "fault") /\ n.snap = mem[p].snap /\ "fault" \in Places
<1>1. mem[p] \in Mems /\ MemOK(mem[p], "idle")
  BY ProcFacts
<1>2. PICK n : n = [mem[p] EXCEPT !.cur = o, !.got = g]
  OBVIOUS
<1>3. g \in Got
  BY DEF Got, Details
<1>4. /\ n \in Mems /\ n.cover = mem[p].cover /\ n.known = mem[p].known
      /\ n.listed = mem[p].listed /\ n.snap = mem[p].snap /\ n.rows = mem[p].rows /\ n.got = g
  BY <1>1, <1>2, <1>3 DEF Mems
<1>5. MemOK(n, "idle")
  BY <1>1, <1>4, SameMem
<1>6. MemOK(n, "fault") /\ "fault" \in Places
  BY <1>4, <1>5 DEF MemOK, Places
<1> QED
  BY <1>2, <1>4, <1>6

LEMMA NotFoundInv ==
    ASSUME Inv, NEW p \in Procs, NEW o \in Orders, NotFound(p, o)
    PROVE  Inv'
<1>0. RowsGo
  BY RowsStay DEF NotFound
<1>1. "unconfirmed" \in Faults
  BY DEF Faults
<1>2. PICK n : n = [mem[p] EXCEPT !.cur = o, !.got = "unconfirmed"]
  OBVIOUS
<1>3. MemOK(n, "fault") /\ n.snap = mem[p].snap /\ "fault" \in Places
  BY <1>1, <1>2, FaultMem
<1> QED
  BY <1>0, <1>2, <1>3, ProcFacts, GoesStep DEF NotFound

\* A row whose read failed is sound, whatever it was.
LEMMA UnknownRow ==
    ASSUME Inv, NEW o \in Orders, NEW r, RowOK(o, r)
    PROVE  LET u == [r EXCEPT !.st = "unknown"]
           IN  RowOK(o, u) /\ u.st # "none" /\ u.kid = r.kid /\ u.st = "unknown"
<1>1. r \in OrderRow
  BY DEF RowOK
<1>2. PICK u : u = [r EXCEPT !.st = "unknown"]
  OBVIOUS
<1>3. /\ u \in OrderRow /\ u.st = "unknown" /\ u.since = r.since /\ u.settled = r.settled
      /\ u.kid = r.kid
  BY <1>1, <1>2 DEF OrderRow, Statuses
<1>4. RowOK(o, u)
  BY <1>3 DEF RowOK
<1> QED
  BY <1>2, <1>3, <1>4

LEMMA ReadFailedInv ==
    ASSUME Inv, NEW p \in Procs, NEW o \in Orders, ReadFailed(p, o)
    PROVE  Inv'
<1>1. "order_read" \in Faults
  BY DEF Faults, ReadFaults
<1>2. PICK n : n = [mem[p] EXCEPT !.cur = o, !.got = "order_read"]
  OBVIOUS
<1>3. MemOK(n, "fault") /\ n.snap = mem[p].snap /\ "fault" \in Places
  BY <1>1, <1>2, FaultMem
<1>4. RowOK(o, mem[p].rows[o])
  BY ProcFacts DEF MemOK
<1>5. PICK u : u = [mem[p].rows[o] EXCEPT !.st = "unknown"]
  OBVIOUS
<1>6. RowOK(o, u) /\ u.st # "none"
  BY <1>4, <1>5, UnknownRow
<1>7. SaveOrder(o, u) /\ Goes(p, "fault", n, seen[p]) /\ UNCHANGED <<venue, earlier, applied, pos>>
  BY <1>2, <1>5 DEF ReadFailed
<1>8. RowsGo
  BY <1>6, <1>7, SaveGoes
<1> QED
  BY <1>3, <1>7, <1>8, ProcFacts, GoesStep

\* A read of an order the venue has produces a sound row, and one that came
\* late enough after the cancel reports everything that was executed.
LEMMA ObservedRow ==
    ASSUME Inv, NEW o \in Orders, NEW r, RowOK(o, r), Accepted(o),
           NEW st \in {venue[o].st, "unknown"}, NEW q \in Reported(o)
    PROVE  /\ RowOK(o, Observed(r, st, q)) /\ Observed(r, st, q).st = st /\ st # "none"
           /\ r.since > SettleDelay =>
                 Observed(r, st, q).filled >= venue[o].exec /\ venue[o].age > SettleDelay
           /\ Observed(r, st, q).kid = r.kid
<1>1. r \in OrderRow /\ venue[o].st \in {"open", "filled", "canceled"} /\ VenueOK(o)
  BY DEF RowOK, Accepted, Inv
<1>2. /\ q \in Units /\ q \in Nat /\ (venue[o].age > SettleDelay => q = venue[o].exec)
      /\ venue[o].age \in Nat /\ r.filled \in Nat /\ r.filled <= Qty /\ r.since \in Nat
      /\ r.since <= venue[o].age /\ venue[o].exec \in Nat
  <2>1. q \in Units /\ (venue[o].age > SettleDelay => q = venue[o].exec)
    BY ReportedTyped
  <2>2. venue[o].age \in Nat /\ r.filled \in Nat /\ r.filled <= Qty /\ r.since \in Nat
        /\ venue[o].exec \in Nat
    BY <1>1, Numbers, RowNumbers DEF Inv
  <2> QED
    BY <2>1, <2>2, ReconcileAssumption DEF RowOK, Units
<1>3. PICK n : n = Max(r.filled, q)
  OBVIOUS
<1>4. n \in Units /\ n >= q
  BY <1>2, <1>3, ReconcileAssumption DEF Max, Units
<1>5. PICK a : a = IF r.since = 0 /\ st = "canceled" THEN 1 ELSE r.since
  OBVIOUS
<1>6. a \in Ages /\ a <= venue[o].age
  <2>1. st = "canceled" => venue[o].st = "canceled"
    OBVIOUS
  <2>2. st = "canceled" => venue[o].age > 0
    BY <1>1, <2>1 DEF VenueOK
  <2>3. r.since \in Ages /\ 1 \in Ages
    BY <1>1, ReconcileAssumption DEF OrderRow, Ages
  <2> QED
    BY <1>2, <1>5, <2>2, <2>3
<1>7. st \in Statuses /\ st # "none" /\ st # "rejected"
  BY <1>1 DEF Statuses
<1>8. PICK u : u = [r EXCEPT !.vid = TRUE, !.st = st, !.filled = n, !.since = a]
  OBVIOUS
<1>9. /\ u \in OrderRow /\ u.st = st /\ u.filled = n /\ u.since = a /\ u.settled = r.settled
      /\ u.kid = r.kid
  BY <1>1, <1>4, <1>6, <1>7, <1>8 DEF OrderRow
<1>10. Observed(r, st, q) = u
  BY <1>3, <1>5, <1>8 DEF Observed
<1>11. RowOK(o, u)
  BY <1>6, <1>7, <1>9 DEF RowOK
<1>12. r.since > SettleDelay => n >= venue[o].exec /\ venue[o].age > SettleDelay
  BY <1>2, <1>4, ReconcileAssumption
<1> QED
  BY <1>7, <1>9, <1>10, <1>11, <1>12

LEMMA AdoptedRow ==
    ASSUME Inv, NEW o \in Orders, NEW r, RowOK(o, r)
    PROVE  /\ RowOK(o, Adopted(r, o)) /\ Adopted(r, o).st = r.st
           /\ Adopted(r, o).filled = r.filled /\ Adopted(r, o).since = r.since
           /\ o = "entry" => Adopted(r, o).kid = Bracketed
<1>1. r \in OrderRow
  BY DEF RowOK
<1>2. PICK z : z = IF o = "entry" THEN Bracketed ELSE r.kid
  OBVIOUS
<1>3. z \in BOOLEAN
  BY <1>1, <1>2, ReconcileAssumption DEF OrderRow
<1>4. PICK u : u = [r EXCEPT !.kid = z]
  OBVIOUS
<1>5. /\ u \in OrderRow /\ u.st = r.st /\ u.filled = r.filled /\ u.since = r.since
      /\ u.settled = r.settled /\ u.kid = z
  BY <1>1, <1>3, <1>4 DEF OrderRow
<1>6. RowOK(o, u) /\ Adopted(r, o) = u
  BY <1>2, <1>4, <1>5 DEF RowOK, Adopted
<1> QED
  BY <1>2, <1>5, <1>6

\* _Plan.record changes the listing of one order and what is short.
LEMMA RecordedMem ==
    ASSUME NEW m \in Mems, NEW o \in Orders, NEW v \in -1..Qty
    PROVE  LET n == Recorded(m, o, v)
           IN  /\ n \in Mems /\ n.cover = m.cover /\ n.known = m.known /\ n.snap = m.snap
               /\ n.rows = m.rows /\ n.upd = m.upd /\ n.cur = m.cur /\ n.due = m.due
               /\ n.got = m.got
               /\ \A q \in Orders : n.listed[q] = IF q = o THEN v ELSE m.listed[q]
<1>1. PICK S \in SUBSET Orders :
         S = IF v >= m.upd.filled /\ (o = "entry" => v >= m.required)
             THEN m.short \ {o}
             ELSE IF o = "entry" /\ m.required # Unlisted THEN m.short \cup {o} ELSE m.short
  BY DEF Mems
<1>2. PICK L : L = [m.listed EXCEPT ![o] = v]
  OBVIOUS
<1>3. L \in [Orders -> -1..Qty] /\ \A q \in Orders : L[q] = IF q = o THEN v ELSE m.listed[q]
  BY <1>2 DEF Mems
<1>4. PICK n : n = [m EXCEPT !.listed = L, !.short = S]
  OBVIOUS
<1>5. n = Recorded(m, o, v)
  BY <1>1, <1>2, <1>4 DEF Recorded, Mems
<1>6. /\ n \in Mems /\ n.cover = m.cover /\ n.known = m.known /\ n.snap = m.snap
      /\ n.rows = m.rows /\ n.upd = m.upd /\ n.cur = m.cur /\ n.due = m.due
      /\ n.got = m.got /\ n.listed = L
  BY <1>3, <1>4 DEF Mems
<1> QED
  BY <1>3, <1>5, <1>6

LEMMA ReadInv ==
    ASSUME Inv, NEW p \in Procs, NEW o \in Orders, Read(p, o)
    PROVE  Inv'
<1>0. /\ UNCHANGED <<venue, earlier, row, applied, pos, book, seen, fence>>
      /\ pc' = [pc EXCEPT ![p] = "save"] /\ Accepted(o)
  BY DEF Read, store
<1>1. mem[p] \in Mems /\ MemOK(mem[p], "idle")
  BY ProcFacts
<1> DEFINE r == mem[p].rows[o]
<1>3. RowOK(o, r) /\ r \in OrderRow
  BY <1>1 DEF MemOK, RowOK
<1>4. PICK st \in {venue[o].st, "unknown"}, q \in Reported(o), relisted \in BOOLEAN :
          LET m == [mem[p] EXCEPT !.cur = o, !.got = st,
                                  !.upd = Adopted(Observed(r, st, q), o),
                                  !.due = r.since > SettleDelay,
                                  !.linked = IF o = "entry" /\ r.vid THEN Bracketed ELSE @]
              behind == r.vid /\ m.listed[o] # Unlisted /\ m.listed[o] < q
          IN /\ relisted \/ behind
             /\ failures' = failures + (IF st = "unknown" THEN 1 ELSE 0)
                                     + (IF relisted THEN 0 ELSE 1)
             /\ failures' <= MaxFailures
             /\ mem' = [mem EXCEPT ![p] =
                          CASE ~behind -> m
                            [] behind /\ relisted -> Recorded(m, o, venue[o].shown)
                            [] behind /\ ~relisted ->
                                 [m EXCEPT !.listed[o] = Unlisted, !.short = @ \cup {o}]]
  BY DEF Read
<1> HIDE DEF r
<1>5. PICK u : u = Adopted(Observed(r, st, q), o)
  OBVIOUS
<1>6. /\ RowOK(o, u) /\ u.st # "none" /\ u \in OrderRow
      /\ r.since > SettleDelay => u.filled >= venue[o].exec /\ venue[o].age > SettleDelay
  <2>1. PICK w : w = Observed(r, st, q)
    OBVIOUS
  <2>2. /\ RowOK(o, w) /\ w.st # "none"
        /\ r.since > SettleDelay => w.filled >= venue[o].exec /\ venue[o].age > SettleDelay
    BY <1>0, <1>3, <2>1, ObservedRow
  <2>3. RowOK(o, u) /\ u.st = w.st /\ u.filled = w.filled
    BY <1>5, <2>1, <2>2, AdoptedRow
  <2> QED
    BY <2>2, <2>3 DEF RowOK
<1>7. PICK d \in BOOLEAN : d = (r.since > SettleDelay)
  <2>1. r.since \in Nat /\ SettleDelay \in Nat
    BY <1>3, RowNumbers, ReconcileAssumption
  <2>2. (r.since > SettleDelay) \in BOOLEAN
    BY <2>1
  <2> QED
    BY <2>2
<1>8. PICK z : z = IF o = "entry" /\ r.vid THEN Bracketed ELSE mem[p].linked
  OBVIOUS
<1>9. z \in {FALSE, Bracketed}
  BY <1>1, <1>8 DEF Mems
<1>10. PICK m : m = [mem[p] EXCEPT !.cur = o, !.got = st, !.upd = u, !.due = d, !.linked = z]
  OBVIOUS
<1>11. st \in Got
  BY <1>0 DEF Got, Accepted, VenueStatuses
<1>12. /\ m \in Mems /\ m.cover = mem[p].cover /\ m.known = mem[p].known
       /\ m.snap = mem[p].snap /\ m.rows = mem[p].rows /\ m.listed = mem[p].listed
       /\ m.upd = u /\ m.cur = o /\ m.due = d
  BY <1>1, <1>6, <1>7, <1>9, <1>10, <1>11 DEF Mems
<1>13. PICK n1 : n1 = Recorded(m, o, venue[o].shown)
  OBVIOUS
<1>14. PICK n2 : n2 = [m EXCEPT !.listed[o] = Unlisted, !.short = m.short \cup {o}]
  OBVIOUS
<1>15. venue[o].shown \in -1..Qty /\ Unlisted \in -1..Qty /\ venue[o].shown \in Nat
       /\ Unlisted <= venue[o].shown
  BY Numbers, ReconcileAssumption DEF Inv, Unlisted
<1>16. /\ n1 \in Mems /\ n1.cover = m.cover /\ n1.known = m.known /\ n1.snap = m.snap
       /\ n1.rows = m.rows /\ n1.upd = m.upd /\ n1.cur = m.cur /\ n1.due = m.due
       /\ \A w \in Orders : n1.listed[w] = IF w = o THEN venue[o].shown ELSE m.listed[w]
  BY <1>12, <1>13, <1>15, RecordedMem
<1>17. /\ n2 \in Mems /\ n2.cover = m.cover /\ n2.known = m.known /\ n2.snap = m.snap
       /\ n2.rows = m.rows /\ n2.upd = m.upd /\ n2.cur = m.cur /\ n2.due = m.due
       /\ \A w \in Orders : n2.listed[w] = IF w = o THEN Unlisted ELSE m.listed[w]
  BY <1>12, <1>14, <1>15 DEF Mems
<1>18. \/ mem' = [mem EXCEPT ![p] = m]
       \/ mem' = [mem EXCEPT ![p] = n1]
       \/ mem' = [mem EXCEPT ![p] = n2]
  <2>1. m = [mem[p] EXCEPT !.cur = o, !.got = st,
                                  !.upd = Adopted(Observed(r, st, q), o),
                                  !.due = r.since > SettleDelay,
                                  !.linked = IF o = "entry" /\ r.vid THEN Bracketed ELSE @]
    BY <1>5, <1>7, <1>8, <1>10
  <2>2. PICK behind \in BOOLEAN :
           behind = (r.vid /\ m.listed[o] # Unlisted /\ m.listed[o] < q)
    OBVIOUS
  <2>3. mem' = [mem EXCEPT ![p] =
                          CASE ~behind -> m
                            [] behind /\ relisted -> n1
                            [] behind /\ ~relisted -> n2]
    BY <1>4, <1>13, <1>14, <2>1, <2>2
  <2> QED
    BY <2>3
<1>19. MemOK(m, "idle") /\ MemOK(n1, "idle") /\ MemOK(n2, "idle")
  <2>1. \A w \in Orders : m.listed[w] <= venue[w].shown
    BY <1>1, <1>12 DEF MemOK
  <2>2. \A w \in Orders : n1.listed[w] <= venue[w].shown /\ n2.listed[w] <= venue[w].shown
    BY <1>15, <1>16, <1>17, <2>1
  <2> QED
    BY <1>1, <1>12, <1>16, <1>17, <2>1, <2>2 DEF MemOK
<1>20. ASSUME NEW n, MemOK(n, "idle"), n.upd = u, n.cur = o, n.due = d
       PROVE  MemOK(n, "save")
  BY <1>6, <1>7, <1>20 DEF MemOK
<1>21. MemOK(m, "save") /\ MemOK(n1, "save") /\ MemOK(n2, "save")
  BY <1>12, <1>16, <1>17, <1>19, <1>20
<1>22. "save" \in Places /\ m.snap = mem[p].snap /\ n1.snap = mem[p].snap /\ n2.snap = mem[p].snap
  BY <1>12, <1>16, <1>17 DEF Places
<1> QED
  BY <1>0, <1>18, <1>21, <1>22, LocalStep

LEMMA SaveInv ==
    ASSUME Inv, NEW p \in Procs, Save(p)
    PROVE  Inv'
<1>1. mem[p] \in Mems /\ MemOK(mem[p], "save") /\ mem[p].cur \in Orders
  BY ProcFacts DEF Save, Mems
<1>2. PICK m, o : m = mem[p] /\ o = mem[p].cur
  OBVIOUS
<1>3. PICK n : n = IF m.listed[o] # Unlisted THEN m.listed[o] ELSE venue[o].shown
  OBVIOUS
<1>4. PICK k : k = IF m.listed[o] # Unlisted THEN m ELSE Recorded(m, o, n)
  OBVIOUS
<1>5. PICK f : f = [k EXCEPT !.got = "uncovered"]
  OBVIOUS
<1>6. /\ SaveOrder(o, m.upd) /\ UNCHANGED <<venue, earlier, applied, pos>>
      /\ Goes(p, "fault", f, seen[p]) \/ Goes(p, "ingest", k, seen[p])
  BY <1>2, <1>3, <1>4, <1>5 DEF Save
<1>7. RowsGo
  <2>1. RowOK(o, m.upd) /\ m.upd.st # "none" /\ o \in Orders
    BY <1>1, <1>2 DEF MemOK
  <2> QED
    BY <1>6, <2>1, SaveGoes
<1>8. n \in -1..Qty /\ n <= venue[o].shown
  <2>1. m.listed[o] \in Int /\ m.listed[o] <= Qty /\ m.listed[o] >= -1
    BY <1>1, <1>2, MemNumbers
  <2>2. venue[o].shown \in Nat /\ venue[o].shown <= Qty
    BY <1>1, <1>2, Numbers DEF Inv
  <2>3. m.listed[o] <= venue[o].shown
    BY <1>1, <1>2 DEF MemOK
  <2> QED
    BY <1>3, <2>1, <2>2, <2>3, ReconcileAssumption
<1>9. /\ k \in Mems /\ k.cover = m.cover /\ k.known = m.known /\ k.snap = m.snap
      /\ k.rows = m.rows /\ k.upd = m.upd /\ k.cur = m.cur /\ k.due = m.due
      /\ \A q \in Orders : k.listed[q] = m.listed[q] \/ (q = o /\ k.listed[q] = n)
  BY <1>1, <1>2, <1>4, <1>8, RecordedMem
<1>10. MemOK(k, "ingest") /\ MemOK(k, "idle")
  <2>1. \A q \in Orders : k.listed[q] <= venue[q].shown
    BY <1>1, <1>2, <1>8, <1>9 DEF MemOK
  <2> QED
    BY <1>1, <1>2, <1>9, <2>1 DEF MemOK
<1>11. "uncovered" \in Got /\ "uncovered" \in Faults /\ "ingest" \in Places /\ "fault" \in Places
  BY DEF Got, Details, Faults, Places
<1>12. /\ f \in Mems /\ f.cover = k.cover /\ f.known = k.known /\ f.snap = k.snap
       /\ f.rows = k.rows /\ f.listed = k.listed /\ f.got = "uncovered"
  BY <1>5, <1>9, <1>11 DEF Mems
<1>13. MemOK(f, "fault")
  <2>1. MemOK(f, "idle")
    BY <1>10, <1>12, SameMem
  <2> QED
    BY <1>11, <1>12, <2>1 DEF MemOK
<1>14. f.snap = mem[p].snap /\ k.snap = mem[p].snap
  BY <1>2, <1>9, <1>12
<1> QED
  BY <1>6, <1>7, <1>10, <1>11, <1>13, <1>14, ProcFacts, GoesStep

LEMMA FillsFailedInv ==
    ASSUME Inv, NEW p \in Procs, FillsFailed(p)
    PROVE  Inv'
<1>1. mem[p] \in Mems /\ MemOK(mem[p], "save") /\ mem[p].cur \in Orders
  BY ProcFacts DEF FillsFailed, Mems
<1>2. PICK n : n = [mem[p] EXCEPT !.got = "fill_read"]
  OBVIOUS
<1>3. "fill_read" \in Faults /\ "fill_read" \in Got /\ "fault" \in Places
  BY DEF Faults, ReadFaults, Got, Details, Places
<1>4. /\ n \in Mems /\ n.cover = mem[p].cover /\ n.known = mem[p].known
      /\ n.listed = mem[p].listed /\ n.snap = mem[p].snap /\ n.rows = mem[p].rows
      /\ n.got = "fill_read"
  BY <1>1, <1>2, <1>3 DEF Mems
<1>5. MemOK(n, "fault")
  BY <1>1, <1>3, <1>4 DEF MemOK
<1>6. PICK u : u = [mem[p].upd EXCEPT !.st = "unknown"]
  OBVIOUS
<1>7. RowOK(mem[p].cur, u) /\ u.st # "none"
  BY <1>1, <1>6, UnknownRow DEF MemOK
<1>8. /\ SaveOrder(mem[p].cur, u) /\ Goes(p, "fault", n, seen[p])
      /\ UNCHANGED <<venue, earlier, applied, pos>>
  BY <1>2, <1>6 DEF FillsFailed
<1>9. RowsGo
  BY <1>1, <1>7, <1>8, SaveGoes
<1> QED
  BY <1>3, <1>4, <1>5, <1>8, <1>9, ProcFacts, GoesStep

LEMMA FaultInv ==
    ASSUME Inv, NEW p \in Procs, Fault(p)
    PROVE  Inv'
<1>0. RowsGo
  BY RowsStay DEF Fault
<1>1. /\ mem[p].snap \in Deployment /\ mem[p].got \in Faults
      /\ \A o \in Orders : mem[p].snap.cash[o] <= applied[o]
  BY ProcFacts DEF Fault, MemOK
<1>2. PICK b : b = Faulted(mem[p].snap, mem[p].got)
  OBVIOUS
<1>3. b \in Deployment /\ b.cash = mem[p].snap.cash
  BY <1>1, <1>2, FaultedBook DEF Details
<1>4. PICK m : m = Turned(p, mem[p].cur)
  OBVIOUS
<1>5. "judge" \in Places /\ MemOK(m, "judge")
  BY <1>4, TurnedOK
<1>6. WriteOrAbort(p, ScopedAccepts(p), b, "judge", m) /\ UNCHANGED <<venue, earlier, applied, pos>>
  BY <1>2, <1>4 DEF Fault
<1> QED
  BY <1>0, <1>1, <1>3, <1>5, <1>6, WriteOrAbortStep

LEMMA IngestInv ==
    ASSUME Inv, NEW p \in Procs, Ingest(p)
    PROVE  Inv'
<1>1. /\ mem[p] \in Mems /\ MemOK(mem[p], "ingest") /\ mem \in [Procs -> Mems]
      /\ mem[p].cur \in Orders /\ pc \in [Procs -> Places]
  BY ProcFacts DEF Inv, Typed, Ingest, Mems
<1>2. PICK m, o : m = mem[p] /\ o = mem[p].cur
  OBVIOUS
<1>3. o \in Orders /\ m.listed[o] > m.known[o] /\ m \in Mems /\ MemOK(m, "ingest")
  BY <1>1, <1>2 DEF Ingest
<1>4. PICK k : k = m.known[o] + 1
  OBVIOUS
<1>5. /\ k \in Nat /\ k \in Units /\ k <= applied[o] + 1 /\ k <= venue[o].shown
  <2>1. /\ m.known[o] \in Nat /\ m.listed[o] \in Int /\ m.listed[o] <= Qty
        /\ applied[o] \in Nat /\ venue[o].shown \in Nat
    BY <1>3, MemNumbers, Numbers DEF Inv
  <2>2. m.known[o] <= applied[o] /\ m.listed[o] <= venue[o].shown
    BY <1>3 DEF MemOK
  <2> QED
    BY <1>3, <1>4, <2>1, <2>2, ReconcileAssumption DEF Units
<1>6. /\ ApplyFill(p, o, k, m.upd) /\ UNCHANGED <<venue, earlier, pc>> /\ pc[p] = "ingest"
      /\ mem' = [mem EXCEPT ![p].known[o] = k, ![p].snap = book', ![p].cover = applied']
  BY <1>2, <1>4 DEF Ingest
<1>7. RowOK(o, m.upd) /\ m.upd.st # "none"
  BY <1>2, <1>3 DEF MemOK
<1>8. /\ row' \in [Orders -> OrderRow] /\ applied' \in [Orders -> Units] /\ pos' \in Int
      /\ book' \in Deployment
      /\ Unaccepted' /\ Onward /\ k <= applied'[o]
      /\ \A q \in Orders : VenueOK(q)' /\ RowOK(q, row[q])' /\ book'.cash[q] <= applied'[q]
      /\ pos' <= applied'["entry"] /\ -Sold' <= pos'
      /\ seen' \in [Procs -> BOOLEAN] /\ fence' \in [Procs -> BOOLEAN]
      /\ \A q \in Procs \ {p} : seen'[q] => seen[q] /\ book' = book
  BY <1>3, <1>5, <1>6, <1>7, ApplyFacts
<1>9. PICK b, a : b = book' /\ a = applied'
  OBVIOUS
<1>10. PICK n : n = [mem[p] EXCEPT !.known[o] = k, !.snap = b, !.cover = a]
  OBVIOUS
<1>11. mem' = [mem EXCEPT ![p] = n]
  BY <1>1, <1>3, <1>6, <1>9, <1>10 DEF Mems
<1>12. /\ n \in Mems /\ n.snap = book' /\ n.rows = m.rows /\ n.cover = applied'
       /\ n.listed = m.listed /\ n.upd = m.upd /\ n.cur = m.cur /\ n.due = m.due
       /\ \A q \in Orders : n.known[q] = IF q = o THEN k ELSE m.known[q]
  BY <1>2, <1>3, <1>5, <1>8, <1>9, <1>10 DEF Mems
<1>13. mem' \in [Procs -> Mems]
  BY <1>1, <1>11, <1>12
<1>14. venue' \in [Orders -> VenueOrder] /\ earlier' \in [1..Qty -> Units]
  BY <1>6 DEF Inv, Typed
<1>15. Typed'
  BY <1>1, <1>6, <1>8, <1>13, <1>14 DEF Typed
<1>16. MemOK(m, "ingest")'
  BY <1>3, <1>8, <1>15, OnwardMem
<1>17. \A q \in Orders : /\ n.known[q] <= applied'[q] /\ n.cover[q] <= applied'[q]
                         /\ n.snap.cash[q] <= applied'[q]
  <2>1. \A q \in Orders : applied'[q] <= applied'[q]
    BY <1>8, ReconcileAssumption DEF Units
  <2>2. \A q \in Orders : m.known[q] <= applied'[q]
    BY <1>16 DEF MemOK
  <2> QED
    BY <1>8, <1>12, <2>1, <2>2
<1>18. MemOK(n, "ingest")'
  BY <1>12, <1>16, <1>17 DEF MemOK
<1>19. "ingest" \in Places /\ pc' = [pc EXCEPT ![p] = "ingest"]
  BY <1>1, <1>6 DEF Places
<1> QED
  BY <1>8, <1>11, <1>12, <1>14, <1>18, <1>19, MovingStep

\* A canceled order settles only when everything it executed is booked.
LEMMA SettlesSound ==
    ASSUME Inv, NEW m, MemOK(m, "ingest"), Settles(m)
    PROVE  LET u == [row[m.cur] EXCEPT !.settled = TRUE]
           IN  RowOK(m.cur, u) /\ u.st = "canceled" /\ u \in OrderRow /\ u.kid = row[m.cur].kid
<1>1. /\ m \in Mems /\ m.cur \in Orders /\ m.upd \in OrderRow /\ RowOK(m.cur, row[m.cur])
      /\ row[m.cur] \in OrderRow
  BY StoreFacts DEF MemOK, Mems
<1>2. PICK o, u : o = m.cur /\ u = [row[m.cur] EXCEPT !.settled = TRUE]
  OBVIOUS
<1>3. m.due /\ row[o].st = "canceled" /\ applied[o] >= Max(row[o].filled, m.upd.filled)
  BY <1>2 DEF Settles
<1>4. m.upd.filled >= venue[o].exec /\ venue[o].age > SettleDelay
  BY <1>2, <1>3 DEF MemOK
<1>5. /\ applied[o] \in Nat /\ venue[o].exec \in Nat /\ venue[o].shown \in Nat
      /\ venue[o].age \in Nat /\ row[o].filled \in Nat /\ m.upd.filled \in Nat
  BY <1>1, <1>2, Numbers, RowNumbers DEF Inv
<1>6. VenueOK(o)
  BY <1>1, <1>2 DEF Inv
<1>7. applied[o] = venue[o].exec /\ venue[o].st = "canceled"
  BY <1>3, <1>4, <1>5, <1>6, ReconcileAssumption DEF Max, VenueOK
<1>8. /\ u \in OrderRow /\ u.st = row[o].st /\ u.since = row[o].since /\ u.settled = TRUE
      /\ u.kid = row[o].kid
  BY <1>1, <1>2 DEF OrderRow
<1>9. RowOK(o, u)
  BY <1>1, <1>2, <1>7, <1>8 DEF RowOK
<1> QED
  BY <1>2, <1>3, <1>8, <1>9

LEMMA CloseInv ==
    ASSUME Inv, NEW p \in Procs, Close(p)
    PROVE  Inv'
<1>0. RowsGo /\ UNCHANGED <<venue, earlier, row, applied, pos>> /\ pc[p] = "ingest"
  BY RowsStay DEF Close
<1>1. mem[p] \in Mems /\ MemOK(mem[p], "ingest") /\ mem[p].cur \in Orders
  BY <1>0, ProcFacts DEF Mems
<1>2. PICK m : m = mem[p]
  OBVIOUS
<1>3. \/ Goes(p, "fault", [m EXCEPT !.got = "uncovered"], seen[p])
      \/ Goes(p, "fault", [m EXCEPT !.got = "venue_unknown"], seen[p])
      \/ /\ Settles(m)
         /\ Goes(p, "settle", [m EXCEPT !.upd = [row[m.cur] EXCEPT !.settled = TRUE]], seen[p])
      \/ Goes(p, "judge", Turned(p, m.cur), seen[p])
  BY <1>2 DEF Close
<1>4. ASSUME NEW g \in {"uncovered", "venue_unknown"},
             Goes(p, "fault", [m EXCEPT !.got = g], seen[p])
      PROVE  Inv'
  <2>1. PICK n : n = [m EXCEPT !.got = g]
    OBVIOUS
  <2>2. g \in Got /\ g \in Faults /\ "fault" \in Places
    BY DEF Got, Details, Faults, Places
  <2>3. /\ n \in Mems /\ n.cover = m.cover /\ n.known = m.known /\ n.listed = m.listed
        /\ n.snap = m.snap /\ n.rows = m.rows /\ n.got = g
    BY <1>1, <1>2, <2>1, <2>2 DEF Mems
  <2>4. MemOK(n, "fault")
    BY <1>1, <1>2, <2>2, <2>3 DEF MemOK
  <2> QED
    BY <1>0, <1>2, <1>4, <2>1, <2>2, <2>3, <2>4, ProcFacts, GoesStep
<1>5. CASE /\ Settles(m)
           /\ Goes(p, "settle", [m EXCEPT !.upd = [row[m.cur] EXCEPT !.settled = TRUE]], seen[p])
  <2>1. PICK u : u = [row[m.cur] EXCEPT !.settled = TRUE]
    OBVIOUS
  <2>2. RowOK(m.cur, u) /\ u.st = "canceled" /\ u \in OrderRow
    BY <1>1, <1>2, <1>5, <2>1, SettlesSound
  <2>3. PICK n : n = [m EXCEPT !.upd = u]
    OBVIOUS
  <2>4. /\ n \in Mems /\ n.cover = m.cover /\ n.known = m.known /\ n.listed = m.listed
        /\ n.snap = m.snap /\ n.rows = m.rows /\ n.upd = u /\ n.cur = m.cur
    BY <1>1, <1>2, <2>2, <2>3 DEF Mems
  <2>5. MemOK(n, "settle") /\ "settle" \in Places
    BY <1>1, <1>2, <2>2, <2>4 DEF MemOK, Places
  <2>6. Goes(p, "settle", n, seen[p])
    BY <1>5, <2>1, <2>3
  <2> QED
    BY <1>0, <1>2, <2>4, <2>5, <2>6, ProcFacts, GoesStep
<1>6. CASE Goes(p, "judge", Turned(p, m.cur), seen[p])
  <2>1. PICK n : n = Turned(p, m.cur)
    OBVIOUS
  <2>2. "judge" \in Places /\ MemOK(n, "judge") /\ n.snap = mem[p].snap
    BY <2>1, TurnedOK
  <2> QED
    BY <1>0, <1>6, <2>1, <2>2, ProcFacts, GoesStep
<1> QED
  BY <1>3, <1>4, <1>5, <1>6

LEMMA SettleInv ==
    ASSUME Inv, NEW p \in Procs, Settle(p)
    PROVE  Inv'
<1>1. mem[p] \in Mems /\ MemOK(mem[p], "settle") /\ mem[p].cur \in Orders
  BY ProcFacts DEF Settle, Mems
<1>2. PICK m : m = Turned(p, mem[p].cur)
  OBVIOUS
<1>3. "judge" \in Places /\ MemOK(m, "judge") /\ m.snap = mem[p].snap
  BY <1>2, TurnedOK
<1>4. /\ SaveOrder(mem[p].cur, mem[p].upd) /\ Goes(p, "judge", m, seen[p])
      /\ UNCHANGED <<venue, earlier, applied, pos>>
  BY <1>2 DEF Settle
<1>5. RowsGo
  BY <1>1, <1>4, SaveGoes DEF MemOK
<1> QED
  BY <1>3, <1>4, <1>5, ProcFacts, GoesStep

-----------------------------------------------------------------------------
(* The end of a walk, cancels and commands.                                *)

LEMMA EndTurnsInv ==
    ASSUME Inv, NEW p \in Procs, EndTurns(p)
    PROVE  Inv'
<1>0. RowsGo
  BY RowsStay DEF EndTurns
<1>1. PICK l : l = Look(mem[p])
  OBVIOUS
<1>2. l \in Mems /\ MemOK(l, "idle") /\ l.snap = book
  BY <1>1, ProcFacts, LookOK
<1>3. PICK m : m = [l EXCEPT !.before = book.detail, !.then = "finish"]
  OBVIOUS
<1>4. book.detail \in Details
  BY StoreFacts DEF Deployment
<1>5. /\ m \in Mems /\ m.cover = l.cover /\ m.known = l.known /\ m.listed = l.listed
      /\ m.snap = l.snap /\ m.rows = l.rows
  BY <1>2, <1>3, <1>4 DEF Mems
<1>6. MemOK(m, "idle") /\ "judge" \in Plain
  BY <1>2, <1>5, SameMem DEF Plain
<1>7. MemOK(m, "judge") /\ "judge" \in Places
  BY <1>6, PlainMem
<1>8. Goes(p, "judge", m, TRUE) /\ UNCHANGED <<venue, earlier, applied, pos>>
  BY <1>1, <1>3 DEF EndTurns
<1> QED
  BY <1>0, <1>2, <1>5, <1>7, <1>8, GoesStep

LEMMA ImportInv ==
    ASSUME Inv, NEW p \in Procs, Import(p)
    PROVE  Inv'
<1>1. PICK l : l = Look(mem[p])
  OBVIOUS
<1>2. l \in Mems /\ MemOK(l, "idle") /\ l.snap = book /\ mem[p] \in Mems
  BY <1>1, ProcFacts, LookOK
<1>3. "child" \in Orders
  BY EntryOrder DEF Import, Untracked
<1>4. PICK r : r = [NoRow EXCEPT !.st = "unknown", !.vid = TRUE]
  OBVIOUS
<1>5. r \in OrderRow /\ r.st = "unknown" /\ r.since = 0 /\ r.settled = FALSE
  BY <1>4, NoRowTyped DEF OrderRow, Statuses
<1>6. RowOK("child", r)
  BY <1>3, <1>5, Numbers DEF RowOK, Inv
<1>7. PICK R : R = [l.rows EXCEPT !["child"] = r]
  OBVIOUS
<1>8. R \in [Orders -> OrderRow] /\ \A o \in Orders : RowOK(o, R[o])
  <2>1. l.rows \in [Orders -> OrderRow] /\ \A o \in Orders : RowOK(o, l.rows[o])
    BY <1>2 DEF MemOK, Mems
  <2>2. /\ R \in [Orders -> OrderRow]
        /\ \A o \in Orders : R[o] = IF o = "child" THEN r ELSE l.rows[o]
    BY <1>5, <1>7, <2>1
  <2> QED
    BY <1>6, <2>1, <2>2
<1>9. PICK w : w = [started |-> mem[p].started, detail |-> mem[p].detail,
                    first |-> mem[p].first, before |-> book.detail]
  OBVIOUS
<1>10. book.detail \in Details /\ book.status \in Runs /\ "none" \in Details
  BY StoreFacts DEF Deployment, Runs, Details
<1>11. w \in Supervisions
  BY <1>2, <1>9, <1>10 DEF Supervisions, Mems
<1>12. PICK m : m = [l EXCEPT !.todo = {"child"}, !.rows = R, !.known = applied,
                     !.then = "child", !.outer = w, !.started = book.status,
                     !.detail = book.detail, !.first = "none", !.before = book.detail]
  OBVIOUS
<1>13. /\ m \in Mems /\ m.cover = l.cover /\ m.known = applied /\ m.listed = l.listed
       /\ m.snap = l.snap /\ m.rows = R
  <2>1. l \in Mems /\ R \in [Orders -> OrderRow] /\ w \in Supervisions
    BY <1>2, <1>8, <1>11
  <2>2. PICK K \in SUBSET Orders, a \in [Orders -> Units], s \in Runs, d \in Details :
           K = {"child"} /\ a = applied /\ s = book.status /\ d = book.detail
    BY <1>3, <1>10, StoreFacts
  <2>3. m = [l EXCEPT !.todo = K, !.rows = R, !.known = a, !.then = "child", !.outer = w,
                      !.started = s, !.detail = d, !.first = "none", !.before = d]
    BY <1>12, <2>2
  <2>4. "none" \in Details
    BY <1>10
  <2>5. /\ m \in Mems /\ m.cover = l.cover /\ m.known = a /\ m.listed = l.listed
        /\ m.snap = l.snap /\ m.rows = R
    BY <2>1, <2>3, <2>4 DEF Mems
  <2> QED
    BY <2>2, <2>5
<1>14. MemOK(m, "idle") /\ "walk" \in Plain
  <2>1. \A o \in Orders : applied[o] <= applied[o]
    BY Numbers DEF Inv
  <2> QED
    BY <1>2, <1>8, <1>13, <2>1 DEF MemOK, Plain
<1>15. MemOK(m, "walk") /\ "walk" \in Places
  BY <1>14, PlainMem
<1>16. /\ SaveOrder("child", r) /\ Goes(p, "walk", m, TRUE)
       /\ UNCHANGED <<venue, earlier, applied, pos>>
  <2>1. m = [l EXCEPT
                 !.todo = {"child"}, !.rows["child"] = r, !.known = applied, !.then = "child",
                 !.outer = [started |-> mem[p].started, detail |-> mem[p].detail,
                            first |-> mem[p].first, before |-> book.detail],
                 !.started = book.status, !.detail = book.detail, !.first = "none",
                 !.before = book.detail]
    BY <1>2, <1>7, <1>9, <1>12 DEF Mems
  <2> QED
    BY <1>1, <1>4, <2>1 DEF Import
<1>17. RowsGo
  BY <1>3, <1>5, <1>6, <1>16, SaveGoes
<1> QED
  BY <1>2, <1>13, <1>15, <1>16, <1>17, GoesStep

LEMMA RejoinInv ==
    ASSUME Inv, NEW p \in Procs, Rejoin(p)
    PROVE  Inv'
<1>0. RowsGo
  BY RowsStay DEF Rejoin
<1>1. mem[p] \in Mems /\ MemOK(mem[p], "idle")
  BY ProcFacts
<1>2. PICK u, v : u = mem[p].outer /\ v = Blank.outer
  OBVIOUS
<1>3. u \in Supervisions /\ v \in Supervisions
  BY <1>1, <1>2, BlankMem DEF Mems
<1>4. u.started \in Runs /\ u.detail \in Details /\ u.first \in Details /\ u.before \in Details
  BY <1>3 DEF Supervisions
<1>5. PICK m : m = [mem[p] EXCEPT
               !.started = u.started, !.detail = u.detail, !.first = u.first,
               !.before = u.before, !.outer = v, !.then = "finish"]
  OBVIOUS
<1>6. /\ m \in Mems /\ m.cover = mem[p].cover /\ m.known = mem[p].known
      /\ m.listed = mem[p].listed /\ m.snap = mem[p].snap /\ m.rows = mem[p].rows
  BY <1>1, <1>3, <1>4, <1>5 DEF Mems
<1>7. MemOK(m, "idle") /\ "judge" \in Plain
  BY <1>1, <1>6, SameMem DEF Plain
<1>8. MemOK(m, "judge") /\ "judge" \in Places
  BY <1>7, PlainMem
<1>9. Goes(p, "judge", m, seen[p]) /\ UNCHANGED <<venue, earlier, applied, pos>>
  BY <1>2, <1>5 DEF Rejoin
<1> QED
  BY <1>0, <1>6, <1>8, <1>9, ProcFacts, GoesStep

LEMMA FinishInv ==
    ASSUME Inv, NEW p \in Procs, Finish(p)
    PROVE  Inv'
<1>0. RowsGo /\ UNCHANGED <<venue, earlier, row, applied, pos>>
  BY RowsStay DEF Finish
<1>1. /\ mem[p] \in Mems /\ MemOK(mem[p], "idle") /\ mem[p].snap \in Deployment
      /\ \A o \in Orders : mem[p].snap.cash[o] <= applied[o]
      /\ mem[p].upd \in OrderRow
  BY ProcFacts DEF Mems
<1>2. PICK m : m = [Blank EXCEPT !.upd = mem[p].upd, !.snap = mem[p].snap]
  OBVIOUS
<1>3. PICK n : n = [m EXCEPT !.upd = row["entry"]]
  OBVIOUS
<1>4. PICK b : b = Cleared(mem[p].snap)
  OBVIOUS
<1>5. b \in Deployment /\ b.cash = mem[p].snap.cash
  BY <1>1, <1>4 DEF Cleared, Deployment, Details
<1>6. /\ m \in Mems /\ m.cover = Blank.cover /\ m.known = Blank.known
      /\ m.listed = Blank.listed /\ m.snap = mem[p].snap /\ m.rows = Blank.rows
  BY <1>1, <1>2, BlankMem DEF Mems
<1>7. /\ n \in Mems /\ n.cover = m.cover /\ n.known = m.known
      /\ n.listed = m.listed /\ n.snap = m.snap /\ n.rows = m.rows
  BY <1>3, <1>6, StoreFacts, EntryOrder DEF Mems
<1>8. MemOK(m, "idle")
  BY <1>1, <1>6, BlankOK DEF MemOK
<1>9. MemOK(n, "idle") /\ "after" \in Plain
  BY <1>7, <1>8, SameMem DEF Plain
<1>10. MemOK(m, "after") /\ MemOK(n, "after") /\ "after" \in Places
  BY <1>8, <1>9, PlainMem
<1>11. \/ WriteOrAbort(p, Accepts(p), b, "after", n)
       \/ LastWrite(p, b)
       \/ Goes(p, "after", m, seen[p])
       \/ Return(p)
  BY <1>2, <1>3, <1>4 DEF Finish
<1>12. CASE WriteOrAbort(p, Accepts(p), b, "after", n)
  BY <1>0, <1>1, <1>5, <1>10, <1>12, WriteOrAbortStep
<1>13. CASE LastWrite(p, b)
  BY <1>0, <1>1, <1>5, <1>13, LastWriteStep
<1>14. CASE Goes(p, "after", m, seen[p])
  BY <1>0, <1>6, <1>10, <1>14, ProcFacts, GoesStep
<1>15. CASE Return(p)
  BY <1>0, <1>15, ReturnStep
<1> QED
  BY <1>11, <1>12, <1>13, <1>14, <1>15

LEMMA CancelInv ==
    ASSUME Inv, NEW p \in Procs, NEW o \in Orders, Cancel(p, o)
    PROVE  Inv'
<1>0. RowsGo
  BY RowsStay DEF Cancel
<1>1. RowOK(o, row[o]) /\ row[o] \in OrderRow
  BY StoreFacts
<1>2. PICK m : m = [Blank EXCEPT !.cur = o, !.upd = row[o]]
  OBVIOUS
<1>3. /\ m \in Mems /\ m.cover = Blank.cover /\ m.known = Blank.known
      /\ m.listed = Blank.listed /\ m.snap = Blank.snap /\ m.rows = Blank.rows
      /\ m.cur = o /\ m.upd = row[o]
  BY <1>1, <1>2, BlankMem DEF Mems
<1>4. MemOK(m, "canceling") /\ "canceling" \in Places
  BY <1>1, <1>3, BlankOK DEF MemOK, Places
<1>5. Goes(p, "canceling", m, FALSE) /\ UNCHANGED <<venue, earlier, applied, pos>>
  BY <1>2 DEF Cancel
<1> QED
  BY <1>0, <1>4, <1>5, GoesStep

LEMMA ConfirmCancelInv ==
    ASSUME Inv, NEW p \in Procs, ConfirmCancel(p)
    PROVE  Inv'
<1>1. mem[p].cur \in Orders /\ RowOK(mem[p].cur, mem[p].upd)
  BY ProcFacts DEF ConfirmCancel, MemOK, Mems
<1>2. PICK o : o = mem[p].cur
  OBVIOUS
<1>3. Return(p) /\ UNCHANGED <<venue, earlier, applied, pos>>
  BY DEF ConfirmCancel
<1>4. \/ UNCHANGED row
      \/ Accepted(o) /\ \E q \in Reported(o), st \in {venue[o].st, "unknown"} :
                           SaveOrder(o, Observed(mem[p].upd, st, q))
  BY <1>2 DEF ConfirmCancel
<1>5. RowsGo
  <2>1. CASE UNCHANGED row
    BY <2>1, RowsStay
  <2>2. CASE Accepted(o) /\ \E q \in Reported(o), st \in {venue[o].st, "unknown"} :
                           SaveOrder(o, Observed(mem[p].upd, st, q))
    <3>1. PICK q \in Reported(o), st \in {venue[o].st, "unknown"} :
             SaveOrder(o, Observed(mem[p].upd, st, q))
      BY <2>2
    <3>2. RowOK(o, Observed(mem[p].upd, st, q)) /\ Observed(mem[p].upd, st, q).st # "none"
      BY <1>1, <1>2, <2>2, ObservedRow
    <3> QED
      BY <1>1, <1>2, <3>1, <3>2, SaveGoes
  <2> QED
    BY <1>4, <2>1, <2>2
<1> QED
  BY <1>3, <1>5, ReturnStep

LEMMA CommandInv ==
    ASSUME Inv, NEW s \in {"running", "paused", "stopped"}, Command(s)
    PROVE  Inv'
<1>1. PICK b : b = [book EXCEPT !.status = s, !.detail = "none"]
  OBVIOUS
<1>2. b \in Deployment /\ b.cash = book.cash
  BY <1>1, StoreFacts DEF Deployment, Details
<1>3. /\ book' = b /\ seen' = [p \in Procs |-> FALSE] /\ fence' = [p \in Procs |-> FALSE]
      /\ UNCHANGED <<venue, earlier, row, applied, pos, pc, mem>>
  BY <1>1 DEF Command
<1>4. Typed'
  BY <1>2, <1>3 DEF Inv, Typed
<1>5. /\ Unaccepted'
      /\ \A o \in Orders : VenueOK(o)' /\ RowOK(o, row[o])' /\ book'.cash[o] <= applied'[o]
      /\ pos' <= applied'["entry"] /\ -Sold' <= pos'
  BY <1>2, <1>3 DEF Inv, Unaccepted, Accepted, VenueOK, RowOK, Sold
<1>6. \A p \in Procs : MemOK(mem[p], pc[p])' /\ Fresh(p)'
  BY <1>3 DEF Inv, MemOK, RowOK, Fresh
<1> QED
  BY <1>4, <1>5, <1>6 DEF Inv

LEMMA NextInv == Inv /\ [Next]_vars => Inv'
<1> SUFFICES ASSUME Inv, [Next]_vars PROVE Inv'
  OBVIOUS
<1>1. ASSUME NEW p \in Procs, Place(p) PROVE Inv'
  <2>1. CASE AfterPlace(p) \/ AfterWalk(p)
    BY <2>1, ConcludeInv DEF AfterPlace, AfterWalk
  <2> QED
    BY <1>1, <2>1, SubmitInv, PlaceInv, AttachInv, NoLocalFillInv DEF Place
<1>2. ASSUME NEW p \in Procs, Walk(p) PROVE Inv'
  BY <1>2, BeginWalkInv, OpenInv, ListInv, PlanInv, ApplyListedInv, EndApplyInv, SkipInv,
     NotFoundInv, ReadFailedInv, ReadInv, SaveInv, FillsFailedInv, FaultInv, IngestInv,
     CloseInv, SettleInv, JudgeInv, RetainInv, EndTurnsInv, ImportInv, RejoinInv, FinishInv
     DEF Walk
<1>3. ASSUME NEW p \in Procs, Crash(p) PROVE Inv'
  <2>1. RowsGo /\ Return(p) /\ UNCHANGED <<venue, earlier, applied, pos>>
    BY <1>3, RowsStay DEF Crash
  <2> QED
    BY <2>1, ReturnStep
<1>4. CASE UNCHANGED vars
  <2>1. UNCHANGED <<venue, earlier, row, applied, book, pos, pc, mem, seen, fence>>
    BY <1>4 DEF vars
  <2>2. Typed' /\ Unaccepted' /\ pos' <= applied'["entry"] /\ -Sold' <= pos'
    BY <2>1 DEF Inv, Typed, Unaccepted, Accepted, Sold
  <2>3. \A o \in Orders : VenueOK(o)' /\ RowOK(o, row[o])' /\ book'.cash[o] <= applied'[o]
    BY <2>1 DEF Inv, VenueOK, RowOK
  <2>4. \A p \in Procs : MemOK(mem[p], pc[p])' /\ Fresh(p)'
    BY <2>1 DEF Inv, MemOK, RowOK, Fresh
  <2> QED
    BY <2>2, <2>3, <2>4 DEF Inv
<1> QED
  BY <1>1, <1>2, <1>3, <1>4, VenueInv, TickInv, ConfirmCancelInv, CancelInv, CommandInv DEF Next

\* For any number of passes and requests walking one book, rows, copies and
\* applied fills stay behind the venue, and a copy with the row's revision is
\* the row (reconcile_open_orders, apply_fill_transaction).
THEOREM Invariance == Spec => []Inv
BY InitInv, NextInv, PTL DEF Spec

\* Orders, rows, applied fills, book and position keep their types: no fill is
\* applied beyond the order's quantity (reconcile_open_orders).
THEOREM TypeCorrect == Spec => []TypeOK
<1>1. Inv => TypeOK
  <2> SUFFICES ASSUME Inv PROVE TypeOK
    OBVIOUS
  <2>1. pos \in Int /\ pos <= applied["entry"] /\ -Sold <= pos
    BY DEF Inv, Typed
  <2>2. applied["entry"] \in Nat /\ applied["entry"] <= Qty
    BY EntryOrder, Numbers DEF Inv
  <2>3. Sold \in Nat /\ Sold <= Qty
    BY EntryOrder, Numbers, ReconcileAssumption DEF Inv, Sold
  <2>4. pos \in -Qty..Qty
    BY <2>1, <2>2, <2>3, ReconcileAssumption
  <2> QED
    BY <2>4 DEF Inv, Typed, TypeOK, Places
<1> QED
  BY <1>1, Invariance, PTL

\* No execution is forgotten: an order no walk reads any more is over at the
\* venue and booked to the last unit, over failed reads, unknown submits, late
\* listings, crashes and requests walking beside the worker (_needs_reconcile,
\* _settle_canceled).
THEOREM NoExecutionLost == Spec => []NothingLost
<1>1. Inv => NothingLost
  <2> SUFFICES ASSUME Inv, NEW o \in Orders, row[o].st # "none", ~Needs(row[o], applied[o])
               PROVE  /\ venue[o].st \in {"refused", "filled", "canceled"}
                      /\ applied[o] = venue[o].exec
    BY DEF NothingLost
  <2>1. /\ VenueOK(o) /\ RowOK(o, row[o]) /\ row[o] \in OrderRow
        /\ row[o].st \in Statuses
    BY DEF Inv, Typed, OrderRow
  <2>2. /\ applied[o] \in Nat /\ venue[o].exec \in Nat /\ venue[o].shown \in Nat
        /\ venue[o].exec <= Qty
    BY Numbers DEF Inv
  <2>3. CASE row[o].st = "rejected"
    BY <2>1, <2>2, <2>3 DEF RowOK, VenueOK
  <2>4. CASE row[o].st = "filled"
    <3>1. applied[o] >= Qty
      BY <2>2, <2>4, ReconcileAssumption DEF Needs
    <3> QED
      BY <2>1, <2>2, <3>1, ReconcileAssumption DEF VenueOK
  <2>5. CASE row[o].st = "canceled"
    BY <2>1, <2>5 DEF Needs, RowOK
  <2> QED
    BY <2>1, <2>3, <2>4, <2>5 DEF Needs, Statuses
<1> QED
  BY <1>1, Invariance, PTL

\* No fill is booked twice, however many passes and requests list it at once
\* (apply_fill_transaction refuses a fill that is recorded as applied).
THEOREM NoFillTwice == Spec => []NeverTwice
<1>1. Inv => NeverTwice
  BY DEF Inv, NeverTwice
<1> QED
  BY <1>1, Invariance, PTL

-----------------------------------------------------------------------------
(* Without discretionary requests every write compares the revision.       *)

\* A step that books nothing and neither sets the stop nor resumes.
BookKept ==
    /\ UNCHANGED <<applied, pos>>
    /\ book'.cash = book.cash
    /\ book'.stop => book.stop
    /\ book'.status = "running" => book.status = "running"

\* A step that books the next unit of o.
Books(o) ==
    /\ \A q \in Orders : applied'[q] = IF q = o THEN applied[o] + 1 ELSE applied[q]
    /\ book' = ProjectedBook(o)
    /\ pos' = ProjectedPos(o)

LEMMA StayKept ==
    ASSUME UNCHANGED <<applied, pos, book>>
    PROVE  BookKept
BY DEF BookKept

LEMMA WriteKept ==
    ASSUME Inv, NEW p \in Procs, NEW b, NEW ok, ok => seen[p], NEW at, NEW m,
           WriteOrAbort(p, ok, b, at, m), UNCHANGED <<applied, pos>>,
           b.cash = mem[p].snap.cash, b.stop => mem[p].snap.stop,
           b.status = "running" => mem[p].snap.status = "running"
    PROVE  BookKept
<1>1. seen[p] => mem[p].snap = book
  BY ProcFacts
<1>2. CASE ok
  BY <1>1, <1>2 DEF WriteOrAbort, Wrote, BookKept
<1>3. CASE ~ok
  BY <1>3 DEF WriteOrAbort, Return, BookKept
<1> QED
  BY <1>2, <1>3

LEMMA LastWriteKept ==
    ASSUME Inv, Tickets = {}, NEW p \in Procs, NEW b,
           LastWrite(p, b), UNCHANGED <<applied, pos>>,
           b.cash = mem[p].snap.cash, b.stop => mem[p].snap.stop,
           b.status = "running" => mem[p].snap.status = "running"
    PROVE  BookKept
<1>1. seen[p] => mem[p].snap = book
  BY ProcFacts
<1>2. CASE Accepts(p)
  <2>1. seen[p] /\ book' = b
    BY <1>2 DEF Accepts, LastWrite
  <2> QED
    BY <1>1, <2>1 DEF BookKept
<1>3. CASE ~Accepts(p)
  BY <1>3 DEF LastWrite, Return, BookKept
<1> QED
  BY <1>2, <1>3

LEMMA ConcludeKept ==
    ASSUME Inv, Tickets = {}, NEW p \in Procs, NEW r, Conclude(p, r), UNCHANGED <<applied, pos>>
    PROVE  BookKept
<1>1. mem[p].snap \in Deployment
  BY ProcFacts
<1>2. \/ LastWrite(p, Faulted(mem[p].snap, "entry_unconfirmed"))
      \/ LastWrite(p, [mem[p].snap EXCEPT !.stop = FALSE])
      \/ book' = book
  BY DEF Conclude, Goes, Return
<1>3. CASE LastWrite(p, Faulted(mem[p].snap, "entry_unconfirmed"))
  <2>1. PICK b : b = Faulted(mem[p].snap, "entry_unconfirmed")
    OBVIOUS
  <2>2. b.cash = mem[p].snap.cash /\ b.stop = mem[p].snap.stop /\ b.status # "running"
    BY <1>1, <2>1, FaultedBook DEF Details, Faults
  <2> QED
    BY <1>3, <2>1, <2>2, LastWriteKept
<1>4. CASE LastWrite(p, [mem[p].snap EXCEPT !.stop = FALSE])
  <2>1. PICK b : b = [mem[p].snap EXCEPT !.stop = FALSE]
    OBVIOUS
  <2>2. b.cash = mem[p].snap.cash /\ ~b.stop /\ b.status = mem[p].snap.status
    BY <1>1, <2>1 DEF Deployment
  <2> QED
    BY <1>4, <2>1, <2>2, LastWriteKept
<1>5. CASE book' = book
  BY <1>5, StayKept
<1> QED
  BY <1>2, <1>3, <1>4, <1>5

LEMMA ApplyBooks ==
    ASSUME Inv, NEW p \in Procs, NEW o \in Orders, NEW k \in Nat, NEW copy,
           k <= applied[o] + 1, ApplyFill(p, o, k, copy)
    PROVE  BookKept \/ Books(o)
<1>1. applied \in [Orders -> Units] /\ applied[o] \in Nat
  BY Numbers DEF Inv, Typed
<1>2. CASE AlreadyApplied(o, k)
  BY <1>2, StayKept DEF ApplyFill, store
<1>3. CASE ~AlreadyApplied(o, k)
  <2>1. k = applied[o] + 1
    BY <1>1, <1>3 DEF AlreadyApplied
  <2>2. Max(applied[o], k) = applied[o] + 1
    BY <1>1, <2>1 DEF Max
  <2>3. /\ applied' = [applied EXCEPT ![o] = applied[o] + 1]
        /\ book' = ProjectedBook(o) /\ pos' = ProjectedPos(o)
    BY <1>3, <2>2 DEF ApplyFill
  <2> QED
    BY <1>1, <2>3 DEF Books
<1> QED
  BY <1>2, <1>3

\* A step of a placing process books nothing but the stop a submit stores.
LEMMA PlaceEffect ==
    ASSUME Inv, Tickets = {}, NEW p \in Procs, Place(p)
    PROVE  BookKept \/ Submit(p)
<1>1. CASE PlaceOk(p) \/ PlacePending(p) \/ PlaceRejected(p) \/ PlaceError(p) \/ Attach(p)
  <2>1. UNCHANGED <<applied, pos, book>>
    BY <1>1 DEF PlaceOk, PlacePending, PlaceRejected, PlaceError, Placed, Attach, Goes
  <2> QED
    BY <2>1, StayKept
<1>2. CASE AfterPlace(p) \/ AfterWalk(p)
  BY <1>2, ConcludeKept DEF AfterPlace, AfterWalk
<1>3. CASE NoLocalFill(p)
  <2>1. PICK b : b = Faulted(mem[p].snap, "no_local_fill")
    OBVIOUS
  <2>2. b.cash = mem[p].snap.cash /\ b.stop = mem[p].snap.stop /\ b.status # "running"
    BY <2>1, ProcFacts, FaultedBook DEF Details, Faults
  <2> QED
    BY <1>3, <2>1, <2>2, LastWriteKept DEF NoLocalFill
<1> QED
  BY <1>1, <1>2, <1>3 DEF Place

\* The writes of a walk: supervision, faults and the clearing of a disproved one.
LEMMA WalkWriteKept ==
    ASSUME Inv, Tickets = {}, NEW p \in Procs,
           Open(p) \/ Fault(p) \/ Retain(p) \/ Finish(p)
    PROVE  BookKept
<1>1. /\ mem[p] \in Mems /\ mem[p].snap \in Deployment /\ MemOK(mem[p], pc[p])
      /\ p \notin Tickets
  BY ProcFacts
<1>2. Accepts(p) => seen[p]
  BY <1>1 DEF Accepts
<1>3. CASE Open(p)
  <2>1. PICK b : b = Faulted(mem[p].snap, "unprojected")
    OBVIOUS
  <2>2. b.cash = mem[p].snap.cash /\ b.stop = mem[p].snap.stop /\ b.status # "running"
    BY <1>1, <2>1, FaultedBook DEF Details, Faults
  <2>3. /\ WriteOrAbort(p, Accepts(p), b, "list", Unread(mem[p]))
        /\ UNCHANGED <<applied, pos>>
    BY <1>3, <2>1 DEF Open
  <2> QED
    BY <1>2, <2>2, <2>3, WriteKept
<1>4. CASE Fault(p)
  <2>1. PICK b : b = Faulted(mem[p].snap, mem[p].got)
    OBVIOUS
  <2>2. mem[p].got \in Details
    BY <1>1, <1>4 DEF Fault, MemOK, Details
  <2>3. b.cash = mem[p].snap.cash /\ b.stop = mem[p].snap.stop /\ b.status # "running"
    BY <1>1, <2>1, <2>2, FaultedBook
  <2>4. /\ WriteOrAbort(p, seen[p], b, "judge", Turned(p, mem[p].cur))
        /\ UNCHANGED <<applied, pos>>
    BY <1>4, <2>1 DEF Fault, ScopedAccepts
  <2> QED
    BY <2>3, <2>4, WriteKept
<1>5. CASE Retain(p)
  <2>1. PICK b, m : b = Retained(mem[p]) /\ m = [Look(mem[p]) EXCEPT !.before = b.detail]
    OBVIOUS
  <2>2. /\ b.cash = mem[p].snap.cash /\ b.stop = mem[p].snap.stop
        /\ b.status = "running" => mem[p].snap.status = "running"
    BY <1>1, <2>1, RetainedBook
  <2>3. /\ WriteOrAbort(p, Accepts(p), b, mem[p].then, m)
        /\ UNCHANGED <<applied, pos>>
    BY <1>5, <2>1 DEF Retain
  <2> QED
    BY <1>2, <2>2, <2>3, WriteKept
<1>6. CASE Finish(p)
  <2>1. PICK b : b = Cleared(mem[p].snap)
    OBVIOUS
  <2>2. /\ b.cash = mem[p].snap.cash /\ b.stop = mem[p].snap.stop
        /\ b.status = mem[p].snap.status
    BY <1>1, <2>1 DEF Cleared, Deployment
  <2>3. (LastWrite(p, b) \/ book' = book) /\ UNCHANGED <<applied, pos>>
    BY <1>1, <1>6, <2>1 DEF Finish, Return
  <2> QED
    BY <2>2, <2>3, LastWriteKept, StayKept
<1> QED
  BY <1>3, <1>4, <1>5, <1>6

\* A walk books fills, one unit at a time, and otherwise keeps what is booked.
LEMMA WalkEffect ==
    ASSUME Inv, Tickets = {}, NEW p \in Procs, Walk(p)
    PROVE  BookKept \/ \E o \in Orders : Books(o)
<1>0. mem[p] \in Mems /\ MemOK(mem[p], "idle")
  BY ProcFacts
<1>1. CASE Open(p) \/ Fault(p) \/ Retain(p) \/ Finish(p)
  BY <1>1, WalkWriteKept
<1>2. CASE BeginWalk(p) \/ List(p) \/ Plan(p) \/ \E o \in Orders : Read(p, o)
  BY <1>2, StayKept DEF BeginWalk, List, Plan, Read, store
<1>3. CASE \/ EndApply(p) \/ Judge(p) \/ EndTurns(p) \/ Import(p) \/ Rejoin(p)
           \/ \E o \in Orders : Skip(p, o) \/ NotFound(p, o) \/ ReadFailed(p, o)
  <2>1. UNCHANGED <<applied, pos, book>>
    BY <1>3 DEF EndApply, Judge, EndTurns, Import, Rejoin, Skip, NotFound, ReadFailed,
                Supervise, Goes
  <2> QED
    BY <2>1, StayKept
<1>4. CASE Save(p) \/ FillsFailed(p) \/ Close(p) \/ Settle(p)
  <2>1. UNCHANGED <<applied, pos, book>>
    BY <1>4 DEF Save, FillsFailed, Close, Settle, Goes
  <2> QED
    BY <2>1, StayKept
<1>5. ASSUME NEW o \in Orders, NEW k, k = mem[p].known[o] + 1, NEW copy,
             ApplyFill(p, o, k, copy)
      PROVE  BookKept \/ Books(o)
  <2>1. mem[p].known[o] \in Nat /\ applied[o] \in Nat
    BY <1>0, <1>5, MemNumbers, Numbers DEF Inv
  <2>2. mem[p].known[o] <= applied[o]
    BY <1>0 DEF MemOK
  <2>3. k \in Nat /\ k <= applied[o] + 1
    BY <1>5, <2>1, <2>2
  <2> QED
    BY <1>5, <2>3, ApplyBooks
<1>6. CASE ApplyListed(p)
  <2>1. Earliest(mem[p]) \in Orders
    BY <1>0, <1>6, EarliestPending DEF ApplyListed
  <2> QED
    BY <1>5, <1>6, <2>1 DEF ApplyListed
<1>7. CASE Ingest(p)
  <2>1. mem[p].cur \in Orders
    BY <1>0 DEF Mems
  <2> QED
    BY <1>5, <1>7, <2>1 DEF Ingest
<1> QED
  BY <1>1, <1>2, <1>3, <1>4, <1>6, <1>7 DEF Walk

\* Whatever happens to the book is one of four things.
LEMMA Effect ==
    ASSUME Inv, Tickets = {}, [Next]_vars
    PROVE  \/ BookKept
           \/ \E o \in Orders : Books(o)
           \/ \E p \in Procs : Submit(p)
           \/ \E s \in Runs : Command(s)
<1>1. CASE Venue \/ Tick \/ UNCHANGED vars
  <2>1. UNCHANGED <<applied, pos, book>>
    BY <1>1 DEF Venue, VenueAccept, VenueRefuse, VenueFill, VenueShow, VenueCancel, Tick,
                vars, store
  <2> QED
    BY <2>1, StayKept
<1>2. CASE \E p \in Procs : ConfirmCancel(p) \/ Crash(p) \/ \E o \in Orders : Cancel(p, o)
  <2>1. UNCHANGED <<applied, pos, book>>
    BY <1>2 DEF ConfirmCancel, Crash, Cancel, Return, Goes
  <2> QED
    BY <2>1, StayKept
<1> QED
  BY <1>1, <1>2, PlaceEffect, WalkEffect DEF Next, Runs

\* Cash has every applied fill once, and the position is what the applied fills
\* leave, or is missing; a stored stop waits for the first of them.
CashRight == \A o \in Orders : book.cash[o] = applied[o]
PosRight ==
    /\ book.stop => \A o \in Orders : applied[o] = 0
    /\ pos = 0 \/ pos = Balance

Kept == Inv /\ CashRight /\ PosRight

LEMMA BalanceFacts ==
    ASSUME Inv
    PROVE  /\ Balance \in Int /\ Balance = applied["entry"] - Sold
           /\ (\A o \in Orders : applied[o] = 0) => Balance = 0
<1>1. applied["entry"] \in Int /\ (Bracketed => applied["child"] \in Int)
  BY EntryOrder, Numbers DEF Inv, Orders
<1> QED
  BY <1>1, EntryOrder DEF Balance, Sold, Orders

LEMMA BalanceMoves ==
    ASSUME Inv, NEW o \in Orders, Books(o)
    PROVE  Balance' = Balance + Side(o)
<1>1. applied["entry"] \in Int /\ (Bracketed => applied["child"] \in Int)
  BY EntryOrder, Numbers DEF Inv, Orders
<1>2. CASE o = "entry"
  <2>1. applied'["entry"] = applied["entry"] + 1
        /\ (Bracketed => applied'["child"] = applied["child"])
    BY <1>2, EntryOrder DEF Books, Orders
  <2> QED
    BY <1>1, <1>2, <2>1 DEF Balance, Side
<1>3. CASE o # "entry"
  <2>1. Bracketed /\ o = "child"
    BY <1>3 DEF Orders
  <2>2. applied'["entry"] = applied["entry"] /\ applied'["child"] = applied["child"] + 1
    BY <2>1, EntryOrder DEF Books
  <2> QED
    BY <1>1, <2>1, <2>2 DEF Balance, Side
<1> QED
  BY <1>2, <1>3

LEMMA BooksKept ==
    ASSUME Kept, NEW o \in Orders, Books(o)
    PROVE  CashRight' /\ PosRight'
<1>1. /\ \A q \in Orders :
            ProjectedBook(o).cash[q] = IF q = o THEN book.cash[o] + 1 ELSE book.cash[q]
      /\ ProjectedBook(o).stop => book.stop /\ pos # 0
      /\ pos # 0 => ProjectedPos(o) = pos + Side(o)
      /\ ProjectedPos(o) \in {0, pos + Side(o)}
      /\ pos = 0 /\ ~book.stop => ProjectedPos(o) = 0
  BY ProjectedFacts DEF Kept
<1>2. pos \in Int /\ Side(o) \in Int /\ Balance \in Int
  BY BalanceFacts DEF Kept, Inv, Typed, Side
<1>3. CashRight'
  BY <1>1 DEF Kept, CashRight, Books
<1>4. ~book'.stop
  <2>1. book.stop => pos = 0
    BY BalanceFacts DEF Kept, PosRight
  <2> QED
    BY <1>1, <2>1 DEF Books
<1>5. Balance' = Balance + Side(o)
  BY BalanceMoves DEF Kept
<1>6. pos' = 0 \/ pos' = Balance'
  <2>1. CASE pos # 0
    BY <1>1, <1>2, <1>5, <2>1 DEF Books, Kept, PosRight
  <2>2. CASE pos = 0 /\ ~book.stop
    BY <1>1, <2>2 DEF Books
  <2>3. CASE pos = 0 /\ book.stop
    <3>1. Balance = 0
      BY <2>3, BalanceFacts DEF Kept, PosRight
    <3> QED
      BY <1>1, <1>2, <1>5, <2>3, <3>1 DEF Books
  <2> QED
    BY <2>1, <2>2, <2>3 DEF Kept, Inv, Typed, Deployment
<1> QED
  BY <1>3, <1>4, <1>6 DEF PosRight

\* A submit comes before anything the venue could have executed.
LEMMA SubmitKept ==
    ASSUME Kept, NEW p \in Procs, Submit(p)
    PROVE  CashRight' /\ PosRight'
<1>1. UNCHANGED <<applied, pos>> /\ book'.cash = book.cash
  BY StoreFacts DEF Submit, Wrote, Deployment, Kept
<1>2. \A o \in Orders : venue[o].st = "none"
  BY EntryOrder DEF Submit, Kept, Inv, Unaccepted, Accepted
<1>3. \A o \in Orders : applied[o] = 0
  <2>1. TAKE o \in Orders
  <2>2. VenueOK(o) /\ applied[o] \in Nat /\ venue[o].shown \in Nat
    BY Numbers DEF Kept, Inv
  <2>3. venue[o].exec = 0
    BY <1>2, <2>2 DEF VenueOK
  <2>4. applied[o] <= venue[o].shown /\ venue[o].shown <= 0
    BY <2>2, <2>3 DEF VenueOK
  <2> QED
    BY <2>2, <2>4
<1>4. Balance' = Balance
  BY <1>1 DEF Balance
<1> QED
  BY <1>1, <1>3, <1>4 DEF Kept, CashRight, PosRight

LEMMA NextKept ==
    ASSUME Tickets = {}, Kept, [Next]_vars
    PROVE  Kept'
<1>1. Inv'
  BY NextInv DEF Kept
<1>2. CASE BookKept
  BY <1>1, <1>2 DEF BookKept, Kept, CashRight, PosRight, Balance
<1>3. CASE \E s \in Runs : Command(s)
  <2>1. UNCHANGED <<applied, pos>> /\ book'.cash = book.cash /\ book'.stop = book.stop
    BY <1>3, StoreFacts DEF Command, Deployment, Kept
  <2> QED
    BY <1>1, <2>1 DEF Kept, CashRight, PosRight, Balance
<1> QED
  BY <1>1, <1>2, <1>3, Effect, BooksKept, SubmitKept DEF Kept

LEMMA InitKept == Init => Kept
<1> SUFFICES ASSUME Init PROVE CashRight /\ PosRight
  BY InitInv DEF Kept
<1>1. \A o \in Orders : book.cash[o] = 0 /\ applied[o] = 0
  BY DEF Init, Created
<1> QED
  BY <1>1 DEF Init, Created, CashRight, PosRight

\* Where every writer compares the deployment's revision, cash has each applied
\* fill exactly once: no save of a fault, a supervision or a clearing puts an
\* older cash balance back (RevisionFencedStore, InstrumentScopedStore,
\* ingest_fill).
THEOREM CashExact == ASSUME Tickets = {} PROVE Spec => []BookedOnce
<1>1. Init => Kept
  BY InitKept
<1>2. Kept /\ [Next]_vars => Kept'
  BY NextKept
<1>3. Kept => BookedOnce
  BY DEF Kept, CashRight, BookedOnce
<1> QED
  BY <1>1, <1>2, <1>3, PTL DEF Spec

\* Under the same condition the position is what the applied fills leave or the
\* ledger's check reports it missing: a position of the wrong size or side never
\* passes for the truth (project_fill_economics, unprojected_inventory_products).
THEOREM PositionNoticed == ASSUME Tickets = {} PROVE Spec => []PositionHonest
<1>1. Init => Kept
  BY InitKept
<1>2. Kept /\ [Next]_vars => Kept'
  BY NextKept
<1>3. Kept => PositionHonest
  <2> SUFFICES ASSUME Kept, applied["entry"] > 0, pos # Balance PROVE Unprojected
    BY DEF PositionHonest
  <2>1. pos = 0 /\ Balance \in Int
    BY BalanceFacts DEF Kept, PosRight
  <2>2. Balance # 0 /\ Balance * pos <= 0
    BY <2>1
  <2> QED
    BY <2>2 DEF Unprojected
<1> QED
  BY <1>1, <1>2, <1>3, PTL DEF Spec

\* Under the same condition only an operator's command resumes a book: neither
\* the supervision a walk restores nor the clearing of a disproved fault does,
\* whatever copy of the book it writes (_retain_reconcile_supervision,
\* _clear_confirmed_read_fault).
THEOREM OnlyResumedByOperator == ASSUME Tickets = {} PROVE Spec => OnlyOperatorResumes
<1>1. Inv /\ [Next]_vars =>
         [book.status # "running" /\ book'.status = "running" => Command("running")]_vars
  <2> SUFFICES ASSUME Inv, [Next]_vars, book.status # "running", book'.status = "running"
               PROVE  Command("running")
    OBVIOUS
  <2>1. ~BookKept
    BY DEF BookKept
  <2>2. \A o \in Orders : ~Books(o)
    BY ProjectedFacts DEF Books
  <2>3. \A p \in Procs : ~Submit(p)
    BY DEF Submit
  <2>4. PICK s \in Runs : Command(s)
    BY <2>1, <2>2, <2>3, Effect
  <2>5. s = "running"
    BY <2>4, StoreFacts DEF Command, Deployment
  <2> QED
    BY <2>4, <2>5
<1> QED
  BY <1>1, Invariance, PTL DEF Spec, OnlyOperatorResumes
=============================================================================
