------------------------ MODULE EntryAdmissionProofs ------------------------
(***************************************************************************)
(* Proofs, for any books, tasks, adoptions and units, that the two locks   *)
(* of EntryAdmission do what they are taken for: no start, no entry and no *)
(* strategy's adoption is admitted past a set latch, and the transactions  *)
(* never wait in a circle.                                                 *)
(***************************************************************************)
EXTENDS EntryAdmission, TLAPS

Tx == [kind : Kinds, step : Steps, book : Books \cup {Nobody}, qty : Nat,
       left : SUBSET Books, cur : Books \cup {Nobody}, claimed : Nat,
       unsettled : SUBSET Books, unresolved : BOOLEAN, fits : BOOLEAN]
Row == [exists : BOOLEAN, entry : EntryRows, applied : BOOLEAN, pos : Nat]

Placed == {"none", "working", "executed", "gone"}

\* The part of TypeOK the locks rest on; quantities at the venue are not needed.
Typed == /\ latch \in BOOLEAN
         /\ tx \in [Procs -> Tx]
         /\ row \in [Books -> Row]
         /\ venue \in [Books -> Placed]

\* A transaction is at a step of its plan.
StepsOf(kind) ==
    CASE kind = "none" -> {"idle"}
      [] kind = "start" -> {"latch", "write"}
      [] kind = "entry" -> {"base", "latch", "write"}
      [] kind \in {"adopt", "adopt_new"} ->
           {"base", "orders", "positions", "balance", "write"}
      [] kind = "adopt_start" -> {"base", "orders", "positions", "balance", "latch", "write"}

\* The transactions that ask the latch.
Latched == {"start", "entry", "adopt_start"}

\* What a transaction has done is what it holds: past its base step it holds
\* the base, past its latch step the latch row, and then the latch is clear.
\* An adoption that took its book for started is right: no book goes away.
TxOK(p) ==
    /\ tx[p].step \in StepsOf(tx[p].kind)
    /\ rowLock = p => tx[p].step = "write" /\ tx[p].kind \in Latched
    /\ tx[p].step = "write" /\ tx[p].kind \in Latched => rowLock = p /\ ~latch
    /\ p \in shared => tx[p].kind = "entry" /\ tx[p].step # "base"
    /\ excl = p => tx[p].kind \in Adoptions /\ tx[p].step # "base"
    /\ tx[p].kind = "adopt" => tx[p].book \in Books /\ row[tx[p].book].exists
    /\ tx[p].kind \in Adoptions => p \in Adopters /\ tx[p].qty > 0
    /\ tx[p].step = "positions" => tx[p].cur \in Books

Inv == Typed /\ \A p \in Procs : TxOK(p)

-----------------------------------------------------------------------------
\* The step that follows each step of each plan.
LEMMA AfterStart == After("start", "latch") = "write"
<1>1. Plan("start") = <<"latch", "write">>
  BY DEF Plan
<1>2. (CHOOSE i \in 1..2 : <<"latch", "write">>[i] = "latch") = 1
  OBVIOUS
<1> QED
  BY <1>1, <1>2 DEF After

LEMMA AfterEntry ==
    After("entry", "base") = "latch" /\ After("entry", "latch") = "write"
<1> DEFINE plan == <<"base", "latch", "write">>
<1>1. Plan("entry") = plan
  BY DEF Plan
<1>2. (CHOOSE i \in 1..3 : plan[i] = "base") = 1
  OBVIOUS
<1>3. (CHOOSE i \in 1..3 : plan[i] = "latch") = 2
  OBVIOUS
<1>4. Len(plan) = 3 /\ plan[2] = "latch" /\ plan[3] = "write"
  OBVIOUS
<1> QED
  BY <1>1, <1>2, <1>3, <1>4 DEF After

LEMMA AfterAdopt ==
    ASSUME NEW kind \in {"adopt", "adopt_new"}
    PROVE  /\ After(kind, "base") = "orders"
           /\ After(kind, "orders") = "positions"
           /\ After(kind, "positions") = "balance"
           /\ After(kind, "balance") = "write"
<1> DEFINE plan == <<"base", "orders", "positions", "balance", "write">>
<1>1. Plan(kind) = plan
  BY DEF Plan
<1>2. /\ (CHOOSE i \in 1..5 : plan[i] = "base") = 1
      /\ (CHOOSE i \in 1..5 : plan[i] = "orders") = 2
      /\ (CHOOSE i \in 1..5 : plan[i] = "positions") = 3
      /\ (CHOOSE i \in 1..5 : plan[i] = "balance") = 4
  OBVIOUS
<1>3. /\ Len(plan) = 5 /\ plan[2] = "orders" /\ plan[3] = "positions"
      /\ plan[4] = "balance" /\ plan[5] = "write"
  OBVIOUS
<1> QED
  BY <1>1, <1>2, <1>3 DEF After

LEMMA AfterAdoptStart ==
    /\ After("adopt_start", "base") = "orders"
    /\ After("adopt_start", "orders") = "positions"
    /\ After("adopt_start", "positions") = "balance"
    /\ After("adopt_start", "balance") = "latch"
    /\ After("adopt_start", "latch") = "write"
<1> DEFINE plan == <<"base", "orders", "positions", "balance", "latch", "write">>
<1>1. Plan("adopt_start") = plan
  BY DEF Plan
<1>2. /\ (CHOOSE i \in 1..6 : plan[i] = "base") = 1
      /\ (CHOOSE i \in 1..6 : plan[i] = "orders") = 2
      /\ (CHOOSE i \in 1..6 : plan[i] = "positions") = 3
      /\ (CHOOSE i \in 1..6 : plan[i] = "balance") = 4
      /\ (CHOOSE i \in 1..6 : plan[i] = "latch") = 5
  OBVIOUS
<1>3. /\ Len(plan) = 6 /\ plan[2] = "orders" /\ plan[3] = "positions"
      /\ plan[4] = "balance" /\ plan[5] = "latch" /\ plan[6] = "write"
  OBVIOUS
<1>4. After("adopt_start", "base") = "orders" /\ After("adopt_start", "orders") = "positions"
  BY <1>1, <1>2, <1>3 DEF After
<1>5. After("adopt_start", "positions") = "balance" /\ After("adopt_start", "balance") = "latch"
  BY <1>1, <1>2, <1>3 DEF After
<1>6. After("adopt_start", "latch") = "write"
  BY <1>1, <1>2, <1>3 DEF After
<1> QED
  BY <1>4, <1>5, <1>6

-----------------------------------------------------------------------------
LEMMA InitInv == Init => Inv
<1> SUFFICES ASSUME Init PROVE Inv
  OBVIOUS
<1>1. NoTx \in Tx
  BY DEF NoTx, Tx, Kinds, Steps
<1>2. Typed
  BY <1>1 DEF Init, Typed, NoBook, Row, EntryRows, Placed
<1>3. ASSUME NEW p \in Procs PROVE TxOK(p)
  <2>1. tx[p] = NoTx /\ p # Nobody
    BY AdmissionAssumption DEF Init, Procs
  <2> QED
    BY <2>1 DEF Init, TxOK, NoTx, StepsOf, Adoptions, Latched
<1> QED
  BY <1>2, <1>3 DEF Inv

\* A transaction whose own record, and what it holds or relies on, is left
\* alone by another's step stays in order.
LEMMA OthersKept ==
    ASSUME NEW q \in Procs, TxOK(q), tx'[q] = tx[q],
           rowLock' = q <=> rowLock = q,
           tx[q].step = "write" => latch' = latch \/ ~latch',
           q \in shared' <=> q \in shared,
           excl' = q <=> excl = q,
           \A b \in Books : row[b].exists => row'[b].exists
    PROVE  TxOK(q)'
BY DEF TxOK

\* A process's record after a step of its own; the others keep theirs.
LEMMA OwnStep ==
    ASSUME Inv, NEW p \in Procs, NEW t \in Tx, tx' = [tx EXCEPT ![p] = t],
           TxOK(p)', latch' = latch, venue' = venue, row' \in [Books -> Row],
           \A q \in Procs \ {p} : /\ rowLock' = q <=> rowLock = q
                                  /\ q \in shared' <=> q \in shared
                                  /\ excl' = q <=> excl = q,
           \A b \in Books : row[b].exists => row'[b].exists
    PROVE  Inv'
<1>1. Typed'
  BY DEF Inv, Typed
<1>2. ASSUME NEW q \in Procs, q # p PROVE TxOK(q)'
  <2>1. tx'[q] = tx[q]
    BY <1>2 DEF Inv, Typed
  <2> QED
    BY <1>2, <2>1, OthersKept DEF Inv
<1> QED
  BY <1>1, <1>2 DEF Inv

\* The two locks of the base.
LEMMA LockBaseInv ==
    ASSUME Inv, NEW p \in Procs, LockBaseShared(p) \/ LockBaseExclusive(p)
    PROVE  Inv'
<1>1. tx[p] \in Tx /\ p # Nobody /\ TxOK(p) /\ row \in [Books -> Row]
  BY AdmissionAssumption DEF Inv, Typed, Procs
<1>2. CASE LockBaseShared(p)
  <2> DEFINE t == [tx[p] EXCEPT !.step = "latch"]
  <2>1. tx[p].kind = "entry" /\ tx[p].step = "base" /\ tx' = [tx EXCEPT ![p] = t]
    BY <1>1, <1>2, AfterEntry DEF LockBaseShared, At, Advance, Inv, Typed
  <2>2. t \in Tx /\ t.kind = "entry" /\ t.step = "latch" /\ tx'[p] = t
    BY <1>1, <2>1 DEF Tx, Steps, Inv, Typed
  <2> HIDE DEF t
  <2>3. TxOK(p)'
    BY <1>1, <1>2, <2>1, <2>2 DEF TxOK, StepsOf, LockBaseShared, Adoptions, Latched
  <2> QED
    BY <1>1, <1>2, <2>1, <2>2, <2>3, OwnStep DEF LockBaseShared
<1>3. CASE LockBaseExclusive(p)
  <2> DEFINE t == [tx[p] EXCEPT !.step = "orders", !.left = {b \in Books : row[b].exists}]
  <2>1. tx[p].kind \in Adoptions /\ tx[p].step = "base"
    BY <1>3 DEF LockBaseExclusive, At
  <2>2. tx' = [tx EXCEPT ![p] = t]
    BY <1>1, <1>3, <2>1, AfterAdopt, AfterAdoptStart DEF LockBaseExclusive, Inv, Typed, Tx, Adoptions, Latched
  <2>3. t \in Tx /\ t.kind = tx[p].kind /\ t.book = tx[p].book /\ t.qty = tx[p].qty /\ t.step = "orders" /\ tx'[p] = t
    BY <1>1, <2>2 DEF Tx, Steps, Inv, Typed
  <2> HIDE DEF t
  <2>4. TxOK(p)'
    <3>1. "orders" \in StepsOf(tx[p].kind)
      BY <2>1 DEF StepsOf, Adoptions, Latched
    <3>2. rowLock' # p /\ p \notin shared' /\ row' = row
      BY <1>1, <1>3, <2>1 DEF TxOK, LockBaseExclusive
    <3> QED
      BY <1>1, <2>1, <2>3, <3>1, <3>2 DEF TxOK
  <2>5. \A q \in Procs \ {p} : excl' = q <=> excl = q
    BY <1>3, AdmissionAssumption DEF LockBaseExclusive, Procs
  <2> QED
    BY <1>1, <1>3, <2>2, <2>3, <2>4, <2>5, OwnStep DEF LockBaseExclusive
<1> QED
  BY <1>2, <1>3

\* The latch row is locked clear, and stays clear for its holder.
LEMMA LockLatchInv ==
    ASSUME Inv, NEW p \in Procs, LockLatch(p)
    PROVE  Inv'
<1>1. tx[p] \in Tx /\ p # Nobody /\ TxOK(p) /\ row \in [Books -> Row]
  BY AdmissionAssumption DEF Inv, Typed, Procs
<1> DEFINE t == [tx[p] EXCEPT !.step = "write"]
<1>2. tx[p].step = "latch" /\ tx[p].kind \in Latched
  BY <1>1 DEF LockLatch, At, TxOK, StepsOf, Tx, Kinds, Adoptions, Latched
<1>3. tx' = [tx EXCEPT ![p] = t]
  BY <1>1, <1>2, AfterStart, AfterEntry, AfterAdoptStart DEF LockLatch, Latched, Advance, Inv, Typed
<1>4. /\ t \in Tx /\ t.kind = tx[p].kind /\ t.qty = tx[p].qty
      /\ t.step = "write" /\ tx'[p] = t
  BY <1>1, <1>3 DEF Tx, Steps, Inv, Typed
<1> HIDE DEF t
<1>5. TxOK(p)'
  BY <1>1, <1>2, <1>4 DEF TxOK, StepsOf, LockLatch, Latched, Adoptions
<1>6. \A q \in Procs \ {p} : rowLock' = q <=> rowLock = q
  BY AdmissionAssumption DEF LockLatch, Procs
<1> QED
  BY <1>1, <1>3, <1>4, <1>5, <1>6, OwnStep DEF LockLatch

\* Nobody is past its latch step while the latch is written.
LEMMA SetLatchInv ==
    ASSUME Inv, SetLatch
    PROVE  Inv'
<1>1. Typed'
  BY DEF Inv, Typed, SetLatch
<1>2. ASSUME NEW q \in Procs PROVE TxOK(q)'
  <2>1. q # Nobody /\ TxOK(q)
    BY AdmissionAssumption DEF Inv, Procs
  <2> QED
    BY <2>1 DEF TxOK, SetLatch
<1> QED
  BY <1>1, <1>2 DEF Inv

LEMMA BeginInv ==
    ASSUME Inv, NEW p \in Procs, NEW b \in Books, NEW qty \in Nat,
           NEW kind \in Kinds \ {"none"}, Begin(p, kind, b, qty),
           kind = "adopt" => row[b].exists,
           kind \in Adoptions => p \in Adopters /\ qty > 0
    PROVE  Inv'
<1>1. tx[p] \in Tx /\ p # Nobody /\ TxOK(p) /\ row \in [Books -> Row]
  BY AdmissionAssumption DEF Inv, Typed, Procs
<1> DEFINE t == [NoTx EXCEPT !.kind = kind, !.step = Plan(kind)[1], !.book = b, !.qty = qty]
<1>2. Plan(kind)[1] \in {"base", "latch"} /\ Plan(kind)[1] \in StepsOf(kind)
  BY DEF Plan, StepsOf, Kinds, Adoptions, Latched
<1>3. /\ t \in Tx /\ t.kind = kind /\ t.book = b /\ t.qty = qty
      /\ t.step \in {"base", "latch"} /\ t.step \in StepsOf(kind)
  BY <1>2 DEF NoTx, Tx, Steps, Kinds
<1>4. tx' = [tx EXCEPT ![p] = t] /\ tx'[p] = t
  BY DEF Begin, Inv, Typed
<1>5. tx[p].step = "idle" /\ tx[p].kind = "none"
  BY <1>1 DEF Begin, TxOK, StepsOf, Tx, Kinds, Adoptions, Latched
<1>6. TxOK(p)'
  <2> HIDE DEF t
  <2> QED
    BY <1>1, <1>3, <1>4, <1>5 DEF TxOK, Begin, Adoptions, Latched
<1> HIDE DEF t
<1> QED
  BY <1>1, <1>3, <1>4, <1>6, OwnStep DEF Begin

\* An ended transaction holds nothing; it may have written its book.
LEMMA EndInv ==
    ASSUME Inv, NEW p \in Procs, End(p), latch' = latch, venue' = venue,
           row' \in [Books -> Row],
           \A b \in Books : row[b].exists => row'[b].exists
    PROVE  Inv'
<1>1. NoTx \in Tx /\ NoTx.step = "idle" /\ NoTx.kind = "none"
  BY DEF NoTx, Tx, Kinds, Steps
<1>2. p # Nobody /\ tx' = [tx EXCEPT ![p] = NoTx] /\ tx'[p] = NoTx
  BY AdmissionAssumption DEF End, Inv, Typed, Procs
<1>3. TxOK(p)'
  BY <1>1, <1>2 DEF TxOK, StepsOf, End, Adoptions, Latched
<1>4. \A q \in Procs \ {p} : /\ rowLock' = q <=> rowLock = q
                             /\ q \in shared' <=> q \in shared
                             /\ excl' = q <=> excl = q
  BY AdmissionAssumption DEF End, Procs
<1> QED
  BY <1>1, <1>2, <1>3, <1>4, OwnStep

\* What each read of an adoption does to its own record.
LEMMA ReadKinds ==
    ASSUME Inv, NEW p \in Procs, ReadOrders(p) \/ ReadPositions(p) \/ ReadBalance(p)
    PROVE  /\ tx[p] \in Tx /\ TxOK(p) /\ row \in [Books -> Row]
           /\ tx[p].kind \in Adoptions
           /\ tx[p].step \in {"orders", "positions", "balance"}
<1>1. tx[p] \in Tx /\ TxOK(p) /\ row \in [Books -> Row]
  BY DEF Inv, Typed
<1> QED
  BY <1>1 DEF ReadOrders, ReadPositions, ReadBalance, TxOK, StepsOf, Tx, Kinds

LEMMA ReadOrdersTx ==
    ASSUME Inv, NEW p \in Procs, ReadOrders(p)
    PROVE  \E b \in tx[p].left, t \in Tx :
              /\ tx' = [tx EXCEPT ![p] = t] /\ b \in Books
              /\ t.kind = tx[p].kind /\ t.book = tx[p].book /\ t.qty = tx[p].qty
              /\ t.step = "positions" /\ t.cur = b /\ t.left = tx[p].left \ {b}
              /\ t.claimed = tx[p].claimed + (IF row[b].entry \in Working THEN 1 ELSE 0)
              /\ t.unsettled = IF row[b].entry = "filled" THEN {b} ELSE {}
              /\ t.unresolved <=> tx[p].unresolved \/ row[b].entry = "unknown"
<1>1. tx[p] \in Tx /\ row \in [Books -> Row] /\ tx[p].kind \in Adoptions
  BY ReadKinds
<1>2. PICK b \in tx[p].left :
         tx' = [tx EXCEPT ![p].step = After(tx[p].kind, @), ![p].cur = b,
                          ![p].left = @ \ {b},
                          ![p].claimed = @ + (IF row[b].entry \in Working THEN 1 ELSE 0),
                          ![p].unsettled = IF row[b].entry = "filled" THEN {b} ELSE {},
                          ![p].unresolved = @ \/ row[b].entry = "unknown"]
  BY DEF ReadOrders
<1> DEFINE c == tx[p].claimed + (IF row[b].entry \in Working THEN 1 ELSE 0)
           e == IF row[b].entry = "filled" THEN {b} ELSE {}
           u == tx[p].unresolved \/ row[b].entry = "unknown"
           l == tx[p].left \ {b}
<1>3. After(tx[p].kind, tx[p].step) = "positions" /\ b \in Books
  BY <1>1, AfterAdopt, AfterAdoptStart DEF ReadOrders, Tx, Adoptions, Latched
<1>4. c \in Nat /\ e \in SUBSET Books /\ l \in SUBSET Books
  BY <1>1, <1>3 DEF Tx
<1>5. u \in BOOLEAN
  OBVIOUS
<1> DEFINE t == [tx[p] EXCEPT !.step = "positions", !.cur = b, !.left = l,
                              !.claimed = c, !.unsettled = e, !.unresolved = u]
<1>6. tx' = [tx EXCEPT ![p] = t]
  BY <1>1, <1>2, <1>3 DEF Inv, Typed, Tx
<1>7. /\ c = tx[p].claimed + (IF row[b].entry \in Working THEN 1 ELSE 0)
      /\ e = IF row[b].entry = "filled" THEN {b} ELSE {}
      /\ u <=> tx[p].unresolved \/ row[b].entry = "unknown"
      /\ l = tx[p].left \ {b}
  OBVIOUS
<1> HIDE DEF c, e, u, l
<1>8. t \in Tx
  BY <1>1, <1>3, <1>4, <1>5 DEF Tx, Steps
<1>9. /\ t.kind = tx[p].kind /\ t.book = tx[p].book /\ t.qty = tx[p].qty
      /\ t.step = "positions" /\ t.cur = b /\ t.left = l /\ t.claimed = c
      /\ t.unsettled = e /\ t.unresolved = u
  BY <1>1 DEF Tx
<1> HIDE DEF t
<1> QED
  BY <1>3, <1>6, <1>7, <1>8, <1>9

LEMMA ReadPositionsTx ==
    ASSUME Inv, NEW p \in Procs, ReadPositions(p)
    PROVE  \E b \in Books, t \in Tx :
              /\ tx' = [tx EXCEPT ![p] = t] /\ b = tx[p].cur
              /\ t.kind = tx[p].kind /\ t.book = tx[p].book /\ t.qty = tx[p].qty
              /\ t.step = IF tx[p].left = {} THEN "balance" ELSE "orders"
              /\ t.left = tx[p].left /\ t.claimed = tx[p].claimed + row[b].pos
              /\ t.unresolved <=>
                    tx[p].unresolved \/ (b \in tx[p].unsettled /\ ~row[b].applied)
<1>1. /\ tx[p] \in Tx /\ TxOK(p) /\ row \in [Books -> Row]
      /\ tx[p].kind \in Adoptions
  BY ReadKinds
<1> DEFINE b == tx[p].cur
           s == IF tx[p].left = {} THEN "balance" ELSE "orders"
           c == tx[p].claimed + row[b].pos
           u == tx[p].unresolved \/ (b \in tx[p].unsettled /\ ~row[b].applied)
<1>2. After(tx[p].kind, tx[p].step) = "balance" /\ tx[p].step = "positions"
  BY <1>1, AfterAdopt, AfterAdoptStart DEF ReadPositions, Adoptions, Latched
<1>3. s \in {"balance", "orders"} /\ u \in BOOLEAN
  OBVIOUS
<1>4. b \in Books /\ c \in Nat
  BY <1>1, <1>2 DEF TxOK, Tx, Row
<1> DEFINE t == [tx[p] EXCEPT !.step = s, !.cur = Nobody, !.claimed = c,
                              !.unsettled = {}, !.unresolved = u]
<1>5. tx' = [tx EXCEPT ![p] = t]
  BY <1>1, <1>2 DEF ReadPositions, Inv, Typed, Tx
<1>6. /\ b = tx[p].cur /\ s = (IF tx[p].left = {} THEN "balance" ELSE "orders")
      /\ c = tx[p].claimed + row[b].pos
      /\ u <=> tx[p].unresolved \/ (b \in tx[p].unsettled /\ ~row[b].applied)
  OBVIOUS
<1> HIDE DEF b, s, c, u
<1>7. t \in Tx
  BY <1>1, <1>3, <1>4 DEF Tx, Steps
<1>8. /\ t.kind = tx[p].kind /\ t.book = tx[p].book /\ t.qty = tx[p].qty
      /\ t.step = s /\ t.left = tx[p].left /\ t.claimed = c /\ t.unresolved = u
  BY <1>1 DEF Tx
<1> HIDE DEF t
<1> QED
  BY <1>4, <1>5, <1>6, <1>7, <1>8

LEMMA ReadBalanceTx ==
    ASSUME Inv, NEW p \in Procs, ReadBalance(p)
    PROVE  \E t \in Tx :
              /\ tx' = [tx EXCEPT ![p] = t]
              /\ t.kind = tx[p].kind /\ t.book = tx[p].book /\ t.qty = tx[p].qty
              /\ t.step = IF tx[p].kind = "adopt_start" THEN "latch" ELSE "write"
              /\ t.fits <=> tx[p].qty <= Adoptable(tx[p])
<1>1. tx[p] \in Tx /\ TxOK(p) /\ tx[p].kind \in Adoptions
  BY ReadKinds
<1> DEFINE s == IF tx[p].kind = "adopt_start" THEN "latch" ELSE "write"
           f == tx[p].qty <= Adoptable(tx[p])
<1>2. After(tx[p].kind, tx[p].step) = s
  BY <1>1, AfterAdopt, AfterAdoptStart DEF ReadBalance, Adoptions, Latched
<1>3. s \in {"write", "latch"} /\ f \in BOOLEAN
  OBVIOUS
<1> DEFINE t == [tx[p] EXCEPT !.fits = f, !.claimed = 0, !.unresolved = FALSE, !.step = s]
<1>4. tx' = [tx EXCEPT ![p] = t]
  BY <1>1, <1>2 DEF ReadBalance, Inv, Typed, Tx
<1>5. /\ s = (IF tx[p].kind = "adopt_start" THEN "latch" ELSE "write")
      /\ f <=> tx[p].qty <= Adoptable(tx[p])
  OBVIOUS
<1> HIDE DEF s, f
<1>6. t \in Tx
  BY <1>1, <1>3 DEF Tx, Steps
<1>7. /\ t.kind = tx[p].kind /\ t.book = tx[p].book /\ t.qty = tx[p].qty
      /\ t.step = s /\ t.fits = f
  BY <1>1 DEF Tx
<1> HIDE DEF t
<1> QED
  BY <1>4, <1>5, <1>6, <1>7

\* The reads of an adoption move it along its plan.
LEMMA ReadInv ==
    ASSUME Inv, NEW p \in Procs, ReadOrders(p) \/ ReadPositions(p) \/ ReadBalance(p)
    PROVE  Inv'
<1>1. p # Nobody /\ TxOK(p) /\ row \in [Books -> Row]
  BY AdmissionAssumption DEF Inv, Typed, Procs
<1>2. /\ tx[p].kind \in Adoptions
      /\ tx[p].step \in {"orders", "positions", "balance"}
  BY ReadKinds
<1>3. PICK t \in Tx : /\ tx' = [tx EXCEPT ![p] = t]
                      /\ t.kind = tx[p].kind /\ t.book = tx[p].book
                      /\ t.qty = tx[p].qty
                      /\ t.step \in {"orders", "positions", "balance", "latch", "write"}
                      /\ t.step = "latch" => t.kind = "adopt_start"
                      /\ t.step = "write" => t.kind \in {"adopt", "adopt_new"}
                      /\ t.step = "positions" => t.cur \in Books
  <2>1. CASE ReadOrders(p)
    <3>1. PICK b \in tx[p].left, t \in Tx :
             /\ tx' = [tx EXCEPT ![p] = t] /\ b \in Books
             /\ t.kind = tx[p].kind /\ t.book = tx[p].book /\ t.qty = tx[p].qty
             /\ t.step = "positions" /\ t.cur = b
      BY <2>1, ReadOrdersTx
    <3> QED
      BY <3>1
  <2>2. CASE ReadPositions(p)
    BY <2>2, ReadPositionsTx
  <2>3. CASE ReadBalance(p)
    BY <1>2, <2>3, ReadBalanceTx DEF Adoptions, Latched
  <2> QED
    BY <2>1, <2>2, <2>3
<1>4. tx'[p] = t
  BY <1>3 DEF Inv, Typed
<1>5. UNCHANGED <<latch, rowLock, shared, excl, row, venue>>
  BY DEF ReadOrders, ReadPositions, ReadBalance
<1>6. t.step \in StepsOf(t.kind)
  BY <1>2, <1>3 DEF StepsOf, Adoptions, Latched
<1>7. rowLock # p /\ p \notin shared
  BY <1>1, <1>2 DEF TxOK, Adoptions, Latched
<1>8. TxOK(p)'
  BY <1>1, <1>2, <1>3, <1>4, <1>5, <1>6, <1>7 DEF TxOK, Adoptions, Latched
<1> QED
  BY <1>1, <1>3, <1>5, <1>8, OwnStep

\* The transactions' writes.
LEMMA WriteInv ==
    ASSUME Inv, NEW p \in Procs,
           InsertDeployment(p) \/ InsertIntent(p) \/ WriteAdoption(p) \/ RollBack(p)
    PROVE  Inv'
<1>1. tx[p] \in Tx /\ row \in [Books -> Row]
  BY DEF Inv, Typed
<1>2. End(p) /\ latch' = latch /\ venue' = venue
  BY DEF InsertDeployment, InsertIntent, WriteAdoption, RollBack
<1>3. /\ row' \in [Books -> Row]
      /\ \A b \in Books : row[b].exists => row'[b].exists
  <2>1. CASE InsertDeployment(p)
    BY <1>1, <2>1 DEF InsertDeployment, Row
  <2>2. CASE InsertIntent(p)
    BY <1>1, <2>2 DEF InsertIntent, Row, EntryRows
  <2>3. CASE WriteAdoption(p)
    BY <1>1, <2>3 DEF WriteAdoption, Row, Tx
  <2>4. CASE RollBack(p)
    BY <1>1, <2>4 DEF RollBack
  <2> QED
    BY <2>1, <2>2, <2>3, <2>4
<1> QED
  BY <1>2, <1>3, EndInv

\* The orders on their way: no lock and no book comes or goes.
BookStep(b) ==
    \/ WriteOrder(b) \/ VenueTakes(b) \/ VenueExecutes(b) \/ VenueEnds(b)
    \/ AnswerLost(b) \/ ReadBack(b) \/ ReadBackLate(b)
    \/ ApplyFill(b) \/ EntryDone(b) \/ PlaceExit(b) \/ ExitExecutes(b)
    \/ ExitCanceled(b) \/ BookExit(b)

LEMMA BookStepRow ==
    ASSUME row \in [Books -> Row], venue \in [Books -> Placed],
           NEW b \in Books, BookStep(b)
    PROVE  /\ UNCHANGED locks
           /\ row' \in [Books -> Row]
           /\ venue' \in [Books -> Placed]
           /\ \A c \in Books : row'[c].exists = row[c].exists
           /\ \A c \in Books : row'[c].entry = "intent" => row[c].entry = "intent"
<1>1. CASE \/ WriteOrder(b) \/ AnswerLost(b) \/ ReadBackLate(b)
           \/ ApplyFill(b) \/ EntryDone(b) \/ BookExit(b)
  BY <1>1 DEF WriteOrder, AnswerLost, ReadBackLate, ApplyFill, EntryDone, BookExit,
              Row, EntryRows, Placed, locks
<1>2. CASE ReadBack(b)
  <2> DEFINE e == CASE venue[b] = "executed" -> "filled"
                    [] venue[b] = "working" -> "working"
                    [] venue[b] = "gone" -> "canceled"
  <2>1. venue[b] \in {"executed", "working", "gone"}
    BY <1>2 DEF ReadBack, Placed
  <2>2. e \in EntryRows /\ e # "intent"
    BY <2>1 DEF EntryRows
  <2>3. row' = [row EXCEPT ![b].entry = e] /\ UNCHANGED <<locks, venue>>
    BY <1>2 DEF ReadBack
  <2> HIDE DEF e
  <2> QED
    BY <2>2, <2>3 DEF Row, locks
<1>3. CASE \/ VenueTakes(b) \/ VenueExecutes(b) \/ VenueEnds(b)
           \/ PlaceExit(b) \/ ExitExecutes(b) \/ ExitCanceled(b)
  BY <1>3 DEF VenueTakes, VenueExecutes, VenueEnds, PlaceExit, ExitExecutes,
              ExitCanceled, locks, Placed
<1> QED
  BY <1>1, <1>2, <1>3 DEF BookStep

LEMMA NextInv == Inv /\ [Next]_vars => Inv'
<1> SUFFICES ASSUME Inv, [Next]_vars PROVE Inv'
  OBVIOUS
<1>1. ASSUME NEW p \in Procs, Proceed(p) \/ RollBack(p) PROVE Inv'
  BY <1>1, LockBaseInv, LockLatchInv, ReadInv, WriteInv DEF Proceed
<1>2. ASSUME NEW p \in Entrants, NEW b \in Books, BeginStart(p, b) \/ BeginEntry(p, b)
      PROVE Inv'
  <2>1. p \in Procs /\ 0 \in Nat /\ {"start", "entry"} \subseteq Kinds \ ({"none"} \cup Adoptions)
    BY DEF Procs, Kinds, Adoptions
  <2> QED
    BY <1>2, <2>1, BeginInv DEF BeginStart, BeginEntry
<1>3. ASSUME NEW p \in Adopters, NEW b \in Books, NEW qty \in 1..External,
             BeginAdoption(p, b, qty)
      PROVE Inv'
  <2>1. p \in Procs /\ qty \in Nat /\ qty > 0 /\ Adoptions \subseteq Kinds \ {"none"}
    BY AdmissionAssumption DEF Procs, Kinds, Adoptions
  <2>2. PICK kind \in Adoptions : Begin(p, kind, b, qty) /\ (kind = "adopt" => row[b].exists)
    BY <1>3 DEF BeginAdoption, Adoptions
  <2> QED
    BY <2>1, <2>2, BeginInv
<1>4. ASSUME SetLatch PROVE Inv'
  BY <1>4, SetLatchInv
<1>5. ASSUME NEW b \in Books, BookStep(b) PROVE Inv'
  <2>1. /\ UNCHANGED <<latch, rowLock, shared, excl, tx>>
        /\ row' \in [Books -> Row] /\ venue' \in [Books -> Placed]
        /\ \A c \in Books : row[c].exists => row'[c].exists
    BY <1>5, BookStepRow DEF Inv, Typed, locks
  <2>2. ASSUME NEW q \in Procs PROVE TxOK(q)'
    BY <2>1, OthersKept DEF Inv
  <2> QED
    BY <2>1, <2>2 DEF Inv, Typed
<1>6. ASSUME UNCHANGED vars PROVE Inv'
  BY <1>6 DEF vars, Inv, Typed, TxOK
<1> QED
  BY <1>1, <1>2, <1>3, <1>4, <1>5, <1>6 DEF Next, BookStep

\* In every behaviour a transaction holds the locks of the steps it has passed.
THEOREM LocksHeld == Spec => []Inv
BY InitInv, NextInv, PTL DEF Spec

-----------------------------------------------------------------------------
\* refuse_postgres_entry, for every number of books, tasks and adoptions: while
\* the latch is set no entry intent is inserted and no book starts by itself or
\* with a strategy's adoption, because whoever writes one of these holds the
\* latch row and found it clear.  A book that appears all the same is a
\* discretionary adoption's, with its units.
THEOREM NothingPastTheLatch == Spec => DisarmHolds
<1> DEFINE Keeps == \A b \in Books :
                      \/ ~latch
                      \/ /\ row'[b].entry = "intent" => row[b].entry = "intent"
                         /\ row'[b].exists # row[b].exists =>
                              /\ row'[b].pos > 0
                              /\ \E p \in Adopters :
                                   At(p, {"adopt_new"}, "write") /\ tx[p].book = b
<1>1. ASSUME Inv, [Next]_vars PROVE Keeps
  <2>1. row \in [Books -> Row] /\ venue \in [Books -> Placed]
    BY <1>1 DEF Inv, Typed
  <2>2. CASE row' = row
    BY <2>2
  <2>3. ASSUME NEW p \in Procs, InsertDeployment(p) \/ InsertIntent(p) PROVE Keeps
    BY <1>1, <2>3 DEF Inv, TxOK, InsertDeployment, InsertIntent, At, Latched
  <2>4. ASSUME NEW p \in Procs, WriteAdoption(p) PROVE Keeps
    <3>1. CASE tx[p].kind = "adopt_start"
      BY <1>1, <2>4, <3>1 DEF Inv, TxOK, WriteAdoption, At, Latched
    <3>2. CASE tx[p].kind = "adopt"
      BY <1>1, <2>1, <2>4, <3>2 DEF Inv, TxOK, WriteAdoption, Row
    <3>3. CASE tx[p].kind = "adopt_new"
      <4>1. /\ At(p, {"adopt_new"}, "write") /\ p \in Adopters
            /\ tx[p].qty \in Nat /\ tx[p].qty > 0
        BY <1>1, <2>4, <3>3 DEF Inv, Typed, Tx, TxOK, WriteAdoption, At, Adoptions
      <4>2. ASSUME NEW b \in Books, b # tx[p].book PROVE row'[b] = row[b]
        BY <2>1, <2>4, <4>2 DEF WriteAdoption
      <4>3. ASSUME NEW b \in Books, b = tx[p].book
            PROVE  row'[b].entry = row[b].entry /\ row'[b].pos = tx[p].qty
        BY <2>1, <2>4, <4>3 DEF WriteAdoption, Row
      <4> QED
        BY <4>1, <4>2, <4>3
    <3> QED
      BY <2>4, <3>1, <3>2, <3>3 DEF WriteAdoption, At, Adoptions
  <2>5. ASSUME NEW b \in Books, BookStep(b) PROVE Keeps
    BY <2>1, <2>5, BookStepRow
  <2>6. ASSUME NEW p \in Procs, Proceed(p) \/ RollBack(p) PROVE Keeps
    <3>1. CASE InsertDeployment(p) \/ InsertIntent(p) \/ WriteAdoption(p)
      BY <2>3, <2>4, <3>1
    <3>2. CASE \/ LockBaseShared(p) \/ LockBaseExclusive(p) \/ LockLatch(p) \/ RollBack(p)
               \/ ReadOrders(p) \/ ReadPositions(p) \/ ReadBalance(p)
      BY <2>2, <3>2 DEF LockBaseShared, LockBaseExclusive, LockLatch, RollBack,
                        ReadOrders, ReadPositions, ReadBalance
    <3> QED
      BY <2>6, <3>1, <3>2 DEF Proceed
  <2>7. CASE \/ \E p \in Entrants, b \in Books : BeginStart(p, b) \/ BeginEntry(p, b)
             \/ \E p \in Adopters, b \in Books, qty \in 1..External : BeginAdoption(p, b, qty)
             \/ SetLatch \/ UNCHANGED vars
    BY <2>2, <2>7 DEF BeginStart, BeginEntry, BeginAdoption, Begin, SetLatch, vars
  <2> QED
    BY <1>1, <2>5, <2>6, <2>7 DEF Next, BookStep
<1>2. Inv /\ [Next]_vars => [Keeps]_vars
  BY <1>1
<1> QED
  BY <1>2, LocksHeld, PTL DEF Spec, DisarmHolds

\* Whoever holds the latch row waits for nothing, and whoever holds the base
\* waits for the latch row at most.
LEMMA NoCircle == Inv => NoDeadlock
<1> SUFFICES ASSUME Inv, NEW stuck \in SUBSET Procs, stuck # {},
                    \A p \in stuck : \E q \in stuck : Waits(p, q)
             PROVE  FALSE
  BY DEF NoDeadlock
<1>1. \A p \in stuck : TxOK(p) /\ tx[p].step \in {"base", "latch"}
  BY DEF Inv, Waits, At
<1>2. \A p \in stuck : tx[p].step # "latch"
  <2> SUFFICES ASSUME NEW p \in stuck, tx[p].step = "latch" PROVE FALSE
    OBVIOUS
  <2>1. PICK q \in stuck : Waits(p, q)
    OBVIOUS
  <2>2. rowLock = q
    BY <2>1 DEF Waits, At
  <2> QED
    BY <1>1, <2>2 DEF TxOK
<1>3. PICK p \in stuck : TRUE
  OBVIOUS
<1>4. PICK q \in stuck : Waits(p, q)
  OBVIOUS
<1>5. tx[q].step # "base"
  BY <1>1, <1>2, <1>4 DEF Waits, At, TxOK
<1> QED
  BY <1>1, <1>2, <1>5

\* The base lock is taken before the latch row (lock_entry_base, then
\* refuse_postgres_entry; adopt_inventory likewise): for every number of
\* transactions, no set of them waits in a circle.
THEOREM LocksNeverCircle == Spec => []NoDeadlock
BY LocksHeld, NoCircle, PTL
=============================================================================
