--------------------------- MODULE InventoryProofs ---------------------------
(***************************************************************************)
(* Proofs, for any books, tasks, adoptions and units, that adoptions and   *)
(* entries never own more than the account holds.  The sums over books are *)
(* reasoned about by smallest counterexample, a set without a strictly     *)
(* smaller one, since finite sets have one (FiniteSetTheorems).            *)
(***************************************************************************)
EXTENDS EntryAdmissionProofs, FiniteSetTheorems, WellFoundedInduction

-----------------------------------------------------------------------------
(* Sums over the books.                                                    *)

Pick(s) == CHOOSE x \in s : TRUE

\* g gives each subset of S the sum of f over it.
Adds(f, S, g) ==
    g = [s \in SUBSET S |-> IF s = {} THEN 0 ELSE f[Pick(s)] + g[s \ {Pick(s)}]]

LEMMA TotalIs ==
    ASSUME NEW f
    PROVE  Total(f) = (CHOOSE g : Adds(f, Books, g))[Books]
BY DEF Total, MapThenSumSet, MapThenFoldSet, Adds, Pick

\* Induction over sets of books: a smallest counterexample.
LEMMA SmallestBad ==
    ASSUME NEW Bad, Bad \subseteq SUBSET Books, Bad # {}
    PROVE  \E s \in Bad : s \in SUBSET Books /\ \A t \in Bad : ~(t \subseteq s /\ t # s)
<1>1. IsWellFoundedOn(StrictSubsetOrdering(Books), FiniteSubsetsOf(Books))
  BY FS_StrictSubsetOrderingWellFounded
<1>2. Bad \subseteq FiniteSubsetsOf(Books)
  BY AdmissionAssumption, FS_Subset DEF FiniteSubsetsOf
<1>3. PICK s \in Bad : \A t \in Bad : ~(<<t, s>> \in StrictSubsetOrdering(Books))
  BY <1>1, <1>2, WFMin
<1> QED
  BY <1>3 DEF StrictSubsetOrdering

LEMMA PickIn ==
    ASSUME NEW s \in SUBSET Books, s # {}
    PROVE  /\ Pick(s) \in s /\ Pick(s) \in Books
           /\ s \ {Pick(s)} \in SUBSET Books /\ s \ {Pick(s)} \subseteq s
           /\ s \ {Pick(s)} # s
<1>1. Pick(s) \in s
  BY DEF Pick
<1> QED
  BY <1>1

\* Two such functions agree.
LEMMA AddsUnique ==
    ASSUME NEW f, NEW S \in SUBSET Books, NEW T \in SUBSET Books, NEW g, NEW h,
           Adds(f, S, g), Adds(f, T, h), NEW u, u \subseteq S, u \subseteq T
    PROVE  g[u] = h[u]
<1> DEFINE Bad == {s \in SUBSET Books : s \subseteq S /\ s \subseteq T /\ g[s] # h[s]}
<1>1. SUFFICES ASSUME Bad # {} PROVE FALSE
  OBVIOUS
<1>2. PICK s \in Bad : s \in SUBSET Books /\ \A t \in Bad : ~(t \subseteq s /\ t # s)
  <2>1. Bad \subseteq SUBSET Books
    OBVIOUS
  <2> HIDE DEF Bad
  <2> QED
    BY <1>1, <2>1, SmallestBad
<1>3. s \subseteq S /\ s \subseteq T /\ g[s] # h[s]
  OBVIOUS
<1>4. CASE s = {}
  BY <1>3, <1>4 DEF Adds
<1>5. CASE s # {}
  <2>1. PICK r : r = s \ {Pick(s)}
    OBVIOUS
  <2>2. r \in SUBSET Books /\ r \subseteq s /\ r # s
    BY <1>2, <1>5, <2>1, PickIn
  <2>3. g[r] = h[r]
    BY <1>2, <1>3, <2>2
  <2>4. g[s] = f[Pick(s)] + g[r] /\ h[s] = f[Pick(s)] + h[r]
    BY <1>3, <1>5, <2>1 DEF Adds
  <2> QED
    BY <1>3, <2>3, <2>4
<1> QED
  BY <1>4, <1>5

LEMMA AddsExists ==
    ASSUME NEW f
    PROVE  \A S \in SUBSET Books : \E g : Adds(f, S, g)
<1> DEFINE Bad == {S \in SUBSET Books : ~\E g : Adds(f, S, g)}
<1>1. SUFFICES ASSUME Bad # {} PROVE FALSE
  OBVIOUS
<1>2. PICK T \in Bad : T \in SUBSET Books /\ \A t \in Bad : ~(t \subseteq T /\ t # T)
  <2>1. Bad \subseteq SUBSET Books
    OBVIOUS
  <2> HIDE DEF Bad
  <2> QED
    BY <1>1, <2>1, SmallestBad
<1> DEFINE w(S) == CHOOSE g : Adds(f, S, g)
<1>3. ASSUME NEW S \in SUBSET Books, S \subseteq T, S # T PROVE Adds(f, S, w(S))
  <2>1. \E g : Adds(f, S, g)
    BY <1>2, <1>3
  <2> QED
    BY <2>1
<1> HIDE DEF w
<1> DEFINE g == [s \in SUBSET T |->
                   IF s = {} THEN 0
                   ELSE f[Pick(s)] + w(s \ {Pick(s)})[s \ {Pick(s)}]]
<1>4. ASSUME NEW s \in SUBSET T, s # T PROVE g[s] = w(s)[s]
  <2>0. s \in SUBSET Books /\ s \subseteq T
    BY <1>2
  <2>1. Adds(f, s, w(s))
    BY <1>3, <1>4, <2>0
  <2>2. CASE s = {}
    <3>1. g[s] = 0
      BY <2>2
    <3>2. w(s)[s] = 0
      BY <2>1, <2>2 DEF Adds
    <3> QED
      BY <3>1, <3>2
  <2>3. CASE s # {}
    <3>1. PICK r : r = s \ {Pick(s)}
      OBVIOUS
    <3>2. r \in SUBSET Books /\ r \subseteq s /\ r # s /\ r \subseteq T /\ r # T
      BY <2>0, <2>3, <3>1, PickIn
    <3>3. Adds(f, r, w(r))
      BY <1>3, <3>2
    <3>4. w(s)[r] = w(r)[r]
      BY <2>0, <2>1, <3>2, <3>3, AddsUnique
    <3>5. w(s)[s] = f[Pick(s)] + w(s)[r]
      BY <2>1, <2>3, <3>1 DEF Adds
    <3>6. g[s] = f[Pick(s)] + w(r)[r]
      BY <2>3, <3>1
    <3> QED
      BY <3>4, <3>5, <3>6
  <2> QED
    BY <2>2, <2>3
<1>5. Adds(f, T, g)
  <2>1. ASSUME NEW s \in SUBSET T, s # {}
        PROVE  g[s \ {Pick(s)}] = w(s \ {Pick(s)})[s \ {Pick(s)}]
    <3>1. PICK r : r = s \ {Pick(s)}
      OBVIOUS
    <3>2. r \subseteq s /\ r # s
      BY <1>2, <2>1, <3>1, PickIn
    <3>3. r \in SUBSET T /\ r # T
      BY <2>1, <3>2
    <3> HIDE DEF g
    <3> QED
      BY <1>4, <3>1, <3>3
  <2> QED
    BY <2>1 DEF Adds
<1> HIDE DEF g
<1> QED
  BY <1>2, <1>5

LEMMA TotalAdds ==
    ASSUME NEW f \in [Books -> Int]
    PROVE  \E g \in [SUBSET Books -> Int] : Adds(f, Books, g) /\ Total(f) = g[Books]
<1>1. PICK g : g = CHOOSE h : Adds(f, Books, h)
  OBVIOUS
<1>2. Adds(f, Books, g) /\ Total(f) = g[Books]
  <2>1. \E h : Adds(f, Books, h)
    BY AddsExists
  <2> QED
    BY <1>1, <2>1, TotalIs
<1> DEFINE Bad == {s \in SUBSET Books : g[s] \notin Int}
<1>3. Bad = {}
  <2>1. SUFFICES ASSUME Bad # {} PROVE FALSE
    OBVIOUS
  <2>2. PICK s \in Bad : s \in SUBSET Books /\ \A t \in Bad : ~(t \subseteq s /\ t # s)
    <3>1. Bad \subseteq SUBSET Books
      OBVIOUS
    <3> HIDE DEF Bad
    <3> QED
      BY <2>1, <3>1, SmallestBad
  <2>3. s # {}
    BY <1>2 DEF Adds
  <2>4. PICK r : r = s \ {Pick(s)}
    OBVIOUS
  <2>5. r \in SUBSET Books /\ r \subseteq s /\ r # s /\ Pick(s) \in Books
    BY <2>2, <2>3, <2>4, PickIn
  <2>6. g[s] = f[Pick(s)] + g[r]
    BY <1>2, <2>2, <2>3, <2>4 DEF Adds
  <2>7. g[r] \in Int /\ f[Pick(s)] \in Int
    BY <2>2, <2>5
  <2> QED
    BY <2>6, <2>7
<1>4. g \in [SUBSET Books -> Int]
  <2>1. g = [s \in SUBSET Books |-> g[s]]
    BY <1>2 DEF Adds
  <2> QED
    BY <1>3, <2>1
<1> QED
  BY <1>2, <1>4

\* One book's change is the sum's.
LEMMA TotalChange ==
    ASSUME NEW f \in [Books -> Int], NEW h \in [Books -> Int], NEW x \in Books,
           \A b \in Books \ {x} : f[b] = h[b]
    PROVE  Total(h) = Total(f) + h[x] - f[x]
<1>1. PICK F \in [SUBSET Books -> Int] : Adds(f, Books, F) /\ Total(f) = F[Books]
  BY TotalAdds
<1>2. PICK H \in [SUBSET Books -> Int] : Adds(h, Books, H) /\ Total(h) = H[Books]
  BY TotalAdds
<1> DEFINE Bad == {s \in SUBSET Books : H[s] # F[s] + (IF x \in s THEN h[x] - f[x] ELSE 0)}
<1>3. Bad = {}
  <2>1. SUFFICES ASSUME Bad # {} PROVE FALSE
    OBVIOUS
  <2>2. PICK s \in Bad : s \in SUBSET Books /\ \A t \in Bad : ~(t \subseteq s /\ t # s)
    <3>1. Bad \subseteq SUBSET Books
      OBVIOUS
    <3> HIDE DEF Bad
    <3> QED
      BY <2>1, <3>1, SmallestBad
  <2>3. s # {}
    <3>1. F[{}] = 0 /\ H[{}] = 0
      BY <1>1, <1>2 DEF Adds
    <3>2. H[s] # F[s] + (IF x \in s THEN h[x] - f[x] ELSE 0)
      BY <2>2
    <3> HIDE DEF Bad
    <3>3. CASE s = {}
      BY <3>1, <3>2, <3>3
    <3> QED
      BY <3>3
  <2>4. PICK r : r = s \ {Pick(s)}
    OBVIOUS
  <2>5. /\ r \in SUBSET Books /\ r \subseteq s /\ r # s
        /\ Pick(s) \in Books /\ Pick(s) \in s
    BY <2>2, <2>3, <2>4, PickIn
  <2>6. F[s] = f[Pick(s)] + F[r] /\ H[s] = h[Pick(s)] + H[r]
    BY <1>1, <1>2, <2>2, <2>3, <2>4 DEF Adds
  <2>7. H[r] = F[r] + (IF x \in r THEN h[x] - f[x] ELSE 0)
    BY <2>2, <2>5
  <2>8. /\ F[r] \in Int /\ H[r] \in Int /\ f[Pick(s)] \in Int /\ h[Pick(s)] \in Int
        /\ f[x] \in Int /\ h[x] \in Int
    BY <2>5
  <2>9. H[s] # F[s] + (IF x \in s THEN h[x] - f[x] ELSE 0)
    BY <2>2
  <2>10. CASE Pick(s) = x
    <3>1. x \notin r /\ x \in s
      BY <2>4, <2>5, <2>10
    <3> QED
      BY <2>6, <2>7, <2>8, <2>9, <2>10, <3>1
  <2>11. CASE Pick(s) # x
    <3>1. x \in r <=> x \in s
      BY <2>4, <2>11
    <3>2. f[Pick(s)] = h[Pick(s)]
      BY <2>5, <2>11
    <3> QED
      BY <2>6, <2>7, <2>8, <2>9, <3>1, <3>2
  <2> QED
    BY <2>10, <2>11
<1>4. H[Books] = F[Books] + (h[x] - f[x])
  BY <1>3
<1>5. F[Books] \in Int /\ H[Books] \in Int /\ h[x] \in Int /\ f[x] \in Int
  OBVIOUS
<1> QED
  BY <1>1, <1>2, <1>4, <1>5

LEMMA TotalOrder ==
    ASSUME NEW f \in [Books -> Int], NEW h \in [Books -> Int],
           \A b \in Books : f[b] <= h[b]
    PROVE  Total(f) <= Total(h)
<1>1. PICK F \in [SUBSET Books -> Int] : Adds(f, Books, F) /\ Total(f) = F[Books]
  BY TotalAdds
<1>2. PICK H \in [SUBSET Books -> Int] : Adds(h, Books, H) /\ Total(h) = H[Books]
  BY TotalAdds
<1> DEFINE Bad == {s \in SUBSET Books : ~(F[s] <= H[s])}
<1>3. Bad = {}
  <2>1. SUFFICES ASSUME Bad # {} PROVE FALSE
    OBVIOUS
  <2>2. PICK s \in Bad : s \in SUBSET Books /\ \A t \in Bad : ~(t \subseteq s /\ t # s)
    <3>1. Bad \subseteq SUBSET Books
      OBVIOUS
    <3> HIDE DEF Bad
    <3> QED
      BY <2>1, <3>1, SmallestBad
  <2>3. s # {}
    <3>1. F[{}] = 0 /\ H[{}] = 0
      BY <1>1, <1>2 DEF Adds
    <3>2. ~(F[s] <= H[s])
      BY <2>2
    <3> HIDE DEF Bad
    <3>3. CASE s = {}
      BY <3>1, <3>2, <3>3
    <3> QED
      BY <3>3
  <2>4. PICK r : r = s \ {Pick(s)}
    OBVIOUS
  <2>5. r \in SUBSET Books /\ r \subseteq s /\ r # s /\ Pick(s) \in Books
    BY <2>2, <2>3, <2>4, PickIn
  <2>6. F[s] = f[Pick(s)] + F[r] /\ H[s] = h[Pick(s)] + H[r]
    BY <1>1, <1>2, <2>2, <2>3, <2>4 DEF Adds
  <2>7. F[r] <= H[r] /\ f[Pick(s)] <= h[Pick(s)]
    BY <2>2, <2>5
  <2>8. F[r] \in Int /\ H[r] \in Int /\ f[Pick(s)] \in Int /\ h[Pick(s)] \in Int
    BY <2>5
  <2> QED
    BY <2>2, <2>6, <2>7, <2>8
<1> QED
  BY <1>1, <1>2, <1>3

LEMMA TotalInt ==
    ASSUME NEW f \in [Books -> Int]
    PROVE  Total(f) \in Int
BY TotalAdds

LEMMA TotalZero == Total([b \in Books |-> 0]) = 0
<1> DEFINE f == [b \in Books |-> 0]
<1>0. f \in [Books -> Int] /\ \A b \in Books : f[b] = 0
  OBVIOUS
<1> HIDE DEF f
<1>1. PICK F \in [SUBSET Books -> Int] : Adds(f, Books, F) /\ Total(f) = F[Books]
  BY <1>0, TotalAdds
<1> DEFINE Bad == {s \in SUBSET Books : F[s] # 0}
<1>3. Bad = {}
  <2>1. SUFFICES ASSUME Bad # {} PROVE FALSE
    OBVIOUS
  <2>2. PICK s \in Bad : s \in SUBSET Books /\ \A t \in Bad : ~(t \subseteq s /\ t # s)
    <3>1. Bad \subseteq SUBSET Books
      OBVIOUS
    <3> HIDE DEF Bad
    <3> QED
      BY <2>1, <3>1, SmallestBad
  <2>3. s # {}
    BY <1>1 DEF Adds
  <2>4. PICK r : r = s \ {Pick(s)}
    OBVIOUS
  <2>5. r \in SUBSET Books /\ r \subseteq s /\ r # s /\ Pick(s) \in Books
    BY <2>2, <2>3, <2>4, PickIn
  <2>6. F[s] = f[Pick(s)] + F[r]
    BY <1>1, <2>2, <2>3, <2>4 DEF Adds
  <2>7. F[r] = 0 /\ f[Pick(s)] = 0
    BY <1>0, <2>2, <2>5
  <2> QED
    BY <2>2, <2>6, <2>7
<1>4. F[Books] = 0
  BY <1>3
<1> QED
  BY <1>1, <1>4 DEF f

\* A sum of naturals is one, and no smaller than any of its parts.
LEMMA TotalNat ==
    ASSUME NEW f \in [Books -> Nat]
    PROVE  Total(f) \in Nat /\ \A x \in Books : f[x] <= Total(f)
<1>0. f \in [Books -> Int] /\ Total(f) \in Int
  BY TotalInt
<1>1. ASSUME NEW g \in [Books -> Nat] PROVE Total(g) >= 0
  <2>1. PICK z : z = [b \in Books |-> 0]
    OBVIOUS
  <2>2. z \in [Books -> Int] /\ Total(z) = 0 /\ \A b \in Books : z[b] <= g[b]
    BY <2>1, TotalZero
  <2>3. g \in [Books -> Int]
    OBVIOUS
  <2> QED
    BY <2>2, <2>3, TotalOrder, TotalInt
<1>2. ASSUME NEW x \in Books PROVE f[x] <= Total(f)
  <2>1. PICK h : h = [f EXCEPT ![x] = 0]
    OBVIOUS
  <2>2. h \in [Books -> Nat] /\ h[x] = 0 /\ \A b \in Books \ {x} : h[b] = f[b]
    BY <2>1
  <2>3. h \in [Books -> Int] /\ Total(h) \in Int /\ f[x] \in Int
    BY <2>2, TotalInt
  <2>4. Total(f) = Total(h) + f[x] - h[x]
    BY <1>0, <2>2, <2>3, TotalChange
  <2> QED
    BY <1>0, <1>1, <2>2, <2>3, <2>4
<1> QED
  BY <1>0, <1>1, <1>2

-----------------------------------------------------------------------------
(* The records and the account.                                            *)

Exits == {"none", "resting", "sold"}

\* What a book's records say of its orders.  A cancel is only read of an order
\* that executed nothing, unless it was read too early.
BookOK(b) ==
    /\ ~row[b].exists =>
          row[b].entry = "none" /\ row[b].pos = 0 /\ venue[b] = "none" /\ exit[b] = "none"
    /\ exit[b] = "resting" => row[b].entry = "none" /\ row[b].pos > 0
    /\ row[b].applied => venue[b] = "executed"
    /\ row[b].entry \in {"none", "intent"} => venue[b] = "none"
    /\ venue[b] = "working" => row[b].entry \in {"working", "unknown"}
    /\ row[b].entry = "filled" => venue[b] = "executed"
    /\ late = 0 /\ row[b].entry = "canceled" => venue[b] = "gone"

\* A transaction past its base step holds the base; an entry's book has no
\* resting exit.
Holds(p) ==
    /\ tx[p].kind # "none" => tx[p].book \in Books
    /\ tx[p].kind = "entry" => row[tx[p].book].exists /\ exit[tx[p].book] # "resting"
    /\ tx[p].kind = "entry" /\ tx[p].step # "base" => p \in shared
    /\ tx[p].kind \in Adoptions /\ tx[p].step # "base" => excl = p
    /\ tx[p].kind \in Adoptions => tx[p].qty > 0

HeldF == [b \in Books |-> IF exit[b] = "resting" THEN row[b].pos ELSE 0]

\* What rests at the venue is in the account.
Stock ==
    /\ Inv
    /\ rowLock \in Procs \cup {Nobody} /\ shared \subseteq Procs /\ excl \in Procs \cup {Nobody}
    /\ exit \in [Books -> Exits] /\ base \in Int /\ late \in 0..MaxLate
    /\ excl # Nobody => shared = {}
    /\ \A b \in Books : BookOK(b)
    /\ \A p \in Procs : Holds(p)
    /\ Total(HeldF) <= base

LEMMA RowFacts ==
    ASSUME Inv, NEW b \in Books
    PROVE  /\ row[b] \in Row /\ row[b].pos \in Nat /\ row[b].entry \in EntryRows
           /\ row[b].applied \in BOOLEAN /\ row[b].exists \in BOOLEAN /\ venue[b] \in Placed
BY DEF Inv, Typed, Row

LEMMA HeldNat ==
    ASSUME Stock
    PROVE  HeldF \in [Books -> Nat] /\ HeldF \in [Books -> Int] /\ base \in Nat
<1>1. HeldF \in [Books -> Nat]
  BY RowFacts DEF HeldF, Stock
<1>2. Total(HeldF) \in Nat
  BY <1>1, TotalNat
<1> QED
  BY <1>1, <1>2 DEF Stock

LEMMA InitStock == Init => Stock
<1> SUFFICES ASSUME Init PROVE Stock
  OBVIOUS
<1>1. /\ rowLock \in Procs \cup {Nobody} /\ shared \subseteq Procs
      /\ excl \in Procs \cup {Nobody} /\ exit \in [Books -> Exits] /\ base \in Int
      /\ late \in 0..MaxLate /\ (excl # Nobody => shared = {})
  BY AdmissionAssumption DEF Init, Exits
<1>2. \A b \in Books : BookOK(b)
  BY DEF Init, BookOK, NoBook
<1>3. \A p \in Procs : Holds(p)
  BY DEF Init, Holds, NoTx, Adoptions
<1>4. HeldF = [b \in Books |-> 0]
  BY DEF Init, HeldF
<1>5. Total(HeldF) <= base
  BY <1>4, TotalZero, AdmissionAssumption DEF Init
<1> QED
  BY <1>1, <1>2, <1>3, <1>5, InitInv DEF Stock

\* A transaction's step, which changes no order and no exit: the rows may gain
\* a book, an intent or a position that no exit rests on.
LEMMA TxStock ==
    ASSUME Stock, Inv', NEW p \in Procs, NEW t \in Tx, tx' = [tx EXCEPT ![p] = t],
           UNCHANGED <<venue, exit, base, late>>,
           rowLock' \in Procs \cup {Nobody}, shared' \subseteq Procs,
           excl' \in Procs \cup {Nobody}, excl' # Nobody => shared' = {},
           \A q \in Procs \ {p} : /\ q \in shared => q \in shared'
                                  /\ excl = q => excl' = q,
           \A b \in Books : row[b].exists => row'[b].exists,
           \A b \in Books : exit[b] = "resting" => row'[b].pos = row[b].pos,
           \A b \in Books : BookOK(b)', Holds(p)'
    PROVE  Stock'
<1>1. ASSUME NEW q \in Procs, q # p PROVE Holds(q)'
  <2>1. tx'[q] = tx[q] /\ Holds(q)
    BY <1>1 DEF Stock, Inv, Typed
  <2> QED
    BY <1>1, <2>1 DEF Holds
<1>2. HeldF' = HeldF
  BY DEF HeldF
<1>3. Total(HeldF)' = Total(HeldF)
  BY <1>2
<1> QED
  BY <1>1, <1>3 DEF Stock

\* Ditto when the rows are left alone.
LEMMA TxRowsStock ==
    ASSUME Stock, Inv', NEW p \in Procs, NEW t \in Tx, tx' = [tx EXCEPT ![p] = t],
           UNCHANGED <<row, venue, exit, base, late>>,
           rowLock' \in Procs \cup {Nobody}, shared' \subseteq Procs,
           excl' \in Procs \cup {Nobody}, excl' # Nobody => shared' = {},
           \A q \in Procs \ {p} : /\ q \in shared => q \in shared'
                                  /\ excl = q => excl' = q,
           Holds(p)'
    PROVE  Stock'
<1>1. \A b \in Books : BookOK(b)'
  BY DEF Stock, BookOK
<1> QED
  BY <1>1, TxStock

\* The locks are taken and given back as Holds says.
LEMMA LockStock ==
    ASSUME Stock, NEW p \in Procs, LockBaseShared(p) \/ LockBaseExclusive(p) \/ LockLatch(p)
    PROVE  Stock'
<1>0. Inv /\ Inv'
  BY LockBaseInv, LockLatchInv DEF Stock
<1>1. /\ tx[p] \in Tx /\ p # Nobody /\ TxOK(p) /\ Holds(p) /\ tx \in [Procs -> Tx]
      /\ row \in [Books -> Row]
  BY <1>0, AdmissionAssumption DEF Inv, Typed, Procs, Stock
<1>2. CASE LockBaseShared(p)
  <2>1. PICK t : t = [tx[p] EXCEPT !.step = "latch"]
    OBVIOUS
  <2>2. tx[p].kind = "entry" /\ tx[p].step = "base" /\ tx' = [tx EXCEPT ![p] = t]
    BY <1>1, <1>2, <2>1, AfterEntry DEF LockBaseShared, At, Advance
  <2>3. /\ t \in Tx /\ t.kind = "entry" /\ t.step = "latch" /\ t.book = tx[p].book
        /\ tx'[p] = t
    BY <1>1, <2>1, <2>2 DEF Tx, Steps
  <2>4. Holds(p)'
    BY <1>1, <1>2, <2>2, <2>3 DEF Holds, LockBaseShared, Adoptions
  <2> QED
    BY <1>0, <1>2, <2>2, <2>3, <2>4, TxRowsStock DEF LockBaseShared, Stock
<1>3. CASE LockBaseExclusive(p)
  <2>1. PICK t : t = [tx[p] EXCEPT !.step = "orders", !.left = {b \in Books : row[b].exists}]
    OBVIOUS
  <2>2. tx[p].kind \in Adoptions /\ tx[p].step = "base"
    BY <1>3 DEF LockBaseExclusive, At, Adoptions
  <2>3. tx' = [tx EXCEPT ![p] = t]
    BY <1>1, <1>3, <2>1, <2>2, AfterAdopt, AfterAdoptStart DEF LockBaseExclusive, Adoptions, Tx
  <2>4. /\ t \in Tx /\ t.kind = tx[p].kind /\ t.book = tx[p].book /\ t.step = "orders"
        /\ t.qty = tx[p].qty /\ tx'[p] = t
    BY <1>1, <2>1, <2>3 DEF Tx, Steps
  <2>5. Holds(p)'
    BY <1>1, <1>3, <2>2, <2>4 DEF Holds, LockBaseExclusive, Adoptions
  <2>6. /\ UNCHANGED <<row, venue, exit, base, late, rowLock>>
        /\ shared' = {} /\ excl' \in Procs /\ excl \notin Procs
    BY <1>3, AdmissionAssumption DEF LockBaseExclusive, Procs
  <2> QED
    BY <1>0, <1>3, <2>3, <2>4, <2>5, <2>6, TxRowsStock DEF LockBaseExclusive, Stock
<1>4. CASE LockLatch(p)
  <2>1. PICK t : t = [tx[p] EXCEPT !.step = "write"]
    OBVIOUS
  <2>2. tx[p].step = "latch" /\ tx[p].kind \in {"start", "entry", "adopt_start"}
    BY <1>1, <1>4 DEF LockLatch, At, TxOK, StepsOf, Tx, Kinds, Adoptions
  <2>3. tx' = [tx EXCEPT ![p] = t]
    BY <1>1, <1>4, <2>1, <2>2, AfterStart, AfterEntry, AfterAdoptStart DEF LockLatch, Advance
  <2>4. /\ t \in Tx /\ t.kind = tx[p].kind /\ t.book = tx[p].book /\ t.step = "write"
        /\ t.qty = tx[p].qty /\ tx'[p] = t
    BY <1>1, <2>1, <2>3 DEF Tx, Steps
  <2>5. Holds(p)'
    BY <1>1, <1>4, <2>2, <2>4 DEF Holds, LockLatch, Adoptions
  <2> QED
    BY <1>0, <1>1, <1>4, <2>3, <2>4, <2>5, TxRowsStock DEF LockLatch, Stock
<1> QED
  BY <1>2, <1>3, <1>4

LEMMA BeginStock ==
    ASSUME Stock, NEW p \in Procs, NEW b \in Books, NEW qty \in Nat,
           NEW kind \in Kinds \ {"none"}, Begin(p, kind, b, qty),
           kind = "adopt" => row[b].exists,
           kind \in Adoptions => p \in Adopters /\ qty > 0,
           kind = "entry" => row[b].exists /\ row[b].pos = 0
    PROVE  Stock'
<1>0. Inv /\ Inv'
  BY BeginInv DEF Stock
<1>1. PICK t : t = [NoTx EXCEPT !.kind = kind, !.step = Plan(kind)[1], !.book = b, !.qty = qty]
  OBVIOUS
<1>2. Plan(kind)[1] \in {"base", "latch"} /\ (kind \in Adoptions \cup {"entry"} => Plan(kind)[1] = "base")
  BY DEF Plan, Kinds, Adoptions
<1>3. /\ t \in Tx /\ t.kind = kind /\ t.book = b /\ t.qty = qty
      /\ (kind \in Adoptions \cup {"entry"} => t.step = "base")
  BY <1>1, <1>2 DEF NoTx, Tx, Steps, Kinds
<1>4. tx' = [tx EXCEPT ![p] = t] /\ tx'[p] = t
  BY <1>0, <1>1 DEF Begin, Inv, Typed
<1>5. kind = "entry" => exit[b] # "resting"
  BY DEF Stock, BookOK
<1>6. Holds(p)'
  BY <1>3, <1>4, <1>5 DEF Holds, Begin, Adoptions
<1> QED
  BY <1>0, <1>3, <1>4, <1>6, TxRowsStock DEF Begin, Stock

LEMMA ReadStock ==
    ASSUME Stock, NEW p \in Procs, ReadOrders(p) \/ ReadPositions(p) \/ ReadBalance(p)
    PROVE  Stock'
<1>0. Inv /\ Inv'
  BY ReadInv DEF Stock
<1>1. tx[p].kind \in Adoptions /\ tx[p].step # "base"
  BY <1>0, ReadKinds DEF Adoptions
<1>2. PICK t \in Tx : /\ tx' = [tx EXCEPT ![p] = t]
                      /\ t.kind = tx[p].kind /\ t.book = tx[p].book /\ t.qty = tx[p].qty
  <2>1. CASE ReadOrders(p)
    <3>1. PICK b \in tx[p].left, t \in Tx :
             /\ tx' = [tx EXCEPT ![p] = t]
             /\ t.kind = tx[p].kind /\ t.book = tx[p].book /\ t.qty = tx[p].qty
      BY <1>0, <2>1, ReadOrdersTx
    <3> QED
      BY <3>1
  <2>2. CASE ReadPositions(p)
    BY <1>0, <2>2, ReadPositionsTx
  <2>3. CASE ReadBalance(p)
    BY <1>0, <2>3, ReadBalanceTx
  <2> QED
    BY <2>1, <2>2, <2>3
<1>3. /\ UNCHANGED <<row, venue, exit, base, late, rowLock, shared, excl>>
  BY DEF ReadOrders, ReadPositions, ReadBalance
<1>4. tx'[p] = t /\ Holds(p)
  BY <1>0, <1>2 DEF Inv, Typed, Stock
<1>5. Holds(p)'
  BY <1>1, <1>2, <1>3, <1>4 DEF Holds, Adoptions
<1> QED
  BY <1>0, <1>2, <1>3, <1>5, TxRowsStock DEF Stock

\* The transactions' writes, each of its own book.
LEMMA WriteRows ==
    ASSUME Stock, NEW p \in Procs,
           InsertDeployment(p) \/ InsertIntent(p) \/ WriteAdoption(p) \/ RollBack(p)
    PROVE  /\ \A b \in Books : BookOK(b)' /\ (row[b].exists => row'[b].exists)
           /\ \A b \in Books : exit[b] = "resting" => row'[b].pos = row[b].pos
<1>1. /\ tx[p] \in Tx /\ row \in [Books -> Row] /\ Holds(p) /\ TxOK(p)
      /\ UNCHANGED <<venue, exit, base, late>>
  BY DEF Stock, Inv, Typed, InsertDeployment, InsertIntent, WriteAdoption, RollBack
<1>2. \A b \in Books : BookOK(b)
  BY DEF Stock
<1>3. PICK d : d = tx[p].book
  OBVIOUS
<1>4. CASE InsertDeployment(p)
  <2>1. d \in Books /\ row' = [row EXCEPT ![d].exists = TRUE]
    BY <1>1, <1>3, <1>4 DEF InsertDeployment, At, Holds
  <2>2. \A b \in Books : /\ row'[b].entry = row[b].entry /\ row'[b].pos = row[b].pos
                         /\ row'[b].applied = row[b].applied
                         /\ (row[b].exists => row'[b].exists)
    BY <1>1, <2>1 DEF Row
  <2> QED
    BY <1>1, <1>2, <2>2 DEF BookOK
<1>5. CASE InsertIntent(p)
  <2>1. /\ d \in Books /\ row' = [row EXCEPT ![d].entry = "intent"] /\ row[d].entry = "none"
        /\ exit[d] # "resting" /\ row[d].exists
    BY <1>1, <1>3, <1>5 DEF InsertIntent, At, Holds
  <2>2. \A b \in Books : /\ row'[b].entry = IF b = d THEN "intent" ELSE row[b].entry
                         /\ row'[b].pos = row[b].pos
                         /\ row'[b].applied = row[b].applied
                         /\ (row'[b].exists <=> row[b].exists)
    BY <1>1, <2>1 DEF Row
  <2> QED
    BY <1>1, <1>2, <2>1, <2>2 DEF BookOK
<1>6. CASE WriteAdoption(p)
  <2>1. /\ d \in Books /\ row[d].pos = 0
        /\ row' = [row EXCEPT ![d].exists = TRUE, ![d].pos = tx[p].qty]
    BY <1>1, <1>3, <1>6 DEF WriteAdoption, At, Holds, Adoptions
  <2>2. \A b \in Books : /\ row'[b].entry = row[b].entry
                         /\ row'[b].pos = IF b = d THEN tx[p].qty ELSE row[b].pos
                         /\ row'[b].applied = row[b].applied
                         /\ (b = d \/ row[b].exists => row'[b].exists)
    BY <1>1, <2>1 DEF Row
  <2>3. exit[d] # "resting"
    BY <1>2, <2>1 DEF BookOK
  <2> QED
    BY <1>1, <1>2, <2>1, <2>2, <2>3 DEF BookOK
<1>7. CASE RollBack(p)
  BY <1>1, <1>2, <1>7 DEF RollBack, BookOK
<1> QED
  BY <1>4, <1>5, <1>6, <1>7

LEMMA EndStock ==
    ASSUME Stock, NEW p \in Procs,
           InsertDeployment(p) \/ InsertIntent(p) \/ WriteAdoption(p) \/ RollBack(p)
    PROVE  Stock'
<1>0. Inv /\ Inv'
  BY WriteInv DEF Stock
<1>1. End(p) /\ UNCHANGED <<venue, exit, base, late>>
  BY DEF InsertDeployment, InsertIntent, WriteAdoption, RollBack
<1>2. NoTx \in Tx /\ NoTx.step = "idle" /\ NoTx.kind = "none"
  BY DEF NoTx, Tx, Kinds, Steps
<1>3. tx' = [tx EXCEPT ![p] = NoTx] /\ tx'[p] = NoTx /\ p # Nobody
  BY <1>0, <1>1, AdmissionAssumption DEF End, Inv, Typed, Procs
<1>4. Holds(p)'
  BY <1>2, <1>3 DEF Holds, Adoptions
<1>5. /\ rowLock' \in Procs \cup {Nobody} /\ shared' \subseteq Procs
      /\ excl' \in Procs \cup {Nobody} /\ (excl' # Nobody => shared' = {})
      /\ \A q \in Procs \ {p} : (q \in shared => q \in shared') /\ (excl = q => excl' = q)
  BY <1>1 DEF End, Stock
<1> QED
  BY <1>0, <1>1, <1>2, <1>3, <1>4, <1>5, WriteRows, TxStock

-----------------------------------------------------------------------------
(* The orders on their way.                                                *)

\* An entry of b may still bring a unit that is not booked.
Coming(b) ==
    \/ row[b].entry \in Working /\ venue[b] \in {"none", "working"}
    \/ venue[b] = "executed" /\ ~row[b].applied

Kept(b) == IF exit[b] = "sold" THEN 0 ELSE row[b].pos

\* The most b can come to own without a new intent or adoption.
Reach(b) == Kept(b) + (IF Coming(b) THEN 1 ELSE 0)

\* How a step of b's orders changes b: what it owns grows by no more than the
\* account does, and unless a cancel is read too early nothing new is coming.
Grows(b) ==
    /\ BookOK(b)'
    /\ exit'[b] \in Exits
    /\ base' \in Int
    /\ exit'[b] = "resting" => exit[b] = "resting" \/ PlaceExit(b)
    /\ HeldF'[b] - HeldF[b] <= base' - base \/ PlaceExit(b)
    /\ late' = 0 => late = 0
    /\ late' = 0 => /\ Owned(b)' - Owned(b) <= base' - base
                    /\ Coming(b)' => Coming(b)
                    /\ Reach(b)' <= Reach(b)

Same(b) == row'[b] = row[b] /\ venue'[b] = venue[b] /\ exit'[b] = exit[b]

LEMMA SameKept ==
    ASSUME NEW b \in Books, Same(b)
    PROVE  /\ (late' = 0 => late = 0) /\ BookOK(b) => BookOK(b)'
           /\ HeldF'[b] = HeldF[b] /\ Owned(b)' = Owned(b)
           /\ Coming(b)' <=> Coming(b)
           /\ Reach(b)' = Reach(b)
<1>1. /\ (late' = 0 => late = 0) /\ BookOK(b) => BookOK(b)'
      /\ Coming(b)' <=> Coming(b)
      /\ Kept(b)' = Kept(b)
  BY DEF Same, BookOK, Coming, Kept
<1>2. HeldF'[b] = HeldF[b] /\ Owned(b)' = Owned(b)
  BY DEF Same, HeldF, Owned
<1> QED
  BY <1>1, <1>2 DEF Reach

LEMMA BookFacts ==
    ASSUME Stock, NEW b \in Books
    PROVE  /\ row \in [Books -> Row] /\ venue \in [Books -> Placed] /\ exit \in [Books -> Exits]
           /\ row[b] \in Row /\ row[b].pos \in Nat /\ row[b].entry \in EntryRows
           /\ row[b].applied \in BOOLEAN /\ venue[b] \in Placed /\ exit[b] \in Exits
           /\ base \in Int /\ late \in Nat /\ BookOK(b)
           /\ HeldF[b] = IF exit[b] = "resting" THEN row[b].pos ELSE 0
           /\ HeldF'[b] = IF exit'[b] = "resting" THEN row'[b].pos ELSE 0
<1>1. row \in [Books -> Row] /\ venue \in [Books -> Placed] /\ exit \in [Books -> Exits]
  BY DEF Stock, Inv, Typed
<1>2. base \in Int /\ late \in Nat /\ BookOK(b)
  BY AdmissionAssumption DEF Stock
<1> QED
  BY <1>1, <1>2, RowFacts DEF Stock, HeldF

\* What each step leaves of its book.
Leaves(b, entry, applied, pos, order, out, account, early) ==
    /\ row'[b].entry = entry /\ row'[b].applied = applied /\ row'[b].pos = pos
    /\ (row'[b].exists <=> row[b].exists)
    /\ venue'[b] = order /\ exit'[b] = out /\ base' = account /\ late' = early
    /\ \A c \in Books \ {b} : Same(c)
    /\ UNCHANGED locks

LEMMA WriteOrderGrows ==
    ASSUME Stock, NEW b \in Books, WriteOrder(b)
    PROVE  Grows(b) /\ (\A c \in Books \ {b} : Same(c)) /\ UNCHANGED locks
<1>1. Leaves(b, "working", row[b].applied, row[b].pos, venue[b], exit[b], base, late)
  BY BookFacts DEF WriteOrder, Leaves, Row, Same
<1> QED
  BY <1>1, BookFacts DEF WriteOrder, Leaves, Grows, BookOK, Owned, Coming, Kept, Reach, Working,
     EntryRows, Placed, Exits

LEMMA VenueTakesGrows ==
    ASSUME Stock, NEW b \in Books, VenueTakes(b)
    PROVE  Grows(b) /\ (\A c \in Books \ {b} : Same(c)) /\ UNCHANGED locks
<1>1. Leaves(b, row[b].entry, row[b].applied, row[b].pos, "working", exit[b], base, late)
  BY BookFacts DEF VenueTakes, Leaves, Row, Same
<1> QED
  BY <1>1, BookFacts DEF VenueTakes, Leaves, Grows, BookOK, Owned, Coming, Kept, Reach, Working,
     EntryRows, Placed, Exits

LEMMA VenueExecutesGrows ==
    ASSUME Stock, NEW b \in Books, VenueExecutes(b)
    PROVE  Grows(b) /\ (\A c \in Books \ {b} : Same(c)) /\ UNCHANGED locks
<1>1. Leaves(b, row[b].entry, row[b].applied, row[b].pos, "executed", exit[b], base + 1, late)
  BY BookFacts DEF VenueExecutes, Leaves, Row, Same
<1> QED
  BY <1>1, BookFacts DEF VenueExecutes, Leaves, Grows, BookOK, Owned, Coming, Kept, Reach, Working,
     EntryRows, Placed, Exits

LEMMA VenueEndsGrows ==
    ASSUME Stock, NEW b \in Books, VenueEnds(b)
    PROVE  Grows(b) /\ (\A c \in Books \ {b} : Same(c)) /\ UNCHANGED locks
<1>1. Leaves(b, row[b].entry, row[b].applied, row[b].pos, "gone", exit[b], base, late)
  BY BookFacts DEF VenueEnds, Leaves, Row, Same
<1> QED
  BY <1>1, BookFacts DEF VenueEnds, Leaves, Grows, BookOK, Owned, Coming, Kept, Reach, Working,
     EntryRows, Placed, Exits

LEMMA AnswerLostGrows ==
    ASSUME Stock, NEW b \in Books, AnswerLost(b)
    PROVE  Grows(b) /\ (\A c \in Books \ {b} : Same(c)) /\ UNCHANGED locks
<1>1. Leaves(b, "unknown", row[b].applied, row[b].pos, venue[b], exit[b], base, late)
  BY BookFacts DEF AnswerLost, Leaves, Row, Same
<1> QED
  BY <1>1, BookFacts DEF AnswerLost, Leaves, Grows, BookOK, Owned, Coming, Kept, Reach, Working,
     EntryRows, Placed, Exits

LEMMA ReadBackLateGrows ==
    ASSUME Stock, NEW b \in Books, ReadBackLate(b)
    PROVE  Grows(b) /\ (\A c \in Books \ {b} : Same(c)) /\ UNCHANGED locks
<1>1. Leaves(b, "canceled", row[b].applied, row[b].pos, venue[b], exit[b], base, late + 1)
  BY BookFacts DEF ReadBackLate, Leaves, Row, Same
<1> QED
  BY <1>1, BookFacts DEF ReadBackLate, Leaves, Grows, BookOK, Owned, Coming, Kept, Reach, Working,
     EntryRows, Placed, Exits

LEMMA ApplyFillGrows ==
    ASSUME Stock, NEW b \in Books, ApplyFill(b)
    PROVE  Grows(b) /\ (\A c \in Books \ {b} : Same(c)) /\ UNCHANGED locks
<1>1. Leaves(b, row[b].entry, TRUE, row[b].pos + 1, venue[b], exit[b], base, late)
  BY BookFacts DEF ApplyFill, Leaves, Row, Same
<1> QED
  BY <1>1, BookFacts DEF ApplyFill, Leaves, Grows, BookOK, Owned, Coming, Kept, Reach, Working,
     EntryRows, Placed, Exits

LEMMA EntryDoneGrows ==
    ASSUME Stock, NEW b \in Books, EntryDone(b)
    PROVE  Grows(b) /\ (\A c \in Books \ {b} : Same(c)) /\ UNCHANGED locks
<1>1. Leaves(b, "none", FALSE, row[b].pos, "none", exit[b], base, late)
  BY BookFacts DEF EntryDone, Leaves, Row, Same
<1> QED
  BY <1>1, BookFacts DEF EntryDone, Leaves, Grows, BookOK, Owned, Coming, Kept, Reach, Working,
     EntryRows, Placed, Exits

LEMMA PlaceExitGrows ==
    ASSUME Stock, NEW b \in Books, PlaceExit(b)
    PROVE  Grows(b) /\ (\A c \in Books \ {b} : Same(c)) /\ UNCHANGED locks
<1>1. Leaves(b, row[b].entry, row[b].applied, row[b].pos, venue[b], "resting", base, late)
  BY BookFacts DEF PlaceExit, Leaves, Row, Same
<1> QED
  BY <1>1, BookFacts DEF PlaceExit, Leaves, Grows, BookOK, Owned, Coming, Kept, Reach, Working,
     EntryRows, Placed, Exits

LEMMA ExitExecutesGrows ==
    ASSUME Stock, NEW b \in Books, ExitExecutes(b)
    PROVE  Grows(b) /\ (\A c \in Books \ {b} : Same(c)) /\ UNCHANGED locks
<1>1. Leaves(b, row[b].entry, row[b].applied, row[b].pos, venue[b], "sold", base - row[b].pos, late)
  BY BookFacts DEF ExitExecutes, Leaves, Row, Same
<1> QED
  BY <1>1, BookFacts DEF ExitExecutes, Leaves, Grows, BookOK, Owned, Coming, Kept, Reach, Working,
     EntryRows, Placed, Exits

LEMMA ExitCanceledGrows ==
    ASSUME Stock, NEW b \in Books, ExitCanceled(b)
    PROVE  Grows(b) /\ (\A c \in Books \ {b} : Same(c)) /\ UNCHANGED locks
<1>1. Leaves(b, row[b].entry, row[b].applied, row[b].pos, venue[b], "none", base, late)
  BY BookFacts DEF ExitCanceled, Leaves, Row, Same
<1> QED
  BY <1>1, BookFacts DEF ExitCanceled, Leaves, Grows, BookOK, Owned, Coming, Kept, Reach, Working,
     EntryRows, Placed, Exits

LEMMA BookExitGrows ==
    ASSUME Stock, NEW b \in Books, BookExit(b)
    PROVE  Grows(b) /\ (\A c \in Books \ {b} : Same(c)) /\ UNCHANGED locks
<1>1. Leaves(b, row[b].entry, row[b].applied, 0, venue[b], "none", base, late)
  BY BookFacts DEF BookExit, Leaves, Row, Same
<1> QED
  BY <1>1, BookFacts DEF BookExit, Leaves, Grows, BookOK, Owned, Coming, Kept, Reach, Working,
     EntryRows, Placed, Exits

LEMMA ReadBackGrows ==
    ASSUME Stock, NEW b \in Books, ReadBack(b)
    PROVE  Grows(b) /\ (\A c \in Books \ {b} : Same(c)) /\ UNCHANGED locks
<1>1. PICK e : e = CASE venue[b] = "executed" -> "filled"
                     [] venue[b] = "working" -> "working"
                     [] venue[b] = "gone" -> "canceled"
  OBVIOUS
<1>2. /\ venue[b] \in {"executed", "working", "gone"}
      /\ row' = [row EXCEPT ![b].entry = e] /\ UNCHANGED <<locks, venue, exit, base, late>>
  BY <1>1, BookFacts DEF ReadBack, Placed
<1>3. Leaves(b, e, row[b].applied, row[b].pos, venue[b], exit[b], base, late)
  BY <1>2, BookFacts DEF Leaves, Row, Same
<1>4. /\ (venue[b] = "executed" => e = "filled") /\ (venue[b] = "working" => e = "working")
      /\ (venue[b] = "gone" => e = "canceled")
  BY <1>1, <1>2
<1> QED
  BY <1>2, <1>3, <1>4, BookFacts DEF ReadBack, Leaves, Grows, BookOK, Owned, Coming, Kept, Reach,
     Working, EntryRows, Exits

LEMMA StepGrows ==
    ASSUME Stock, NEW b \in Books, BookStep(b)
    PROVE  /\ Grows(b) /\ \A c \in Books \ {b} : Same(c)
           /\ UNCHANGED <<latch, rowLock, shared, excl, tx>>
<1>1. Grows(b) /\ (\A c \in Books \ {b} : Same(c)) /\ UNCHANGED locks
  BY WriteOrderGrows, VenueTakesGrows, VenueExecutesGrows, VenueEndsGrows, AnswerLostGrows,
     ReadBackGrows, ReadBackLateGrows, ApplyFillGrows, EntryDoneGrows, PlaceExitGrows,
     ExitExecutesGrows, ExitCanceledGrows, BookExitGrows DEF BookStep
<1> QED
  BY <1>1 DEF locks

LEMMA BookStock ==
    ASSUME Stock, NEW b \in Books, BookStep(b)
    PROVE  Stock'
<1>0. Inv /\ Inv'
  BY NextInv DEF Stock, Next, BookStep
<1>1. /\ Grows(b) /\ \A c \in Books \ {b} : Same(c)
      /\ UNCHANGED <<latch, rowLock, shared, excl, tx>>
  BY StepGrows
<1>2. /\ exit \in [Books -> Exits] /\ base \in Int /\ late \in 0..MaxLate
      /\ \A c \in Books : BookOK(c)
  BY DEF Stock
<1>3. exit' \in [Books -> Exits] /\ late' \in 0..MaxLate
  BY <1>2, AdmissionAssumption
     DEF BookStep, WriteOrder, VenueTakes, VenueExecutes, VenueEnds, AnswerLost, ReadBack, ReadBackLate,
         ApplyFill, EntryDone, PlaceExit, ExitExecutes, ExitCanceled, BookExit, Exits
<1>4. \A c \in Books : BookOK(c)'
  BY <1>1, <1>2, SameKept DEF Grows
<1>5. \A p \in Procs : Holds(p)'
  <2>1. TAKE p \in Procs
  <2>2. Holds(p)
    BY DEF Stock
  <2>3. tx[p].kind = "entry" => exit'[tx[p].book] # "resting" /\ row'[tx[p].book].exists
    <3>1. ASSUME tx[p].kind = "entry" PROVE exit'[tx[p].book] # "resting"
      <4>1. tx[p].book \in Books /\ exit[tx[p].book] # "resting"
        BY <2>2, <3>1 DEF Holds
      <4>2. PlaceExit(b) => tx[p].book # b
        BY <3>1 DEF PlaceExit
      <4> QED
        BY <1>1, <4>1, <4>2 DEF Grows, Same
    <3>2. \A c \in Books : row'[c].exists = row[c].exists
      BY <1>0, BookStepRow DEF Inv, Typed
    <3> QED
      BY <2>2, <3>1, <3>2 DEF Holds
  <2> QED
    BY <1>1, <2>2, <2>3 DEF Holds
<1>6. Total(HeldF)' <= base' /\ base' \in Int
  <2>1. HeldF \in [Books -> Int] /\ HeldF' \in [Books -> Int] /\ base' \in Int
    <3>1. \A c \in Books : row'[c].pos \in Int
      BY <1>0, RowFacts DEF Inv, Typed, Row
    <3> QED
      BY <1>1, <3>1, HeldNat DEF HeldF, Grows
  <2>2. \A c \in Books \ {b} : HeldF[c] = HeldF'[c]
    BY <1>1, SameKept
  <2>3. Total(HeldF') = Total(HeldF) + HeldF'[b] - HeldF[b]
    BY <2>1, <2>2, TotalChange
  <2>4. Total(HeldF) <= base /\ Total(HeldF) \in Int /\ HeldF'[b] \in Int /\ HeldF[b] \in Int
    BY <2>1, TotalInt DEF Stock
  <2>5. CASE HeldF'[b] - HeldF[b] <= base' - base
    BY <1>2, <2>1, <2>3, <2>4, <2>5
  <2>6. CASE PlaceExit(b)
    <3>1. Held = Total(HeldF)
      BY DEF Held, HeldF
    <3>2. row[b].pos <= base - Total(HeldF) /\ base' = base /\ HeldF[b] = 0 /\ HeldF'[b] = row[b].pos
      BY <1>2, <2>6, <3>1, BookFacts DEF PlaceExit
    <3> QED
      BY <1>2, <2>3, <2>4, <3>2
  <2> QED
    BY <1>1, <2>1, <2>5, <2>6 DEF Grows
<1> QED
  BY <1>0, <1>1, <1>3, <1>4, <1>5, <1>6 DEF Stock

LEMMA NextStock == Stock /\ [Next]_vars => Stock'
<1> SUFFICES ASSUME Stock, [Next]_vars PROVE Stock'
  OBVIOUS
<1>1. ASSUME NEW p \in Procs, Proceed(p) \/ RollBack(p) PROVE Stock'
  BY <1>1, LockStock, ReadStock, EndStock DEF Proceed
<1>2. ASSUME NEW p \in Entrants, NEW b \in Books, BeginStart(p, b) \/ BeginEntry(p, b)
      PROVE Stock'
  <2>1. p \in Procs /\ 0 \in Nat /\ {"start", "entry"} \subseteq Kinds \ {"none"}
    BY DEF Procs, Kinds
  <2> QED
    BY <1>2, <2>1, BeginStock DEF BeginStart, BeginEntry, Adoptions
<1>3. ASSUME NEW p \in Adopters, NEW b \in Books, NEW qty \in 1..External,
             BeginAdoption(p, b, qty)
      PROVE Stock'
  <2>1. p \in Procs /\ qty \in Nat /\ qty > 0 /\ Adoptions \subseteq Kinds \ {"none", "entry"}
    BY AdmissionAssumption DEF Procs, Kinds, Adoptions
  <2>2. PICK kind \in Adoptions : Begin(p, kind, b, qty) /\ (kind = "adopt" => row[b].exists)
    BY <1>3 DEF BeginAdoption, Adoptions
  <2> QED
    BY <2>1, <2>2, BeginStock
<1>4. ASSUME UNCHANGED <<rowLock, shared, excl, tx, row, venue, exit, base, late>>, Inv'
      PROVE Stock'
  <2>1. \A b \in Books : BookOK(b)'
    BY <1>4 DEF Stock, BookOK
  <2>2. \A p \in Procs : Holds(p)'
    BY <1>4 DEF Stock, Holds
  <2>3. HeldF' = HeldF
    BY <1>4 DEF HeldF
  <2>4. Total(HeldF)' = Total(HeldF)
    BY <2>3
  <2> QED
    BY <1>4, <2>1, <2>2, <2>4 DEF Stock
<1>5. CASE SetLatch \/ UNCHANGED vars
  <2>1. Inv'
    BY NextInv DEF Stock
  <2> QED
    BY <1>4, <1>5, <2>1 DEF SetLatch, vars
<1> QED
  BY <1>1, <1>2, <1>3, <1>5, BookStock DEF Next, BookStep

\* The books' records, the locks and the account keep their types whatever
\* executes, is booked, canceled or adopted at once; the account never goes
\* below zero, since what rests at the venue is in it (adopt_inventory,
\* base_availability).
THEOREM TypeCorrect == Spec => []TypeOK
<1>1. Stock => TypeOK
  <2> SUFFICES ASSUME Stock PROVE TypeOK
    OBVIOUS
  <2>1. base \in Nat
    BY HeldNat
  <2> QED
    BY <2>1 DEF Stock, Inv, Typed, TypeOK, Tx, Row, Placed, Exits
<1> QED
  BY <1>1, InitStock, NextStock, PTL DEF Spec

-----------------------------------------------------------------------------
(* Nothing is owned twice.                                                 *)

OwnedF == [b \in Books |-> Owned(b)]

Reading == {"orders", "positions", "balance"}

\* c gives each book a share of what p has claimed.  Unless an order is
\* unresolved, a book already read has at least what it can come to own; of the
\* book whose orders are read and whose positions are not, what is coming is
\* claimed or noted as unsettled.
Covers(p, c) ==
    /\ Total(c) <= tx[p].claimed
    /\ ~tx[p].unresolved =>
          /\ \A b \in Books \ tx[p].left :
                (tx[p].step = "positions" /\ b = tx[p].cur) \/ Reach(b) <= c[b]
          /\ tx[p].step = "positions" /\ Coming(tx[p].cur) =>
                c[tx[p].cur] > 0 \/ tx[p].cur \in tx[p].unsettled
    /\ tx[p].step = "balance" => tx[p].left = {}

ClaimOK(p) ==
    tx[p].kind \in Adoptions /\ tx[p].step \in Reading => \E c \in [Books -> Nat] : Covers(p, c)

\* A quantity that fits still does when it is written.
FitOK(p) ==
    tx[p].kind \in Adoptions /\ tx[p].step \in {"latch", "write"} /\ tx[p].fits =>
       tx[p].qty + Total(OwnedF) <= base

Whole ==
    /\ Stock
    /\ late = 0 => /\ Total(OwnedF) <= base
                   /\ \A p \in Procs : ClaimOK(p) /\ FitOK(p)

LEMMA OwnedNat ==
    ASSUME Stock
    PROVE  /\ OwnedF \in [Books -> Nat] /\ OwnedF \in [Books -> Int] /\ Total(OwnedF) \in Int
           /\ \A b \in Books : /\ OwnedF[b] = Owned(b) /\ OwnedF'[b] = Owned(b)'
                               /\ Reach(b) \in Nat /\ Owned(b) <= Reach(b) /\ Owned(b) \in Nat
<1>1. \A b \in Books : Owned(b) \in Nat /\ Reach(b) \in Nat /\ Owned(b) <= Reach(b)
  <2>1. TAKE b \in Books
  <2>2. row[b].pos \in Nat
    BY BookFacts
  <2>3. Kept(b) \in Nat /\ Owned(b) = Kept(b) + (IF venue[b] = "executed" /\ ~row[b].applied THEN 1 ELSE 0)
    BY <2>2 DEF Kept, Owned
  <2>4. venue[b] = "executed" /\ ~row[b].applied => Coming(b)
    BY DEF Coming
  <2> QED
    BY <2>3, <2>4 DEF Reach
<1>2. OwnedF \in [Books -> Nat]
  BY <1>1 DEF OwnedF
<1>3. Total(OwnedF) \in Int
  BY <1>2, TotalNat
<1>4. \A b \in Books : OwnedF[b] = Owned(b) /\ OwnedF'[b] = Owned(b)'
  BY DEF OwnedF
<1> QED
  BY <1>1, <1>2, <1>3, <1>4

LEMMA OwnedNatPrimed ==
    ASSUME Stock'
    PROVE  /\ OwnedF' \in [Books -> Nat] /\ OwnedF' \in [Books -> Int] /\ Total(OwnedF') \in Int
           /\ \A b \in Books : /\ OwnedF'[b] = Owned(b)'
                               /\ Reach(b)' \in Nat /\ Owned(b)' \in Nat
<1>1. \A b \in Books : Owned(b)' \in Nat /\ Reach(b)' \in Nat
  <2>1. TAKE b \in Books
  <2>2. row'[b].pos \in Nat
    BY DEF Stock, Inv, Typed, Row
  <2>3. Kept(b)' \in Nat /\ Owned(b)' \in Nat
    BY <2>2 DEF Kept, Owned
  <2> QED
    BY <2>3 DEF Reach
<1>2. OwnedF' \in [Books -> Nat]
  BY <1>1 DEF OwnedF
<1>3. Total(OwnedF') \in Int
  BY <1>2, TotalNat
<1>4. \A b \in Books : OwnedF'[b] = Owned(b)'
  BY DEF OwnedF
<1> QED
  BY <1>1, <1>2, <1>3, <1>4

LEMMA InitWhole == Init => Whole
<1> SUFFICES ASSUME Init PROVE Whole
  OBVIOUS
<1>1. OwnedF = [b \in Books |-> 0]
  BY DEF Init, OwnedF, Owned, NoBook
<1>2. Total(OwnedF) <= base
  BY <1>1, TotalZero, AdmissionAssumption DEF Init
<1>3. \A p \in Procs : ClaimOK(p) /\ FitOK(p)
  BY DEF Init, ClaimOK, FitOK, NoTx, Adoptions
<1> QED
  BY <1>2, <1>3, InitStock DEF Whole

\* A process whose record is left alone while no book can come to own more.
LEMMA StillWhole ==
    ASSUME Stock, Stock', NEW q \in Procs, ClaimOK(q), FitOK(q), tx'[q] = tx[q],
           \A b \in Books : Reach(b)' <= Reach(b) /\ (Coming(b)' => Coming(b)),
           Total(OwnedF') - Total(OwnedF) <= base' - base
    PROVE  ClaimOK(q)' /\ FitOK(q)'
<1>1. ClaimOK(q)'
  <2> SUFFICES ASSUME tx[q].kind \in Adoptions, tx[q].step \in Reading
               PROVE  \E c \in [Books -> Nat] : Covers(q, c)'
    BY DEF ClaimOK
  <2>1. PICK c \in [Books -> Nat] : Covers(q, c)
    BY DEF ClaimOK
  <2>2. tx[q].step = "positions" => tx[q].cur \in Books
    BY DEF Stock, Inv, TxOK
  <2>3. \A b \in Books : Reach(b) <= c[b] => Reach(b)' <= c[b]
    <3>1. TAKE b \in Books
    <3>2. Reach(b) \in Nat /\ Reach(b)' \in Nat /\ c[b] \in Nat /\ Reach(b)' <= Reach(b)
      BY OwnedNat, OwnedNatPrimed
    <3> QED
      BY <3>2
  <2>4. Covers(q, c)'
    BY <2>1, <2>2, <2>3 DEF Covers
  <2> QED
    BY <2>4
<1>2. FitOK(q)'
  <2> SUFFICES ASSUME tx[q].kind \in Adoptions, tx[q].step \in {"latch", "write"}, tx[q].fits
               PROVE  tx[q].qty + Total(OwnedF)' <= base'
    BY DEF FitOK
  <2>1. tx[q].qty + Total(OwnedF) <= base
    BY DEF FitOK
  <2>2. /\ tx[q].qty \in Nat /\ base \in Int /\ base' \in Int
        /\ Total(OwnedF) \in Int /\ Total(OwnedF') \in Int
    BY OwnedNat, OwnedNatPrimed DEF Stock, Inv, Typed, Tx
  <2>3. tx[q].qty + Total(OwnedF') <= base'
    BY <2>1, <2>2
  <2> QED
    BY <2>3
<1> QED
  BY <1>1, <1>2

LEMMA BookWhole ==
    ASSUME Whole, NEW b \in Books, BookStep(b)
    PROVE  Whole'
<1>1. Stock /\ Stock'
  BY BookStock DEF Whole
<1>2. /\ Grows(b) /\ \A c \in Books \ {b} : Same(c)
      /\ UNCHANGED <<latch, rowLock, shared, excl, tx>>
  BY <1>1, StepGrows
<1> SUFFICES ASSUME late' = 0
             PROVE  Total(OwnedF)' <= base' /\ \A p \in Procs : ClaimOK(p)' /\ FitOK(p)'
  BY <1>1 DEF Whole
<1>3. late = 0 /\ Owned(b)' - Owned(b) <= base' - base
      /\ (Coming(b)' => Coming(b)) /\ Reach(b)' <= Reach(b)
  BY <1>2 DEF Grows
<1>4. Total(OwnedF) <= base /\ \A p \in Procs : ClaimOK(p) /\ FitOK(p)
  BY <1>3 DEF Whole
<1>5. \A c \in Books : Reach(c)' <= Reach(c) /\ (Coming(c)' => Coming(c))
  <2>1. \A c \in Books : Reach(c) \in Nat
    BY <1>1, OwnedNat
  <2> QED
    BY <1>2, <1>3, <2>1, SameKept
<1>6. Total(OwnedF') - Total(OwnedF) <= base' - base
  <2>1. /\ OwnedF \in [Books -> Int] /\ OwnedF' \in [Books -> Int]
        /\ OwnedF[b] = Owned(b) /\ OwnedF'[b] = Owned(b)' /\ Total(OwnedF) \in Int
        /\ Owned(b) \in Int /\ Owned(b)' \in Int
    BY <1>1, OwnedNat, OwnedNatPrimed
  <2>2. \A c \in Books \ {b} : OwnedF[c] = OwnedF'[c]
    BY <1>1, <1>2, SameKept, OwnedNat
  <2>3. Total(OwnedF') = Total(OwnedF) + OwnedF'[b] - OwnedF[b]
    BY <2>1, <2>2, TotalChange
  <2>4. base \in Int /\ base' \in Int
    BY <1>1 DEF Stock
  <2> QED
    BY <1>3, <2>1, <2>3, <2>4
<1>7. Total(OwnedF') <= base'
  <2>1. base \in Int /\ base' \in Int /\ Total(OwnedF) \in Int /\ Total(OwnedF') \in Int
    BY <1>1, OwnedNat, OwnedNatPrimed DEF Stock
  <2> QED
    BY <1>4, <1>6, <2>1
<1>8. \A p \in Procs : ClaimOK(p)' /\ FitOK(p)'
  BY <1>1, <1>2, <1>4, <1>5, <1>6, StillWhole
<1> QED
  BY <1>7, <1>8

\* p moves, and no book can come to own more.
LEMMA OwnWhole ==
    ASSUME Whole, Stock', NEW p \in Procs, NEW t, tx' = [tx EXCEPT ![p] = t],
           UNCHANGED <<base, late>>,
           \A b \in Books : /\ Reach(b)' = Reach(b) /\ (Coming(b)' <=> Coming(b))
                            /\ Owned(b)' = Owned(b),
           late = 0 => ClaimOK(p)' /\ FitOK(p)'
    PROVE  Whole'
<1> SUFFICES ASSUME late = 0
             PROVE  Total(OwnedF)' <= base' /\ \A q \in Procs : ClaimOK(q)' /\ FitOK(q)'
  BY DEF Whole
<1>1. Stock /\ Total(OwnedF) <= base /\ \A q \in Procs : ClaimOK(q) /\ FitOK(q)
  BY DEF Whole
<1>2. OwnedF' = OwnedF
  BY DEF OwnedF
<1>3. Total(OwnedF') - Total(OwnedF) <= base' - base
  BY <1>1, <1>2, OwnedNat DEF Stock
<1>4. \A b \in Books : Reach(b)' <= Reach(b) /\ (Coming(b)' => Coming(b))
  BY <1>1, OwnedNat
<1>5. ASSUME NEW q \in Procs, q # p PROVE ClaimOK(q)' /\ FitOK(q)'
  <2>1. tx'[q] = tx[q]
    BY <1>1, <1>5 DEF Stock, Inv, Typed
  <2> QED
    BY <1>1, <1>3, <1>4, <2>1, StillWhole
<1> QED
  BY <1>1, <1>2, <1>5

LEMMA RowsSame ==
    ASSUME UNCHANGED <<row, venue, exit>>, NEW b \in Books
    PROVE  /\ Reach(b)' = Reach(b) /\ (Coming(b)' <=> Coming(b)) /\ Owned(b)' = Owned(b)
BY SameKept DEF Same

LEMMA LockWhole ==
    ASSUME Whole, NEW p \in Procs, LockBaseShared(p) \/ LockBaseExclusive(p) \/ LockLatch(p)
    PROVE  Whole'
<1>0. Stock /\ Stock' /\ UNCHANGED <<row, venue, exit, base, late>>
  BY LockStock DEF Whole, LockBaseShared, LockBaseExclusive, LockLatch
<1>1. tx[p] \in Tx /\ TxOK(p) /\ tx \in [Procs -> Tx] /\ row \in [Books -> Row]
  BY <1>0 DEF Stock, Inv, Typed
<1>2. CASE LockBaseShared(p)
  <2>1. PICK t : t = [tx[p] EXCEPT !.step = "latch"]
    OBVIOUS
  <2>2. tx[p].kind = "entry" /\ tx' = [tx EXCEPT ![p] = t]
    BY <1>1, <1>2, <2>1, AfterEntry DEF LockBaseShared, At, Advance
  <2>3. t.kind = "entry" /\ tx'[p] = t
    BY <1>1, <2>1, <2>2 DEF Tx
  <2>4. ClaimOK(p)' /\ FitOK(p)'
    BY <2>3 DEF ClaimOK, FitOK, Adoptions
  <2> QED
    BY <1>0, <2>2, <2>4, RowsSame, OwnWhole
<1>3. CASE LockBaseExclusive(p)
  <2>1. PICK t : t = [tx[p] EXCEPT !.step = "orders", !.left = {b \in Books : row[b].exists}]
    OBVIOUS
  <2>2. tx[p].kind \in Adoptions /\ tx[p].step = "base"
    BY <1>3 DEF LockBaseExclusive, At, Adoptions
  <2>3. tx' = [tx EXCEPT ![p] = t]
    BY <1>1, <1>3, <2>1, <2>2, AfterAdopt, AfterAdoptStart DEF LockBaseExclusive, Adoptions, Tx
  <2>4. /\ t.step = "orders" /\ t.left = {b \in Books : row[b].exists}
        /\ t.claimed \in Nat /\ tx'[p] = t
    BY <1>1, <2>1, <2>3 DEF Tx, Steps
  <2>5. PICK c : c = [b \in Books |-> 0]
    OBVIOUS
  <2>6. c \in [Books -> Nat] /\ Total(c) = 0 /\ \A b \in Books : c[b] = 0
    BY <2>5, TotalZero
  <2>7. \A b \in Books \ t.left : Reach(b)' <= c[b]
    <3>1. TAKE b \in Books \ t.left
    <3>2. ~row[b].exists /\ BookOK(b)
      BY <1>0, <2>4 DEF Stock
    <3>3. Kept(b) = 0 /\ ~Coming(b)
      BY <3>2 DEF BookOK, Kept, Coming, Working
    <3>4. Reach(b) = 0
      BY <3>3 DEF Reach
    <3> QED
      BY <1>0, <2>6, <3>4, RowsSame
  <2>8. Covers(p, c)'
    BY <2>4, <2>6, <2>7 DEF Covers
  <2>9. ClaimOK(p)' /\ FitOK(p)'
    BY <2>4, <2>6, <2>8 DEF ClaimOK, FitOK
  <2> QED
    BY <1>0, <2>3, <2>9, RowsSame, OwnWhole
<1>4. CASE LockLatch(p)
  <2>1. PICK t : t = [tx[p] EXCEPT !.step = "write"]
    OBVIOUS
  <2>2. tx[p].step = "latch" /\ tx[p].kind \in {"start", "entry", "adopt_start"}
    BY <1>1, <1>4 DEF LockLatch, At, TxOK, StepsOf, Tx, Kinds, Adoptions
  <2>3. tx' = [tx EXCEPT ![p] = t]
    BY <1>1, <1>4, <2>1, <2>2, AfterStart, AfterEntry, AfterAdoptStart DEF LockLatch, Advance
  <2>4. /\ t.kind = tx[p].kind /\ t.step = "write" /\ t.fits = tx[p].fits
        /\ t.qty = tx[p].qty /\ tx'[p] = t
    BY <1>1, <2>1, <2>3 DEF Tx, Steps
  <2>5. OwnedF' = OwnedF
    BY <1>0 DEF OwnedF, Owned
  <2>6. late = 0 => ClaimOK(p)' /\ FitOK(p)'
    BY <1>0, <2>2, <2>4, <2>5 DEF Whole, ClaimOK, FitOK, Reading
  <2> QED
    BY <1>0, <2>3, <2>6, RowsSame, OwnWhole
<1> QED
  BY <1>2, <1>3, <1>4

LEMMA BeginWhole ==
    ASSUME Whole, Stock', NEW p \in Procs, NEW b \in Books, NEW qty \in Nat,
           NEW kind \in Kinds \ {"none"}, Begin(p, kind, b, qty)
    PROVE  Whole'
<1>0. Stock /\ UNCHANGED <<row, venue, exit, base, late>>
  BY DEF Whole, Begin
<1>1. PICK t : t = [NoTx EXCEPT !.kind = kind, !.step = Plan(kind)[1], !.book = b, !.qty = qty]
  OBVIOUS
<1>2. kind \in Adoptions => Plan(kind)[1] = "base"
  BY DEF Plan, Kinds, Adoptions
<1>3. t.kind = kind /\ (kind \in Adoptions => t.step = "base")
  BY <1>1, <1>2 DEF NoTx
<1>4. tx' = [tx EXCEPT ![p] = t] /\ tx'[p] = t
  BY <1>0, <1>1 DEF Begin, Stock, Inv, Typed
<1>5. ClaimOK(p)' /\ FitOK(p)'
  BY <1>3, <1>4 DEF ClaimOK, FitOK, Reading
<1> QED
  BY <1>0, <1>4, <1>5, RowsSame, OwnWhole

\* An unknown order, and a filled one whose fill is not applied by the time the
\* positions are read, leave the claims unresolved.
LEMMA ReadOrdersWhole ==
    ASSUME Whole, NEW p \in Procs, ReadOrders(p)
    PROVE  Whole'
<1>0. Stock /\ Stock' /\ UNCHANGED <<row, venue, exit, base, late>>
  BY ReadStock DEF Whole, ReadOrders
<1>1. PICK b \in tx[p].left, t \in Tx :
         /\ tx' = [tx EXCEPT ![p] = t] /\ b \in Books
         /\ t.kind = tx[p].kind /\ t.book = tx[p].book /\ t.qty = tx[p].qty
         /\ t.step = "positions" /\ t.cur = b /\ t.left = tx[p].left \ {b}
         /\ t.claimed = tx[p].claimed + (IF row[b].entry \in Working THEN 1 ELSE 0)
         /\ t.unsettled = IF row[b].entry = "filled" THEN {b} ELSE {}
         /\ t.unresolved <=> tx[p].unresolved \/ row[b].entry = "unknown"
  BY <1>0, ReadOrdersTx DEF Stock
<1>2. /\ tx'[p] = t /\ tx[p].kind \in Adoptions /\ tx[p].step = "orders" /\ tx[p].claimed \in Nat
  BY <1>0, <1>1, ReadKinds DEF ReadOrders, Stock, Inv, Typed, Tx, Adoptions
<1>3. ASSUME late = 0 PROVE ClaimOK(p)' /\ FitOK(p)'
  <2>1. PICK c \in [Books -> Nat] : Covers(p, c)
    BY <1>2, <1>3 DEF Whole, ClaimOK, Reading
  <2>2. PICK e : e = IF row[b].entry \in Working THEN 1 ELSE 0
    OBVIOUS
  <2>3. PICK d : d = [c EXCEPT ![b] = e]
    OBVIOUS
  <2>4. /\ e \in Nat /\ d \in [Books -> Nat] /\ d[b] = e
        /\ \A q \in Books \ {b} : c[q] = d[q]
    BY <1>1, <2>1, <2>2, <2>3
  <2>5. Total(d) <= t.claimed
    <3>1. c \in [Books -> Int] /\ d \in [Books -> Int] /\ c[b] \in Nat
      BY <1>1, <2>1, <2>4
    <3>2. Total(d) = Total(c) + d[b] - c[b] /\ Total(c) \in Int
      BY <1>1, <2>4, <3>1, TotalChange, TotalInt
    <3>3. Total(c) <= tx[p].claimed /\ t.claimed = tx[p].claimed + e
      BY <1>1, <2>1, <2>2 DEF Covers
    <3> QED
      BY <1>2, <2>4, <3>1, <3>2, <3>3
  <2>6. \A q \in Books : Reach(q)' = Reach(q) /\ (Coming(q)' <=> Coming(q))
    BY <1>0, RowsSame
  <2>7. ~t.unresolved => \A q \in Books \ t.left : q = b \/ Reach(q)' <= d[q]
    BY <1>1, <1>2, <2>1, <2>4, <2>6 DEF Covers
  <2>8. Coming(b) => d[b] > 0 \/ b \in t.unsettled
    <3>1. BookOK(b) /\ row[b].entry \in EntryRows
      BY <1>0, <1>1, BookFacts
    <3>2. Coming(b) => row[b].entry \in Working \/ row[b].entry = "filled"
      BY <1>3, <3>1 DEF Coming, BookOK, Working, EntryRows
    <3> QED
      BY <1>1, <2>2, <2>4, <3>2
  <2>9. Covers(p, d)'
    BY <1>1, <1>2, <2>5, <2>6, <2>7, <2>8 DEF Covers
  <2> QED
    BY <1>1, <1>2, <2>4, <2>9 DEF ClaimOK, FitOK
<1> QED
  BY <1>0, <1>1, <1>3, RowsSame, OwnWhole

LEMMA ReadPositionsWhole ==
    ASSUME Whole, NEW p \in Procs, ReadPositions(p)
    PROVE  Whole'
<1>0. Stock /\ Stock' /\ UNCHANGED <<row, venue, exit, base, late>>
  BY ReadStock DEF Whole, ReadPositions
<1>1. PICK b \in Books, t \in Tx :
         /\ tx' = [tx EXCEPT ![p] = t] /\ b = tx[p].cur
         /\ t.kind = tx[p].kind /\ t.book = tx[p].book /\ t.qty = tx[p].qty
         /\ t.step = IF tx[p].left = {} THEN "balance" ELSE "orders"
         /\ t.left = tx[p].left /\ t.claimed = tx[p].claimed + row[b].pos
         /\ t.unresolved <=> tx[p].unresolved \/ (b \in tx[p].unsettled /\ ~row[b].applied)
  BY <1>0, ReadPositionsTx DEF Stock
<1>2. /\ tx'[p] = t /\ tx[p].kind \in Adoptions /\ tx[p].step = "positions"
      /\ tx[p].claimed \in Nat /\ row[b].pos \in Nat
  BY <1>0, <1>1, ReadKinds, BookFacts DEF ReadPositions, Stock, Inv, Typed, Tx, Adoptions
<1>3. ASSUME late = 0 PROVE ClaimOK(p)' /\ FitOK(p)'
  <2>1. PICK c \in [Books -> Nat] : Covers(p, c)
    BY <1>2, <1>3 DEF Whole, ClaimOK, Reading
  <2>2. PICK n : n = row[b].pos
    OBVIOUS
  <2>3. PICK d : d = [c EXCEPT ![b] = c[b] + n]
    OBVIOUS
  <2>4. /\ n \in Nat /\ d \in [Books -> Nat] /\ d[b] = c[b] + n /\ c[b] \in Nat
        /\ \A q \in Books \ {b} : c[q] = d[q]
    BY <1>1, <1>2, <2>1, <2>2, <2>3
  <2>5. Total(d) <= t.claimed
    <3>1. c \in [Books -> Int] /\ d \in [Books -> Int]
      BY <2>1, <2>4
    <3>2. Total(d) = Total(c) + d[b] - c[b] /\ Total(c) \in Int
      BY <1>1, <2>4, <3>1, TotalChange, TotalInt
    <3>3. Total(c) <= tx[p].claimed /\ t.claimed = tx[p].claimed + n
      BY <1>1, <2>1, <2>2 DEF Covers
    <3> QED
      BY <1>2, <2>4, <3>2, <3>3
  <2>6. \A q \in Books : Reach(q)' = Reach(q) /\ (Coming(q)' <=> Coming(q))
    BY <1>0, RowsSame
  <2>7. ~t.unresolved => Reach(b) <= d[b]
    <3>1. Kept(b) \in Nat /\ Kept(b) <= n
      BY <2>2, <2>4 DEF Kept
    <3>2. ASSUME ~t.unresolved, Coming(b) PROVE c[b] > 0
      <4>1. ~(b \in tx[p].unsettled /\ ~row[b].applied) /\ ~tx[p].unresolved
        BY <1>1, <3>2
      <4>2. c[b] > 0 \/ b \in tx[p].unsettled
        BY <1>1, <1>2, <2>1, <3>2, <4>1 DEF Covers
      <4>3. b \in tx[p].unsettled => row[b].applied
        BY <4>1
      <4>4. ~row[b].applied
        BY <1>0, <1>1, <3>2, BookFacts DEF Coming, BookOK
      <4> QED
        BY <4>2, <4>3, <4>4
    <3> QED
      BY <2>4, <3>1, <3>2 DEF Reach
  <2>8. ~t.unresolved => \A q \in Books \ t.left : Reach(q)' <= d[q]
    BY <1>1, <1>2, <2>1, <2>4, <2>6, <2>7 DEF Covers
  <2>9. Covers(p, d)'
    BY <1>1, <1>2, <2>5, <2>8 DEF Covers
  <2> QED
    BY <1>1, <1>2, <2>4, <2>9 DEF ClaimOK, FitOK
<1> QED
  BY <1>0, <1>1, <1>3, RowsSame, OwnWhole

LEMMA MaxMin ==
    ASSUME NEW x \in Int, NEW y \in Int, NEW n \in Nat, n > 0, n <= Max({0, Min({x, y})})
    PROVE  n <= y
<1>1. PICK m : m = Min({x, y})
  OBVIOUS
<1>2. m \in {x, y} /\ m <= y
  <2>1. \E z \in {x, y} : \A w \in {x, y} : z <= w
    <3>1. x <= y \/ y <= x
      OBVIOUS
    <3> QED
      BY <3>1
  <2> QED
    BY <1>1, <2>1 DEF Min
<1>3. PICK k : k = Max({0, m})
  OBVIOUS
<1>4. k \in {0, m}
  <2>1. \E z \in {0, m} : \A w \in {0, m} : z >= w
    <3>1. m \in Int
      BY <1>2
    <3>2. m <= 0 \/ 0 <= m
      BY <3>1
    <3> QED
      BY <3>1, <3>2
  <2> QED
    BY <1>3, <2>1 DEF Max
<1>5. n <= k
  BY <1>1, <1>3
<1> QED
  BY <1>2, <1>4, <1>5

\* The quantity is judged on claims that cover what every book can come to own.
LEMMA ReadBalanceWhole ==
    ASSUME Whole, NEW p \in Procs, ReadBalance(p)
    PROVE  Whole'
<1>0. Stock /\ Stock' /\ UNCHANGED <<row, venue, exit, base, late>>
  BY ReadStock DEF Whole, ReadBalance
<1>1. PICK t \in Tx :
         /\ tx' = [tx EXCEPT ![p] = t]
         /\ t.kind = tx[p].kind /\ t.book = tx[p].book /\ t.qty = tx[p].qty
         /\ t.step = IF tx[p].kind = "adopt_start" THEN "latch" ELSE "write"
         /\ t.fits <=> tx[p].qty <= Adoptable(tx[p])
  BY <1>0, ReadBalanceTx DEF Stock
<1>2. /\ tx'[p] = t /\ tx[p].kind \in Adoptions /\ tx[p].step = "balance"
      /\ tx[p].claimed \in Nat /\ tx[p].qty \in Nat /\ tx[p].qty > 0
  BY <1>0, <1>1, ReadKinds DEF ReadBalance, Stock, Inv, Typed, Tx, Adoptions, Holds
<1>3. ASSUME late = 0 PROVE ClaimOK(p)' /\ FitOK(p)'
  <2>1. PICK c \in [Books -> Nat] : Covers(p, c)
    BY <1>2, <1>3 DEF Whole, ClaimOK, Reading
  <2>2. Total(c) <= tx[p].claimed /\ (~tx[p].unresolved => \A b \in Books : Reach(b) <= c[b])
    BY <1>2, <2>1 DEF Covers
  <2>3. ASSUME t.fits PROVE tx[p].qty + Total(OwnedF) <= base
    <3>0. Held \in Int /\ base \in Int
      BY <1>0, HeldNat, TotalInt DEF Stock, Held, HeldF
    <3>1. ~tx[p].unresolved /\ tx[p].qty <= base - tx[p].claimed
      <4>1. tx[p].qty <= Adoptable(tx[p])
        BY <1>1, <2>3
      <4>2. ~tx[p].unresolved
        BY <1>2, <4>1 DEF Adoptable
      <4>3. tx[p].qty <= Max({0, Min({base - Held, base - tx[p].claimed})})
        BY <4>1, <4>2 DEF Adoptable
      <4>4. base - Held \in Int /\ base - tx[p].claimed \in Int
        BY <1>2, <3>0
      <4> QED
        BY <1>2, <4>2, <4>3, <4>4, MaxMin
    <3>2. Total(OwnedF) <= Total(c)
      <4>1. c \in [Books -> Int] /\ OwnedF \in [Books -> Int]
        BY <1>0, <2>1, OwnedNat
      <4>2. \A b \in Books : OwnedF[b] <= c[b]
        <5>1. TAKE b \in Books
        <5>2. /\ OwnedF[b] = Owned(b) /\ Owned(b) <= Reach(b) /\ Reach(b) <= c[b]
              /\ Owned(b) \in Nat /\ Reach(b) \in Nat /\ c[b] \in Nat
          BY <1>0, <2>1, <2>2, <3>1, OwnedNat
        <5> QED
          BY <5>2
      <4> QED
        BY <4>1, <4>2, TotalOrder
    <3>3. Total(OwnedF) \in Int /\ Total(c) \in Int
      BY <1>0, <2>1, OwnedNat, TotalInt
    <3> QED
      BY <1>2, <2>2, <3>0, <3>1, <3>2, <3>3
  <2>4. OwnedF' = OwnedF
    BY <1>0 DEF OwnedF, Owned
  <2> QED
    BY <1>0, <1>1, <1>2, <2>3, <2>4 DEF ClaimOK, FitOK, Reading
<1> QED
  BY <1>0, <1>1, <1>3, RowsSame, OwnWhole

\* Nobody else is past its base step while an intent or an adoption is written.
LEMMA AloneHere ==
    ASSUME Stock, NEW p \in Procs, NEW q \in Procs \ {p},
           tx[q].kind \in Adoptions, tx[q].step # "base"
    PROVE  p \notin shared /\ excl # p
BY AdmissionAssumption DEF Stock, Holds, Procs

LEMMA EndWhole ==
    ASSUME Whole, NEW p \in Procs,
           InsertDeployment(p) \/ InsertIntent(p) \/ WriteAdoption(p) \/ RollBack(p)
    PROVE  Whole'
<1>0. Stock /\ Stock' /\ End(p) /\ UNCHANGED <<venue, exit, base, late>>
  BY EndStock DEF Whole, InsertDeployment, InsertIntent, WriteAdoption, RollBack
<1>1. /\ tx[p] \in Tx /\ tx \in [Procs -> Tx] /\ row \in [Books -> Row] /\ Holds(p) /\ TxOK(p)
  BY <1>0 DEF Stock, Inv, Typed
<1>2. tx' = [tx EXCEPT ![p] = NoTx] /\ tx'[p] = NoTx /\ NoTx.kind = "none"
  BY <1>0, <1>1 DEF End, NoTx
<1>3. ClaimOK(p)' /\ FitOK(p)'
  BY <1>2 DEF ClaimOK, FitOK, Adoptions
<1>4. PICK d : d = tx[p].book
  OBVIOUS
<1>5. CASE InsertDeployment(p)
  <2>1. d \in Books /\ row' = [row EXCEPT ![d].exists = TRUE]
    BY <1>1, <1>4, <1>5 DEF InsertDeployment, At, Holds
  <2>2. \A b \in Books : /\ row'[b].entry = row[b].entry /\ row'[b].pos = row[b].pos
                         /\ row'[b].applied = row[b].applied
    BY <1>1, <2>1 DEF Row
  <2>3. \A b \in Books : /\ Kept(b)' = Kept(b) /\ (Coming(b)' <=> Coming(b))
                         /\ Owned(b)' = Owned(b)
    BY <1>0, <2>2 DEF Coming, Owned, Kept
  <2>4. \A b \in Books : Reach(b)' = Reach(b)
    BY <2>3 DEF Reach
  <2> QED
    BY <1>0, <1>2, <1>3, <2>3, <2>4, OwnWhole
<1>6. CASE RollBack(p)
  BY <1>0, <1>2, <1>3, <1>6, RowsSame, OwnWhole DEF RollBack
<1>7. CASE InsertIntent(p)
  <2>1. /\ d \in Books /\ row' = [row EXCEPT ![d].entry = "intent"]
        /\ tx[p].kind = "entry" /\ p \in shared
    BY <1>1, <1>4, <1>7 DEF InsertIntent, At, Holds
  <2>2. \A b \in Books : row'[b].pos = row[b].pos /\ row'[b].applied = row[b].applied
    BY <1>1, <2>1 DEF Row
  <2>3. OwnedF' = OwnedF
    BY <1>0, <2>2 DEF OwnedF, Owned
  <2>4. ASSUME NEW q \in Procs PROVE ClaimOK(q)' /\ FitOK(q)'
    <3>1. CASE q = p
      BY <1>3, <3>1
    <3>2. CASE q # p
      <4>1. tx'[q] = tx[q]
        BY <1>1, <1>2, <3>2
      <4>2. ~(tx[q].kind \in Adoptions /\ tx[q].step # "base")
        BY <1>0, <2>1, <3>2, AloneHere
      <4> QED
        BY <4>1, <4>2 DEF ClaimOK, FitOK, Reading
    <3> QED
      BY <3>1, <3>2
  <2> QED
    BY <1>0, <2>3, <2>4 DEF Whole
<1>8. CASE WriteAdoption(p)
  <2>1. /\ d \in Books /\ row[d].pos = 0 /\ tx[p].fits /\ tx[p].kind \in Adoptions
        /\ row' = [row EXCEPT ![d].exists = TRUE, ![d].pos = tx[p].qty]
        /\ excl = p /\ tx[p].step = "write" /\ tx[p].qty \in Nat
    BY <1>1, <1>4, <1>8 DEF WriteAdoption, At, Holds, Adoptions, Tx
  <2>2. \A b \in Books : /\ row'[b].pos = IF b = d THEN tx[p].qty ELSE row[b].pos
                         /\ row'[b].applied = row[b].applied
    BY <1>1, <2>1 DEF Row
  <2>3. Owned(d)' <= Owned(d) + tx[p].qty /\ \A b \in Books \ {d} : Owned(b)' = Owned(b)
    <3>1. \A b \in Books \ {d} : Owned(b)' = Owned(b)
      BY <1>0, <2>2 DEF Owned
    <3>2. PICK x \in Nat : x = IF venue[d] = "executed" /\ ~row[d].applied THEN 1 ELSE 0
      OBVIOUS
    <3>3. Owned(d) = 0 + x
      BY <2>1, <3>2 DEF Owned
    <3>4. Owned(d)' = (IF exit[d] = "sold" THEN 0 ELSE tx[p].qty) + x
      BY <1>0, <2>1, <2>2, <3>2 DEF Owned
    <3>5. Owned(d)' <= Owned(d) + tx[p].qty
      <4>1. CASE exit[d] = "sold"
        BY <2>1, <3>2, <3>3, <3>4, <4>1
      <4>2. CASE exit[d] # "sold"
        BY <2>1, <3>2, <3>3, <3>4, <4>2
      <4> QED
        BY <4>1, <4>2
    <3> QED
      BY <3>1, <3>5
  <2>4. ASSUME late = 0 PROVE Total(OwnedF)' <= base'
    <3>1. tx[p].qty + Total(OwnedF) <= base
      BY <2>1, <2>4 DEF Whole, FitOK
    <3>2. /\ OwnedF \in [Books -> Int] /\ OwnedF' \in [Books -> Int] /\ Total(OwnedF) \in Int
          /\ OwnedF[d] = Owned(d) /\ OwnedF'[d] = Owned(d)' /\ Owned(d) \in Int /\ Owned(d)' \in Int
      BY <1>0, <2>1, OwnedNat, OwnedNatPrimed
    <3>3. \A b \in Books \ {d} : OwnedF[b] = OwnedF'[b]
      BY <2>3 DEF OwnedF
    <3>4. Total(OwnedF') = Total(OwnedF) + OwnedF'[d] - OwnedF[d]
      BY <2>1, <3>2, <3>3, TotalChange
    <3>5. base \in Int /\ base' = base
      BY <1>0 DEF Stock
    <3>6. Total(OwnedF') <= base'
      BY <2>1, <2>3, <3>1, <3>2, <3>4, <3>5
    <3> QED
      BY <3>6
  <2>5. ASSUME NEW q \in Procs PROVE ClaimOK(q)' /\ FitOK(q)'
    <3>1. CASE q = p
      BY <1>3, <3>1
    <3>2. CASE q # p
      <4>1. tx'[q] = tx[q]
        BY <1>1, <1>2, <3>2
      <4>2. ~(tx[q].kind \in Adoptions /\ tx[q].step # "base")
        BY <1>0, <2>1, <3>2, AloneHere
      <4> QED
        BY <4>1, <4>2 DEF ClaimOK, FitOK, Reading
    <3> QED
      BY <3>1, <3>2
  <2> QED
    BY <1>0, <2>4, <2>5 DEF Whole
<1> QED
  BY <1>5, <1>6, <1>7, <1>8

LEMMA NextWhole == Whole /\ [Next]_vars => Whole'
<1> SUFFICES ASSUME Whole, [Next]_vars PROVE Whole'
  OBVIOUS
<1>0. Stock /\ Stock'
  BY NextStock DEF Whole
<1>1. ASSUME NEW p \in Procs, Proceed(p) \/ RollBack(p) PROVE Whole'
  BY <1>1, LockWhole, ReadOrdersWhole, ReadPositionsWhole, ReadBalanceWhole, EndWhole DEF Proceed
<1>2. ASSUME NEW p \in Entrants, NEW b \in Books, BeginStart(p, b) \/ BeginEntry(p, b)
      PROVE Whole'
  <2>1. p \in Procs /\ 0 \in Nat /\ {"start", "entry"} \subseteq Kinds \ {"none"}
    BY DEF Procs, Kinds
  <2> QED
    BY <1>0, <1>2, <2>1, BeginWhole DEF BeginStart, BeginEntry
<1>3. ASSUME NEW p \in Adopters, NEW b \in Books, NEW qty \in 1..External,
             BeginAdoption(p, b, qty)
      PROVE Whole'
  <2>1. p \in Procs /\ qty \in Nat /\ Adoptions \subseteq Kinds \ {"none"}
    BY AdmissionAssumption DEF Procs, Kinds, Adoptions
  <2>2. PICK kind \in Adoptions : Begin(p, kind, b, qty)
    BY <1>3 DEF BeginAdoption, Adoptions
  <2> QED
    BY <1>0, <2>1, <2>2, BeginWhole
<1>4. CASE SetLatch \/ UNCHANGED vars
  <2>1. UNCHANGED <<tx, row, venue, exit, base, late>>
    BY <1>4 DEF SetLatch, vars
  <2>2. OwnedF' = OwnedF
    BY <2>1 DEF OwnedF, Owned
  <2>3. \A b \in Books : Reach(b)' = Reach(b) /\ (Coming(b)' <=> Coming(b))
    BY <2>1, RowsSame
  <2>4. \A p \in Procs : (ClaimOK(p) => ClaimOK(p)') /\ (FitOK(p) => FitOK(p)')
    <3>1. TAKE p \in Procs
    <3>2. tx[p].step = "positions" => tx[p].cur \in Books
      BY <1>0 DEF Stock, Inv, TxOK
    <3>3. \A c \in [Books -> Nat] : Covers(p, c) => Covers(p, c)'
      BY <2>1, <2>3, <3>2 DEF Covers
    <3> QED
      BY <2>1, <2>2, <3>3 DEF ClaimOK, FitOK
  <2> QED
    BY <1>0, <2>1, <2>2, <2>4 DEF Whole
<1> QED
  BY <1>1, <1>2, <1>3, <1>4, BookWhole DEF Next, BookStep

\* For any number of books, tasks and adoptions, the books together never own
\* more than the account holds: an adoption under the exclusive base lock claims
\* for every book what it can still come to own, one book and one table at a
\* time, while orders execute, fills are booked and exits sell (adopt_inventory,
\* lock_entry_base).
THEOREM NothingOwnedTwice == Spec => []NothingTwiceOwned
<1>1. Whole => NothingTwiceOwned
  BY DEF Whole, NothingTwiceOwned, OwnedF
<1> QED
  BY <1>1, InitWhole, NextWhole, PTL DEF Spec
=============================================================================
