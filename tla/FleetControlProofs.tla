------------------------- MODULE FleetControlProofs -------------------------
(***************************************************************************)
(* Proofs, for any keys, processes, books and bounds, of what the receipts *)
(* of fleet operations are worth: whatever is lost, a receipt never claims *)
(* an effect that was not written and no effect is repeated; and while no  *)
(* session is lost the receipts are exactly the effects, an accepted       *)
(* operation is complete and a finished one never changes.                 *)
(***************************************************************************)
EXTENDS FleetControl, TLAPS

Memory == [op : Operation, todo : SUBSET (Books \X Nat),
           target : Books \cup {Nobody}]
Row == [status : {"absent", "active", "stopped"},
        command : {"none", "managed_shutdown", "flatten"}, revision : Nat]

\* A process that has opened its key's operation.
Active == {"applying", "rereading", "failing", "finishing"}

\* A request confirms a book at one revision.
OneEach(targets) == \A t1, t2 \in targets : t1[1] = t2[1] => t1 = t2

\* The process cannot have lost its guard: only a book command loses it.
Held(p) == drops = 0 \/ Asked(p).action \in LatchActions

\* The operation a process works on is its key's, and asks what it was asked.
OpenKey(p) ==
    /\ ops[Key(p)].status # "none"
    /\ ops[Key(p)].request = Asked(p)
    /\ mem[p].op.request = Asked(p)
    /\ mem[p].op.status # "none"
    /\ mem[p].op.latched = ops[Key(p)].latched
    /\ mem[p].todo \subseteq Asked(p).targets

\* A process holds its key's guard while it may, and what it remembers was done.
ProcOK(p) ==
    /\ OneEach(Asked(p).targets)
    /\ pc[p] \notin Active => mem[p] = Forgotten
    /\ pc[p] \in Active => OpenKey(p)
    /\ pc[p] = "opening" \/ (pc[p] \in Active /\ Held(p)) => guard[Key(p)] = p
    /\ pc[p] \in {"rereading", "failing"} =>
          mem[p].target \in Books /\ Asked(p).action \in StopActions
    /\ \A b \in Books : <<b, "command_recorded">> \in mem[p].op.results => sent[Key(p)][b] = 1
    /\ Asked(p).action \in StopActions => ~mem[p].op.latched

\* The book has moved past the revision at which the key may command it.
Spent(k, b) ==
    /\ row[b].status # "absent"
    /\ \A t \in ops[k].request.targets : t[1] = b => t[2] < row[b].revision

\* A key's receipts claim no more than was written, and what it has commanded
\* it cannot command again.
KeyOK(k) ==
    /\ OneEach(ops[k].request.targets)
    /\ written[k] = OneIf(ops[k].latched)
    /\ ops[k].request.action \in StopActions => ~ops[k].latched
    /\ ops[k].status = "none" => ops[k] = NoOperation /\ \A b \in Books : sent[k][b] = 0
    /\ \A b \in Books :
          /\ sent[k][b] \in {0, 1}
          /\ sent[k][b] = 1 => Spent(k, b)
          /\ <<b, "command_recorded">> \in ops[k].results => sent[k][b] = 1

Inv == TypeOK /\ (\A p \in APIs : ProcOK(p)) /\ (\A k \in Keys : KeyOK(k))

-----------------------------------------------------------------------------
LEMMA Constants == NoRequest \in Request /\ NoOperation \in Operation /\ Forgotten \in Memory
<1>1. NoRequest \in Request
  BY DEF NoRequest, Request, LatchActions, Modes
<1>2. NoOperation \in Operation
  BY <1>1 DEF NoOperation, Operation
<1> QED
  BY <1>1, <1>2 DEF Forgotten, Memory

LEMMA InitInv == Init => Inv
<1> SUFFICES ASSUME Init PROVE Inv
  OBVIOUS
<1>1. TypeOK
  <2>1. req \in [APIs -> [key : Keys, request : Request]]
    BY Constants DEF Init
  <2>2. row \in [Books -> Row]
    BY DEF Init, Row, Fresh, Absent
  <2> QED
    BY <2>1, <2>2, Constants, FleetAssumption
    DEF Init, TypeOK, Memory, Row, APIStates, Modes
<1>2. ASSUME NEW p \in APIs PROVE ProcOK(p)
  <2>1. pc[p] = "idle" /\ mem[p] = Forgotten /\ Asked(p) = NoRequest
    BY DEF Init, Asked
  <2> QED
    BY <2>1 DEF ProcOK, OneEach, NoRequest, Forgotten, NoOperation, Active
<1>3. ASSUME NEW k \in Keys PROVE KeyOK(k)
  BY DEF Init, KeyOK, OneEach, NoRequest, NoOperation, OneIf
<1> QED
  BY <1>1, <1>2, <1>3 DEF Inv

-----------------------------------------------------------------------------
\* What TypeOK says of one process.
LEMMA ProcTyped ==
    ASSUME TypeOK, NEW p \in APIs
    PROVE  /\ Key(p) \in Keys /\ Asked(p) \in Request /\ mem[p] \in Memory
           /\ ops[Key(p)] \in Operation /\ pc[p] \in APIStates
           /\ req[p] = [key |-> Key(p), request |-> Asked(p)]
<1>1. req[p] \in [key : Keys, request : Request]
  BY DEF TypeOK
<1> QED
  BY <1>1 DEF TypeOK, Key, Asked, Memory

LEMMA OpenedTyped ==
    ASSUME NEW op \in Operation PROVE Opened(op) \in Memory
<1>1. {t \in op.request.targets : t[1] \notin Receipted(op)} \in SUBSET (Books \X Nat)
  BY DEF Operation, Request
<1> QED
  BY <1>1 DEF Opened, Memory

LEMMA RequestsTyped ==
    ASSUME Inv, NEW k \in Keys, NEW r \in Previewed \cup Repeated(k)
    PROVE  r \in Request /\ OneEach(r.targets)
<1>1. ASSUME NEW a \in Actions \cap LatchActions, NEW s \in Scopes, r = LatchRequest(a, s)
      PROVE  r \in Request /\ OneEach(r.targets)
  <2>1. [m \in Modes |-> IF m \in s THEN latch[m].revision ELSE 0] \in [Modes -> Nat]
    BY DEF Inv, TypeOK
  <2>2. s \in SUBSET Modes
    BY FleetAssumption
  <2> QED
    BY <1>1, <2>1, <2>2 DEF LatchRequest, Request, OneEach
<1>2. ASSUME NEW a \in Actions \cap StopActions, NEW s \in Scopes, NEW c \in Choices,
             r = StopRequest(a, s, c)
      PROVE  r \in Request /\ OneEach(r.targets)
  <2>1. {<<b, row[b].revision>> : b \in c} \in SUBSET (Books \X Nat)
    BY FleetAssumption DEF Inv, TypeOK
  <2>2. [m \in Modes |-> 0] \in [Modes -> Nat] /\ s \in SUBSET Modes
    BY FleetAssumption
  <2>3. OneEach({<<b, row[b].revision>> : b \in c})
    BY DEF OneEach
  <2> QED
    BY <1>2, <2>1, <2>2, <2>3 DEF StopRequest, Request
<1>3. CASE r \in Repeated(k)
  <2>1. \A q \in APIs : req[q].request \in Request /\ OneEach(req[q].request.targets)
    BY ProcTyped DEF Inv, ProcOK, Asked
  <2>2. ops[k].request \in Request /\ OneEach(ops[k].request.targets)
    BY DEF Inv, TypeOK, Operation, KeyOK
  <2> QED
    BY <1>3, <2>1, <2>2 DEF Repeated
<1> QED
  BY <1>1, <1>2, <1>3 DEF Previewed

-----------------------------------------------------------------------------
\* What a step may do to a process that does not take it.
LEMMA OtherKept ==
    ASSUME NEW q \in APIs, ProcOK(q),
           pc'[q] = pc[q], mem'[q] = mem[q], req'[q] = req[q],
           drops' = 0 => drops = 0,
           guard[Key(q)] = q => guard'[Key(q)] = q,
           pc[q] \in Active => /\ ops'[Key(q)].status # "none"
                               /\ ops'[Key(q)].request = ops[Key(q)].request
                               /\ ops'[Key(q)].latched = ops[Key(q)].latched,
           \A b \in Books : sent[Key(q)][b] = 1 => sent'[Key(q)][b] = 1
    PROVE  ProcOK(q)'
<1>1. Key(q)' = Key(q) /\ Asked(q)' = Asked(q)
  BY DEF Key, Asked
<1>2. Held(q)' => Held(q)
  BY <1>1 DEF Held
<1>3. OpenKey(q) /\ pc[q] \in Active => OpenKey(q)'
  BY <1>1 DEF OpenKey
<1> QED
  BY <1>1, <1>2, <1>3 DEF ProcOK

\* A row never goes back to an earlier revision, nor away.
Forward(b) == row[b].status # "absent" => /\ row'[b].status # "absent"
                                          /\ row[b].revision <= row'[b].revision

LEMMA SpentKept ==
    ASSUME TypeOK, TypeOK', NEW k \in Keys, NEW b \in Books, Spent(k, b), Forward(b),
           ops'[k].request = ops[k].request
    PROVE  Spent(k, b)'
<1>1. row[b].revision \in Nat /\ row'[b].revision \in Nat
  BY DEF TypeOK
<1>2. \A t \in ops[k].request.targets : t[2] \in Nat
  BY DEF TypeOK, Operation, Request
<1> QED
  BY <1>1, <1>2 DEF Spent, Forward

\* What a step may do to a key it does not write.
LEMMA KeyKept ==
    ASSUME TypeOK, TypeOK', NEW k \in Keys, KeyOK(k), ops'[k] = ops[k],
           written'[k] = written[k], sent'[k] = sent[k], \A b \in Books : Forward(b)
    PROVE  KeyOK(k)'
<1>1. ASSUME NEW b \in Books, Spent(k, b) PROVE Spent(k, b)'
  BY <1>1, SpentKept
<1> QED
  BY <1>1 DEF KeyOK

\* A step that leaves the books, the operations and what was sent alone.
LEMMA LocalStep ==
    ASSUME Inv, TypeOK', NEW p \in APIs, ProcOK(p)',
           UNCHANGED <<row, ops, drops, sent, written>>,
           \A q \in APIs \ {p} : /\ pc'[q] = pc[q] /\ mem'[q] = mem[q] /\ req'[q] = req[q]
                                 /\ guard[Key(q)] = q => guard'[Key(q)] = q
    PROVE  Inv'
<1>1. ASSUME NEW q \in APIs PROVE ProcOK(q)'
  <2>1. CASE q = p
    BY <2>1
  <2>2. CASE q # p
    <3>1. ProcOK(q)
      BY DEF Inv
    <3>2. pc[q] \in Active => ops[Key(q)].status # "none"
      BY <3>1 DEF ProcOK, OpenKey
    <3> QED
      BY <2>2, <3>1, <3>2, OtherKept
  <2> QED
    BY <2>1, <2>2
<1>2. ASSUME NEW k \in Keys PROVE KeyOK(k)'
  <2>1. \A b \in Books : Forward(b)
    BY DEF Forward, Inv, TypeOK
  <2> QED
    BY <2>1, KeyKept DEF Inv
<1> QED
  BY <1>1, <1>2 DEF Inv

\* The end of a request gives up locks that are its own and forgets the rest.
LEMMA EndProc ==
    ASSUME Inv, NEW p \in APIs, End(p)
    PROVE  /\ guard' \in [Keys -> APIs \cup {Nobody}]
           /\ rowLock' \in [Modes -> APIs \cup {Nobody}]
           /\ pc' \in [APIs -> APIStates]
           /\ req' \in [APIs -> [key : Keys, request : Request]]
           /\ mem' \in [APIs -> Memory]
           /\ ProcOK(p)'
           /\ \A q \in APIs \ {p} : /\ pc'[q] = pc[q] /\ mem'[q] = mem[q] /\ req'[q] = req[q]
                                    /\ guard[Key(q)] = q => guard'[Key(q)] = q
<1>1. guard' \in [Keys -> APIs \cup {Nobody}] /\ rowLock' \in [Modes -> APIs \cup {Nobody}]
  BY DEF Inv, TypeOK, End, Released, Unlocked
<1>2. pc' \in [APIs -> APIStates] /\ mem' \in [APIs -> Memory]
  BY Constants DEF Inv, TypeOK, End, APIStates, Memory
<1>3. req' \in [APIs -> [key : Keys, request : Request]] /\ req'[p].request = NoRequest
  BY Constants DEF Inv, TypeOK, End
<1>4. ProcOK(p)'
  <2>1. pc'[p] = "idle" /\ mem'[p] = Forgotten
    BY DEF Inv, TypeOK, End
  <2> QED
    BY <1>3, <2>1
    DEF ProcOK, OneEach, Asked, NoRequest, Forgotten, NoOperation, Active, StopActions
<1>5. ASSUME NEW q \in APIs \ {p}
      PROVE  /\ pc'[q] = pc[q] /\ mem'[q] = mem[q] /\ req'[q] = req[q]
             /\ guard[Key(q)] = q => guard'[Key(q)] = q
  <2>1. Key(q) \in Keys /\ Key(p) \in Keys
    BY ProcTyped DEF Inv
  <2> QED
    BY <2>1 DEF Inv, TypeOK, End, Released
<1> QED
  BY <1>1, <1>2, <1>3, <1>4, <1>5

\* Requests that end without having written anything in this step.
LEMMA EndInv ==
    ASSUME Inv, NEW p \in APIs, Answer(p) \/ LatchConflict(p) \/ Abandon(p)
    PROVE  Inv'
<1>1. End(p) /\ UNCHANGED <<latch, row, ops, drops, saves, sent, written>>
  BY DEF Answer, LatchConflict, Abandon
<1>2. TypeOK'
  BY <1>1, EndProc DEF Inv, TypeOK, Memory
<1> QED
  BY <1>1, <1>2, EndProc, LocalStep

LEMMA SubmitInv ==
    ASSUME Inv, NEW p \in APIs, NEW k \in Keys, Submit(p, k)
    PROVE  Inv'
<1>1. PICK r \in Previewed \cup Repeated(k) :
         req' = [req EXCEPT ![p] = [key |-> k, request |-> r]]
  BY DEF Submit
<1>2. r \in Request /\ OneEach(r.targets)
  BY RequestsTyped
<1>3. TypeOK'
  BY <1>1, <1>2 DEF Submit, Inv, TypeOK, APIStates
<1>4. ProcOK(p)'
  <2>1. mem'[p] = Forgotten /\ pc'[p] = "waiting" /\ req'[p].request = r
    BY <1>1 DEF Submit, Inv, TypeOK, ProcOK, Active
  <2> QED
    BY <1>2, <2>1 DEF ProcOK, Asked, Forgotten, NoOperation, Active
<1>5. \A q \in APIs \ {p} : /\ pc'[q] = pc[q] /\ mem'[q] = mem[q] /\ req'[q] = req[q]
                            /\ guard[Key(q)] = q => guard'[Key(q)] = q
  BY <1>1 DEF Submit, Inv, TypeOK
<1> QED
  BY <1>3, <1>4, <1>5, LocalStep DEF Submit

\* A step of p that changes only where it is and what it remembers.
LEMMA MemoryStep ==
    ASSUME Inv, NEW p \in APIs, NEW s \in APIStates, NEW m \in Memory,
           pc' = [pc EXCEPT ![p] = s], mem' = [mem EXCEPT ![p] = m],
           UNCHANGED <<latch, row, ops, guard, rowLock, req, drops, saves, sent, written>>,
           pc'[p] = s /\ mem'[p] = m => ProcOK(p)'
    PROVE  Inv'
<1>1. TypeOK'
  BY DEF Inv, TypeOK, Memory
<1>2. ProcOK(p)'
  BY DEF Inv, TypeOK
<1>3. \A q \in APIs \ {p} : /\ pc'[q] = pc[q] /\ mem'[q] = mem[q] /\ req'[q] = req[q]
                            /\ guard[Key(q)] = q => guard'[Key(q)] = q
  BY DEF Inv, TypeOK
<1> QED
  BY <1>1, <1>2, <1>3, LocalStep

LEMMA AcquireInv ==
    ASSUME Inv, NEW p \in APIs, Acquire(p)
    PROVE  Inv'
<1>1. TypeOK'
  BY DEF Acquire, Inv, TypeOK, APIStates
<1>2. ProcOK(p)'
  <2>1. pc'[p] = "opening" /\ mem'[p] = Forgotten /\ guard'[Key(p)] = p
    BY ProcTyped DEF Acquire, Inv, TypeOK, ProcOK, Active
  <2>2. Key(p)' = Key(p) /\ Asked(p)' = Asked(p) /\ sent' = sent
    BY DEF Acquire, Key, Asked
  <2> QED
    BY <2>1, <2>2 DEF ProcOK, Active, Inv, Forgotten, NoOperation
<1>3. \A q \in APIs \ {p} : /\ pc'[q] = pc[q] /\ mem'[q] = mem[q] /\ req'[q] = req[q]
                            /\ guard[Key(q)] = q => guard'[Key(q)] = q
  BY ProcTyped, FleetAssumption DEF Acquire, Inv, TypeOK
<1> QED
  BY <1>1, <1>2, <1>3, LocalStep DEF Acquire

LEMMA LockModeInv ==
    ASSUME Inv, NEW p \in APIs, LockMode(p)
    PROVE  Inv'
<1>1. TypeOK'
  <2>1. NextToLock(p) \in Modes
    BY DEF NextToLock, Modes
  <2> QED
    BY <2>1 DEF LockMode, Inv, TypeOK
<1>2. ProcOK(p)'
  BY DEF LockMode, Inv, ProcOK, OpenKey, Held, Key, Asked
<1> QED
  BY <1>1, <1>2, LocalStep DEF LockMode

LEMMA ResumeInv ==
    ASSUME Inv, NEW p \in APIs, Resume(p)
    PROVE  Inv'
<1> DEFINE m == Opened(ops[Key(p)])
<1>1. m \in Memory
  BY ProcTyped, OpenedTyped DEF Inv
<1>2. /\ m.op = ops[Key(p)]
      /\ m.todo \subseteq ops[Key(p)].request.targets
  BY DEF Opened
<1>3. mem' = [mem EXCEPT ![p] = m]
  BY DEF Resume
<1> HIDE DEF m
<1>4. Key(p)' = Key(p) /\ Asked(p)' = Asked(p)
  BY DEF Resume, Key, Asked
<1>5. Key(p) \in Keys /\ KeyOK(Key(p)) /\ ProcOK(p)
  BY ProcTyped DEF Inv
<1>6. ASSUME pc'[p] = "applying", mem'[p] = m PROVE ProcOK(p)'
  <2>1. OpenKey(p)'
    BY <1>2, <1>4, <1>6 DEF Resume, OpenKey
  <2>2. guard'[Key(p)] = p
    BY <1>5 DEF Resume, ProcOK
  <2> QED
    BY <1>2, <1>4, <1>5, <1>6, <2>1, <2>2 DEF Resume, ProcOK, KeyOK, Active
<1> QED
  BY <1>1, <1>3, <1>6, MemoryStep DEF Resume, APIStates

LEMMA LatchReplayedInv ==
    ASSUME Inv, NEW p \in APIs, LatchReplayed(p)
    PROVE  Inv'
<1>1. TypeOK'
  BY DEF LatchReplayed, Inv, TypeOK, APIStates
<1>2. pc[p] = "applying" /\ pc'[p] = "finishing"
  BY DEF LatchReplayed, Latching, Inv, TypeOK
<1>3. ProcOK(p)'
  BY <1>2 DEF LatchReplayed, Inv, ProcOK, OpenKey, Held, Key, Asked, Active
<1>4. \A q \in APIs \ {p} : pc'[q] = pc[q]
  BY DEF LatchReplayed, Inv, TypeOK
<1> QED
  BY <1>1, <1>3, <1>4, LocalStep DEF LatchReplayed

LEMMA RecordFailsInv ==
    ASSUME Inv, NEW p \in APIs, RecordFails(p)
    PROVE  Inv'
<1>1. PICK t \in mem[p].todo : mem' = [mem EXCEPT ![p].target = t[1], ![p].todo = @ \ {t}]
  BY DEF RecordFails
<1> DEFINE m == [op |-> mem[p].op, todo |-> mem[p].todo \ {t}, target |-> t[1]]
<1>2. mem[p] \in Memory /\ t[1] \in Books
  BY ProcTyped DEF Inv, Memory
<1>3. m \in Memory /\ mem' = [mem EXCEPT ![p] = m]
  BY <1>1, <1>2 DEF Inv, TypeOK, Memory
<1>4. m.op = mem[p].op /\ m.todo \subseteq mem[p].todo /\ m.target \in Books
  BY <1>2
<1> HIDE DEF m
<1>5. ASSUME pc'[p] = "rereading", mem'[p] = m PROVE ProcOK(p)'
  BY <1>4, <1>5 DEF RecordFails, Commanding, Inv, ProcOK, OpenKey, Held, Key, Asked, Active
<1> QED
  BY <1>3, <1>5, MemoryStep DEF RecordFails, APIStates

LEMMA RereadInv ==
    ASSUME Inv, NEW p \in APIs, Reread(p)
    PROVE  Inv'
<1> DEFINE k == Key(p)
           found == mem[p].target \in Receipted(ops[k])
           s == IF found THEN "applying" ELSE "failing"
           m == [op |-> ops[k], todo |-> mem[p].todo,
                 target |-> IF found THEN Nobody ELSE mem[p].target]
<1>1. mem[p] \in Memory /\ ops[k] \in Operation /\ k \in Keys
  BY ProcTyped DEF Inv
<1>2. m \in Memory /\ s \in APIStates
  BY <1>1 DEF Memory, APIStates
<1>3. mem' = [mem EXCEPT ![p] = m] /\ pc' = [pc EXCEPT ![p] = s]
  BY <1>1 DEF Reread, Inv, TypeOK, Memory
<1>4. m.op = ops[k] /\ m.todo = mem[p].todo /\ (s = "failing" => m.target = mem[p].target)
  OBVIOUS
<1>5. s \in {"applying", "failing"}
  OBVIOUS
<1> HIDE DEF m, s, found
<1>6. ASSUME pc'[p] = s, mem'[p] = m PROVE ProcOK(p)'
  <2>1. KeyOK(k) /\ ProcOK(p) /\ pc[p] = "rereading"
    BY <1>1 DEF Inv, Reread
  <2>2. k' = k /\ Asked(p)' = Asked(p)
    BY DEF Reread, Key, Asked
  <2>3. OpenKey(p)'
    BY <1>4, <1>6, <2>1, <2>2 DEF Reread, ProcOK, OpenKey, Active
  <2>4. Held(p)' => guard'[k] = p
    BY <2>1, <2>2 DEF Reread, ProcOK, Held, Active
  <2>5. Asked(p).action \in StopActions /\ ~ops[k].latched
    BY <2>1 DEF ProcOK, KeyOK, OpenKey, Active
  <2>6. \A b \in Books : <<b, "command_recorded">> \in m.op.results => sent[k][b] = 1
    BY <1>4, <2>1 DEF KeyOK
  <2> QED
    BY <1>4, <1>5, <1>6, <2>1, <2>2, <2>3, <2>4, <2>5, <2>6 DEF Reread, ProcOK, Active
<1> QED
  BY <1>2, <1>3, <1>6, MemoryStep DEF Reread

LEMMA SurveyInv ==
    ASSUME Inv, NEW p \in APIs, Survey(p)
    PROVE  Inv'
<1>1. PICK omitted \in SUBSET Books :
         mem' = [mem EXCEPT ![p].op.results = @ \cup (omitted \X {"not_confirmed"})]
  BY DEF Survey
<1> DEFINE op == [mem[p].op EXCEPT !.results = @ \cup (omitted \X {"not_confirmed"})]
           m == [op |-> op, todo |-> mem[p].todo, target |-> mem[p].target]
<1>2. mem[p] \in Memory
  BY ProcTyped DEF Inv
<1>3. op \in Operation
  BY <1>2 DEF Memory, Operation, Outcomes
<1>4. m \in Memory /\ mem' = [mem EXCEPT ![p] = m]
  <2>1. mem' = [mem EXCEPT ![p] = [mem[p] EXCEPT !.op = op]]
    BY <1>1, <1>2 DEF Memory, Operation
  <2> HIDE DEF op
  <2>2. [mem[p] EXCEPT !.op = op] = m /\ m \in Memory
    BY <1>2, <1>3 DEF Memory
  <2> QED
    BY <2>1, <2>2
<1>5. /\ m.op.request = mem[p].op.request /\ m.op.latched = mem[p].op.latched
      /\ m.todo = mem[p].todo
      /\ \A b : <<b, "command_recorded">> \in m.op.results =>
                   <<b, "command_recorded">> \in mem[p].op.results
  BY <1>2 DEF Memory, Operation
<1> HIDE DEF m, op
<1>6. ASSUME pc'[p] = "finishing", mem'[p] = m PROVE ProcOK(p)'
  BY <1>5, <1>6 DEF Survey, Commanding, Inv, ProcOK, OpenKey, Held, Key, Asked, Active
<1> QED
  BY <1>4, <1>6, MemoryStep DEF Survey, APIStates

-----------------------------------------------------------------------------
LEMMA Remembers ==
    ASSUME NEW m \in Memory, NEW o \in Operation
    PROVE  /\ [m EXCEPT !.op = o, !.target = Nobody] \in Memory
           /\ [m EXCEPT !.op = o, !.target = Nobody].op = o
           /\ [m EXCEPT !.op = o, !.target = Nobody].todo = m.todo
           /\ [m EXCEPT !.op = o, !.target = Nobody].target = Nobody
BY DEF Memory

\* Two processes that have opened one key, and that cannot have lost its guard,
\* are one process.
LEMMA Alone ==
    ASSUME Inv, NEW p \in APIs, NEW q \in APIs, Key(p) = Key(q),
           pc[p] \in Active, Held(p), pc[q] \in Active
    PROVE  p = q
<1>1. Asked(p) = Asked(q)
  BY DEF Inv, ProcOK, OpenKey
<1>2. Held(q)
  BY <1>1 DEF Held
<1> QED
  BY <1>2 DEF Inv, ProcOK

\* A process saves its operation, without another latch write.
LEMMA SaveStep ==
    ASSUME Inv, TypeOK', NEW p \in APIs, NEW o \in Operation,
           NEW k \in Keys, Key(p) = k, pc[p] \in Active,
           ops'[k] = o, \A other \in Keys \ {k} : ops'[other] = ops[other],
           o.request = Asked(p), o.status # "none", o.latched = mem[p].op.latched,
           drops' = 0 => drops = 0,
           written' = written,
           \A b \in Books : /\ Forward(b)
                            /\ sent'[k][b] \in {0, 1}
                            /\ sent[k][b] = 1 => sent'[k][b] = 1
                            /\ sent'[k][b] = 1 => sent[k][b] = 1 \/ Spent(k, b)'
                            /\ <<b, "command_recorded">> \in o.results => sent'[k][b] = 1,
           \A other \in Keys \ {k} : sent'[other] = sent[other],
           ProcOK(p)',
           \A q \in APIs \ {p} : /\ pc'[q] = pc[q] /\ mem'[q] = mem[q] /\ req'[q] = req[q]
                                 /\ guard[Key(q)] = q => guard'[Key(q)] = q
    PROVE  Inv'
<1>1. ProcOK(p) /\ OpenKey(p) /\ KeyOK(k)
  BY ProcTyped DEF Inv, ProcOK
<1>2. /\ o.request = ops[k].request
      /\ o.latched = ops[k].latched
  BY <1>1 DEF Inv, TypeOK, OpenKey
<1>4. ASSUME NEW q \in APIs PROVE ProcOK(q)'
  <2>1. CASE q = p
    BY <2>1
  <2>2. CASE q # p
    <3>1. ProcOK(q) /\ Key(q) \in Keys
      BY ProcTyped DEF Inv
    <3>2. pc[q] \in Active => /\ ops'[Key(q)].status # "none"
                              /\ ops'[Key(q)].request = ops[Key(q)].request
                              /\ ops'[Key(q)].latched = ops[Key(q)].latched
      BY <1>1, <1>2, <3>1 DEF ProcOK, OpenKey
    <3>3. \A b \in Books : sent[Key(q)][b] = 1 => sent'[Key(q)][b] = 1
      BY <3>1
    <3> QED
      BY <2>2, <3>1, <3>2, <3>3, OtherKept
  <2> QED
    BY <2>1, <2>2
<1>5. ASSUME NEW other \in Keys PROVE KeyOK(other)'
  <2>1. CASE other # k
    BY <2>1, KeyKept DEF Inv
  <2>2. CASE other = k
    <3>1. ASSUME NEW b \in Books, Spent(k, b) PROVE Spent(k, b)'
      <4>1. ops'[k].request = ops[k].request
        BY <1>2
      <4> QED
        BY <3>1, <4>1, SpentKept DEF Inv
    <3>2. \A b \in Books : sent'[k][b] = 1 => Spent(k, b)'
      BY <1>1, <2>2, <3>1 DEF KeyOK
    <3>3. OneEach(ops'[k].request.targets) /\ written'[k] = OneIf(ops'[k].latched)
      BY <1>1, <1>2, <2>2 DEF KeyOK
    <3>4. ops'[k].request.action \in StopActions => ~ops'[k].latched
      BY <1>1, <1>2, <2>2 DEF KeyOK
    <3>5. ops'[k].status # "none"
      BY <1>2, <2>2
    <3>6. \A b \in Books : /\ sent'[k][b] \in {0, 1}
                           /\ <<b, "command_recorded">> \in ops'[k].results => sent'[k][b] = 1
      BY <1>2, <2>2
    <3> QED
      BY <2>2, <3>2, <3>3, <3>4, <3>5, <3>6 DEF KeyOK
  <2> QED
    BY <2>1, <2>2
<1> QED
  BY <1>4, <1>5 DEF Inv

LEMMA SaveFailedInv ==
    ASSUME Inv, NEW p \in APIs, SaveFailed(p)
    PROVE  Inv'
<1> DEFINE o == [mem[p].op EXCEPT !.results = @ \cup {<<mem[p].target, "failed">>}]
           m == [mem[p] EXCEPT !.op = o, !.target = Nobody]
<1>1. /\ mem[p] \in Memory /\ Key(p) \in Keys /\ ProcOK(p) /\ KeyOK(Key(p))
      /\ pc[p] = "failing" /\ mem[p].target \in Books /\ OpenKey(p)
  BY ProcTyped DEF Inv, ProcOK, SaveFailed, Active
<1>2. o \in Operation
  BY <1>1 DEF Memory, Operation, Outcomes
<1>3. /\ o.request = mem[p].op.request /\ o.latched = mem[p].op.latched
      /\ o.status = mem[p].op.status
      /\ \A b : <<b, "command_recorded">> \in o.results =>
                   <<b, "command_recorded">> \in mem[p].op.results
  BY <1>1 DEF Memory, Operation
<1>4. mem' = [mem EXCEPT ![p].op = o, ![p].target = Nobody] /\ ops' = [ops EXCEPT ![Key(p)] = o]
  BY DEF SaveFailed
<1> HIDE DEF o
<1>5. /\ m \in Memory /\ m.op = o /\ m.todo = mem[p].todo
      /\ mem' = [mem EXCEPT ![p] = m]
  BY <1>1, <1>2, <1>4, Remembers
<1> HIDE DEF m
<1>7. TypeOK'
  <2>1. mem' \in [APIs -> Memory]
    BY <1>5 DEF Inv, TypeOK, Memory
  <2>2. ops' \in [Keys -> Operation]
    BY <1>2, <1>4 DEF Inv, TypeOK
  <2>3. pc' \in [APIs -> APIStates]
    BY DEF SaveFailed, Inv, TypeOK, APIStates
  <2> QED
    BY <2>1, <2>2, <2>3 DEF SaveFailed, Inv, TypeOK, Memory
<1>8. ProcOK(p)'
  <2>1. Key(p)' = Key(p) /\ Asked(p)' = Asked(p) /\ Held(p)' = Held(p)
    BY DEF SaveFailed, Key, Asked, Held
  <2>2. /\ mem'[p] = m /\ ops'[Key(p)] = o /\ pc'[p] = "applying"
        /\ guard' = guard /\ sent' = sent
    BY <1>1, <1>4, <1>5 DEF SaveFailed, Inv, TypeOK
  <2>3. OpenKey(p)'
    BY <1>1, <1>3, <1>5, <2>1, <2>2 DEF OpenKey
  <2> QED
    BY <1>1, <1>3, <1>5, <2>1, <2>2, <2>3 DEF ProcOK, Active
<1>9. \A b \in Books :
         /\ Forward(b)
         /\ sent'[Key(p)][b] \in {0, 1}
         /\ sent[Key(p)][b] = 1 => sent'[Key(p)][b] = 1
         /\ sent'[Key(p)][b] = 1 => sent[Key(p)][b] = 1
         /\ <<b, "command_recorded">> \in o.results => sent'[Key(p)][b] = 1
  <2>1. \A b \in Books : Forward(b)
    BY DEF SaveFailed, Forward, Inv, TypeOK
  <2>2. sent' = sent
    BY DEF SaveFailed
  <2> QED
    BY <1>1, <1>3, <2>1, <2>2 DEF ProcOK, KeyOK
<1>10. \A q \in APIs \ {p} : /\ pc'[q] = pc[q] /\ mem'[q] = mem[q] /\ req'[q] = req[q]
                             /\ guard[Key(q)] = q => guard'[Key(q)] = q
  BY <1>4 DEF SaveFailed, Inv, TypeOK
<1>11. /\ pc[p] \in Active /\ o.request = Asked(p) /\ o.status # "none"
       /\ o.latched = mem[p].op.latched
  BY <1>1, <1>3 DEF OpenKey, Active
<1>12. drops' = drops /\ written' = written /\ sent' = sent
  BY DEF SaveFailed
<1>13. ops'[Key(p)] = o /\ \A k \in Keys \ {Key(p)} : ops'[k] = ops[k]
  BY <1>1, <1>4 DEF Inv, TypeOK
<1> QED
  BY <1>1, <1>2, <1>7, <1>8, <1>9, <1>10, <1>11, <1>12, <1>13, SaveStep

LEMMA FinishInv ==
    ASSUME Inv, NEW p \in APIs, Finish(p)
    PROVE  Inv'
<1> DEFINE o == [mem[p].op EXCEPT !.status = StatusFor(Asked(p).action, mem[p].op.results)]
<1>1. /\ mem[p] \in Memory /\ Key(p) \in Keys /\ ProcOK(p) /\ KeyOK(Key(p))
      /\ pc[p] = "finishing" /\ OpenKey(p)
  BY ProcTyped DEF Inv, ProcOK, Finish, Active
<1>2. StatusFor(Asked(p).action, mem[p].op.results) \in Final
  BY DEF StatusFor, Final
<1>3. o \in Operation /\ o.request = mem[p].op.request /\ o.latched = mem[p].op.latched
  BY <1>1, <1>2 DEF Memory, Operation
<1>4. o.status # "none" /\ o.results = mem[p].op.results
  BY <1>1, <1>2 DEF Memory, Operation, Final
<1>5. ops' = [ops EXCEPT ![Key(p)] = o] /\ End(p)
  BY DEF Finish
<1> HIDE DEF o
<1>6. ops'[Key(p)] = o /\ \A k \in Keys \ {Key(p)} : ops'[k] = ops[k]
  BY <1>1, <1>5 DEF Inv, TypeOK
<1>7. ops' \in [Keys -> Operation]
  BY <1>3, <1>5 DEF Inv, TypeOK
<1>8. TypeOK'
  BY <1>5, <1>7, EndProc DEF Finish, Inv, TypeOK, Memory
<1>9. drops' = drops /\ written' = written /\ sent' = sent
  BY DEF Finish
<1>10. \A b \in Books :
         /\ Forward(b)
         /\ sent'[Key(p)][b] \in {0, 1}
         /\ sent[Key(p)][b] = 1 => sent'[Key(p)][b] = 1
         /\ sent'[Key(p)][b] = 1 => sent[Key(p)][b] = 1
         /\ <<b, "command_recorded">> \in o.results => sent'[Key(p)][b] = 1
  <2>1. \A b \in Books : Forward(b)
    BY DEF Finish, Forward, Inv, TypeOK
  <2> QED
    BY <1>1, <1>4, <1>9, <2>1 DEF ProcOK, KeyOK
<1>11. /\ pc[p] \in Active /\ o.request = Asked(p) /\ o.status # "none"
       /\ o.latched = mem[p].op.latched
  BY <1>1, <1>3, <1>4 DEF OpenKey, Active
<1>12. /\ ProcOK(p)'
       /\ \A q \in APIs \ {p} : /\ pc'[q] = pc[q] /\ mem'[q] = mem[q] /\ req'[q] = req[q]
                                /\ guard[Key(q)] = q => guard'[Key(q)] = q
  BY <1>5, EndProc
<1> QED
  BY <1>1, <1>3, <1>6, <1>8, <1>9, <1>10, <1>11, <1>12, SaveStep

-----------------------------------------------------------------------------
\* One book's transaction.  It commands the book at the confirmed revision
\* only, so the key cannot have commanded it before, and leaves it spent.
LEMMA RecordedStep ==
    ASSUME Inv, NEW p \in APIs, Commanding(p), NEW t \in mem[p].todo, Recorded(p, t)
    PROVE  /\ row' \in [Books -> Row] /\ sent' \in [Keys -> [Books -> Nat]]
           /\ ops' \in [Keys -> Operation]
           /\ \A k \in Keys \ {Key(p)} : ops'[k] = ops[k] /\ sent'[k] = sent[k]
           /\ ops'[Key(p)].request = mem[p].op.request
           /\ ops'[Key(p)].latched = mem[p].op.latched
           /\ ops'[Key(p)].status = mem[p].op.status
           /\ \A b \in Books :
                 /\ Forward(b)
                 /\ sent'[Key(p)][b] \in {0, 1}
                 /\ sent[Key(p)][b] = 1 => sent'[Key(p)][b] = 1
                 /\ sent'[Key(p)][b] = 1 =>
                       \/ sent[Key(p)][b] = 1
                       \/ row'[b].status # "absent"
                             /\ \A u \in Asked(p).targets : u[1] = b => u[2] < row'[b].revision
                 /\ <<b, "command_recorded">> \in ops'[Key(p)].results => sent'[Key(p)][b] = 1
<1> DEFINE k == Key(p)
           result == Outcome(t, Asked(p))
           o == [mem[p].op EXCEPT !.results = @ \cup {<<t[1], result>>}]
<1>1. /\ mem[p] \in Memory /\ k \in Keys /\ ProcOK(p) /\ KeyOK(k) /\ OpenKey(p)
      /\ row \in [Books -> Row]
  BY ProcTyped DEF Inv, TypeOK, Row, ProcOK, Commanding, Active
<1>2. t \in Books \X Nat /\ t \in Asked(p).targets
  BY <1>1 DEF Memory, OpenKey
<1>3. PICK b \in Books, r \in Nat : t = <<b, r>>
  BY <1>2
<1>4. result \in Outcomes
  BY DEF Outcome, Outcomes
<1>5. /\ o \in Operation /\ o.request = mem[p].op.request
      /\ o.latched = mem[p].op.latched /\ o.status = mem[p].op.status
      /\ o.results = mem[p].op.results \cup {<<b, result>>}
  BY <1>1, <1>3, <1>4 DEF Memory, Operation
<1>6. ops' = [ops EXCEPT ![k] = o]
  BY DEF Recorded
<1> HIDE DEF o
<1>7. /\ ops' \in [Keys -> Operation] /\ ops'[k] = o
      /\ \A other \in Keys \ {k} : ops'[other] = ops[other]
  BY <1>1, <1>5, <1>6 DEF Inv, TypeOK
<1>8. \A c \in Books : sent[k][c] \in {0, 1}
  BY <1>1 DEF KeyOK
<1>9. \A c \in Books : <<c, "command_recorded">> \in mem[p].op.results => sent[k][c] = 1
  BY <1>1 DEF ProcOK
<1>10. CASE result = "command_recorded"
  <2>1. /\ row[b].status # "absent" /\ row[b].revision = r
    BY <1>3, <1>10 DEF Outcome
  <2>2. row' = [row EXCEPT ![b] = [status |-> "stopped",
                                   command |-> CommandOf(Asked(p).action),
                                   revision |-> r + 1]]
    BY <1>3, <1>10 DEF Recorded
  <2>3. sent' = [sent EXCEPT ![k][b] = @ + 1]
    BY <1>3, <1>10 DEF Recorded
  <2>4. CommandOf(Asked(p).action) \in {"none", "managed_shutdown", "flatten"}
    BY DEF CommandOf
  <2>5. row' \in [Books -> Row]
    BY <1>1, <2>2, <2>4 DEF Row
  <2>6. \A c \in Books : Forward(c)
    BY <1>1, <2>1, <2>2 DEF Forward, Row
  <2>7. sent[k][b] = 0
    <3>1. ops[k].request = Asked(p) /\ (sent[k][b] = 1 => Spent(k, b))
      BY <1>1 DEF KeyOK, OpenKey
    <3>2. sent[k][b] = 1 => r < row[b].revision
      BY <1>2, <1>3, <3>1 DEF Spent
    <3> QED
      BY <1>8, <2>1, <3>2
  <2>8. /\ sent' \in [Keys -> [Books -> Nat]] /\ sent'[k][b] = 1
        /\ \A c \in Books \ {b} : sent'[k][c] = sent[k][c]
        /\ \A other \in Keys \ {k} : sent'[other] = sent[other]
    BY <1>1, <2>3, <2>7 DEF Inv, TypeOK
  <2>9. row'[b].status # "absent" /\ \A u \in Asked(p).targets : u[1] = b => u[2] < row'[b].revision
    <3>1. row'[b].status = "stopped" /\ row'[b].revision = r + 1
      BY <1>1, <2>2
    <3>2. OneEach(Asked(p).targets) /\ t[1] = b
      BY <1>1, <1>3 DEF ProcOK
    <3>3. \A u \in Asked(p).targets : u[1] = b => u = t
      BY <1>2, <3>2 DEF OneEach
    <3> QED
      BY <1>3, <3>1, <3>3
  <2>10. ASSUME NEW c \in Books
         PROVE  /\ sent'[k][c] \in {0, 1}
                /\ sent[k][c] = 1 => sent'[k][c] = 1
                /\ sent'[k][c] = 1 =>
                     \/ sent[k][c] = 1
                     \/ row'[c].status # "absent"
                           /\ \A u \in Asked(p).targets : u[1] = c => u[2] < row'[c].revision
                /\ <<c, "command_recorded">> \in o.results => sent'[k][c] = 1
    <3>1. CASE c = b
      BY <2>8, <2>9, <3>1
    <3>2. CASE c # b
      BY <1>5, <1>8, <1>9, <2>8, <3>2
    <3> QED
      BY <3>1, <3>2
  <2> QED
    BY <1>5, <1>7, <2>5, <2>6, <2>8, <2>10
<1>11. CASE result # "command_recorded"
  <2>1. row' = row /\ sent' = sent
    BY <1>11 DEF Recorded
  <2>2. \A c \in Books : Forward(c)
    BY <1>1, <2>1 DEF Forward, Row
  <2>3. sent \in [Keys -> [Books -> Nat]]
    BY DEF Inv, TypeOK
  <2>4. \A c \in Books : <<c, "command_recorded">> \in o.results => sent[k][c] = 1
    BY <1>5, <1>9, <1>11
  <2> QED
    BY <1>1, <1>5, <1>7, <1>8, <2>1, <2>2, <2>3, <2>4
<1> QED
  BY <1>10, <1>11

\* The invariant after a transaction for one book, for everybody else.
LEMMA RecordedInv ==
    ASSUME Inv, NEW p \in APIs, Commanding(p), NEW t \in mem[p].todo, Recorded(p, t),
           TypeOK', ProcOK(p)', drops' = 0 => drops = 0, written' = written,
           \A q \in APIs \ {p} : /\ pc'[q] = pc[q] /\ mem'[q] = mem[q] /\ req'[q] = req[q]
                                 /\ guard[Key(q)] = q => guard'[Key(q)] = q
    PROVE  Inv'
<1>1. PICK k \in Keys : k = Key(p)
  BY ProcTyped DEF Inv
<1>2. ops'[k] \in Operation /\ OpenKey(p)
  BY <1>1, RecordedStep DEF Inv, ProcOK, Commanding, Active
<1>3. PICK o \in Operation : o = ops'[k]
  BY <1>2
<1>4. /\ o.request = Asked(p) /\ o.status # "none" /\ o.latched = mem[p].op.latched
      /\ pc[p] \in Active
  BY <1>1, <1>2, <1>3, RecordedStep DEF OpenKey, Commanding, Active
<1>5. /\ \A other \in Keys \ {k} : ops'[other] = ops[other] /\ sent'[other] = sent[other]
      /\ ops'[k].request = Asked(p)
  BY <1>1, <1>3, <1>4, RecordedStep
<1>6. ASSUME NEW b \in Books
      PROVE  /\ Forward(b)
             /\ sent'[k][b] \in {0, 1}
             /\ sent[k][b] = 1 => sent'[k][b] = 1
             /\ sent'[k][b] = 1 => sent[k][b] = 1 \/ Spent(k, b)'
             /\ <<b, "command_recorded">> \in o.results => sent'[k][b] = 1
  BY <1>1, <1>3, <1>5, RecordedStep DEF Spent
<1> QED
  BY <1>1, <1>3, <1>4, <1>5, <1>6, SaveStep

LEMMA RecordTargetInv ==
    ASSUME Inv, NEW p \in APIs, RecordTarget(p)
    PROVE  Inv'
<1>1. PICK t \in mem[p].todo :
         /\ Recorded(p, t)
         /\ mem' = [mem EXCEPT ![p].op = ops'[Key(p)], ![p].todo = @ \ {t}]
  BY DEF RecordTarget
<1>2. Commanding(p) /\ UNCHANGED <<latch, guard, rowLock, pc, req, drops, saves, written>>
  BY DEF RecordTarget
<1>3. PICK k \in Keys : k = Key(p)
  BY ProcTyped DEF Inv
<1>4. ops'[k] \in Operation
  BY <1>1, <1>2, <1>3, RecordedStep
<1>5. PICK o \in Operation : o = ops'[k]
  BY <1>4
<1> DEFINE m == [mem[p] EXCEPT !.op = o, !.todo = @ \ {t}]
<1>6. mem[p] \in Memory /\ ProcOK(p) /\ OpenKey(p)
  BY <1>2, ProcTyped DEF Inv, ProcOK, Commanding, Active
<1>7. m \in Memory /\ m.op = o /\ m.todo \subseteq mem[p].todo
  BY <1>6 DEF Memory
<1>8. mem' = [mem EXCEPT ![p] = m]
  BY <1>1, <1>3, <1>5
<1> HIDE DEF m
<1>9. TypeOK'
  <2>1. mem' \in [APIs -> Memory]
    BY <1>7, <1>8 DEF Inv, TypeOK, Memory
  <2> QED
    BY <1>1, <1>2, <2>1, RecordedStep DEF Inv, TypeOK, Memory, Row
<1>10. ProcOK(p)'
  <2>1. mem'[p] = m /\ pc[p] = "applying" /\ pc'[p] = pc[p]
    BY <1>2, <1>8 DEF Inv, TypeOK, Commanding
  <2>2. Key(p)' = k /\ Asked(p)' = Asked(p) /\ Held(p)' = Held(p) /\ Asked(p).action \in StopActions
    BY <1>2, <1>3 DEF Key, Asked, Held, Commanding
  <2>3. /\ o.request = mem[p].op.request /\ o.latched = mem[p].op.latched
        /\ o.status = mem[p].op.status
        /\ \A b \in Books : <<b, "command_recorded">> \in o.results => sent'[k][b] = 1
    BY <1>1, <1>2, <1>3, <1>5, RecordedStep
  <2>4. OpenKey(p)'
    BY <1>5, <1>6, <1>7, <2>1, <2>2, <2>3 DEF OpenKey
  <2>5. Held(p)' => guard'[k] = p
    BY <1>2, <1>3, <1>6, <2>1, <2>2 DEF ProcOK, Active
  <2> QED
    BY <1>6, <1>7, <2>1, <2>2, <2>3, <2>4, <2>5 DEF ProcOK, Active
<1>11. \A q \in APIs \ {p} : /\ pc'[q] = pc[q] /\ mem'[q] = mem[q] /\ req'[q] = req[q]
                             /\ guard[Key(q)] = q => guard'[Key(q)] = q
  BY <1>2, <1>8 DEF Inv, TypeOK
<1> QED
  BY <1>1, <1>2, <1>9, <1>10, <1>11, RecordedInv

LEMMA SessionDroppedInv ==
    ASSUME Inv, NEW p \in APIs, SessionDropped(p)
    PROVE  Inv'
<1>1. PICK t \in mem[p].todo :
         /\ mem' = [mem EXCEPT ![p].target = t[1], ![p].todo = @ \ {t}]
         /\ Recorded(p, t) \/ UNCHANGED <<row, sent, ops>>
  BY DEF SessionDropped
<1>2. /\ Commanding(p) /\ UNCHANGED <<latch, rowLock, req, saves, written>>
      /\ drops' \in 0..MaxDrops /\ drops' # 0
      /\ guard' = Released(p) /\ pc' = [pc EXCEPT ![p] = "rereading"]
  BY FleetAssumption DEF SessionDropped, Inv, TypeOK
<1>3. /\ mem[p] \in Memory /\ t[1] \in Books /\ ProcOK(p) /\ OpenKey(p) /\ pc[p] = "applying"
      /\ Key(p) \in Keys
  BY <1>2, ProcTyped DEF Inv, Memory, ProcOK, Commanding, Active
<1> DEFINE m == [mem[p] EXCEPT !.target = t[1], !.todo = @ \ {t}]
<1>4. /\ m \in Memory /\ m.op = mem[p].op /\ m.todo \subseteq mem[p].todo
      /\ m.target \in Books
  BY <1>3 DEF Memory
<1>5. mem' = [mem EXCEPT ![p] = m]
  BY <1>1
<1> HIDE DEF m
<1>6. /\ mem' \in [APIs -> Memory] /\ pc' \in [APIs -> APIStates]
      /\ guard' \in [Keys -> APIs \cup {Nobody}]
  BY <1>2, <1>3, <1>4, <1>5 DEF Inv, TypeOK, Memory, APIStates, Released
<1>7. TypeOK'
  <2>1. CASE Recorded(p, t)
    BY <1>2, <1>6, <2>1, RecordedStep DEF Inv, TypeOK, Memory, Row
  <2>2. CASE UNCHANGED <<row, sent, ops>>
    BY <1>2, <1>6, <2>2 DEF Inv, TypeOK, Memory
  <2> QED
    BY <1>1, <2>1, <2>2
<1>8. /\ ops'[Key(p)].status # "none" /\ ops'[Key(p)].request = Asked(p)
      /\ ops'[Key(p)].latched = mem[p].op.latched
      /\ \A b \in Books : sent[Key(p)][b] = 1 => sent'[Key(p)][b] = 1
  <2>1. CASE Recorded(p, t)
    BY <1>2, <1>3, <2>1, RecordedStep DEF OpenKey
  <2>2. CASE UNCHANGED <<row, sent, ops>>
    BY <1>3, <2>2 DEF OpenKey
  <2> QED
    BY <1>1, <2>1, <2>2
<1>9. ProcOK(p)'
  <2>1. mem'[p] = m /\ pc'[p] = "rereading"
    BY <1>2, <1>5 DEF Inv, TypeOK
  <2>2. /\ Key(p)' = Key(p) /\ Asked(p)' = Asked(p) /\ ~Held(p)'
        /\ Asked(p).action \in StopActions
    BY <1>2 DEF Key, Asked, Held, Commanding, StopActions, LatchActions
  <2>3. OpenKey(p)'
    BY <1>3, <1>4, <1>8, <2>1, <2>2 DEF OpenKey
  <2> QED
    BY <1>3, <1>4, <1>8, <2>1, <2>2, <2>3 DEF ProcOK, Active
<1>10. \A q \in APIs \ {p} : /\ pc'[q] = pc[q] /\ mem'[q] = mem[q] /\ req'[q] = req[q]
                             /\ guard[Key(q)] = q => guard'[Key(q)] = q
  <2>1. \A q \in APIs : Key(q) \in Keys
    BY ProcTyped DEF Inv
  <2> QED
    BY <1>2, <1>5, <2>1 DEF Inv, TypeOK, Released
<1>11. CASE Recorded(p, t)
  BY <1>2, <1>7, <1>9, <1>10, <1>11, RecordedInv
<1>12. CASE UNCHANGED <<row, sent, ops>>
  <2>1. \A q \in APIs \ {p} : ProcOK(q)'
    <3> SUFFICES ASSUME NEW q \in APIs \ {p} PROVE ProcOK(q)'
      OBVIOUS
    <3>1. ProcOK(q) /\ (pc[q] \in Active => ops[Key(q)].status # "none")
      BY DEF Inv, ProcOK, OpenKey
    <3> QED
      BY <1>2, <1>10, <1>12, <3>1, OtherKept
  <2>2. \A k \in Keys : KeyOK(k)'
    <3>1. \A b \in Books : Forward(b)
      BY <1>12 DEF Forward, Inv, TypeOK
    <3> QED
      BY <1>2, <1>7, <1>12, <3>1, KeyKept DEF Inv
  <2> QED
    BY <1>7, <1>9, <2>1, <2>2 DEF Inv
<1> QED
  BY <1>1, <1>11, <1>12

-----------------------------------------------------------------------------
LEMMA InsertPendingInv ==
    ASSUME Inv, NEW p \in APIs, InsertPending(p)
    PROVE  Inv'
<1> DEFINE o == [NoOperation EXCEPT !.status = "pending", !.request = Asked(p)]
           m == Opened(o)
<1>1. PICK k \in Keys : k = Key(p)
  BY ProcTyped DEF Inv
<1>2. /\ Asked(p) \in Request /\ ProcOK(p) /\ KeyOK(k) /\ pc[p] = "opening"
      /\ ops[k] = NoOperation /\ \A b \in Books : sent[k][b] = 0
  BY <1>1, ProcTyped DEF Inv, InsertPending, KeyOK
<1>3. /\ o \in Operation /\ o.status = "pending" /\ o.request = Asked(p)
      /\ o.results = {} /\ o.latched = FALSE
  BY <1>2, Constants DEF NoOperation, Operation
<1>4. ops' = [ops EXCEPT ![k] = o] /\ mem' = [mem EXCEPT ![p] = m]
  BY <1>1 DEF InsertPending
<1> HIDE DEF o
<1>5. m \in Memory /\ m.op = o /\ m.todo \subseteq Asked(p).targets
  <2>1. m \in Memory
    BY <1>3, OpenedTyped
  <2> QED
    BY <1>3, <2>1 DEF Opened
<1> HIDE DEF m
<1>6. /\ UNCHANGED <<latch, row, guard, rowLock, req, drops, saves, sent, written>>
      /\ pc' = [pc EXCEPT ![p] = "applying"]
  BY DEF InsertPending
<1>7. TypeOK'
  <2>1. mem' \in [APIs -> Memory]
    BY <1>4, <1>5 DEF Inv, TypeOK, Memory
  <2>2. ops' \in [Keys -> Operation]
    BY <1>3, <1>4 DEF Inv, TypeOK
  <2>3. pc' \in [APIs -> APIStates]
    BY <1>6 DEF Inv, TypeOK, APIStates
  <2> QED
    BY <1>6, <2>1, <2>2, <2>3 DEF Inv, TypeOK, Memory
<1>8. /\ mem'[p] = m /\ pc'[p] = "applying" /\ ops'[k] = o
      /\ \A other \in Keys \ {k} : ops'[other] = ops[other]
      /\ \A q \in APIs \ {p} : mem'[q] = mem[q] /\ pc'[q] = pc[q]
  BY <1>4, <1>6 DEF Inv, TypeOK
<1>9. ProcOK(p)'
  <2>1. Key(p)' = k /\ Asked(p)' = Asked(p)
    BY <1>1, <1>6 DEF Key, Asked
  <2>2. OpenKey(p)'
    BY <1>3, <1>5, <1>8, <2>1 DEF OpenKey
  <2> QED
    BY <1>1, <1>2, <1>3, <1>5, <1>6, <1>8, <2>1, <2>2 DEF ProcOK, Active
<1>10. ASSUME NEW q \in APIs \ {p} PROVE ProcOK(q)'
  <2>1. ProcOK(q) /\ Key(q) \in Keys
    BY ProcTyped DEF Inv
  <2>2. pc[q] \in Active => Key(q) # k /\ ops[Key(q)].status # "none"
    BY <1>2, <2>1 DEF ProcOK, OpenKey, NoOperation
  <2> QED
    BY <1>6, <1>8, <2>1, <2>2, OtherKept
<1>11. ASSUME NEW other \in Keys PROVE KeyOK(other)'
  <2>1. CASE other = k
    <3>1. written'[k] = 0
      BY <1>2, <1>6 DEF KeyOK, NoOperation, OneIf
    <3>2. OneEach(o.request.targets) /\ OneIf(o.latched) = 0
      BY <1>2, <1>3 DEF ProcOK, OneIf
    <3>3. \A b \in Books : sent'[k][b] = 0
      BY <1>2, <1>6
    <3> QED
      BY <1>3, <1>8, <2>1, <3>1, <3>2, <3>3 DEF KeyOK
  <2>2. CASE other # k
    <3>1. \A b \in Books : Forward(b)
      BY <1>6 DEF Forward, Inv, TypeOK
    <3> QED
      BY <1>6, <1>7, <1>8, <2>2, <3>1, KeyKept DEF Inv
  <2> QED
    BY <2>1, <2>2
<1> QED
  BY <1>7, <1>9, <1>10, <1>11 DEF Inv

\* The latch is written by a process that cannot have lost its guard, so no
\* other process works on the key and its receipt is the one in the table.
LEMMA ApplyLatchInv ==
    ASSUME Inv, NEW p \in APIs, ApplyLatch(p)
    PROVE  Inv'
<1> DEFINE o == [mem[p].op EXCEPT !.latched = TRUE]
           m == [mem[p] EXCEPT !.op = o]
<1>1. PICK k \in Keys : k = Key(p)
  BY ProcTyped DEF Inv
<1>2. /\ mem[p] \in Memory /\ ProcOK(p) /\ KeyOK(k) /\ pc[p] = "applying"
      /\ OpenKey(p) /\ Held(p)
  BY <1>1, ProcTyped DEF Inv, ApplyLatch, Latching, ProcOK, Held, Active
<1>3. /\ o \in Operation /\ o.status = mem[p].op.status /\ o.request = mem[p].op.request
      /\ o.results = mem[p].op.results /\ o.latched = TRUE
  BY <1>2 DEF Memory, Operation
<1>4. ops' = [ops EXCEPT ![k] = o] /\ mem' = [mem EXCEPT ![p] = m]
  BY <1>1 DEF ApplyLatch
<1> HIDE DEF o
<1>5. m \in Memory /\ m.op = o /\ m.todo = mem[p].todo
  BY <1>2, <1>3 DEF Memory
<1> HIDE DEF m
<1>6. /\ UNCHANGED <<row, guard, req, drops, saves, sent>>
      /\ pc' = [pc EXCEPT ![p] = "finishing"]
      /\ written' = [written EXCEPT ![k] = @ + 1]
      /\ rowLock' = Unlocked(p)
      /\ ~mem[p].op.latched /\ Asked(p).action \in LatchActions
  BY <1>1 DEF ApplyLatch, Latching
<1>7. TypeOK'
  <2>1. mem' \in [APIs -> Memory]
    BY <1>4, <1>5 DEF Inv, TypeOK, Memory
  <2>2. ops' \in [Keys -> Operation]
    BY <1>3, <1>4 DEF Inv, TypeOK
  <2>3. pc' \in [APIs -> APIStates] /\ written' \in [Keys -> Nat]
    BY <1>6 DEF Inv, TypeOK, APIStates
  <2>4. rowLock' \in [Modes -> APIs \cup {Nobody}]
    BY <1>6 DEF Inv, TypeOK, Unlocked
  <2>5. latch' \in [Modes -> [inhibited : BOOLEAN, revision : Nat]]
    <3>1. ASSUME NEW n \in Modes
          PROVE  latch'[n] \in [inhibited : BOOLEAN, revision : Nat]
      <4>1. latch[n] \in [inhibited : BOOLEAN, revision : Nat]
        BY DEF Inv, TypeOK
      <4>2. latch'[n] = IF n \in Asked(p).scope
                        THEN [inhibited |-> Asked(p).action = "disarm",
                              revision |-> latch[n].revision + 1]
                        ELSE latch[n]
        BY DEF ApplyLatch
      <4>3. (Asked(p).action = "disarm") \in BOOLEAN
        OBVIOUS
      <4> QED
        BY <4>1, <4>2, <4>3
    <3>2. latch' = [n \in Modes |-> latch'[n]]
      BY DEF ApplyLatch
    <3> QED
      BY <3>1, <3>2
  <2> QED
    BY <1>6, <2>1, <2>2, <2>3, <2>4, <2>5 DEF Inv, TypeOK, Memory
<1>8. /\ mem'[p] = m /\ pc'[p] = "finishing" /\ ops'[k] = o
      /\ \A other \in Keys \ {k} : ops'[other] = ops[other] /\ written'[other] = written[other]
      /\ \A q \in APIs \ {p} : mem'[q] = mem[q] /\ pc'[q] = pc[q]
      /\ written'[k] = written[k] + 1
  BY <1>4, <1>6 DEF Inv, TypeOK
<1>9. ProcOK(p)'
  <2>1. Key(p)' = k /\ Asked(p)' = Asked(p) /\ Asked(p).action \notin StopActions
    BY <1>1, <1>6 DEF Key, Asked, LatchActions, StopActions
  <2>2. OpenKey(p)'
    BY <1>1, <1>2, <1>3, <1>5, <1>8, <2>1 DEF OpenKey
  <2>3. guard'[k] = p
    BY <1>1, <1>2, <1>6 DEF ProcOK, Active
  <2> QED
    BY <1>1, <1>2, <1>3, <1>5, <1>6, <1>8, <2>1, <2>2, <2>3 DEF ProcOK, Active
<1>10. ASSUME NEW q \in APIs \ {p} PROVE ProcOK(q)'
  <2>1. ProcOK(q) /\ Key(q) \in Keys
    BY ProcTyped DEF Inv
  <2>2. pc[q] \in Active => Key(q) # k /\ ops[Key(q)].status # "none"
    BY <1>1, <1>2, <2>1, Alone DEF ProcOK, OpenKey, Active
  <2> QED
    BY <1>6, <1>8, <2>1, <2>2, OtherKept
<1>11. ASSUME NEW other \in Keys PROVE KeyOK(other)'
  <2>1. \A b \in Books : Forward(b)
    BY <1>6 DEF Forward, Inv, TypeOK
  <2>2. CASE other = k
    <3>1. ops[k].request = o.request /\ o.request.action \notin StopActions /\ o.status # "none"
      BY <1>1, <1>2, <1>3, <1>6 DEF OpenKey, LatchActions, StopActions
    <3>2. written'[k] = 1
      BY <1>1, <1>2, <1>6, <1>8 DEF OpenKey, KeyOK, OneIf
    <3>3. \A b \in Books : <<b, "command_recorded">> \in o.results => sent[k][b] = 1
      BY <1>1, <1>2, <1>3 DEF ProcOK
    <3>4. \A b \in Books : Spent(k, b) => Spent(k, b)'
      BY <1>6, <1>8, <3>1 DEF Spent
    <3> QED
      BY <1>2, <1>3, <1>6, <1>8, <2>2, <3>1, <3>2, <3>3, <3>4 DEF KeyOK, OneIf
  <2>3. CASE other # k
    BY <1>6, <1>7, <1>8, <2>1, <2>3, KeyKept DEF Inv
  <2> QED
    BY <2>2, <2>3
<1> QED
  BY <1>7, <1>9, <1>10, <1>11 DEF Inv

-----------------------------------------------------------------------------
\* Other writers move books and latches forward.
LEMMA OutsideStep ==
    ASSUME Inv, TypeOK', \A b \in Books : Forward(b),
           UNCHANGED <<ops, guard, pc, req, mem, drops, sent, written>>
    PROVE  Inv'
<1>1. ASSUME NEW q \in APIs PROVE ProcOK(q)'
  BY DEF Inv, ProcOK, OpenKey, Held, Key, Asked
<1>2. ASSUME NEW k \in Keys PROVE KeyOK(k)'
  BY KeyKept DEF Inv
<1> QED
  BY <1>1, <1>2 DEF Inv

LEMMA CreateDeploymentInv ==
    ASSUME Inv, NEW b \in Books, CreateDeployment(b)
    PROVE  Inv'
<1>1. TypeOK'
  BY DEF CreateDeployment, Inv, TypeOK, Fresh
<1>2. \A c \in Books : Forward(c)
  BY DEF CreateDeployment, Inv, TypeOK, Fresh, Forward
<1> QED
  BY <1>1, <1>2, OutsideStep DEF CreateDeployment

LEMMA SaveDeploymentInv ==
    ASSUME Inv, NEW b \in Books, SaveDeployment(b)
    PROVE  Inv'
<1>1. row \in [Books -> Row] /\ saves' \in 0..MaxSaves
  BY FleetAssumption DEF SaveDeployment, Inv, TypeOK, Row
<1>2. PICK r \in Row : row' = [row EXCEPT ![b] = r] /\ r.revision = row[b].revision + 1
                       /\ r.status # "absent"
  <2>1. CASE row' = [row EXCEPT ![b].revision = @ + 1]
    <3> DEFINE r == [row[b] EXCEPT !.revision = @ + 1]
    <3>1. r \in Row /\ r.revision = row[b].revision + 1 /\ r.status = row[b].status
      BY <1>1 DEF Row
    <3>2. row' = [row EXCEPT ![b] = r] /\ row[b].status # "absent"
      BY <2>1 DEF SaveDeployment
    <3> QED
      BY <3>1, <3>2
  <2>2. ASSUME NEW command \in {"managed_shutdown", "flatten"},
               row' = [row EXCEPT ![b] = [status |-> "stopped", command |-> command,
                                          revision |-> @.revision + 1]]
        PROVE  \E r \in Row : /\ row' = [row EXCEPT ![b] = r]
                              /\ r.revision = row[b].revision + 1 /\ r.status # "absent"
    <3> DEFINE r == [status |-> "stopped", command |-> command,
                     revision |-> row[b].revision + 1]
    <3>1. r \in Row /\ r.revision = row[b].revision + 1 /\ r.status # "absent"
      BY <1>1 DEF Row
    <3>2. row' = [row EXCEPT ![b] = r]
      BY <2>2
    <3> QED
      BY <3>1, <3>2
  <2> QED
    BY <2>1, <2>2 DEF SaveDeployment
<1>3. row' \in [Books -> Row] /\ \A c \in Books : Forward(c)
  BY <1>1, <1>2 DEF Row, Forward
<1>4. TypeOK'
  BY <1>1, <1>3 DEF SaveDeployment, Inv, TypeOK, Row
<1> QED
  BY <1>3, <1>4, OutsideStep DEF SaveDeployment

LEMMA SetLatchInv ==
    ASSUME Inv, NEW m \in Modes, SetLatch(m)
    PROVE  Inv'
<1>1. TypeOK'
  BY FleetAssumption DEF SetLatch, Inv, TypeOK
<1>2. \A c \in Books : Forward(c)
  BY DEF SetLatch, Inv, TypeOK, Forward
<1> QED
  BY <1>1, <1>2, OutsideStep DEF SetLatch

LEMMA NextInv == Inv /\ [Next]_vars => Inv'
<1> SUFFICES ASSUME Inv, [Next]_vars PROVE Inv'
  OBVIOUS
<1>1. ASSUME NEW p \in APIs, APIStep(p) PROVE Inv'
  BY <1>1, AcquireInv, EndInv, ResumeInv, InsertPendingInv, LockModeInv, ApplyLatchInv,
     LatchReplayedInv, RecordTargetInv, RecordFailsInv, SessionDroppedInv, RereadInv,
     SaveFailedInv, SurveyInv, FinishInv
  DEF APIStep
<1>2. ASSUME NEW p \in APIs, Abandon(p) PROVE Inv'
  BY <1>2, EndInv
<1>3. ASSUME NEW p \in APIs, NEW k \in Keys, Submit(p, k) PROVE Inv'
  BY <1>3, SubmitInv
<1>4. ASSUME NEW b \in Books, CreateDeployment(b) \/ SaveDeployment(b) PROVE Inv'
  BY <1>4, CreateDeploymentInv, SaveDeploymentInv
<1>5. ASSUME NEW m \in Modes, SetLatch(m) PROVE Inv'
  BY <1>5, SetLatchInv
<1>6. CASE UNCHANGED vars
  BY <1>6 DEF vars, Inv, TypeOK, ProcOK, KeyOK, OpenKey, Held, Key, Asked, Spent
<1> QED
  BY <1>1, <1>2, <1>3, <1>4, <1>5, <1>6 DEF Next

\* Whatever is lost, requests, receipts and books agree as Inv says after every
\* step of every process and of the other writers.
THEOREM Invariance == Spec => []Inv
BY InitInv, NextInv, PTL DEF Spec

\* The variables of FleetControl have their types in every reachable state.
THEOREM TypeCorrect == Spec => []TypeOK
<1>1. Inv => TypeOK
  BY DEF Inv
<1> QED
  BY <1>1, Invariance, PTL

\* Whatever is lost, no key commands a book or writes the latch twice, and a
\* receipt never claims an effect that was not written (record_target and
\* apply_latch commit the effect and its receipt together).
THEOREM Honest == Spec => []ReceiptsHonest
<1>1. Inv => ReceiptsHonest
  <2> SUFFICES ASSUME Inv, NEW k \in Keys
               PROVE  /\ written[k] <= 1
                      /\ ops[k].latched => written[k] = 1
                      /\ \A b \in Books :
                           /\ sent[k][b] <= 1
                           /\ <<b, "command_recorded">> \in ops[k].results => sent[k][b] = 1
    BY DEF ReceiptsHonest
  <2>1. KeyOK(k)
    BY DEF Inv
  <2> QED
    BY <2>1 DEF KeyOK, OneIf
<1> QED
  BY <1>1, Invariance, PTL

(***************************************************************************)
(* While no session is lost, the guard of a key is held by the one process *)
(* that works on it, so what that process remembers is what is stored.     *)
(***************************************************************************)
Named(targets) == {t[1] : t \in targets}
Single(results) == \A r1, r2 \in results : r1[1] = r2[1] => r1 = r2

\* What an active process still has to do is what has no receipt, but for the
\* book whose transaction failed; at the end it may add unconfirmed books.
Clean(p) ==
    pc[p] \in Active =>
       /\ mem[p].op.status = "pending" /\ ops[Key(p)].status = "pending"
       /\ pc[p] # "finishing" =>
             /\ mem[p].op = ops[Key(p)]
             /\ mem[p].todo = {t \in Asked(p).targets :
                                 t[1] \notin Receipted(mem[p].op) /\ t[1] # mem[p].target}
       /\ pc[p] \in {"rereading", "failing"} =>
             mem[p].target \in Named(Asked(p).targets) \ Receipted(mem[p].op)
       /\ pc[p] = "applying" => mem[p].target = Nobody
       /\ pc[p] = "finishing" =>
             /\ ops[Key(p)].results \subseteq mem[p].op.results
             /\ Single(mem[p].op.results)
             /\ \A b \in Books : <<b, "command_recorded">> \in mem[p].op.results =>
                                    <<b, "command_recorded">> \in ops[Key(p)].results
             /\ Asked(p).action \in StopActions =>
                   Named(Asked(p).targets) \subseteq Receipted(mem[p].op)

\* A key's receipts are what it did, one for each confirmed book.
Exact(k) ==
    /\ \A b \in Books : sent[k][b] = 1 => <<b, "command_recorded">> \in ops[k].results
    /\ Single(ops[k].results)
    /\ ops[k].status = "pending" => Receipted(ops[k]) \subseteq Named(ops[k].request.targets)
    /\ ops[k].status = "accepted" =>
          \A b \in Named(ops[k].request.targets) :
             <<b, "command_recorded">> \in ops[k].results \/ <<b, "unchanged">> \in ops[k].results

Whole == (\A p \in APIs : Clean(p)) /\ (\A k \in Keys : Exact(k))

-----------------------------------------------------------------------------
LEMMA InitWhole == Init => Whole
<1> SUFFICES ASSUME Init PROVE Whole
  OBVIOUS
<1>1. ASSUME NEW p \in APIs PROVE Clean(p)
  BY DEF Init, Clean, Active
<1>2. ASSUME NEW k \in Keys PROVE Exact(k)
  BY DEF Init, Exact, NoOperation, Single
<1> QED
  BY <1>1, <1>2 DEF Whole

\* A step that writes no operation and disturbs no other process.
LEMMA QuietStep ==
    ASSUME Whole, NEW p \in APIs, Clean(p)', UNCHANGED <<ops, sent>>,
           \A q \in APIs \ {p} : pc'[q] = pc[q] /\ mem'[q] = mem[q] /\ req'[q] = req[q]
    PROVE  Whole'
<1>1. ASSUME NEW q \in APIs PROVE Clean(q)'
  <2>1. CASE q = p
    BY <2>1
  <2>2. CASE q # p
    BY <2>2 DEF Whole, Clean, Key, Asked
  <2> QED
    BY <2>1, <2>2
<1>2. ASSUME NEW k \in Keys PROVE Exact(k)'
  BY DEF Whole, Exact
<1> QED
  BY <1>1, <1>2 DEF Whole

\* A step of p that writes the operation of its key k, on which no other
\* process works.
LEMMA WriteStep ==
    ASSUME Whole, Inv, NEW p \in APIs, NEW k \in Keys, Clean(p)', Exact(k)',
           \A other \in Keys \ {k} : ops'[other] = ops[other] /\ sent'[other] = sent[other],
           \A q \in APIs \ {p} : /\ pc'[q] = pc[q] /\ mem'[q] = mem[q] /\ req'[q] = req[q]
                                 /\ pc[q] \in Active => Key(q) # k
    PROVE  Whole'
<1>1. ASSUME NEW q \in APIs PROVE Clean(q)'
  <2>1. CASE q = p
    BY <2>1
  <2>2. CASE q # p
    <3>1. Key(q) \in Keys /\ Clean(q)
      BY ProcTyped DEF Inv, Whole
    <3>2. pc[q] \in Active => ops'[Key(q)] = ops[Key(q)]
      BY <2>2, <3>1
    <3> QED
      BY <2>2, <3>1, <3>2 DEF Clean, Key, Asked
  <2> QED
    BY <2>1, <2>2
<1>2. ASSUME NEW other \in Keys PROVE Exact(other)'
  <2>1. CASE other = k
    BY <2>1
  <2>2. CASE other # k
    BY <2>2 DEF Whole, Exact
  <2> QED
    BY <2>1, <2>2
<1> QED
  BY <1>1, <1>2 DEF Whole

LEMMA QuietWhole ==
    ASSUME Inv, Whole, NEW p \in APIs,
           Acquire(p) \/ Answer(p) \/ LatchConflict(p) \/ Abandon(p)
              \/ (\E k \in Keys : Submit(p, k))
    PROVE  Whole'
<1>1. ASSUME End(p), UNCHANGED <<ops, sent>> PROVE Whole'
  <2>1. pc'[p] = "idle"
    BY <1>1 DEF End, Inv, TypeOK
  <2>2. Clean(p)'
    BY <2>1 DEF Clean, Active
  <2> QED
    BY <1>1, <2>2, EndProc, QuietStep
<1>2. CASE Acquire(p)
  <2>1. pc'[p] = "opening"
    BY <1>2 DEF Acquire, Inv, TypeOK
  <2>2. Clean(p)'
    BY <2>1 DEF Clean, Active
  <2>3. \A q \in APIs \ {p} : pc'[q] = pc[q] /\ mem'[q] = mem[q] /\ req'[q] = req[q]
    BY <1>2 DEF Acquire, Inv, TypeOK
  <2> QED
    BY <1>2, <2>2, <2>3, QuietStep DEF Acquire
<1>3. ASSUME NEW k \in Keys, Submit(p, k) PROVE Whole'
  <2>1. pc'[p] = "waiting"
    BY <1>3 DEF Submit, Inv, TypeOK
  <2>2. Clean(p)'
    BY <2>1 DEF Clean, Active
  <2>3. \A q \in APIs \ {p} : pc'[q] = pc[q] /\ mem'[q] = mem[q] /\ req'[q] = req[q]
    BY <1>3 DEF Submit, Inv, TypeOK
  <2> QED
    BY <1>3, <2>2, <2>3, QuietStep DEF Submit
<1> QED
  BY <1>1, <1>2, <1>3 DEF Answer, LatchConflict, Abandon

LEMMA LatchWhole ==
    ASSUME Inv, Whole, NEW p \in APIs, LockMode(p) \/ LatchReplayed(p)
    PROVE  Whole'
<1>1. CASE LockMode(p)
  <2>1. Clean(p)'
    BY <1>1 DEF LockMode, Whole, Clean, Key, Asked
  <2> QED
    BY <1>1, <2>1, QuietStep DEF LockMode
<1>2. CASE LatchReplayed(p)
  <2>1. /\ pc[p] = "applying" /\ pc'[p] = "finishing" /\ Asked(p).action \in LatchActions
        /\ \A q \in APIs \ {p} : pc'[q] = pc[q]
    BY <1>2 DEF LatchReplayed, Latching, Inv, TypeOK
  <2>2. Key(p) \in Keys /\ Clean(p) /\ Exact(Key(p))
    BY ProcTyped DEF Inv, Whole
  <2>3. mem[p].op = ops[Key(p)] /\ mem[p].op.status = "pending" /\ Single(mem[p].op.results)
    BY <2>1, <2>2 DEF Clean, Exact, Active
  <2>4. Clean(p)'
    BY <1>2, <2>1, <2>3 DEF LatchReplayed, Clean, Key, Asked, LatchActions, StopActions
  <2> QED
    BY <1>2, <2>1, <2>4, QuietStep DEF LatchReplayed
<1> QED
  BY <1>1, <1>2

\* What an operation that is opened has still to do.
LEMMA OpenedClean ==
    ASSUME NEW op \in Operation
    PROVE  /\ Opened(op).op = op /\ Opened(op).target = Nobody
           /\ Opened(op).todo = {t \in op.request.targets :
                                   t[1] \notin Receipted(op) /\ t[1] # Nobody}
<1>1. \A t \in op.request.targets : t[1] # Nobody
  BY FleetAssumption DEF Operation, Request
<1> QED
  BY <1>1 DEF Opened

LEMMA ResumeWhole ==
    ASSUME Inv, Whole, NEW p \in APIs, Resume(p)
    PROVE  Whole'
<1> DEFINE m == Opened(ops[Key(p)])
<1>1. Key(p) \in Keys /\ ops[Key(p)] \in Operation
  BY ProcTyped DEF Inv
<1>2. /\ m.op = ops[Key(p)] /\ m.target = Nobody
      /\ m.todo = {t \in ops[Key(p)].request.targets :
                     t[1] \notin Receipted(ops[Key(p)]) /\ t[1] # Nobody}
  BY <1>1, OpenedClean
<1>3. mem'[p] = m /\ pc'[p] = "applying" /\ ops' = ops
  BY DEF Resume, Inv, TypeOK
<1> HIDE DEF m
<1>4. \A q \in APIs \ {p} : pc'[q] = pc[q] /\ mem'[q] = mem[q] /\ req'[q] = req[q]
  BY DEF Resume, Inv, TypeOK
<1>5. Key(p)' = Key(p) /\ Asked(p)' = ops[Key(p)].request /\ ops[Key(p)].status = "pending"
  BY DEF Resume, Key, Asked
<1>6. Clean(p)'
  BY <1>2, <1>3, <1>5 DEF Clean
<1> QED
  BY <1>4, <1>6, QuietStep DEF Resume

LEMMA InsertPendingWhole ==
    ASSUME Inv, Whole, NEW p \in APIs, InsertPending(p)
    PROVE  Whole'
<1> DEFINE o == [NoOperation EXCEPT !.status = "pending", !.request = Asked(p)]
           m == Opened(o)
<1>1. PICK k \in Keys : k = Key(p)
  BY ProcTyped DEF Inv
<1>2. Asked(p) \in Request /\ ops[k].status = "none" /\ \A b \in Books : sent[k][b] = 0
  BY <1>1, ProcTyped DEF Inv, InsertPending, KeyOK
<1>3. /\ o \in Operation /\ o.status = "pending" /\ o.request = Asked(p)
      /\ o.results = {}
  BY <1>2, Constants DEF NoOperation, Operation
<1>4. ops' = [ops EXCEPT ![k] = o] /\ mem' = [mem EXCEPT ![p] = m]
  BY <1>1 DEF InsertPending
<1> HIDE DEF o
<1>5. /\ m.op = o /\ m.target = Nobody
      /\ m.todo = {t \in Asked(p).targets : t[1] \notin Receipted(o) /\ t[1] # Nobody}
  BY <1>3, OpenedClean
<1> HIDE DEF m
<1>6. /\ mem'[p] = m /\ pc'[p] = "applying" /\ ops'[k] = o /\ sent' = sent
      /\ \A other \in Keys \ {k} : ops'[other] = ops[other]
      /\ \A q \in APIs \ {p} : mem'[q] = mem[q] /\ pc'[q] = pc[q] /\ req'[q] = req[q]
  BY <1>4 DEF InsertPending, Inv, TypeOK
<1>7. Key(p)' = k /\ Asked(p)' = Asked(p)
  BY <1>1 DEF InsertPending, Key, Asked
<1>8. Clean(p)'
  BY <1>3, <1>5, <1>6, <1>7 DEF Clean
<1>9. Exact(k)'
  BY <1>2, <1>3, <1>6 DEF Exact, Single, Receipted
<1>10. \A q \in APIs \ {p} : pc[q] \in Active => Key(q) # k
  BY <1>2 DEF Inv, ProcOK, OpenKey
<1> QED
  BY <1>6, <1>8, <1>9, <1>10, WriteStep

\* What holds of an active process and its key while no session is lost.
LEMMA Working ==
    ASSUME Inv, Whole, drops = 0, NEW p \in APIs, pc[p] \in Active
    PROVE  /\ mem[p] \in Memory /\ mem[p].op \in Operation
           /\ Key(p) \in Keys /\ ops[Key(p)] \in Operation /\ Asked(p) \in Request
           /\ ops[Key(p)].request = Asked(p)
           /\ mem[p].op.request = Asked(p)
           /\ mem[p].op.status = "pending" /\ ops[Key(p)].status = "pending"
           /\ OneEach(Asked(p).targets)
           /\ ProcOK(p) /\ KeyOK(Key(p)) /\ Clean(p) /\ Exact(Key(p))
           /\ \A q \in APIs \ {p} : pc[q] \in Active => Key(q) # Key(p)
<1>1. mem[p] \in Memory /\ Key(p) \in Keys /\ Asked(p) \in Request /\ ops[Key(p)] \in Operation
  BY ProcTyped DEF Inv
<1>2. ProcOK(p) /\ KeyOK(Key(p)) /\ Clean(p) /\ Exact(Key(p)) /\ Held(p)
  BY <1>1 DEF Inv, Whole, Held
<1>3. \A q \in APIs \ {p} : pc[q] \in Active => Key(q) # Key(p)
  BY <1>2, Alone
<1>4. mem[p].op \in Operation
  BY <1>1 DEF Memory
<1> QED
  BY <1>1, <1>2, <1>3, <1>4 DEF ProcOK, OpenKey, Clean

LEMMA ApplyLatchWhole ==
    ASSUME Inv, Whole, drops = 0, NEW p \in APIs, ApplyLatch(p)
    PROVE  Whole'
<1> DEFINE o == [mem[p].op EXCEPT !.latched = TRUE]
           m == [mem[p] EXCEPT !.op = o]
<1>1. pc[p] = "applying" /\ pc[p] \in Active /\ Asked(p).action \in LatchActions
  BY DEF ApplyLatch, Latching, Active
<1>2. PICK k \in Keys : k = Key(p)
  BY <1>1, Working
<1>3. mem[p].op = ops[k] /\ mem[p].op \in Operation /\ mem[p] \in Memory
  BY <1>1, <1>2, Working DEF Clean
<1>4. /\ o.status = ops[k].status /\ o.request = ops[k].request
      /\ o.results = ops[k].results
  BY <1>3 DEF Operation
<1>5. ops' = [ops EXCEPT ![k] = o] /\ mem' = [mem EXCEPT ![p] = m]
  BY <1>2 DEF ApplyLatch
<1> HIDE DEF o
<1>6. m.op = o
  BY <1>3 DEF Memory
<1> HIDE DEF m
<1>7. /\ mem'[p] = m /\ pc'[p] = "finishing" /\ ops'[k] = o /\ sent' = sent
      /\ \A other \in Keys \ {k} : ops'[other] = ops[other]
      /\ \A q \in APIs \ {p} : mem'[q] = mem[q] /\ pc'[q] = pc[q] /\ req'[q] = req[q]
  BY <1>5 DEF ApplyLatch, Inv, TypeOK
<1>8. Key(p)' = k /\ Asked(p)' = Asked(p) /\ Asked(p).action \notin StopActions
  BY <1>1, <1>2 DEF ApplyLatch, Key, Asked, LatchActions, StopActions
<1>9. Exact(k) /\ ops[k].status = "pending"
  BY <1>1, <1>2, Working
<1>10. Exact(k)'
  BY <1>4, <1>7, <1>9 DEF Exact, Receipted
<1>11. Clean(p)'
  BY <1>4, <1>6, <1>7, <1>8, <1>9 DEF Clean, Exact
<1>12. \A q \in APIs \ {p} : pc[q] \in Active => Key(q) # k
  BY <1>1, <1>2, Working
<1> QED
  BY <1>7, <1>10, <1>11, <1>12, WriteStep

LEMMA RereadWhole ==
    ASSUME Inv, Whole, drops = 0, NEW p \in APIs, Reread(p)
    PROVE  Whole'
<1>1. pc[p] = "rereading" /\ pc[p] \in Active
  BY DEF Reread, Active
<1>2. /\ mem[p].op = ops[Key(p)] /\ mem[p].target \notin Receipted(ops[Key(p)])
      /\ mem[p] \in Memory /\ Clean(p)
  BY <1>1, Working DEF Clean
<1>3. mem' = [mem EXCEPT ![p].op = ops[Key(p)]] /\ pc' = [pc EXCEPT ![p] = "failing"]
  BY <1>2 DEF Reread
<1>4. mem'[p] = mem[p] /\ pc'[p] = "failing"
  BY <1>2, <1>3 DEF Inv, TypeOK, Memory
<1>5. \A q \in APIs \ {p} : pc'[q] = pc[q] /\ mem'[q] = mem[q] /\ req'[q] = req[q]
  BY <1>3 DEF Reread, Inv, TypeOK
<1>6. Clean(p)'
  BY <1>1, <1>2, <1>4 DEF Reread, Clean, Key, Asked, Active
<1> QED
  BY <1>5, <1>6, QuietStep DEF Reread

LEMMA RecordFailsWhole ==
    ASSUME Inv, Whole, drops = 0, NEW p \in APIs, RecordFails(p)
    PROVE  Whole'
<1>1. PICK t \in mem[p].todo : mem' = [mem EXCEPT ![p].target = t[1], ![p].todo = @ \ {t}]
  BY DEF RecordFails
<1>2. pc[p] = "applying" /\ pc[p] \in Active
  BY DEF RecordFails, Commanding, Active
<1>3. /\ mem[p].op = ops[Key(p)] /\ mem[p].target = Nobody /\ mem[p] \in Memory
      /\ mem[p].todo = {u \in Asked(p).targets :
                          u[1] \notin Receipted(mem[p].op) /\ u[1] # mem[p].target}
      /\ OneEach(Asked(p).targets)
      /\ \A u \in Asked(p).targets : u[1] # Nobody
  BY <1>2, Working, FleetAssumption DEF Clean, Request
<1> DEFINE m == [mem[p] EXCEPT !.target = t[1], !.todo = @ \ {t}]
<1>4. mem' = [mem EXCEPT ![p] = m]
  BY <1>1
<1>5. m.op = mem[p].op /\ m.target = t[1] /\ m.todo = mem[p].todo \ {t}
  BY <1>3 DEF Memory
<1> HIDE DEF m
<1>6. m.todo = {u \in Asked(p).targets : u[1] \notin Receipted(m.op) /\ u[1] # m.target}
  <2>1. t \in Asked(p).targets
    BY <1>3
  <2>2. \A u \in Asked(p).targets : u[1] = t[1] => u = t
    BY <1>3, <2>1 DEF OneEach
  <2> QED
    BY <1>3, <1>5, <2>2
<1>7. t[1] \in Named(Asked(p).targets) \ Receipted(m.op)
  BY <1>3, <1>5 DEF Named
<1>8. /\ mem'[p] = m /\ pc'[p] = "rereading"
      /\ \A q \in APIs \ {p} : pc'[q] = pc[q] /\ mem'[q] = mem[q] /\ req'[q] = req[q]
  BY <1>4 DEF RecordFails, Inv, TypeOK
<1>9. Key(p)' = Key(p) /\ Asked(p)' = Asked(p) /\ ops' = ops /\ sent' = sent
  BY DEF RecordFails, Key, Asked
<1>10. mem[p].op.status = "pending" /\ ops[Key(p)].status = "pending"
  BY <1>2, Working
<1>11. Clean(p)'
  BY <1>3, <1>5, <1>6, <1>7, <1>8, <1>9, <1>10 DEF Clean
<1> QED
  BY <1>8, <1>9, <1>11, QuietStep

LEMMA SurveyWhole ==
    ASSUME Inv, Whole, drops = 0, NEW p \in APIs, Survey(p)
    PROVE  Whole'
<1> DEFINE known == Named(Asked(p).targets)
           omitted == {b \in Books : InScope(b, Asked(p).scope) /\ b \notin known}
           added == omitted \X {"not_confirmed"}
           o == [mem[p].op EXCEPT !.results = @ \cup added]
           m == [mem[p] EXCEPT !.op = o]
<1>1. pc[p] = "applying" /\ pc[p] \in Active /\ mem[p].todo = {}
  BY DEF Survey, Commanding, Active
<1>2. /\ mem[p] \in Memory /\ mem[p].op \in Operation /\ mem[p].op = ops[Key(p)]
      /\ Exact(Key(p)) /\ ops[Key(p)].status = "pending" /\ ops[Key(p)].request = Asked(p)
  BY <1>1, Working DEF Clean
<1>3. known \subseteq Receipted(mem[p].op)
  <2>1. /\ {t \in Asked(p).targets :
              t[1] \notin Receipted(mem[p].op) /\ t[1] # mem[p].target} = {}
        /\ mem[p].target = Nobody
    BY <1>1, Working DEF Clean
  <2>2. \A t \in Asked(p).targets : t[1] # Nobody
    BY <1>1, Working, FleetAssumption DEF Request
  <2> QED
    BY <2>1, <2>2 DEF Named
<1>4. Receipted(mem[p].op) \subseteq known
  BY <1>2 DEF Exact
<1>5. mem' = [mem EXCEPT ![p] = m]
  BY <1>2 DEF Survey, Memory, Operation, Named
<1>6. o.results = mem[p].op.results \cup added /\ o.status = mem[p].op.status
  BY <1>2 DEF Operation
<1> HIDE DEF o
<1>7. m.op = o
  BY <1>2 DEF Memory
<1> HIDE DEF m
<1>8. Single(o.results)
  <2>1. \A r \in added : r[1] \notin known /\ r = <<r[1], "not_confirmed">>
    OBVIOUS
  <2>2. \A r \in mem[p].op.results : r[1] \in known
    BY <1>4 DEF Receipted
  <2>3. Single(mem[p].op.results)
    BY <1>2 DEF Exact
  <2>4. Single(added)
    BY DEF Single
  <2> HIDE DEF added, known
  <2> QED
    BY <1>6, <2>1, <2>2, <2>3, <2>4 DEF Single
<1>9. known \subseteq Receipted(o)
  BY <1>3, <1>6 DEF Receipted
<1>10. \A b \in Books : <<b, "command_recorded">> \in o.results =>
                          <<b, "command_recorded">> \in ops[Key(p)].results
  BY <1>2, <1>6
<1>11. /\ mem'[p] = m /\ pc'[p] = "finishing"
       /\ \A q \in APIs \ {p} : pc'[q] = pc[q] /\ mem'[q] = mem[q] /\ req'[q] = req[q]
  BY <1>5 DEF Survey, Inv, TypeOK
<1>12. Key(p)' = Key(p) /\ Asked(p)' = Asked(p) /\ ops' = ops /\ sent' = sent
  BY DEF Survey, Key, Asked
<1>13. Clean(p)'
  <2>1. o.status = "pending" /\ ops[Key(p)].results \subseteq o.results
    BY <1>2, <1>6
  <2> QED
    BY <1>2, <1>7, <1>8, <1>9, <1>10, <1>11, <1>12, <2>1 DEF Clean
<1> QED
  BY <1>11, <1>12, <1>13, QuietStep

\* One more receipt, for a book that has none.
LEMMA OneMore ==
    ASSUME NEW results, NEW b, NEW x, Single(results), b \notin Named(results)
    PROVE  /\ Single(results \cup {<<b, x>>})
           /\ Named(results \cup {<<b, x>>}) = Named(results) \cup {b}
<1>1. \A r \in results : r[1] # b
  BY DEF Named
<1>2. <<b, x>>[1] = b
  OBVIOUS
<1>3. Single(results \cup {<<b, x>>})
  BY <1>1, <1>2 DEF Single
<1>4. Named(results \cup {<<b, x>>}) = Named(results) \cup {b}
  BY <1>2 DEF Named
<1> QED
  BY <1>3, <1>4

LEMMA SaveFailedWhole ==
    ASSUME Inv, Whole, drops = 0, NEW p \in APIs, SaveFailed(p)
    PROVE  Whole'
<1> DEFINE o == [mem[p].op EXCEPT !.results = @ \cup {<<mem[p].target, "failed">>}]
           m == [mem[p] EXCEPT !.op = o, !.target = Nobody]
<1>1. pc[p] = "failing" /\ pc[p] \in Active
  BY DEF SaveFailed, Active
<1>2. PICK k \in Keys : k = Key(p)
  BY <1>1, Working
<1>3. /\ mem[p] \in Memory /\ mem[p].op \in Operation /\ mem[p].op = ops[k]
      /\ ops[k].request = Asked(p) /\ ops[k].status = "pending" /\ Exact(k)
      /\ mem[p].target \in Named(Asked(p).targets) \ Receipted(ops[k])
      /\ mem[p].todo = {t \in Asked(p).targets :
                          t[1] \notin Receipted(ops[k]) /\ t[1] # mem[p].target}
      /\ \A t \in Asked(p).targets : t[1] # Nobody
  BY <1>1, <1>2, Working, FleetAssumption DEF Clean, Request
<1>4. /\ o.results = ops[k].results \cup {<<mem[p].target, "failed">>}
      /\ o.status = ops[k].status /\ o.request = ops[k].request /\ o \in Operation
  BY <1>1, <1>2, <1>3, Working DEF Operation, ProcOK, Outcomes
<1>5. ops' = [ops EXCEPT ![k] = o] /\ mem' = [mem EXCEPT ![p] = m]
  BY <1>2 DEF SaveFailed
<1> HIDE DEF o
<1>6. m.op = o /\ m.todo = mem[p].todo /\ m.target = Nobody
  BY <1>3, <1>4, Remembers
<1> HIDE DEF m
<1>7. Single(o.results) /\ Receipted(o) = Receipted(ops[k]) \cup {mem[p].target}
  <2>1. Single(ops[k].results) /\ mem[p].target \notin Named(ops[k].results)
    BY <1>3 DEF Exact, Receipted, Named
  <2>2. /\ Single(ops[k].results \cup {<<mem[p].target, "failed">>})
        /\ Named(ops[k].results \cup {<<mem[p].target, "failed">>}) = Named(ops[k].results) \cup {mem[p].target}
    BY <2>1, OneMore
  <2>3. Single(o.results) /\ Named(o.results) = Named(ops[k].results) \cup {mem[p].target}
    BY <1>4, <2>2
  <2> QED
    BY <2>3 DEF Receipted, Named
<1>8. /\ mem'[p] = m /\ pc'[p] = "applying" /\ ops'[k] = o /\ sent' = sent
      /\ \A other \in Keys \ {k} : ops'[other] = ops[other]
      /\ \A q \in APIs \ {p} : mem'[q] = mem[q] /\ pc'[q] = pc[q] /\ req'[q] = req[q]
  BY <1>5 DEF SaveFailed, Inv, TypeOK
<1>9. Key(p)' = k /\ Asked(p)' = Asked(p)
  BY <1>2 DEF SaveFailed, Key, Asked
<1>10. Exact(k)'
  <2>1. Receipted(o) \subseteq Named(o.request.targets)
    BY <1>3, <1>4, <1>7 DEF Exact
  <2> QED
    BY <1>3, <1>4, <1>7, <1>8, <2>1 DEF Exact
<1>11. Clean(p)'
  <2>1. m.todo = {t \in Asked(p).targets : t[1] \notin Receipted(o) /\ t[1] # Nobody}
    BY <1>3, <1>6, <1>7
  <2> QED
    BY <1>3, <1>4, <1>6, <1>8, <1>9, <2>1 DEF Clean
<1>12. \A q \in APIs \ {p} : pc[q] \in Active => Key(q) # k
  BY <1>1, <1>2, Working
<1> QED
  BY <1>8, <1>10, <1>11, <1>12, WriteStep

LEMMA RecordTargetWhole ==
    ASSUME Inv, Whole, drops = 0, NEW p \in APIs, RecordTarget(p)
    PROVE  Whole'
<1>1. PICK t \in mem[p].todo :
         /\ Recorded(p, t)
         /\ mem' = [mem EXCEPT ![p].op = ops'[Key(p)], ![p].todo = @ \ {t}]
  BY DEF RecordTarget
<1>2. pc[p] = "applying" /\ pc[p] \in Active /\ Commanding(p)
  BY DEF RecordTarget, Commanding, Active
<1>3. PICK k \in Keys : k = Key(p)
  BY <1>2, Working
<1> DEFINE result == Outcome(t, Asked(p))
           o == [mem[p].op EXCEPT !.results = @ \cup {<<t[1], result>>}]
           m == [mem[p] EXCEPT !.op = o, !.todo = @ \ {t}]
<1>4. /\ mem[p] \in Memory /\ mem[p].op \in Operation /\ mem[p].op = ops[k]
      /\ ops[k].request = Asked(p) /\ ops[k].status = "pending" /\ Exact(k)
      /\ mem[p].target = Nobody
      /\ mem[p].todo = {u \in Asked(p).targets :
                          u[1] \notin Receipted(ops[k]) /\ u[1] # mem[p].target}
      /\ OneEach(Asked(p).targets)
  BY <1>2, <1>3, Working DEF Clean
<1>5. t[1] \in Books /\ t \in Asked(p).targets /\ t[1] \notin Receipted(ops[k])
  BY <1>4 DEF Memory
<1>6. result \in Outcomes
  BY DEF Outcome, Outcomes
<1>7. /\ o.results = ops[k].results \cup {<<t[1], result>>}
      /\ o.status = ops[k].status /\ o.request = ops[k].request /\ o \in Operation
  BY <1>4, <1>5, <1>6 DEF Operation
<1>8. ops' = [ops EXCEPT ![k] = o]
  BY <1>1, <1>3 DEF Recorded
<1>9. \A b \in Books : sent'[k][b] = 1 =>
         sent[k][b] = 1 \/ (b = t[1] /\ result = "command_recorded")
  BY <1>1, <1>3, <1>5 DEF Recorded, Inv, TypeOK
<1> HIDE DEF o, result
<1>10. ops'[k] = o /\ \A other \in Keys \ {k} : ops'[other] = ops[other]
  BY <1>8 DEF Inv, TypeOK
<1>11. m.op = o /\ m.todo = mem[p].todo \ {t} /\ m.target = Nobody
  BY <1>4 DEF Memory
<1>12. mem' = [mem EXCEPT ![p] = m]
  BY <1>1, <1>3, <1>10
<1> HIDE DEF m
<1>13. Single(o.results) /\ Receipted(o) = Receipted(ops[k]) \cup {t[1]}
  <2>1. Single(ops[k].results) /\ t[1] \notin Named(ops[k].results)
    BY <1>4, <1>5 DEF Exact, Receipted, Named
  <2>2. /\ Single(ops[k].results \cup {<<t[1], result>>})
        /\ Named(ops[k].results \cup {<<t[1], result>>}) = Named(ops[k].results) \cup {t[1]}
    BY <2>1, OneMore
  <2>3. Single(o.results) /\ Named(o.results) = Named(ops[k].results) \cup {t[1]}
    BY <1>7, <2>2
  <2> QED
    BY <2>3 DEF Receipted, Named
<1>14. /\ mem'[p] = m /\ pc'[p] = "applying"
       /\ \A q \in APIs \ {p} : mem'[q] = mem[q] /\ pc'[q] = pc[q] /\ req'[q] = req[q]
  BY <1>2, <1>12 DEF RecordTarget, Inv, TypeOK
<1>15. Key(p)' = k /\ Asked(p)' = Asked(p)
  BY <1>3 DEF RecordTarget, Key, Asked
<1>16. Exact(k)'
  <2>1. Receipted(o) \subseteq Named(o.request.targets)
    BY <1>4, <1>5, <1>7, <1>13 DEF Exact, Named
  <2>2. \A b \in Books : sent'[k][b] = 1 => <<b, "command_recorded">> \in o.results
    BY <1>4, <1>7, <1>9 DEF Exact
  <2> QED
    BY <1>4, <1>7, <1>10, <1>13, <2>1, <2>2 DEF Exact
<1>17. Clean(p)'
  <2>1. \A u \in Asked(p).targets : u[1] = t[1] => u = t
    BY <1>4, <1>5 DEF OneEach
  <2>2. m.todo = {u \in Asked(p).targets : u[1] \notin Receipted(o) /\ u[1] # Nobody}
    BY <1>4, <1>11, <1>13, <2>1
  <2> QED
    BY <1>4, <1>7, <1>10, <1>11, <1>14, <1>15, <2>2 DEF Clean
<1>18. \A q \in APIs \ {p} : pc[q] \in Active => Key(q) # k
  BY <1>2, <1>3, Working
<1>19. \A other \in Keys \ {k} : sent'[other] = sent[other]
  BY <1>1, <1>2, <1>3, RecordedStep
<1> QED
  BY <1>10, <1>14, <1>16, <1>17, <1>18, <1>19, WriteStep

LEMMA FinishWhole ==
    ASSUME Inv, Whole, drops = 0, NEW p \in APIs, Finish(p)
    PROVE  Whole'
<1> DEFINE s == StatusFor(Asked(p).action, mem[p].op.results)
           o == [mem[p].op EXCEPT !.status = s]
<1>1. pc[p] = "finishing" /\ pc[p] \in Active /\ End(p)
  BY DEF Finish, Active
<1>2. PICK k \in Keys : k = Key(p)
  BY <1>1, Working
<1>3. /\ mem[p].op \in Operation /\ Asked(p) \in Request
      /\ mem[p].op.request = Asked(p) /\ Exact(k) /\ Clean(p)
  BY <1>1, <1>2, Working
<1>4. o.status = s /\ o.request = Asked(p) /\ o.results = mem[p].op.results
  BY <1>3 DEF Operation
<1>5. ops' = [ops EXCEPT ![k] = o]
  BY <1>2 DEF Finish
<1>6. /\ s \in Final
      /\ s = "accepted" =>
            /\ Asked(p).action \notin LatchActions
            /\ \A r \in mem[p].op.results :
                  r[2] \notin {"failed", "revision_conflict", "not_confirmed"}
  BY DEF StatusFor, Final
<1> HIDE DEF o, s
<1>7. /\ ops'[k] = o /\ sent' = sent /\ pc'[p] = "idle"
      /\ \A other \in Keys \ {k} : ops'[other] = ops[other]
  BY <1>1, <1>5 DEF Finish, End, Inv, TypeOK
<1>8. \A q \in APIs \ {p} : mem'[q] = mem[q] /\ pc'[q] = pc[q] /\ req'[q] = req[q]
  BY <1>1, EndProc
<1>9. Exact(k)'
  <2>1. ops[k].results \subseteq o.results /\ Single(o.results)
    BY <1>1, <1>2, <1>3, <1>4 DEF Clean
  <2>2. ASSUME s = "accepted", NEW b \in Named(Asked(p).targets)
        PROVE  <<b, "command_recorded">> \in o.results \/ <<b, "unchanged">> \in o.results
    <3>1. Asked(p).action \in StopActions
      BY <1>3, <1>6, <2>2 DEF Request
    <3>2. b \in Receipted(mem[p].op)
      BY <1>1, <1>3, <2>2, <3>1 DEF Clean
    <3>3. PICK r \in mem[p].op.results : r[1] = b
      BY <3>2 DEF Receipted
    <3>4. r \in Books \X Outcomes
      BY <1>3, <3>3 DEF Operation
    <3>5. r = <<b, r[2]>> /\ r[2] \in Outcomes
      BY <3>3, <3>4
    <3>6. r[2] \in {"command_recorded", "unchanged"}
      BY <1>6, <2>2, <3>3, <3>5 DEF Outcomes
    <3> QED
      BY <1>4, <3>3, <3>5, <3>6
  <2>3. o.status # "pending"
    BY <1>4, <1>6 DEF Final
  <2> QED
    BY <1>3, <1>4, <1>7, <2>1, <2>2, <2>3 DEF Exact
<1>10. Clean(p)'
  BY <1>7 DEF Clean, Active
<1>11. \A q \in APIs \ {p} : pc[q] \in Active => Key(q) # k
  BY <1>1, <1>2, Working
<1> QED
  BY <1>7, <1>8, <1>9, <1>10, <1>11, WriteStep

LEMMA OutsideWhole ==
    ASSUME Whole, UNCHANGED <<ops, pc, req, mem, sent>>
    PROVE  Whole'
<1>1. ASSUME NEW q \in APIs PROVE Clean(q)'
  BY DEF Whole, Clean, Key, Asked
<1>2. ASSUME NEW k \in Keys PROVE Exact(k)'
  BY DEF Whole, Exact
<1> QED
  BY <1>1, <1>2 DEF Whole

\* No step brings a lost session back.
LEMMA NothingLost ==
    ASSUME Inv, [Next]_vars, drops' = 0
    PROVE  drops = 0 /\ \A p \in APIs : ~SessionDropped(p)
<1>1. drops \in Nat
  BY DEF Inv, TypeOK
<1>2. ASSUME NEW p \in APIs PROVE ~SessionDropped(p)
  BY <1>1 DEF SessionDropped
<1>3. ASSUME NEW p \in APIs, APIStep(p) PROVE drops' = drops
  <2>1. CASE Acquire(p) \/ Answer(p) \/ Resume(p) \/ InsertPending(p)
    BY <2>1 DEF Acquire, Answer, Resume, InsertPending
  <2>2. CASE LockMode(p) \/ ApplyLatch(p) \/ LatchConflict(p) \/ LatchReplayed(p)
    BY <2>2 DEF LockMode, ApplyLatch, LatchConflict, LatchReplayed
  <2>3. CASE RecordTarget(p) \/ RecordFails(p) \/ Reread(p) \/ SaveFailed(p) \/ Survey(p)
    BY <2>3 DEF RecordTarget, RecordFails, Reread, SaveFailed, Survey
  <2>4. CASE Finish(p)
    BY <2>4 DEF Finish
  <2> QED
    BY <1>2, <1>3, <2>1, <2>2, <2>3, <2>4 DEF APIStep
<1>4. ASSUME NEW p \in APIs, Abandon(p) \/ \E k \in Keys : Submit(p, k) PROVE drops' = drops
  BY <1>4 DEF Abandon, Submit
<1>5. ASSUME NEW b \in Books, CreateDeployment(b) \/ SaveDeployment(b) PROVE drops' = drops
  BY <1>5 DEF CreateDeployment, SaveDeployment
<1>6. ASSUME NEW m \in Modes, SetLatch(m) PROVE drops' = drops
  BY <1>6 DEF SetLatch
<1>7. ASSUME UNCHANGED vars PROVE drops' = drops
  BY <1>7 DEF vars
<1>8. drops' = drops
  BY <1>3, <1>4, <1>5, <1>6, <1>7 DEF Next
<1> QED
  BY <1>2, <1>8

\* The strengthening of Inv for as long as every session lives.
Guarded == drops = 0 => Whole

LEMMA NextGuarded == Inv /\ Guarded /\ [Next]_vars => Guarded'
<1> SUFFICES ASSUME Inv, Guarded, [Next]_vars, drops' = 0 PROVE Whole'
  BY DEF Guarded
<1>1. drops = 0 /\ \A p \in APIs : ~SessionDropped(p)
  BY NothingLost
<1>2. Whole
  BY <1>1 DEF Guarded
<1>3. ASSUME NEW p \in APIs, APIStep(p) PROVE Whole'
  BY <1>1, <1>2, <1>3, QuietWhole, LatchWhole, ResumeWhole, InsertPendingWhole, ApplyLatchWhole,
     RecordTargetWhole, RecordFailsWhole, RereadWhole, SaveFailedWhole, SurveyWhole, FinishWhole
  DEF APIStep
<1>4. ASSUME NEW p \in APIs, Abandon(p) \/ \E k \in Keys : Submit(p, k) PROVE Whole'
  BY <1>2, <1>4, QuietWhole
<1>5. ASSUME NEW b \in Books, CreateDeployment(b) \/ SaveDeployment(b) PROVE Whole'
  BY <1>2, <1>5, OutsideWhole DEF CreateDeployment, SaveDeployment
<1>6. ASSUME NEW m \in Modes, SetLatch(m) PROVE Whole'
  BY <1>2, <1>6, OutsideWhole DEF SetLatch
<1>7. CASE UNCHANGED vars
  BY <1>2, <1>7, OutsideWhole DEF vars
<1> QED
  BY <1>3, <1>4, <1>5, <1>6, <1>7 DEF Next

\* While operation_guard is never lost, a process works alone on its key and
\* what it remembers is what is stored.
THEOREM GuardedInvariance == Spec => []Guarded
<1>1. Init => Guarded
  BY InitWhole DEF Guarded
<1> QED
  BY <1>1, NextGuarded, Invariance, PTL DEF Spec

\* While no session is lost, the receipts of a key are exactly what it did.
THEOREM Receipts == Spec => []EffectsReceipted
<1>1. Inv /\ Guarded => EffectsReceipted
  <2> SUFFICES ASSUME Inv, Whole, NEW k \in Keys
               PROVE  /\ written[k] = OneIf(ops[k].latched)
                      /\ \A b \in Books :
                           sent[k][b] = OneIf(<<b, "command_recorded">> \in ops[k].results)
                      /\ \A r1, r2 \in ops[k].results : r1[1] = r2[1] => r1 = r2
    BY DEF EffectsReceipted, Guarded
  <2>1. KeyOK(k) /\ Exact(k)
    BY DEF Inv, Whole
  <2> QED
    BY <2>1 DEF KeyOK, Exact, Single, OneIf
<1> QED
  BY <1>1, Invariance, GuardedInvariance, PTL

\* While no session is lost, an accepted operation has commanded every book
\* the operator confirmed, or found it commanded at the confirmed revision.
THEOREM Accepted == Spec => []AcceptedWhileGuarded
<1>1. Inv /\ Guarded => AcceptedWhileGuarded
  <2> SUFFICES ASSUME Inv, Whole, NEW k \in Keys, ops[k].status = "accepted",
                      NEW t \in ops[k].request.targets
               PROVE  sent[k][t[1]] = 1 \/ <<t[1], "unchanged">> \in ops[k].results
    BY DEF AcceptedWhileGuarded, AcceptedIsComplete, Guarded
  <2>1. KeyOK(k) /\ Exact(k)
    BY DEF Inv, Whole
  <2>2. t[1] \in Books /\ t[1] \in Named(ops[k].request.targets)
    BY DEF Inv, TypeOK, Operation, Request, Named
  <2> QED
    BY <2>1, <2>2 DEF KeyOK, Exact
<1> QED
  BY <1>1, Invariance, GuardedInvariance, PTL

\* While no session is lost, a finished operation never changes again: only an
\* active process writes an operation, and then it is pending.
THEOREM FinalStays == Spec => FinalIsFinal
<1>1. ASSUME Inv, Guarded, [Next]_vars, NEW k \in Keys, drops' = 0, ops[k].status \in Final
      PROVE  ops'[k] = ops[k]
  <2>1. drops = 0 /\ Whole /\ \A p \in APIs : ~SessionDropped(p)
    BY <1>1, NothingLost DEF Guarded
  <2>2. ops[k].status # "none" /\ ops[k].status # "pending"
    BY <1>1 DEF Final
  <2>3. ASSUME NEW p \in APIs, APIStep(p) PROVE ops'[k] = ops[k]
    <3>1. Key(p) \in Keys /\ ops \in [Keys -> Operation]
      BY <1>1, ProcTyped DEF Inv, TypeOK
    <3>2. CASE InsertPending(p)
      BY <2>2, <3>1, <3>2 DEF InsertPending
    <3>3. ASSUME pc[p] \in Active, NEW o, ops' = [ops EXCEPT ![Key(p)] = o]
          PROVE  ops'[k] = ops[k]
      BY <1>1, <2>1, <2>2, <3>1, <3>3, Working
    <3>4. CASE ApplyLatch(p) \/ SaveFailed(p) \/ Finish(p)
      BY <3>3, <3>4 DEF ApplyLatch, Latching, SaveFailed, Finish, Active
    <3>5. CASE RecordTarget(p)
      BY <3>3, <3>5 DEF RecordTarget, Commanding, Recorded, Active
    <3>6. CASE Acquire(p) \/ Answer(p) \/ Resume(p) \/ LockMode(p) \/ LatchConflict(p)
      BY <3>6 DEF Acquire, Answer, Resume, LockMode, LatchConflict
    <3>7. CASE LatchReplayed(p) \/ RecordFails(p) \/ Reread(p) \/ Survey(p)
      BY <3>7 DEF LatchReplayed, RecordFails, Reread, Survey
    <3> QED
      BY <2>1, <2>3, <3>2, <3>4, <3>5, <3>6, <3>7 DEF APIStep
  <2>4. ASSUME NEW p \in APIs, Abandon(p) \/ \E key \in Keys : Submit(p, key)
        PROVE  ops' = ops
    BY <2>4 DEF Abandon, Submit
  <2>5. ASSUME NEW b \in Books, CreateDeployment(b) \/ SaveDeployment(b) PROVE ops' = ops
    BY <2>5 DEF CreateDeployment, SaveDeployment
  <2>6. ASSUME NEW m \in Modes, SetLatch(m) PROVE ops' = ops
    BY <2>6 DEF SetLatch
  <2>7. CASE UNCHANGED vars
    BY <2>7 DEF vars
  <2> QED
    BY <1>1, <2>3, <2>4, <2>5, <2>6, <2>7 DEF Next
<1>2. Inv /\ Guarded /\ [Next]_vars =>
        [\A k \in Keys : drops' = 0 /\ ops[k].status \in Final => ops'[k] = ops[k]]_vars
  BY <1>1
<1> QED
  BY <1>2, Invariance, GuardedInvariance, PTL DEF FinalIsFinal, Spec
=============================================================================
