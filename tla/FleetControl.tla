---------------------------- MODULE FleetControl ----------------------------
(***************************************************************************)
(* Fleet commands: the durable entry latch of each mode, the idempotent    *)
(* operations that set it or stop many books.                              *)
(*                                                                         *)
(* An API process serves one request at a time: it takes the advisory lock *)
(* of the request's key, opens the key's operation, and then either writes *)
(* the latch or commands the confirmed books one transaction at a time,    *)
(* each write committed with its receipt.  A process may be abandoned      *)
(* between any two transactions (cancelled, killed, storage error), and a  *)
(* later request with the same key resumes what it left.                   *)
(*                                                                         *)
(* A book is active while it is running or paused: a fleet command treats  *)
(* both alike.  The entries and starts that read the latch are in module   *)
(* EntryAdmission.                                                         *)
(***************************************************************************)
EXTENDS Integers

CONSTANTS Keys,          \* idempotency keys
          APIs,          \* API processes serving fleet requests
          PaperBooks, LiveBooks,
          NewBooks,      \* the books that are still to be started
          Actions,       \* the fleet actions requested
          Scopes,        \* the mode scopes requested
          Choices,       \* the sets of books that operators confirm
          Nobody,        \* no holder of a lock
          MaxSaves,      \* bound: saves of books and latches by other writers
          MaxDrops       \* bound: database sessions lost in a book command

Modes == {"live", "paper"}
Books == PaperBooks \cup LiveBooks
ModeOf(b) == IF b \in LiveBooks THEN "live" ELSE "paper"

LatchActions == {"disarm", "rearm"}
StopActions == {"managed_stop", "flatten"}

ASSUME FleetAssumption ==
    /\ PaperBooks \cap LiveBooks = {}
    /\ Actions \subseteq LatchActions \cup StopActions
    /\ Scopes \subseteq SUBSET Modes
    /\ Choices \subseteq SUBSET Books
    /\ Nobody \notin APIs \cup Books
    /\ MaxSaves \in Nat /\ MaxDrops \in Nat

VARIABLES latch,     \* fleet_entry_inhibition, by mode
          row,       \* the deployments rows
          ops,       \* fleet_control_operations, by key
          guard,     \* the API process holding each key's advisory lock
          rowLock,   \* who holds FOR UPDATE on each latch row
          pc,        \* where each process is
          req,       \* the request each API process serves, with its key
          mem,       \* `operation', the targets still to record, and the one that failed
          drops, saves,   \* how much of each bound is used
          sent,      \* commands each key has written, by book
          written    \* latch writes of each key

vars == <<latch, row, ops, guard, rowLock, pc, req, mem, drops, saves,
          sent, written>>

Outcomes == {"command_recorded", "unchanged", "revision_conflict", "failed",
             "not_confirmed"}
Final == {"accepted", "partial", "completed"}

Request == [action : LatchActions \cup StopActions, scope : SUBSET Modes,
            revisions : [Modes -> Nat], targets : SUBSET (Books \X Nat)]
Operation == [status : {"none", "pending"} \cup Final, request : Request,
              results : SUBSET (Books \X Outcomes), latched : BOOLEAN]

NoRequest == [action |-> "disarm", scope |-> {}, targets |-> {},
              revisions |-> [m \in Modes |-> 0]]
NoOperation == [status |-> "none", request |-> NoRequest, results |-> {},
                latched |-> FALSE]

Forgotten == [op |-> NoOperation, todo |-> {}, target |-> Nobody]

Fresh == [status |-> "active", command |-> "none", revision |-> 0]
Absent == [Fresh EXCEPT !.status = "absent"]

APIStates == {"idle", "waiting", "opening", "applying", "rereading", "failing",
              "finishing"}

TypeOK ==
    /\ latch \in [Modes -> [inhibited : BOOLEAN, revision : Nat]]
    /\ row \in [Books -> [status : {"absent", "active", "stopped"},
                          command : {"none", "managed_shutdown", "flatten"},
                          revision : Nat]]
    /\ ops \in [Keys -> Operation]
    /\ guard \in [Keys -> APIs \cup {Nobody}]
    /\ rowLock \in [Modes -> APIs \cup {Nobody}]
    /\ pc \in [APIs -> APIStates]
    /\ req \in [APIs -> [key : Keys, request : Request]]
    /\ mem \in [APIs -> [op : Operation, todo : SUBSET (Books \X Nat),
                         target : Books \cup {Nobody}]]
    /\ drops \in 0..MaxDrops /\ saves \in 0..MaxSaves
    /\ sent \in [Keys -> [Books -> Nat]]
    /\ written \in [Keys -> Nat]

Init ==
    /\ latch = [m \in Modes |-> [inhibited |-> FALSE, revision |-> 0]]
    /\ row = [b \in Books |-> IF b \in NewBooks THEN Absent ELSE Fresh]
    /\ ops = [k \in Keys |-> NoOperation]
    /\ guard = [k \in Keys |-> Nobody]
    /\ rowLock = [m \in Modes |-> Nobody]
    /\ pc = [p \in APIs |-> "idle"]
    /\ req \in [APIs -> [key : Keys, request : {NoRequest}]]
    /\ mem = [p \in APIs |-> Forgotten]
    /\ drops = 0 /\ saves = 0
    /\ sent = [k \in Keys |-> [b \in Books |-> 0]]
    /\ written = [k \in Keys |-> 0]

(***************************************************************************)
(* Requests.  A request confirms what a preview showed: the latch          *)
(* revisions of its modes, or some books of its scope with their           *)
(* revisions.  A client may send a request again under its key.            *)
(***************************************************************************)
InScope(b, scope) == row[b].status # "absent" /\ ModeOf(b) \in scope

LatchRequest(a, s) ==
    [action |-> a, scope |-> s, targets |-> {},
     revisions |-> [m \in Modes |-> IF m \in s THEN latch[m].revision ELSE 0]]

StopRequest(a, s, confirmed) ==
    [action |-> a, scope |-> s, revisions |-> [m \in Modes |-> 0],
     targets |-> {<<b, row[b].revision>> : b \in confirmed}]

Previewed ==
    {LatchRequest(a, s) : a \in Actions \cap LatchActions, s \in Scopes}
    \cup UNION {{StopRequest(a, s, confirmed) : a \in Actions \cap StopActions,
                     confirmed \in {c \in Choices : \A b \in c : InScope(b, s)}} : s \in Scopes}

Repeated(k) ==
    {ops[k].request : x \in {y \in {k} : ops[y].status # "none"}}
    \cup {req[q].request : q \in {r \in APIs : pc[r] # "idle" /\ req[r].key = k}}

Submit(p, k) ==
    /\ pc[p] = "idle"
    /\ \E r \in Previewed \cup Repeated(k) : req' = [req EXCEPT ![p] = [key |-> k, request |-> r]]
    /\ pc' = [pc EXCEPT ![p] = "waiting"]
    /\ UNCHANGED <<latch, row, ops, guard, rowLock, mem, drops, saves, sent, written>>

Key(p) == req[p].key
Asked(p) == req[p].request
Released(p) == [guard EXCEPT ![Key(p)] = IF @ = p THEN Nobody ELSE @]
Unlocked(p) == [m \in Modes |-> IF rowLock[m] = p THEN Nobody ELSE rowLock[m]]

\* The request is answered or fails: its session gives up every lock.
End(p) ==
    /\ guard' = Released(p)
    /\ rowLock' = Unlocked(p)
    /\ pc' = [pc EXCEPT ![p] = "idle"]
    /\ mem' = [mem EXCEPT ![p] = Forgotten]
    /\ req' = [req EXCEPT ![p].request = NoRequest]

Acquire(p) ==
    /\ pc[p] = "waiting"
    /\ guard[Key(p)] = Nobody
    /\ guard' = [guard EXCEPT ![Key(p)] = p]
    /\ pc' = [pc EXCEPT ![p] = "opening"]
    /\ UNCHANGED <<latch, row, ops, rowLock, req, mem, drops, saves, sent, written>>

(***************************************************************************)
(* Opening the key's operation, under the guard.                           *)
(***************************************************************************)
Answer(p) ==
    /\ pc[p] = "opening"
    /\ ops[Key(p)].status # "none"
    /\ ops[Key(p)].request # Asked(p) \/ ops[Key(p)].status \in Final
    /\ End(p)
    /\ UNCHANGED <<latch, row, ops, drops, saves, sent, written>>

Receipted(op) == {result[1] : result \in op.results}

\* Mutant: a resumed operation commands every confirmed book again.
OpenedAgain(op) == [op |-> op, target |-> Nobody, todo |-> op.request.targets]

Opened(op) == [op |-> op, target |-> Nobody,
               todo |-> {t \in op.request.targets : t[1] \notin Receipted(op)}]

\* Mutant: an operation that is finished is applied again.
ResumeFinished(p) ==
    /\ pc[p] = "opening"
    /\ ops[Key(p)].status # "none"
    /\ ops[Key(p)].request = Asked(p)
    /\ mem' = [mem EXCEPT ![p] = Opened([ops[Key(p)] EXCEPT !.status = "pending"])]
    /\ pc' = [pc EXCEPT ![p] = "applying"]
    /\ UNCHANGED <<latch, row, ops, guard, rowLock, req, drops, saves, sent, written>>

Resume(p) ==
    /\ pc[p] = "opening"
    /\ ops[Key(p)].status = "pending"
    /\ ops[Key(p)].request = Asked(p)
    /\ mem' = [mem EXCEPT ![p] = Opened(ops[Key(p)])]
    /\ pc' = [pc EXCEPT ![p] = "applying"]
    /\ UNCHANGED <<latch, row, ops, guard, rowLock, req, drops, saves, sent, written>>

InsertPending(p) ==
    LET op == [NoOperation EXCEPT !.status = "pending", !.request = Asked(p)] IN
    /\ pc[p] = "opening"
    /\ ops[Key(p)].status = "none"
    /\ ops' = [ops EXCEPT ![Key(p)] = op]
    /\ mem' = [mem EXCEPT ![p] = Opened(op)]
    /\ pc' = [pc EXCEPT ![p] = "applying"]
    /\ UNCHANGED <<latch, row, guard, rowLock, req, drops, saves, sent, written>>

(***************************************************************************)
(* Disarm and rearm.  The mode rows are locked in the order of their       *)
(* names, the confirmed revisions are compared under the locks, and the    *)
(* latch and the receipt are written together.                             *)
(***************************************************************************)
Latching(p) == pc[p] = "applying" /\ Asked(p).action \in LatchActions
Unheld(p) == {m \in Asked(p).scope : rowLock[m] # p}
NextToLock(p) == IF "live" \in Unheld(p) THEN "live" ELSE "paper"

LockMode(p) ==
    /\ Latching(p)
    /\ ~mem[p].op.latched
    /\ Unheld(p) # {}
    /\ rowLock[NextToLock(p)] = Nobody
    /\ rowLock' = [rowLock EXCEPT ![NextToLock(p)] = p]
    /\ UNCHANGED <<latch, row, ops, guard, pc, req, mem, drops, saves, sent, written>>

Confirmed(p) == \A m \in Asked(p).scope : latch[m].revision = Asked(p).revisions[m]

\* Mutant: the latch is written in a transaction before its receipt.
ApplyLatchFirst(p) ==
    /\ Latching(p)
    /\ ~mem[p].op.latched
    /\ Unheld(p) = {}
    /\ Confirmed(p)
    /\ latch' = [m \in Modes |-> [latch[m] EXCEPT !.inhibited = Asked(p).action = "disarm"]]
    /\ written' = [written EXCEPT ![Key(p)] = @ + 1]
    /\ rowLock' = Unlocked(p)
    /\ pc' = [pc EXCEPT ![p] = "finishing"]
    /\ UNCHANGED <<row, ops, guard, req, mem, drops, saves, sent>>

ApplyLatch(p) ==
    LET saved == [mem[p].op EXCEPT !.latched = TRUE] IN
    /\ Latching(p)
    /\ ~mem[p].op.latched
    /\ Unheld(p) = {}
    /\ Confirmed(p)
    /\ latch' = [m \in Modes |->
                   IF m \in Asked(p).scope
                   THEN [inhibited |-> Asked(p).action = "disarm",
                         revision |-> latch[m].revision + 1]
                   ELSE latch[m]]
    /\ written' = [written EXCEPT ![Key(p)] = @ + 1]
    /\ ops' = [ops EXCEPT ![Key(p)] = saved]
    /\ mem' = [mem EXCEPT ![p].op = saved]
    /\ rowLock' = Unlocked(p)
    /\ pc' = [pc EXCEPT ![p] = "finishing"]
    /\ UNCHANGED <<row, guard, req, drops, saves, sent>>

LatchConflict(p) ==
    /\ Latching(p)
    /\ ~mem[p].op.latched
    /\ Unheld(p) = {}
    /\ ~Confirmed(p)
    /\ End(p)
    /\ UNCHANGED <<latch, row, ops, drops, saves, sent, written>>

LatchReplayed(p) ==
    /\ Latching(p)
    /\ mem[p].op.latched
    /\ pc' = [pc EXCEPT ![p] = "finishing"]
    /\ UNCHANGED <<latch, row, ops, guard, rowLock, req, mem, drops, saves, sent, written>>

(***************************************************************************)
(* Managed stop and flatten.  Each confirmed book is locked, compared with *)
(* its confirmed revision and commanded in the transaction that saves its  *)
(* receipt.                                                                *)
(***************************************************************************)
CommandOf(action) == IF action = "flatten" THEN "flatten" ELSE "managed_shutdown"
Commanding(p) == pc[p] = "applying" /\ Asked(p).action \in StopActions

\* Mutant: a book that is already stopped is reported in other words.
OutcomeRenamed(t, r) ==
    IF row[t[1]].status = "absent" \/ ModeOf(t[1]) \notin r.scope THEN "failed"
    ELSE IF row[t[1]].revision # t[2] THEN "revision_conflict"
    ELSE IF row[t[1]].status = "stopped" /\ row[t[1]].command = CommandOf(r.action)
         THEN "already_applied" ELSE "command_recorded"

Outcome(t, r) ==
    IF row[t[1]].status = "absent" \/ ModeOf(t[1]) \notin r.scope THEN "failed"
    ELSE IF row[t[1]].revision # t[2] THEN "revision_conflict"
    ELSE IF row[t[1]].status = "stopped" /\ row[t[1]].command = CommandOf(r.action)
         THEN "unchanged" ELSE "command_recorded"

\* The transaction's writes: the command, if one is due, and its receipt.
Recorded(p, t) ==
    LET result == Outcome(t, Asked(p)) IN
    /\ IF result = "command_recorded"
       THEN /\ row' = [row EXCEPT ![t[1]] = [status |-> "stopped",
                                             command |-> CommandOf(Asked(p).action),
                                             revision |-> t[2] + 1]]
            /\ sent' = [sent EXCEPT ![Key(p)][t[1]] = @ + 1]
       ELSE UNCHANGED <<row, sent>>
    /\ ops' = [ops EXCEPT ![Key(p)] = [mem[p].op EXCEPT !.results = @ \cup {<<t[1], result>>}]]

RecordTarget(p) ==
    /\ Commanding(p)
    /\ \E t \in mem[p].todo :
          /\ Recorded(p, t)
          /\ mem' = [mem EXCEPT ![p].op = ops'[Key(p)], ![p].todo = @ \ {t}]
    /\ UNCHANGED <<latch, guard, rowLock, pc, req, drops, saves, written>>

\* The transaction fails and is rolled back; the session survives.
RecordFails(p) ==
    /\ Commanding(p)
    /\ \E t \in mem[p].todo :
          mem' = [mem EXCEPT ![p].target = t[1], ![p].todo = @ \ {t}]
    /\ pc' = [pc EXCEPT ![p] = "rereading"]
    /\ UNCHANGED <<latch, row, ops, guard, rowLock, req, drops, saves, sent, written>>

\* The session is lost before or after the commit, and the advisory lock with
\* it; the next transaction connects again without the lock.
SessionDropped(p) ==
    /\ Commanding(p)
    /\ drops < MaxDrops
    /\ drops' = drops + 1
    /\ \E t \in mem[p].todo :
          /\ mem' = [mem EXCEPT ![p].target = t[1], ![p].todo = @ \ {t}]
          /\ Recorded(p, t) \/ UNCHANGED <<row, sent, ops>>
    /\ guard' = Released(p)
    /\ pc' = [pc EXCEPT ![p] = "rereading"]
    /\ UNCHANGED <<latch, rowLock, req, saves, written>>

Reread(p) ==
    /\ pc[p] = "rereading"
    /\ IF mem[p].target \in Receipted(ops[Key(p)])
       THEN /\ mem' = [mem EXCEPT ![p].op = ops[Key(p)], ![p].target = Nobody]
            /\ pc' = [pc EXCEPT ![p] = "applying"]
       ELSE /\ mem' = [mem EXCEPT ![p].op = ops[Key(p)]]
            /\ pc' = [pc EXCEPT ![p] = "failing"]
    /\ UNCHANGED <<latch, row, ops, guard, rowLock, req, drops, saves, sent, written>>

SaveFailed(p) ==
    LET saved == [mem[p].op EXCEPT !.results = @ \cup {<<mem[p].target, "failed">>}] IN
    /\ pc[p] = "failing"
    /\ ops' = [ops EXCEPT ![Key(p)] = saved]
    /\ mem' = [mem EXCEPT ![p].op = saved, ![p].target = Nobody]
    /\ pc' = [pc EXCEPT ![p] = "applying"]
    /\ UNCHANGED <<latch, row, guard, rowLock, req, drops, saves, sent, written>>

\* _apply_books ends by reading the scope again for books nobody confirmed.
Survey(p) ==
    LET known == {t[1] : t \in Asked(p).targets}
        omitted == {b \in Books : InScope(b, Asked(p).scope) /\ b \notin known} IN
    /\ Commanding(p)
    /\ mem[p].todo = {}
    /\ mem' = [mem EXCEPT ![p].op.results = @ \cup (omitted \X {"not_confirmed"})]
    /\ pc' = [pc EXCEPT ![p] = "finishing"]
    /\ UNCHANGED <<latch, row, ops, guard, rowLock, req, drops, saves, sent, written>>

\* Mutant: a book whose transaction failed does not make the result partial.
StatusWithoutFailed(action, results) ==
    IF action \in LatchActions THEN "completed"
    ELSE IF \E result \in results : result[2] \in {"revision_conflict", "not_confirmed"}
         THEN "partial" ELSE "accepted"

StatusFor(action, results) ==
    IF action \in LatchActions THEN "completed"
    ELSE IF \E result \in results :
               result[2] \in {"failed", "revision_conflict", "not_confirmed"}
         THEN "partial" ELSE "accepted"

Finish(p) ==
    /\ pc[p] = "finishing"
    /\ ops' = [ops EXCEPT ![Key(p)] =
                 [mem[p].op EXCEPT !.status = StatusFor(Asked(p).action, mem[p].op.results)]]
    /\ End(p)
    /\ UNCHANGED <<latch, row, drops, saves, sent, written>>

\* A storage error outside a book command, a cancelled request, a dead process.
Abandon(p) ==
    /\ pc[p] # "idle"
    /\ End(p)
    /\ UNCHANGED <<latch, row, ops, drops, saves, sent, written>>

\* Another process inserts a book; its transaction checks the latch row under
\* its lock (module EntryAdmission).
CreateDeployment(b) ==
    /\ row[b].status = "absent"
    /\ rowLock[ModeOf(b)] = Nobody
    /\ ~latch[ModeOf(b)].inhibited
    /\ row' = [row EXCEPT ![b] = Fresh]
    /\ UNCHANGED <<latch, ops, guard, rowLock, pc, req, mem, drops, saves, sent, written>>

\* A per-book operator command or a worker's save, at the revision it read.
SaveDeployment(b) ==
    /\ row[b].status # "absent"
    /\ saves < MaxSaves
    /\ saves' = saves + 1
    /\ \/ row' = [row EXCEPT ![b].revision = @ + 1]
       \/ \E command \in {"managed_shutdown", "flatten"} :
             row' = [row EXCEPT ![b] = [status |-> "stopped", command |-> command,
                                        revision |-> @.revision + 1]]
    /\ UNCHANGED <<latch, ops, guard, rowLock, pc, req, mem, drops, sent, written>>

\* A disarm or rearm under a key that is not among Keys.
SetLatch(m) ==
    /\ rowLock[m] = Nobody
    /\ saves < MaxSaves
    /\ saves' = saves + 1
    /\ \E inhibited \in BOOLEAN :
          latch' = [latch EXCEPT ![m] = [inhibited |-> inhibited, revision |-> @.revision + 1]]
    /\ UNCHANGED <<row, ops, guard, rowLock, pc, req, mem, drops, sent, written>>

APIStep(p) ==
    \/ Acquire(p) \/ Answer(p) \/ Resume(p) \/ InsertPending(p)
    \/ LockMode(p) \/ ApplyLatch(p) \/ LatchConflict(p) \/ LatchReplayed(p)
    \/ RecordTarget(p) \/ RecordFails(p) \/ SessionDropped(p) \/ Reread(p)
    \/ SaveFailed(p) \/ Survey(p) \/ Finish(p)

Next ==
    \/ \E p \in APIs : APIStep(p) \/ Abandon(p) \/ \E k \in Keys : Submit(p, k)
    \/ \E b \in Books : CreateDeployment(b) \/ SaveDeployment(b)
    \/ \E m \in Modes : SetLatch(m)

Spec == Init /\ [][Next]_vars

(***************************************************************************)
(* Properties.                                                             *)
(***************************************************************************)
OneIf(condition) == IF condition THEN 1 ELSE 0

\* While no session is lost, a key's receipts are exactly what it did: one
\* receipt per book, a command for each command_recorded and for nothing else,
\* one latch write when latch_applied and none otherwise.  This is what makes
\* a retry of the key safe after any abandoned request (execute_fleet).
EffectsReceipted ==
    drops = 0 =>
      \A k \in Keys :
        /\ written[k] = OneIf(ops[k].latched)
        /\ \A b \in Books :
             sent[k][b] = OneIf(<<b, "command_recorded">> \in ops[k].results)
        /\ \A r1, r2 \in ops[k].results : r1[1] = r2[1] => r1 = r2

\* Whatever is lost, no key commands a book or writes the latch twice, and a
\* receipt never claims an effect that was not written (record_target and
\* apply_latch commit both together).
ReceiptsHonest ==
    \A k \in Keys :
        /\ written[k] <= 1
        /\ ops[k].latched => written[k] = 1
        /\ \A b \in Books :
             /\ sent[k][b] <= 1
             /\ <<b, "command_recorded">> \in ops[k].results => sent[k][b] = 1

\* An operation reported as accepted has commanded every book the operator
\* confirmed, or found it already commanded at the confirmed revision.
AcceptedIsComplete ==
    \A k \in Keys : ops[k].status = "accepted" =>
        \A t \in ops[k].request.targets :
            sent[k][t[1]] = 1 \/ <<t[1], "unchanged">> \in ops[k].results

\* AcceptedIsComplete holds as long as no session is lost.
AcceptedWhileGuarded == drops = 0 => AcceptedIsComplete

\* While no session is lost, a finished operation never changes again: every
\* later request with the key gets the same answer, also when two requests
\* with the key race (operation_guard).
FinalIsFinal ==
    [][\A k \in Keys : drops' = 0 /\ ops[k].status \in Final => ops'[k] = ops[k]]_vars
=============================================================================
