----------------------------- MODULE AtomicBook -----------------------------
(***************************************************************************)
(* What one deployment row promises its readers, whoever writes it: every  *)
(* venue fill and every funding hour reaches its cash exactly once, a stop *)
(* is final, and a latched breaker is released only by an operator reset.  *)
(* Each step is one indivisible read-modify-write.  WorkerLease, where     *)
(* writers read, compute and compare revisions in separate transactions,   *)
(* implements this module.                                                 *)
(***************************************************************************)
EXTENDS Naturals

CONSTANT Entries          \* cash movements: venue fills and funding hours

VARIABLES status,         \* deployments.status
          latched,        \* daily_loss_latched or drawdown_latched
          cash            \* cash[e]: how often e is in the cash column

bookVars == <<status, latched, cash>>

Statuses == {"running", "paused", "stopped"}

\* The status a fail-closed pause leaves: a stopped book stays stopped.
PauseStatus(s) == IF s = "stopped" THEN "stopped" ELSE "paused"

BookInit == /\ status = "running"
            /\ latched = FALSE
            /\ cash = [e \in Entries |-> 0]

\* New movements are booked together, once; projecting them may pause the book.
Settle(es) == /\ \A e \in es : cash[e] = 0
              /\ cash' = [e \in Entries |-> IF e \in es THEN 1 ELSE cash[e]]
              /\ status' \in {status, PauseStatus(status)}
              /\ UNCHANGED latched

\* A worker, a peer or an operator moves the status, and may latch a breaker.
Command == /\ status' \in (IF status = "stopped" THEN {"stopped"} ELSE Statuses)
           /\ latched' \in {latched, TRUE}
           /\ UNCHANGED cash

\* The operator's explicit reset is the only step that clears a latch.
ClearLatches == /\ latched
                /\ latched' = FALSE
                /\ UNCHANGED <<status, cash>>

BookNext == \/ \E es \in SUBSET Entries : Settle(es)
            \/ Command
            \/ ClearLatches

BookSpec == BookInit /\ [][BookNext]_bookVars
=============================================================================
