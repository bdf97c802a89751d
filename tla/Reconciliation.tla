--------------------------- MODULE Reconciliation ---------------------------
(***************************************************************************)
(* The executor's reconciliation task (services/executor/src/              *)
(* reconciliation.rs and its loop in lib.rs): for each symbol and side it  *)
(* reads the local quantity, then the exchange's, and records a difference *)
(* or reduces the local rows. Nothing keeps the handler from moving        *)
(* between any two of its statements.                                      *)
(***************************************************************************)
EXTENDS Positions

CONSTANT MaxCorrectionPct \* of the larger quantity, for a correcting order

ASSUME ReconciliationAssumption == MaxCorrectionPct \in Nat

VARIABLES mode,    \* "detect", "fix" (EXECUTOR_RECONCILE_FIX) or "auto"
          allow,   \* is there an allowlist of live symbols
          recon,   \* the task: where it is, what it has read
          reported \* books recorded in system_events since they last changed

reconVars == <<mode, allow, recon, reported>>

Resting == [pc |-> "rest"]
Dead == [pc |-> "dead"]

ReconInit ==
  /\ mode \in {"detect", "fix", "auto"} /\ allow \in BOOLEAN
  /\ recon = Resting /\ reported = {}

SymbolsToCheck == IF allow THEN Symbols
                  ELSE {s \in Symbols : \E d \in Sides : OpenRows(<<s, d>>) # {}}

Watched(b) == b[1] \in SymbolsToCheck

At(pc, todo) == [pc |-> pc, todo |-> todo, local |-> 0, bybit |-> 0,
                 plan |-> {}, reduce |-> 0, fixed |-> FALSE, moved |-> FALSE]
Book == Head(recon.todo)
\* Mutated: the rest of the tick is given up with the book (return for continue).
GiveUpTick == Resting

NextBook == IF Len(recon.todo) = 1 THEN Resting ELSE At("local", Tail(recon.todo))

\* sleep(60), then the symbols; in an order that does not matter here
StartTick ==
  /\ recon = Resting /\ SymbolsToCheck # {}
  /\ recon' = At("local", SetToSeq({b \in Books : Watched(b)}))
  /\ UNCHANGED <<mode, allow, reported, positionVars>>

\* A failing query ends the tick.
ReadLocal ==
  /\ recon.pc = "local"
  /\ \/ recon' = [recon EXCEPT !.pc = "exchange", !.local = LocalQty(Book)] /\ UNCHANGED faults
     \/ Fault /\ recon' = Resting
  /\ UNCHANGED <<mode, allow, reported, trades, net, handler, orders, closes>>

\* Mutated: the wrong side is taken to be ahead.
ReducibleSwapped(local, bybit) == mode = "fix" /\ bybit > local

Reducible(local, bybit) == mode = "fix" /\ local > bybit

\* What follows from the two quantities. The correcting order is never reached:
\* the daily count is locked with blocking_lock, which panics on a runtime
\* thread and ends the task.
Verdict(local, bybit) ==
  LET diff == Distance(local, bybit)
      larger == IF local < bybit THEN bybit ELSE local
  IN IF diff = 0 THEN NextBook
     ELSE IF mode = "auto" /\ diff * 100 <= larger * MaxCorrectionPct THEN Dead
     ELSE [recon EXCEPT !.bybit = bybit, !.moved = FALSE,
             !.pc = IF Reducible(local, bybit) THEN "plan" ELSE "record"]

\* A failing request skips the book.
ReadExchange ==
  /\ recon.pc = "exchange"
  /\ \/ recon' = Verdict(recon.local, Held(Book)) /\ UNCHANGED faults
     \/ Fault /\ recon' = NextBook
  /\ UNCHANGED <<mode, allow, reported, trades, net, handler, orders, closes>>

\* apply_reconciliation_reduce_local: the rows as they are now, against the
\* exchange's quantity as it was; newest first.
PlanReduction ==
  /\ recon.pc = "plan"
  /\ \/ /\ recon' = [recon EXCEPT !.pc = "reduce",
                       !.plan = {[id |-> i, qty |-> trades[i].qty] : i \in OpenRows(Book)},
                       !.reduce = Positive(LocalQty(Book) - recon.bybit)]
        /\ UNCHANGED faults
     \/ Fault /\ recon' = NextBook
  /\ UNCHANGED <<mode, allow, reported, trades, net, handler, orders, closes>>

\* Mutated: what a closed row has taken off is not counted.
StillToReduce(row) == recon.reduce

LeftToReduce(row) == recon.reduce - row.qty

Newest(plan) == CHOOSE row \in plan : \A other \in plan : other.id <= row.id

\* One row after the other, by its id alone and with the quantity read before.
ReduceRow ==
  /\ recon.pc = "reduce" /\ recon.plan # {} /\ recon.reduce > 0
  /\ LET row == Newest(recon.plan)
     IN \/ /\ recon.reduce >= row.qty
           /\ trades' = [trades EXCEPT ![row.id].open = FALSE, ![row.id].why = "error"]
           /\ recon' = [recon EXCEPT !.plan = @ \ {row}, !.reduce = LeftToReduce(row)]
           /\ UNCHANGED faults
        \/ /\ recon.reduce < row.qty
           /\ trades' = [trades EXCEPT ![row.id].qty = row.qty - recon.reduce]
           /\ recon' = [recon EXCEPT !.plan = {}]
           /\ UNCHANGED faults
        \/ Fault /\ recon' = NextBook /\ UNCHANGED trades
  /\ UNCHANGED <<mode, allow, reported, net, handler, orders, closes>>

Reduced ==
  /\ recon.pc = "reduce" /\ (recon.plan = {} \/ recon.reduce = 0)
  /\ recon' = [recon EXCEPT !.pc = "record", !.fixed = TRUE]
  /\ UNCHANGED <<mode, allow, reported, positionVars>>

\* A failing insert is ignored.
RecordEvent ==
  /\ recon.pc = "record" /\ recon' = NextBook
  /\ \/ reported' = reported \union {Book} /\ UNCHANGED faults
     \/ Fault /\ UNCHANGED reported
  /\ UNCHANGED <<mode, allow, trades, net, handler, orders, closes>>

\* Any query or request of the tick may never return, and the loop awaits the tick.
TickHangs ==
  /\ recon \notin {Dead, Hung} /\ recon' = Hung
  /\ UNCHANGED <<mode, allow, reported, positionVars>>

\* The process dies with the handler's order and the tick, and starts again.
CrashExecutor ==
  /\ (handler # Idle \/ recon # Resting) /\ Fault
  /\ handler' = Idle /\ recon' = Resting
  /\ UNCHANGED <<mode, allow, reported, trades, net, orders, closes>>

ReconStep == \/ StartTick \/ ReadLocal \/ ReadExchange \/ PlanReduction
             \/ ReduceRow \/ Reduced \/ RecordEvent

\* What is on record about a book is outdated once it changes, and the task
\* does not notice that the handler moves (both history).
Outdated == {b \in Books : LocalQty(b)' # LocalQty(b) \/ Held(b)' # Held(b)}

HandlerMoves ==
  /\ Handler
  /\ reported' = reported \ Outdated
  /\ recon' = IF recon \in {Resting, Dead, Hung} THEN recon ELSE [recon EXCEPT !.moved = TRUE]
  /\ UNCHANGED <<mode, allow>>

ExchangeMoves ==
  /\ ExchangeCloses
  /\ reported' = reported \ Outdated
  /\ UNCHANGED <<mode, allow, recon>>

ReconNext == ReconStep \/ TickHangs \/ CrashExecutor \/ HandlerMoves \/ ExchangeMoves

ReconSpec == PositionsInit /\ ReconInit /\ [][ReconNext]_<<reconVars, positionVars>>

------------------------------------------------------------------------------
Drift(b) == LocalQty(b) # Held(b)

\* "applies conservative local reductions when local qty > Bybit qty"
\* (docs/operations/RUNBOOK.md 145): whatever rows a reduction finds and whatever
\* the exchange closes in the meantime, no row that it closes or cuts leaves less
\* open locally than the exchange holds, provided the handler has not moved
\* since the exchange was asked.
ReductionIsConservative ==
  [][\A b \in Books :
       /\ recon.pc = "reduce" /\ b = Book
       /\ trades' # trades /\ ~recon'.moved
       => LocalQty(b)' >= Held(b)]_<<reconVars, positionVars>>

\* With EXECUTOR_RECONCILE_FIX a position that the exchange has closed, wholly or
\* in part, does not stay open locally for ever, whatever failed or crashed
\* while it was closed, as long as no call of the task hangs.
DriftIsRepaired ==
  mode = "fix" => <>[](recon = Hung \/ \A b \in Books : LocalQty(b) <= Held(b))

\* A difference on a symbol that is looked at is recorded, unless it goes away or
\* a call of the task hangs.
\* Without an allowlist a position with no open row is not looked at, and
\* with the correcting orders the task may be dead.
DriftIsReported ==
  \A b \in Books : (Drift(b) /\ mode # "auto")
                    ~> (b \in reported \/ ~Drift(b) \/ ~Watched(b) \/ recon = Hung)
==============================================================================
