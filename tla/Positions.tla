----------------------------- MODULE Positions -----------------------------
(***************************************************************************)
(* What the executor's reconciliation and the monitor compare: the open    *)
(* rows of table trades and the position the exchange holds, while the     *)
(* decision handler (module Executor has it step by step) fills an order   *)
(* first and writes its row some awaits later, and the exchange closes     *)
(* positions by itself (the native trailing stop, a liquidation).          *)
(***************************************************************************)
EXTENDS Integers, Sequences, FiniteSets, SequencesExt

CONSTANTS Symbols, Sizes, \* order quantities, in lots
          MaxOrders, MaxCloses, MaxFaults

ASSUME PositionsAssumption ==
  /\ IsFiniteSet(Symbols) /\ Sizes \subseteq Nat \ {0}
  /\ MaxOrders \in Nat /\ MaxCloses \in Nat /\ MaxFaults \in Nat

VARIABLES trades,  \* rows of table trades, oldest first
          net,     \* position per symbol on the exchange, short is negative
          handler, \* the decision handler: idle, or an order whose row is to be written
          orders, closes, faults

positionVars == <<trades, net, handler, orders, closes, faults>>

Sides == {"Long", "Short"}
Books == Symbols \X Sides
Sign(side) == IF side = "Long" THEN 1 ELSE -1
LowerOf(a, b) == IF a < b THEN a ELSE b
Positive(n) == IF n > 0 THEN n ELSE 0
Distance(a, b) == IF a < b THEN b - a ELSE a - b

OpenRows(b) == {i \in DOMAIN trades : trades[i].open /\ trades[i].book = b}

Total(weights, n) ==
  LET upto[i \in 0 .. n] == IF i = 0 THEN 0 ELSE upto[i - 1] + weights[i] IN upto[n]
Sum(ids) == Total([i \in DOMAIN trades |-> IF i \in ids THEN trades[i].qty ELSE 0], Len(trades))

\* local_open_qty and fetch_bybit_position_qty of one side
LocalQty(b) == Sum(OpenRows(b))
Held(b) == Positive(Sign(b[2]) * net[b[1]])

Idle == [pc |-> "idle"]

\* A watcher that awaits a call which does not return: neither the executor's nor
\* the monitor's HTTP client (reqwest::Client::new()) has a timeout.
Hung == [pc |-> "hung"]
Fault == faults < MaxFaults /\ faults' = faults + 1

PositionsInit ==
  /\ trades = <<>> /\ net = [s \in Symbols |-> 0] /\ handler = Idle
  /\ orders = 0 /\ closes = 0 /\ faults = 0

\* submit_market_order for an entry: the exchange nets it with what is open.
FillEntry ==
  /\ handler = Idle /\ orders < MaxOrders
  /\ \E b \in Books, q \in Sizes :
       /\ net' = [net EXCEPT ![b[1]] = @ + Sign(b[2]) * q]
       /\ handler' = [pc |-> "insert", book |-> b, qty |-> q]
  /\ orders' = orders + 1 /\ UNCHANGED <<trades, closes, faults>>

\* persist_trade; a failure is logged, the position has no row then.
InsertTrade ==
  /\ handler.pc = "insert" /\ handler' = Idle
  /\ \/ /\ trades' = Append(trades, [book |-> handler.book, qty |-> handler.qty,
                                     open |-> TRUE, why |-> "none"])
        /\ UNCHANGED faults
     \/ Fault /\ UNCHANGED trades
  /\ UNCHANGED <<net, orders, closes>>

\* submit_market_order for a close, of the quantity of an open row: reduce-only.
FillClose ==
  /\ handler = Idle /\ orders < MaxOrders
  /\ \E b \in Books : \E i \in OpenRows(b) :
       /\ Held(b) > 0
       /\ LET q == LowerOf(trades[i].qty, Held(b))
          IN /\ net' = [net EXCEPT ![b[1]] = @ - Sign(b[2]) * q]
             /\ handler' = [pc |-> "close", book |-> b, qty |-> q]
  /\ orders' = orders + 1 /\ UNCHANGED <<trades, closes, faults>>

\* close_open_trade: the newest open row of the side, as a whole or in part.
CloseOpenTrade ==
  /\ handler.pc = "close" /\ handler' = Idle
  /\ \/ LET rows == OpenRows(handler.book)
        IN /\ trades' = IF rows = {} THEN trades
                        ELSE LET i == CHOOSE k \in rows : \A j \in rows : j <= k
                             IN IF handler.qty < trades[i].qty
                                THEN [trades EXCEPT ![i].qty = @ - handler.qty]
                                ELSE [trades EXCEPT ![i].open = FALSE, ![i].why = "exit"]
           /\ UNCHANGED faults
     \/ Fault /\ UNCHANGED trades
  /\ UNCHANGED <<net, orders, closes>>

\* The exchange's own trailing stop, or a liquidation, which may be partial.
ExchangeCloses ==
  /\ closes < MaxCloses /\ closes' = closes + 1
  /\ \E s \in Symbols, left \in {0} \union Sizes :
       /\ left < Distance(net[s], 0)
       /\ net' = [net EXCEPT ![s] = IF @ > 0 THEN left ELSE -left]
  /\ UNCHANGED <<trades, handler, orders, faults>>

Handler == FillEntry \/ InsertTrade \/ FillClose \/ CloseOpenTrade
==============================================================================
