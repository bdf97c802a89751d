----------------------------- MODULE Consensus -----------------------------
(***************************************************************************)
(* What market-data makes of the answers of several exchanges for a symbol *)
(* (services/market-data/src/exchanges.rs and consensus.rs): the answers   *)
(* are cut to the same closed candles, their regimes are counted and their *)
(* figures averaged with weights from analytics; a latch holds the side    *)
(* until another one is confirmed. Candles are named by their age in       *)
(* minutes, the one still open has age 0; scores are in hundredths.        *)
(***************************************************************************)
EXTENDS Integers, Sequences, FiniteSets, SequencesExt

CONSTANTS Exchanges,     \* one of them is "bybit"
          MinExchanges,  \* MARKET_DATA_MIN_EXCHANGES, already clamped
          Fetched,       \* candles asked for
          Required,      \* candles needed
          Confirmations, \* CONSENSUS_SIDE_CONFIRMATION_CYCLES
          MinEvaluated   \* ANALYTICS_MIN_EVALUATED

ASSUME ConsensusAssumption ==
  /\ IsFiniteSet(Exchanges) /\ "bybit" \in Exchanges
  /\ MinExchanges \in 1 .. Cardinality(Exchanges)
  /\ Required \in Nat \ {0} /\ Fetched \in Nat /\ Required < Fetched
  /\ Confirmations \in Nat \ {0} /\ MinEvaluated \in Nat \ {0}

Regimes == {"bullish", "bearish", "neutral"}

LowestOf(S) == CHOOSE x \in S : \A y \in S : x <= y
HighestOf(S) == CHOOSE x \in S : \A y \in S : y <= x
Clamped(x, low, high) == IF x < low THEN low ELSE IF x > high THEN high ELSE x

------------------------------------------------------------------------------
(* Alignment. An answer is a record with the ages of its candles.           *)

Candles(lag) == lag .. lag + Fetched - 1

\* retain_closed_candles
Closed(ages) == ages \ {0}

\* The candles that all answers have, the Required youngest of them.
Common(answers) == {a \in UNION {Closed(x.ages) : x \in answers} :
                      \A x \in answers : a \in Closed(x.ages)}
Youngest(ages) == {a \in ages : Cardinality({b \in ages : b < a}) < Required}
Aligned(answers) ==
  {[x EXCEPT !.ages = @ \intersect Youngest(Common(answers))] : x \in answers}

\* One exchange that lags behind is enough to refuse the symbol.
Alignable(answers) == Cardinality(Common(answers)) >= Required

------------------------------------------------------------------------------
(* Aggregation.                                                             *)

\* median, doubled so that it stays whole
MedianTwice(values) ==
  LET s == SortSeq(values, <) n == Len(s) mid == n \div 2
  IN IF n = 0 THEN 0
     ELSE IF n % 2 = 0 THEN s[mid] + s[mid + 1] ELSE 2 * s[mid + 1]

\* The weight of an exchange in percent: from the hit rate (percent) of its row
\* for the symbol, else of its row for all symbols, if enough was evaluated.
RowWeight(row) == Clamped(100 + 2 * (row.hits - 50), 50, 150)
Counts(row) == row.evaluated >= MinEvaluated
Weight(scores, e) ==
  LET own == {r \in scores : r.exchange = e /\ r.symbol = "own" /\ Counts(r)}
      all == {r \in scores : r.exchange = e /\ r.symbol = "*" /\ Counts(r)}
  IN IF own # {} THEN RowWeight(CHOOSE r \in own : TRUE)
     ELSE IF all # {} THEN RowWeight(CHOOSE r \in all : TRUE) ELSE 100

\* Numerator and denominator of the weighted mean of one figure.
TotalWeight(answers, scores) ==
  FoldLeft(LAMBDA n, x : n + Weight(scores, x.source), 0, SetToSeq(answers))
WeightedSum(answers, scores) ==
  FoldLeft(LAMBDA n, x : n + Weight(scores, x.source) * x.score, 0, SetToSeq(answers))

Of(answers, regime) == Cardinality({x \in answers : x.regime = regime})
Unanimous(answers) ==
  IF Of(answers, "bullish") = Cardinality(answers) THEN "bullish"
  ELSE IF Of(answers, "bearish") = Cardinality(answers) THEN "bearish" ELSE "neutral"

\* current_price: bybit's, or the median of the others'; 0 fails MarketSignal::validate.
PriceTwice(answers) ==
  LET bybit == {x \in answers : x.source = "bybit"}
  IN IF bybit # {} THEN 2 * (CHOOSE x \in bybit : TRUE).price
     ELSE MedianTwice([i \in DOMAIN SetToSeq(answers) |-> SetToSeq(answers)[i].price])

------------------------------------------------------------------------------
(* stabilize_consensus_side                                                 *)

NewLatch(side) == [stable |-> side, pending |-> side, count |-> 0]

\* Mutated: the observations that differ are counted whatever they are.
CountAnyChange(latch, side) == latch.count + 1

Count(latch, side) == IF side = latch.pending THEN latch.count + 1 ELSE 1

\* Mutated: the side to be confirmed is not remembered.
ForgetsPending(latch, side) ==
  IF side = latch.stable THEN [latch EXCEPT !.count = 0]
  ELSE IF Count(latch, side) >= Confirmations THEN NewLatch(side)
  ELSE [latch EXCEPT !.count = Count(latch, side)]

Stabilized(latch, side) ==
  IF side = latch.stable THEN [latch EXCEPT !.pending = side, !.count = 0]
  ELSE IF Count(latch, side) >= Confirmations THEN NewLatch(side)
  ELSE [latch EXCEPT !.pending = side, !.count = Count(latch, side)]
============================================================================
