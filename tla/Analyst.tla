------------------------------- MODULE Analyst -------------------------------
(***************************************************************************)
(* The advice of the ai-analyst (services/ai-analyst/src/lib.rs and        *)
(* trade_diagnostics.rs): from the closed trades of two windows and the    *)
(* reasons of refusals and exits, the state of the market, how entries are *)
(* to be sized and which symbols to avoid; and for an open position, from  *)
(* that advice and the latest signal, whether to hold it.                  *)
(*                                                                         *)
(* A record holds the number of trades of each kind (window, side, symbol, *)
(* close reason, profit). Profits, trend scores and %B are in hundredths.  *)
(***************************************************************************)
EXTENDS Integers, FiniteSets, FiniteSetsExt

CONSTANTS SymbolLimit  \* symbol_limit of the analysis

ASSUME AnalystAssumption == SymbolLimit \in Nat

------------------------------------------------------------------------------
(* The queries. An average is a pair of a sum and a number; that of nothing *)
(* is zero.                                                                 *)

Kinds(r, window) == {k \in DOMAIN r.trades : k.window = window /\ r.trades[k] > 0}
Number(r, kinds) == MapThenSumSet(LAMBDA k : r.trades[k], kinds)
Profit(r, kinds) == MapThenSumSet(LAMBDA k : r.trades[k] * k.pnl, kinds)

Average(r, kinds) == [sum |-> Profit(r, kinds), n |-> Max({1, Number(r, kinds)})]
Above(a, x) == a.sum > x * a.n
Less(a, b) == a.sum * b.n < b.sum * a.n
Absolute(a) == [a EXCEPT !.sum = IF @ < 0 THEN -@ ELSE @]

\* a exceeds b by more than x.
Gains(a, b, x) == a.sum * b.n > b.sum * a.n + x * a.n * b.n

\* Wins and losses weighted with their numbers: what the average trade made.
Expectancy(r, window) == Average(r, Kinds(r, window))

BySide(r, window, side) == Average(r, {k \in Kinds(r, window) : k.side = side})
ByReason(r, window, reason) == {k \in Kinds(r, window) : k.reason = reason}

\* The share of a close reason, as an average of 0 and 100.
Share(r, window, reason) ==
  [sum |-> 100 * Number(r, ByReason(r, window, reason)),
   n |-> Max({1, Number(r, Kinds(r, window))})]
AtLeast(a, x) == a.sum >= x * a.n

ThesisAverage(r, side) ==
  Average(r, {k \in ByReason(r, "current", "thesis_invalidated") : k.side = side})
PositiveThesis(r) ==
  LET all == ByReason(r, "current", "thesis_invalidated")
  IN [sum |-> 100 * Number(r, {k \in all : k.pnl > 0}), n |-> Max({1, Number(r, all)})]

OfSymbol(r, s) == {k \in Kinds(r, "current") : k.symbol = s}
SymbolsOf(r) == {k.symbol : k \in Kinds(r, "current")}
Worse(r, s, t) == Less(Average(r, OfSymbol(r, s)), Average(r, OfSymbol(r, t)))

\* The worst symbols only; the others count as mixed.
Listed(r) == {s \in SymbolsOf(r) : Cardinality({t \in SymbolsOf(r) : Worse(r, t, s)}) < SymbolLimit}
Exits(r, s, reason) == Number(r, {k \in OfSymbol(r, s) : k.reason = reason})
SymbolStatus(r, s) ==
  LET average == Average(r, OfSymbol(r, s))
      thesis == Exits(r, s, "thesis_invalidated")
      trailing == Exits(r, s, "trailing_stop")
  IN CASE s \in Listed(r) /\ Number(r, OfSymbol(r, s)) >= 2 /\ average.sum < 0
            /\ thesis >= trailing -> "fragile"
       [] s \in Listed(r) /\ average.sum > 0 /\ trailing > thesis -> "healthy"
       [] OTHER -> "mixed"

------------------------------------------------------------------------------
(* build_comparative_diagnostics: only the long side is compared.           *)

Regressed(r) ==
  \/ Gains(Expectancy(r, "previous"), Expectancy(r, "current"), 10)
  \/ Gains(Share(r, "current", "thesis_invalidated"), Share(r, "previous", "thesis_invalidated"), 5)
  \/ Gains(BySide(r, "previous", "long"), BySide(r, "current", "long"), 10)
Improved(r) ==
  \/ Gains(Expectancy(r, "current"), Expectancy(r, "previous"), 10)
  \/ Gains(Share(r, "previous", "thesis_invalidated"), Share(r, "current", "thesis_invalidated"), 5)
  \/ Gains(BySide(r, "current", "long"), BySide(r, "previous", "long"), 10)
Comparative(r) ==
  IF Kinds(r, "previous") = {} THEN "insufficient_baseline"
  ELSE IF Regressed(r) /\ Improved(r) THEN "mixed"
  ELSE IF Regressed(r) THEN "regressed" ELSE IF Improved(r) THEN "improved" ELSE "stable"

------------------------------------------------------------------------------
(* build_regime_diagnostics                                                 *)

Regime(r) ==
  LET long == BySide(r, "current", "long")
      short == BySide(r, "current", "short")
      blocks == Max({1, r.consensusBlocks + r.otherBlocks})
  IN IF Above(long, 20) /\ ~Above(short, 5) THEN "long_biased_trend"
     ELSE IF Above(short, 20) /\ ~Above(long, 5) THEN "short_biased_trend"
     ELSE IF 100 * r.consensusBlocks >= 45 * blocks THEN "consensus_gated_mixed"
     ELSE IF AtLeast(Share(r, "current", "thesis_invalidated"), 70) THEN "thesis_heavy_chop"
     ELSE "balanced_mixed"

RegimeStatus(r) ==
  LET thesis == Share(r, "current", "thesis_invalidated")
      AverageOf(reason) == Average(r, ByReason(r, "current", reason))
  IN IF /\ Expectancy(r, "current").sum > 0
        /\ Less(Absolute(AverageOf("thesis_invalidated")), AverageOf("trailing_stop"))
        /\ ~Above(thesis, 70)
     THEN "supportive"
     ELSE IF \/ AtLeast(thesis, 70)
             \/ Regime(r) = "long_biased_trend" /\ BySide(r, "current", "short").sum < 0
             \/ Regime(r) = "short_biased_trend" /\ BySide(r, "current", "long").sum < 0
     THEN "fragile" ELSE "mixed"

ExitProfile(r) ==
  IF ~Less(Share(r, "current", "trailing_stop"), Share(r, "current", "thesis_invalidated"))
  THEN "trailing_dominant"
  ELSE IF AtLeast(Share(r, "current", "thesis_invalidated"), 65) THEN "thesis_dominant"
  ELSE "balanced"

------------------------------------------------------------------------------
(* trade_diagnostics.rs; an evaluation that failed leaves "warn".           *)

ExitPressure(r) ==
  LET thesis == Share(r, "current", "thesis_invalidated")
      strong == \E side \in {"long", "short"} : Above(Absolute(BySide(r, "current", side)), 30)
  IN IF /\ AtLeast(thesis, IF strong THEN 70 ELSE 80)
        /\ ~Above(Share(r, "current", "trailing_stop"), 12) THEN "fail"
     ELSE IF AtLeast(thesis, IF Number(r, Kinds(r, "current")) < 20 THEN 55 ELSE 65) THEN "warn"
     ELSE "pass"

ThesisQuality(r) ==
  LET long == ThesisAverage(r, "long")
      short == ThesisAverage(r, "short")
  IN IF ~Above(long, -20) /\ r.noAlignment >= r.healthThreshold THEN "fail"
     ELSE IF AtLeast(PositiveThesis(r), 25) THEN "pass"
     ELSE IF r.healthThreshold > r.noAlignment \/ ~Less(short, long) THEN "warn"
     ELSE "pass"

Severity(r, of) == IF r.evaluated THEN of ELSE "warn"

DirectionalBias(r) ==
  IF Less(BySide(r, "current", "long"), BySide(r, "current", "short")) THEN "short" ELSE "long"

------------------------------------------------------------------------------
(* build_execution_advice                                                   *)

Market(r) ==
  IF Number(r, Kinds(r, "current")) < 5
  THEN [state |-> "observation_mode", entry |-> "only_best_setups", size |-> "reduced_size_50"]
  ELSE IF Expectancy(r, "current").sum < 0 \/ Comparative(r) = "regressed" \/ RegimeStatus(r) = "fragile"
  THEN [state |-> "defensive", entry |-> "avoid_marginal_entries",
        size |-> IF ExitProfile(r) = "thesis_dominant" THEN "minimal_size_33" ELSE "reduced_size_50"]
  ELSE IF /\ RegimeStatus(r) = "supportive" /\ ExitProfile(r) = "trailing_dominant"
          /\ Severity(r, ThesisQuality(r)) = "pass"
  THEN [state |-> "constructive", entry |-> "allow_biased_entries", size |-> "full_size"]
  ELSE [state |-> "selective", entry |-> "only_best_setups", size |-> "reduced_size_75"]

ExitAction(r) ==
  IF ExitProfile(r) = "thesis_dominant" /\ RegimeStatus(r) = "fragile" THEN "tighten_existing_positions"
  ELSE IF /\ Severity(r, ExitPressure(r)) = "pass" /\ Severity(r, ThesisQuality(r)) = "pass"
          /\ Expectancy(r, "current").sum >= 0 THEN "let_winners_run"
  ELSE "monitor_positions_closely"

Fragile(r) == {s \in SymbolsOf(r) : SymbolStatus(r, s) = "fragile"}
Avoided(r) == {s \in Fragile(r) : Cardinality({t \in Fragile(r) : Worse(r, t, s)}) < 3}

\* The side of the bias is always one of the two, never "neutral".
ExecutionAdvice(r) ==
  LET m == Market(r)
  IN [state |-> m.state, entry |-> m.entry, size |-> m.size, exit |-> ExitAction(r),
      preferred |-> DirectionalBias(r), avoid |-> Avoided(r)]

------------------------------------------------------------------------------
(* build_active_position_advice. A signal that is missing reads as zeros,   *)
(* %B included, and no side.                                                *)

NoSignal == [side |-> "unknown", price |-> 0, emaFast |-> 0, percentB |-> 0, trend |-> 0]

\* The estimated profit as a quotient; the short's is turned around, not negated.
ProfitOf(p, signal) ==
  IF signal.price <= 0 \/ p.entry <= 0 THEN [sum |-> 0, n |-> 1]
  ELSE IF p.side = "long" THEN [sum |-> 10000 * (signal.price - p.entry), n |-> p.entry]
  ELSE [sum |-> 10000 * (p.entry - signal.price), n |-> signal.price]

ConsensusOpposite(p, signal) == signal.side = (IF p.side = "long" THEN "bearish" ELSE "bullish")
PriceUnfavourable(p, signal) ==
  /\ signal.price > 0 /\ signal.emaFast > 0
  /\ IF p.side = "long" THEN signal.price < signal.emaFast ELSE signal.price > signal.emaFast
BandWeak(p, signal) == IF p.side = "long" THEN signal.percentB < 20 ELSE signal.percentB > 80

\* Mutated: the trend is held against a position whatever its side.
TrendFalls(p, signal) == signal.trend < 0

TrendAgainst(p, signal) == IF p.side = "long" THEN signal.trend < 0 ELSE signal.trend > 0
Stalling(p, signal) == p.minutes >= 45 /\ ~AtLeast(ProfitOf(p, signal), 10)

Points(holds, n) == IF holds THEN n ELSE 0
MaintenanceScore(p, signal, advice, status) ==
  LET pnl == ProfitOf(p, signal)
      sum ==
     (IF advice.preferred = p.side THEN 15 ELSE -15)
     + (CASE advice.state = "constructive" -> 15 [] advice.state = "observation_mode" -> -10
          [] advice.state = "defensive" -> -20 [] OTHER -> 0)
     + (CASE status = "healthy" -> 10 [] status = "fragile" -> -20 [] OTHER -> 0)
     + (CASE AtLeast(pnl, 30) -> 15 [] Above(pnl, 0) /\ ~AtLeast(pnl, 30) -> 5
          [] ~Above(pnl, -50) -> -15 [] Above(pnl, -50) /\ ~AtLeast(pnl, -25) -> -10 [] OTHER -> 0)
     + Points(p.trailing, 10)
     + Points(ConsensusOpposite(p, signal), -20) + Points(PriceUnfavourable(p, signal), -15)
     + Points(TrendAgainst(p, signal), -15) + Points(BandWeak(p, signal), -10)
     + Points(Stalling(p, signal), -10)
  IN Max({-100, Min({sum, 100})})

PositionAction(p, signal, advice, status) ==
  LET score == MaintenanceScore(p, signal, advice, status)
  IN IF score >= 35 THEN "hold" ELSE IF score >= 10 THEN "hold_but_tighten" ELSE "reduce_risk"

RiskFlags(p, signal, advice, status) ==
  Cardinality({i \in 1 .. 7 : << status = "fragile", advice.preferred # p.side,
                                 ConsensusOpposite(p, signal), PriceUnfavourable(p, signal),
                                 BandWeak(p, signal), TrendAgainst(p, signal),
                                 Stalling(p, signal) >>[i]})
PositionConfidence(p, signal, advice, status) ==
  LET flags == RiskFlags(p, signal, advice, status)
  IN IF flags >= 3 \/ p.minutes >= 30 THEN "high"
     ELSE IF flags >= 2 \/ p.minutes >= 10 THEN "medium" ELSE "low"

PositionAdvice(p, signal, advice, status) ==
  [action |-> PositionAction(p, signal, advice, status),
   score |-> MaintenanceScore(p, signal, advice, status),
   confidence |-> PositionConfidence(p, signal, advice, status)]

------------------------------------------------------------------------------
(* One position advised at a time.                                          *)
CONSTANTS Records, OpenPositions, MarketViews

\* The fields the advice for a position computes with.
ASSUME AdviceAssumption ==
  /\ \A p \in OpenPositions :
       /\ {"side", "entry"} \subseteq DOMAIN p
       /\ p.side \in {"long", "short"} /\ p.entry \in Nat \ {0}
  /\ \A signal \in MarketViews :
       \/ signal = NoSignal
       \/ signal \in [side : {"bullish", "bearish", "neutral"}, price : Nat \ {0},
                      emaFast : Nat \ {0}, percentB : Int, trend : Int]

VARIABLE advised  \* the position advised and what was known, once one is

AdviceInit == advised = {}
Advise ==
  /\ advised = {}
  /\ \E a \in [record : Records, position : OpenPositions, signal : MarketViews] : advised' = {a}
AdviceSpec == AdviceInit /\ [][Advise]_advised

OtherSide(side) == IF side = "long" THEN "short" ELSE "long"

\* Prices as their inverses, so that quotients are kept.
MirrorPosition(p, signal) ==
  [p EXCEPT !.side = OtherSide(@), !.entry = signal.price * signal.emaFast]
MirrorView(p, signal) ==
  [signal EXCEPT !.side = CASE @ = "bullish" -> "bearish" [] @ = "bearish" -> "bullish" [] OTHER -> @,
                 !.price = p.entry * signal.emaFast, !.emaFast = p.entry * signal.price,
                 !.percentB = 100 - @, !.trend = -@]

\* A short is judged as the long of the mirrored market under the mirrored bias:
\* the flags of the two sides are written out one by one. (Only with a signal:
\* one that is missing reads as a band of zero, which counts against longs.)
PositionAdviceMirrors ==
  \A a \in advised :
    LET p == a.position
        signal == a.signal
        advice == ExecutionAdvice(a.record)
        status == SymbolStatus(a.record, p.symbol)
    IN signal # NoSignal =>
       PositionAdvice(p, signal, advice, status)
         = PositionAdvice(MirrorPosition(p, signal), MirrorView(p, signal),
                          [advice EXCEPT !.preferred = OtherSide(@)], status)
==============================================================================
