------------------------------- MODULE Thesis -------------------------------
(***************************************************************************)
(* What a signal says of an open position (services/strategy/src/thesis.rs *)
(* position_health_breakdown, evaluate_thesis_invalidation): a health      *)
(* score of ten components, positive when the market favours the position, *)
(* and the stage its thesis is in. The stages of the two sides are written *)
(* out separately, as in the code. What confirms an exit is in Exits, where*)
(* "degrading_soft" counts as "valid": both forget the counters. Profit is *)
(* in hundredths of a percent.                                             *)
(***************************************************************************)
EXTENDS EntryRules

\* thesis_health
Threshold(cfg, key, side, default) == FromModeOrGlobal(cfg, key, side, default)
RequiredComponents(cfg, profit) ==
  IF profit > FromModeOrGlobal(cfg, "in_profit_pct", "any", 20)
  THEN FromModeOrGlobal(cfg, "required_components_in_profit", "any", 3)
  ELSE FromModeOrGlobal(cfg, "required_components", "any", 2)
OppositeSideExit(cfg) == FromModeOrGlobal(cfg, "opposite_side_exit", "any", "any")

\* Doubled.
BollingerPosition(side, pb) ==
  IF side = "long" THEN CASE pb >= 55 -> 2 [] pb \in 25..54 -> 0 [] pb \in 15..24 -> -1 [] OTHER -> -2
  ELSE CASE pb <= 45 -> 2 [] pb \in 46..75 -> 0 [] pb \in 76..85 -> -1 [] OTHER -> -2

\* Bitcoin's own signal says nothing of Bitcoin.
Components(s, side) ==
  LET bias == IF side = "long" THEN 1 ELSE -1
      Capped(score, weight, cap) == Rounded(Between(-100 * cap, score * bias * weight, 100 * cap), 100)
  IN [consensus_side |-> 30 * DirectionalPoints(s.regime, side),
      bybit_regime |-> 20 * DirectionalPoints(s.bybit, side),
      btc_regime |-> IF s.isBtc THEN 0 ELSE 10 * DirectionalPoints(s.btcRegime, side),
      consensus_trend_score |-> Capped(s.trend, 50, 20),
      bybit_trend_score |-> Capped(s.trend, 30, 10),
      btc_trend_score |-> IF s.isBtc THEN 0 ELSE Capped(s.btcTrend, 25, 10),
      consensus_macd_histogram |-> 5 * Sign(Histogram(s) * bias),
      bollinger_position |-> Contribution(BollingerPosition(side, s.percentB), 2, 5),
      ema_alignment |-> 5 * Towards(side, s.emaFast - s.emaSlow),
      price_vs_fast_ema |->
        IF (IF side = "long" THEN Price >= s.emaFast ELSE Price <= s.emaFast) THEN 5 ELSE -5]
Health(s, side) ==
  LET c == Components(s, side)
  IN Between(-100, c.consensus_side + c.bybit_regime + c.btc_regime + c.consensus_trend_score
                     + c.bybit_trend_score + c.btc_trend_score + c.consensus_macd_histogram
                     + c.bollinger_position + c.ema_alignment + c.price_vs_fast_ema, 100)

AdverseLong(s) ==
  Cardinality({c \in {"consensus_trend_score", "bybit_trend_score", "btc_trend_score",
                      "price_vs_fast_ema"} : Components(s, "long")[c] < 0})

Flipped(cfg, s, side) ==
  LET consensus == s.regime = Against(side)
      bybit == s.bybit = Against(side)
  IN CASE OppositeSideExit(cfg) = "off" -> FALSE
       [] OppositeSideExit(cfg) = "both" -> consensus /\ bybit
       [] OTHER -> consensus \/ bybit
Unaligned(s, side) == s.regime # Favour(side) /\ s.bybit # Favour(side)

\* Of a short: the stages are those of a HIGH score.
ShortStage(cfg, s) ==
  LET Crosses(key, default) == Health(s, "short") >= Threshold(cfg, key, "short", default)
      unaligned == Unaligned(s, "short")
  IN IF \/ Flipped(cfg, s, "short")
        \/ Crosses("invalidate", 55)
        \/ unaligned /\ Crosses("no_alignment", 35)
     THEN "invalidated"
     ELSE IF Crosses("degrading_hard", 40) \/ (unaligned /\ Crosses("degrading_hard_unaligned", 25))
     THEN "degrading_hard"
     ELSE IF Crosses("degrading_soft", 25) \/ (unaligned /\ Crosses("degrading_soft_unaligned", 15))
     THEN "degrading_soft" ELSE "valid"

\* Mutated: as for a short.
LongOfHighScore(cfg, s, profit) ==
  IF Flipped(cfg, s, "long") \/ Health(s, "long") >= Threshold(cfg, "invalidate", "long", 60)
  THEN "invalidated" ELSE "valid"

\* Of a long: those of a low score.
LongStage(cfg, s, profit) ==
  LET Crosses(key, default) == Health(s, "long") <= Threshold(cfg, key, "long", default)
      broken == AdverseLong(s) >= RequiredComponents(cfg, profit)
      unaligned == Unaligned(s, "long")
  IN IF \/ Flipped(cfg, s, "long")
        \/ Crosses("invalidate", -60)
        \/ Crosses("invalidate_confirmed", -50) /\ broken
        \/ unaligned /\ Crosses("no_alignment", -35) /\ broken
     THEN "invalidated"
     ELSE IF /\ Crosses("degrading_hard", -35) \/ (unaligned /\ Crosses("degrading_hard_unaligned", -20))
             /\ AdverseLong(s) >= 2
     THEN "degrading_hard"
     ELSE IF \/ Crosses("degrading_soft", -20)
             \/ unaligned /\ Crosses("degrading_soft_unaligned", -12) /\ AdverseLong(s) >= 1
     THEN "degrading_soft" ELSE "valid"

ThesisStage(cfg, s, side, profit) ==
  IF side = "long" THEN LongStage(cfg, s, profit) ELSE ShortStage(cfg, s)

----------------------------------------------------------------------------
OutlivesItsEntry(side, action) ==
  \A d \in judged :
    /\ Decision(d.cfg, d.s, d.equity, d.trail).action = action
    /\ ~Permissive(d.cfg)
    => ThesisStage(d.cfg, d.s, side, 0) = "valid"

\* The strict rules of entry and the thesis agree: the signal that enters a long
\* is no reason to leave it, or the position would be closed by the next signal
\* like it.
LongOutlivesItsEntry == OutlivesItsEntry("long", "ENTER_LONG")

\* A claim the code does not keep (TLC refutes it): the same of a short.
ShortOutlivesItsEntry == OutlivesItsEntry("short", "ENTER_SHORT")
=============================================================================
