----------------------------- MODULE EntryRules -----------------------------
(***************************************************************************)
(* The decision steps of the strategy (services/strategy/src/lib.rs,       *)
(* execute_strategy_step): from a market signal and the settings, whether  *)
(* to enter, on which side, how much, and the scores the gates behind it   *)
(* compare. The long and the short rules are written out separately, as in *)
(* the code. market-data publishes one trend, one pair of averages and     *)
(* histogram = line - signal, so the copies the code reads apart are one   *)
(* field here. Prices are relative to a current price of Price.            *)
(***************************************************************************)
EXTENDS Settings, Functions

Price == 1000

Side(s) == IF s.trend >= 0 THEN "long" ELSE "short"
Against(side) == IF side = "long" THEN "bearish" ELSE "bullish"
Favour(side) == IF side = "long" THEN "bullish" ELSE "bearish"
Histogram(s) == s.line - s.signal
Abs(x) == IF x < 0 THEN -x ELSE x

----------------------------------------------------------------------------
(* Bitcoin's own side: the penalty on the trend score, none for a refusal. *)
BtcAligned(cfg, s, side) ==
  /\ s.btcRegime = Favour(side)
  /\ IF side = "short" THEN s.btcTrend <= -BtcMinTrendScore(cfg, side)
                       ELSE s.btcTrend >= BtcMinTrendScore(cfg, side)
  /\ s.btcCount >= BtcMinConsensusCount(cfg, side)
BtcPenalty(cfg, s, side) ==
  IF ~RequireBtcAlignment(cfg) \/ s.isBtc \/ BtcAligned(cfg, s, side) THEN {0}
  ELSE IF s.btcRegime = "neutral" /\ s.btcCount >= BtcMinConsensusCount(cfg, side)
       THEN {BtcNeutralPenalty(cfg)} ELSE {}
TrendFloor(cfg, s) == LET side == Side(s)
                      IN MinTrendScore(cfg, side) + (CHOOSE p \in BtcPenalty(cfg, s, side) : TRUE)

----------------------------------------------------------------------------
(* validate_entry: the conditions.                                         *)
ConsensusLong(cfg, s) ==
  IF RequireConsensus(cfg) THEN s.bulls >= 2 /\ s.bears = 0 /\ s.available >= 3
  ELSE s.bybit = "bullish" \/ s.regime = "bullish"
ConsensusShort(cfg, s) ==
  IF RequireConsensus(cfg) THEN s.bears >= 2 /\ s.bulls = 0 /\ s.available >= 3
  ELSE s.bybit = "bearish" \/ s.regime = "bearish"

RsiInBounds(cfg, s) == LET b == RsiBounds(cfg, Side(s)) IN b.low <= s.rsi /\ s.rsi <= b.high
Strength(cfg, s) ==
  RsiInBounds(cfg, s) /\ s.volume >= MinVolumeRatio(cfg, Side(s)) /\ Abs(s.trend) >= TrendFloor(cfg, s)

StrictLong(cfg, s) ==
  /\ s.regime = "bullish" /\ s.bybit = "bullish" /\ ConsensusLong(cfg, s)
  /\ s.slope > 0 /\ s.emaFast > s.emaSlow /\ Price >= s.emaFast
  /\ s.line > s.signal /\ Histogram(s) > 0

\* Mutated: the price is held against the fast average for longs only.
ShortAtAnyPrice(cfg, s) ==
  /\ s.regime = "bearish" /\ s.bybit = "bearish" /\ ConsensusShort(cfg, s)
  /\ s.slope < 0 /\ s.emaFast < s.emaSlow
  /\ s.line < s.signal /\ Histogram(s) < 0

StrictShort(cfg, s) ==
  /\ s.regime = "bearish" /\ s.bybit = "bearish" /\ ConsensusShort(cfg, s)
  /\ s.slope < 0 /\ s.emaFast < s.emaSlow /\ Price <= s.emaFast
  /\ s.line < s.signal /\ Histogram(s) < 0
PermissiveLong(s) ==
  /\ s.bybit = "bullish" \/ s.regime = "bullish" \/ s.trend >= 0
  /\ s.slope >= 0 /\ s.emaFast >= s.emaSlow /\ Price >= s.emaSlow
  /\ s.line >= s.signal /\ Histogram(s) >= 0
PermissiveShort(s) ==
  /\ s.bybit = "bearish" \/ s.regime = "bearish" \/ s.trend < 0
  /\ s.slope <= 0 /\ s.emaFast <= s.emaSlow /\ Price <= s.emaSlow
  /\ s.line <= s.signal /\ Histogram(s) <= 0

DirectionOk(cfg, s) ==
  /\ Allow(cfg, Side(s))
  /\ Strength(cfg, s)
  /\ CASE Side(s) = "long" /\ Permissive(cfg)   -> PermissiveLong(s)
       [] Side(s) = "long" /\ ~Permissive(cfg)  -> StrictLong(cfg, s)
       [] Side(s) = "short" /\ Permissive(cfg)  -> PermissiveShort(s)
       [] Side(s) = "short" /\ ~Permissive(cfg) -> StrictShort(cfg, s)
  /\ \A limit \in PercentBLimit(cfg, Side(s)) :
       IF Side(s) = "short" THEN s.percentB >= limit ELSE s.percentB <= limit
  /\ s.adx >= MinAdx(cfg)

EntryOk(cfg, s) ==
  /\ BtcPenalty(cfg, s, Side(s)) # {}
  /\ s.spread <= MaxSpread(cfg) /\ s.volume24h >= MinVolume24h(cfg) /\ s.atr <= MaxAtr(cfg)
  /\ DirectionOk(cfg, s)

----------------------------------------------------------------------------
(* validate_entry: the score. A component is a ratio within -1 and 1 and a *)
(* weight; what it contributes is rounded, half away from zero.            *)
Between(low, x, high) == IF x < low THEN low ELSE IF x > high THEN high ELSE x
Rounded(num, den) ==
  IF num >= 0 THEN (2 * num + den) \div (2 * den) ELSE -((den - 2 * num) \div (2 * den))
Contribution(num, den, weight) == Rounded(Between(-den, num, den) * weight, den)

Sign(x) == IF x > 0 THEN 1 ELSE IF x < 0 THEN -1 ELSE 0
DirectionalPoints(regime, side) ==
  IF regime = Favour(side) THEN 1 ELSE IF regime = Against(side) THEN -1 ELSE 0

\* Qualities are in hundredths.
RsiQuality(side, rsi) ==
  IF side = "long"
  THEN CASE rsi < 30 -> -50 [] rsi \in 30..44 -> 50 [] rsi \in 45..59 -> 100
         [] rsi \in 60..69 -> 35 [] OTHER -> -50
  ELSE CASE rsi > 70 -> -50 [] rsi \in 56..70 -> 50 [] rsi \in 41..55 -> 100
         [] rsi \in 31..40 -> 35 [] OTHER -> -50
BollingerQuality(side, pb) ==
  IF side = "long"
  THEN CASE pb > 105 -> -100 [] pb \in 91..105 -> -35 [] pb \in 45..85 -> 100
         [] pb \in 25..44 -> 45 [] pb < 15 -> -35 [] OTHER -> 0
  ELSE CASE pb < -5 -> -100 [] pb \in -5..9 -> -35 [] pb \in 15..55 -> 100
         [] pb \in 56..75 -> 45 [] pb > 85 -> -35 [] OTHER -> 0
MacdQuality(side, s) ==
  LET crossed == IF side = "long" THEN s.line > s.signal ELSE s.line < s.signal
      pushing == IF side = "long" THEN Histogram(s) > 0 ELSE Histogram(s) < 0
  IN CASE ~crossed -> -100
       [] crossed /\ pushing /\ Abs(Histogram(s)) >= 10 -> 100
       [] crossed /\ pushing /\ Abs(Histogram(s)) < 10 -> 60
       [] crossed /\ ~pushing -> 20

\* The sign of a quantity for the side, as the two branches of the code give it.
Towards(side, x) == IF side = "long" THEN Sign(x) ELSE Sign(-x)
ConsensusPoint(cfg, s) ==
  IF (IF Side(s) = "long" THEN ConsensusLong(cfg, s) ELSE ConsensusShort(cfg, s)) THEN 1 ELSE -1

\* The weights are those of the code: the ones of the configuration are not read.
Contributions(cfg, s) ==
  LET side == Side(s)
      bias == IF side = "long" THEN 1 ELSE -1
      rsi == RsiQuality(side, s.rsi)
      band == BollingerQuality(side, s.percentB)
      macd == MacdQuality(side, s)
      minVolume == MinVolumeRatio(cfg, side)
      floor == TrendFloor(cfg, s)
  IN << Contribution(DirectionalPoints(s.regime, side), 1, 20),
        Contribution(DirectionalPoints(s.bybit, side), 1, 20),
        Contribution(ConsensusPoint(cfg, s), 1, 20),
        Contribution(s.slope * bias, 100, 10),
        Contribution(Towards(side, s.emaFast - s.emaSlow), 1, 10),
        Contribution(rsi, 100, 6),
        Contribution(band, 100, 8),
        Contribution(s.bandwidth - 30, 30, 5),
        Contribution(Towards(side, s.line - s.signal), 1, 10),
        Contribution(Histogram(s) * bias, 100000, 5),
        Contribution(macd, 100, 6),
        Contribution(rsi + macd + band, 300, 8),
        IF minVolume > 0 THEN Contribution(s.volume - minVolume, minVolume, 5) ELSE 0,
        IF floor > 0 THEN Contribution(Abs(s.trend) - floor, floor, 10) ELSE 0 >>
Total(contributions) == FoldFunction(+, 0, contributions)
EntryScore(cfg, s) == Between(-100, Total(Contributions(cfg, s)), 100)

----------------------------------------------------------------------------
(* validate_entry: the reason of a refusal is the first check that fails;  *)
(* some of them are no condition of EntryOk (a stretched band, and, in     *)
(* permissive mode, the regimes).                                          *)
FirstFailing(checks) ==
  LET failing == {i \in DOMAIN checks : ~checks[i].holds}
  IN IF failing = {} THEN "directional_checks"
     ELSE checks[CHOOSE i \in failing : \A j \in failing : i <= j].name
Check(name, holds) == [name |-> name, holds |-> holds]

LiquidityChecks(cfg, s) ==
  << Check("spread", s.spread <= MaxSpread(cfg)),
     Check("volume_24h", s.volume24h >= MinVolume24h(cfg)),
     Check("atr_pct", s.atr <= MaxAtr(cfg)),
     Check("disabled", Allow(cfg, Side(s))) >>
LongChecks(cfg, s) ==
  << Check("consensus_regime", s.regime = "bullish"),
     Check("bybit_regime", s.bybit = "bullish"),
     Check("consensus", ConsensusLong(cfg, s)),
     Check("trend_slope", s.slope > 0),
     Check("ema_alignment", s.emaFast > s.emaSlow),
     Check("price", Price >= s.emaFast),
     Check("bollinger_overstretch", s.percentB <= 108 \/ s.bandwidth >= 120),
     Check("rsi", RsiInBounds(cfg, s)),
     Check("macd_cross", s.line > s.signal),
     Check("macd_hist", Histogram(s) > 0) >>
ShortChecks(cfg, s) ==
  << Check("consensus_regime", s.regime = "bearish"),
     Check("bybit_regime", s.bybit = "bearish"),
     Check("consensus", ConsensusShort(cfg, s)),
     Check("trend_slope", s.slope < 0),
     Check("ema_alignment", s.emaFast < s.emaSlow),
     Check("price", Price <= s.emaFast),
     Check("bollinger_overstretch", s.percentB >= -8 \/ s.bandwidth >= 120),
     Check("rsi", RsiInBounds(cfg, s)),
     Check("macd_cross", s.line < s.signal),
     Check("macd_hist", Histogram(s) < 0) >>
StrengthChecks(cfg, s) ==
  << Check("volume_ratio", s.volume >= MinVolumeRatio(cfg, Side(s))),
     Check("trend_score", Abs(s.trend) >= TrendFloor(cfg, s)) >>

\* A refusal because of Bitcoin leaves no record: neither side, score nor reason.
Entry(cfg, s) ==
  IF BtcPenalty(cfg, s, Side(s)) = {}
  THEN [passed |-> FALSE, side |-> "long", score |-> 0, reason |-> "risk_constraints_not_met"]
  ELSE [passed |-> EntryOk(cfg, s), side |-> Side(s), score |-> EntryScore(cfg, s),
        reason |-> IF EntryOk(cfg, s) THEN "entry_validated"
                   ELSE FirstFailing(LiquidityChecks(cfg, s)
                                     \o (IF Side(s) = "long" THEN LongChecks(cfg, s)
                                                             ELSE ShortChecks(cfg, s))
                                     \o StrengthChecks(cfg, s))]

----------------------------------------------------------------------------
(* check_funding, calc_smart_size, validate_size, get_trailing_config.     *)
FundingOk(cfg, s) == Abs(s.funding) <= MaxFundingRate(cfg)
FundingScore(cfg, s) ==
  IF MaxFundingRate(cfg) > 0
  THEN Contribution(MaxFundingRate(cfg) - Abs(s.funding), MaxFundingRate(cfg), 100) ELSE 0

\* In hundredths.
VolatilityDiscount(cfg, s) == Between(20, 100 - (s.atr * AtrMultiplier(cfg)) \div 100, 100)
Larger(x, y) == IF x > y THEN x ELSE y
Desired(cfg, s, equity) ==
  LET byRisk == (equity * RiskPerTrade(cfg) * VolatilityDiscount(cfg, s))
                  \div (100 * Larger(StopLossPct(cfg), 1))
  IN Between(MinPosition(cfg), byRisk, Larger(PositionCap(cfg, equity), MinPosition(cfg)))
ProposalScore(cfg, s, equity) ==
  LET cap == PositionCap(cfg, equity)
  IN Contribution(VolatilityDiscount(cfg, s) - 20, 80, 40) + (IF equity > 0 THEN 30 ELSE 0)
     + (IF cap > 0 THEN Contribution(Desired(cfg, s, equity), cap, 30) ELSE 0)

\* What is compared with the limits is the quantity times the price, where the
\* quantity is the desired size over the price: the last bit may go either way.
SizeOk(cfg, s, equity) ==
  LET size == 2 * Desired(cfg, s, equity) + s.lastBit
  IN 2 * MinPosition(cfg) <= size /\ size <= 2 * PositionCap(cfg, equity)
SizeScore(cfg, s, equity) ==
  LET size == Desired(cfg, s, equity)
      least == MinPosition(cfg)
      cap == PositionCap(cfg, equity)
  IN (IF least > 0 THEN Contribution(size - least, least, 50) ELSE 0)
     + (IF cap > 0 THEN Contribution(cap - size, cap, 50) ELSE 0)

TrailingScore(trail) ==
  (IF trail.enabled THEN 40 ELSE 0)
  + (IF trail.activate > 0 THEN Contribution(Larger(0, 500 - trail.activate), 500, 30) ELSE 0)
  + (IF trail.distance > 0 THEN Contribution(Larger(0, 300 - trail.distance), 300, 30) ELSE 0)

----------------------------------------------------------------------------
(* decision.                                                               *)
DecisionScore(cfg, s, equity, trail) ==
  Between(-100, Contribution(Entry(cfg, s).score, 100, 40)
                + Contribution(FundingScore(cfg, s), 100, 20)
                + Contribution(ProposalScore(cfg, s, equity), 100, 20)
                + Contribution(SizeScore(cfg, s, equity), 100, 10)
                + Contribution(TrailingScore(trail), 100, 10), 100)

\* The loss of the day and the streak of losses are never known here: they are
\* zero, and every limit lets them pass.
MaxDailyLoss(cfg) == FirstOf(cfg, <<At("global", "max_daily_loss_pct", "any")>>, 300)
MaxConsecutiveLosses(cfg) == FirstOf(cfg, <<At("global", "max_consecutive_losses", "any")>>, 3)
LossGatesOk(cfg) == 0 <= MaxDailyLoss(cfg) /\ 0 <= MaxConsecutiveLosses(cfg)

Decision(cfg, s, equity, trail) ==
  LET entry == Entry(cfg, s)
      long == entry.side = "long"
      enter == /\ LossGatesOk(cfg) /\ entry.passed /\ FundingOk(cfg, s)
               /\ SizeOk(cfg, s, equity) /\ Desired(cfg, s, equity) > 0
      Level(distance) == Price * (10000 + distance)
  IN [action |-> IF ~enter THEN "HOLD" ELSE IF long THEN "ENTER_LONG" ELSE "ENTER_SHORT",
      size |-> IF enter THEN Desired(cfg, s, equity) ELSE 0,
      stop |-> IF ~enter THEN 0
               ELSE IF long THEN Level(-StopLossPct(cfg)) ELSE Level(StopLossPct(cfg)),
      target |-> IF ~enter THEN 0
                 ELSE IF long THEN Level(TakeProfitPct(cfg)) ELSE Level(-TakeProfitPct(cfg)),
      score |-> DecisionScore(cfg, s, equity, trail),
      reason |-> entry.reason]

----------------------------------------------------------------------------
(* A decision is made from a signal, the settings, the equity and the      *)
(* trailing configuration; nothing is left of one for the next.            *)
CONSTANTS Signals, Configurations, Equities, Trails

SomeRegime == {"bullish", "bearish", "neutral"}
MarketSignal ==
  [trend : Int, slope : Int, regime : SomeRegime, bybit : SomeRegime, bulls : Int, bears : Int,
   available : Int, emaFast : Int, emaSlow : Int, rsi : Int, percentB : Int, bandwidth : Int,
   adx : Int, line : Int, signal : Int, volume : Int, spread : Int, volume24h : Int, atr : Int,
   funding : Int, isBtc : BOOLEAN, btcRegime : SomeRegime, btcTrend : Int, btcCount : Int,
   lastBit : Int]
ASSUME RulesAssumption ==
  /\ \A s \in Signals : s \in MarketSignal
  /\ \A cfg \in Configurations : IsConfiguration(cfg)

VARIABLES
  config,  \* loaded when the strategy starts
  judged   \* what a decision was made from, once one is

rulesVars == <<config, judged>>

RulesInit == config \in Configurations /\ judged = {}
Judge ==
  /\ judged = {}
  /\ \E d \in [cfg : {config}, s : Signals, equity : Equities, trail : Trails] : judged' = {d}
  /\ UNCHANGED config
RulesSpec == RulesInit /\ [][Judge]_rulesVars

\* The same market upside down, under the same settings for the other side.
Opposite(regime) ==
  CASE regime = "bullish" -> "bearish" [] regime = "bearish" -> "bullish" [] OTHER -> regime
MirrorSignal(s) ==
  [s EXCEPT !.trend = -@, !.slope = -@, !.line = -@, !.signal = -@, !.btcTrend = -@,
            !.regime = Opposite(@), !.bybit = Opposite(@), !.btcRegime = Opposite(@),
            !.bulls = s.bears, !.bears = s.bulls,
            !.emaFast = 2 * Price - @, !.emaSlow = 2 * Price - @,
            !.rsi = 100 - @, !.percentB = 100 - @, !.funding = -@]
MirrorPlace(place) ==
  LET side == CASE place[3] = "long" -> "short" [] place[3] = "short" -> "long" [] OTHER -> place[3]
      key == CASE place[2] = "rsi_low" -> "rsi_high" [] place[2] = "rsi_high" -> "rsi_low"
               [] OTHER -> place[2]
  IN At(place[1], key, side)
MirrorSettings(cfg) ==
  LET places == {MirrorPlace(p) : p \in DOMAIN cfg}
  IN [p \in places |->
        IF p[2] \in {"rsi_low", "rsi_high", "percent_b"} THEN 100 - cfg[MirrorPlace(p)]
        ELSE cfg[MirrorPlace(p)]]

\* The decision for the other side: stop and target as far from the price.
Turned(decision) ==
  LET Across(level) == IF decision.action = "HOLD" THEN 0 ELSE 20000 * Price - level
  IN [action |-> CASE decision.action = "ENTER_LONG" -> "ENTER_SHORT"
                   [] decision.action = "ENTER_SHORT" -> "ENTER_LONG" [] OTHER -> "HOLD",
      size |-> decision.size,
      stop |-> Across(decision.stop), target |-> Across(decision.target),
      score |-> decision.score, reason |-> decision.reason]

\* A short is decided as the long of the mirrored market: the same verdict, size,
\* score and reason, with stop and target as far on the other side of the price.
\* The two sides are written out separately in validate_entry, in the qualities,
\* in the settings and in decision. (A trend of zero has no mirror: it is long.)
ShortMirrorsLong ==
  \A d \in judged : d.s.trend # 0 =>
    Decision(MirrorSettings(d.cfg), MirrorSignal(d.s), d.equity, d.trail)
      = Turned(Decision(d.cfg, d.s, d.equity, d.trail))
=============================================================================
