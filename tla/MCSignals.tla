------------------------------ MODULE MCSignals ------------------------------
(***************************************************************************)
(* Everything between the exchanges and the queue of candidates: the cycle *)
(* of market-data, the sampler of analytics, the rules of entry and of the *)
(* thesis, the advice of the analyst and the gate that follows it. They    *)
(* share values, not steps: one behaviour is a behaviour of one of them.   *)
(***************************************************************************)
EXTENDS MarketData, Analytics, Thesis, Analyst, EntryGate, TLC

CONSTANT Parts

VARIABLE part

------------------------------------------------------------------------------
(* market-data: the exchanges agree, or do not.                             *)
MCMoods == {[e \in Exchanges |-> "bullish"],
            [e \in Exchanges |-> IF e = "bybit" THEN "bullish" ELSE "bearish"]}
MCVenues == <<"bybit">>

------------------------------------------------------------------------------
(* The rules: a long that every rule accepts, and the values at which one   *)
(* of them changes its mind, two at a time.                                 *)
BaseSignal ==
  [trend |-> 40, slope |-> 50, regime |-> "bullish", bybit |-> "bullish", bulls |-> 3, bears |-> 0,
   available |-> 3, emaFast |-> 990, emaSlow |-> 980, rsi |-> 60, percentB |-> 70, bandwidth |-> 60,
   adx |-> 25, line |-> 30, signal |-> 10, volume |-> 12, spread |-> 5, volume24h |-> 50,
   atr |-> 100, funding |-> 10, isBtc |-> FALSE, btcRegime |-> "bullish", btcTrend |-> 20,
   btcCount |-> 3, lastBit |-> 0]
Variations ==
  UNION {{<<"trend", v>> : v \in {-40, 5, 28, 30}}, {<<"slope", v>> : v \in {-50, 0}},
         {<<"regime", v>> : v \in {"bearish", "neutral"}}, {<<"bybit", v>> : v \in {"bearish", "neutral"}},
         {<<"bulls", v>> : v \in {1, 2}}, {<<"bears", 1>>}, {<<"available", 2>>},
         {<<"emaFast", v>> : v \in {980, 1000, 1010}}, {<<"emaSlow", 1005>>},
         {<<"rsi", v>> : v \in {29, 44, 50, 68, 69}},
         {<<"percentB", v>> : v \in {-6, 9, 20, 90, 110}},
         {<<"bandwidth", v>> : v \in {10, 130}}, {<<"adx", 10>>},
         {<<"line", v>> : v \in {10, 15, 0}}, {<<"volume", v>> : v \in {10, 30}},
         {<<"spread", 11>>}, {<<"volume24h", 20>>}, {<<"atr", v>> : v \in {501, 9000}},
         {<<"funding", v>> : v \in {-160, 75}}, {<<"isBtc", TRUE>>},
         {<<"btcRegime", v>> : v \in {"bearish", "neutral"}}, {<<"btcTrend", v>> : v \in {-20, 2}},
         {<<"btcCount", 1>>}, {<<"lastBit", v>> : v \in {-1, 1}}}
Vary(s, v) == [s EXCEPT ![v[1]] = v[2]]
MCMarketSignals ==
  {Vary(Vary(BaseSignal, v), w) : v \in Variations, w \in Variations} \cup {MirrorSignal(BaseSignal)}

Set(layer, key, side, v) == At(layer, key, side) :> v
MCConfigurations ==
  { <<>>,
    Set("mode", "permissive_entry", "any", TRUE),
    Set("mode", "require_multi_exchange_consensus", "any", FALSE),
    Set("mode", "require_btc_macro_alignment", "any", FALSE),
    Set("pair", "allow", "long", FALSE),
    Set("pair", "min_trend_score", "long", 35) @@ Set("mode", "min_trend_score", "long", 5),
    Set("mode", "rsi_low", "long", 30) @@ Set("mode", "rsi_high", "long", 80)
      @@ Set("mode", "percent_b", "long", 85),
    Set("global", "percent_b", "short", 20) @@ Set("mode", "min_adx", "any", 20),
    Set("mode", "min_volume_ratio", "long", 0) @@ Set("mode", "max_spread_pct", "any", 200),
    Set("global", "btc_min_trend_score", "long", 15) @@ Set("global", "btc_min_consensus_count", "long", 3)
      @@ Set("global", "btc_min_trend_score", "short", 20),
    Set("mode", "wallet_pct", "any", 8) @@ Set("global", "risk_per_trade_pct", "any", 125) }
MCTrails == {[enabled |-> TRUE, activate |-> 100, distance |-> 60]}

\* A value set for the longs leaves every setting of the shorts as it is, and
\* reaches the longs unless a layer before it has one (config.rs).
Sided(cfg, side) ==
  << Allow(cfg, side), MinTrendScore(cfg, side), MinVolumeRatio(cfg, side),
     CooldownMinutes(cfg, "stop_loss_cooldown_minutes", side), ConfirmationTicks(cfg, side),
     RsiBounds(cfg, side), PercentBLimit(cfg, side), BtcMinTrendScore(cfg, side) >>
Unsided(cfg) == << ThesisDegradingTicks(cfg), ThesisInvalidationEnabled(cfg), MinAdx(cfg), MaxAtr(cfg) >>
SidedKeys == {"allow", "min_trend_score", "min_volume_ratio", "stop_loss_cooldown_minutes",
              "min_signal_confirmation_ticks", "rsi_low", "percent_b", "btc_min_trend_score"}
ASSUME SidesAreApart ==
  \A cfg \in MCConfigurations, layer \in {"pair", "mode", "global"}, key \in SidedKeys :
    LET changed == Set(layer, key, "long", IF key = "allow" THEN FALSE ELSE 7) @@ cfg
    IN Sided(changed, "short") = Sided(cfg, "short") /\ Unsided(changed) = Unsided(cfg)

\* The weighted figure of two exchanges lies between theirs, whatever analytics
\* says of them, and none weighs more than three times another (aggregate_signals).
MCRow(e, symbol, hits, evaluated) ==
  [exchange |-> e, symbol |-> symbol, hits |-> hits, evaluated |-> evaluated]
ASSUME FiguresAreMeans ==
  \A a, b \in {-100, 20, 100}, own, all \in {0, 50, 90, 100}, n \in {MinEvaluated - 1, MinEvaluated} :
    LET rows == {MCRow("bybit", "own", own, n), MCRow("bybit", "*", all, MinEvaluated),
                 MCRow("okx", "*", own, n)}
        answers == {[source |-> "bybit", score |-> a], [source |-> "okx", score |-> b]}
        total == TotalWeight(answers, rows)
    IN /\ LowestOf({a, b}) * total <= WeightedSum(answers, rows)
       /\ WeightedSum(answers, rows) <= HighestOf({a, b}) * total
       /\ Weight(rows, "bybit") <= 3 * Weight(rows, "okx")
       /\ Weight(rows, "okx") <= 3 * Weight(rows, "bybit")

------------------------------------------------------------------------------
(* The analyst: records of three trades of each of some of these kinds.      *)
Trade(window, side, symbol, reason, pnl) ==
  [window |-> window, side |-> side, symbol |-> symbol, reason |-> reason, pnl |-> pnl]
MCKinds ==
  << Trade("current", "long", "DOGE", "trailing_stop", 60),
     Trade("current", "long", "DOGE", "thesis_invalidated", -30),
     Trade("current", "short", "DOGE", "thesis_invalidated", -50),
     Trade("current", "short", "XRP", "trailing_stop", 60),
     Trade("current", "short", "XRP", "stop_loss", -90),
     Trade("previous", "long", "DOGE", "thesis_invalidated", -30) >>
Record(some, aligned, evaluated) ==
  [trades |-> [k \in Range(MCKinds) |-> IF \E i \in some : MCKinds[i] = k THEN 3 ELSE 0],
   consensusBlocks |-> 1, otherBlocks |-> 1,
   noAlignment |-> aligned, healthThreshold |-> 1, evaluated |-> evaluated]
MCRecords ==
  {Record(some, aligned, TRUE) : aligned \in {0, 1},
     some \in {{}, {1}, {2}, {1, 4}, {1, 3}, {2, 4}, {3, 4}, {2, 3}, {2, 5}, {1, 2, 3, 4}, 1 .. 6}}
    \cup {Record({1, 3, 4}, 1, FALSE)}
MCPositions ==
  [side : Sides, symbol : {"DOGE"}, entry : {200}, minutes : {5, 45}, trailing : BOOLEAN]
MCViews ==
  {NoSignal}
    \cup [side : {"bullish", "bearish", "neutral"}, price : {199, 200, 201}, emaFast : {200},
          percentB : {10, 20, 50}, trend : {-5, 0, 5}]

\* What the gate is told: defensive, selective and constructive advice that
\* avoids DOGE, and advice of observation that avoids nothing.
Advice(state, entry, size, exit, preferred, avoid) ==
  [state |-> state, entry |-> entry, size |-> size, exit |-> exit, preferred |-> preferred, avoid |-> avoid]
MCAdvices ==
  { Advice("observation_mode", "only_best_setups", "reduced_size_50", "monitor_positions_closely",
           "long", {}),
    Advice("defensive", "avoid_marginal_entries", "minimal_size_33", "tighten_existing_positions",
           "long", {"DOGE"}),
    Advice("selective", "only_best_setups", "reduced_size_75", "monitor_positions_closely",
           "long", {"DOGE"}),
    Advice("constructive", "allow_biased_entries", "full_size", "let_winners_run",
           "short", {"DOGE"}) }

\* The analyst says each of these.
ASSUME AdvicesAreGiven == MCAdvices \subseteq {ExecutionAdvice(r) : r \in MCRecords}

------------------------------------------------------------------------------
vars == <<part, marketVars, analyticsVars, rulesVars, advised, gateVars>>

\* The parts that do not run stay as they begin, of market and chart at one value.
CalmMarket == MarketInit /\ market = [s \in Universe |-> [e \in Exchanges |-> "bullish"]]
FlatChart == AnalyticsInit /\ \A i \in DOMAIN chart : chart[i] = 1

Init ==
  /\ part \in Parts
  /\ GateInit /\ AdviceInit
  /\ RulesInit /\ (part = "rules" \/ config = <<>>)
  /\ IF part = "market" THEN MarketInit ELSE CalmMarket
  /\ IF part = "analytics" THEN AnalyticsInit ELSE FlatChart

MarketPart ==
  part = "market" /\ MarketNext /\ UNCHANGED <<part, analyticsVars, rulesVars, advised, gateVars>>
AnalyticsPart ==
  part = "analytics" /\ AnalyticsNext /\ UNCHANGED <<part, marketVars, rulesVars, advised, gateVars>>
GatePart ==
  part = "gate" /\ GateNext /\ UNCHANGED <<part, marketVars, analyticsVars, rulesVars, advised>>

RulesPart ==
  part = "rules" /\ Judge /\ UNCHANGED <<part, marketVars, analyticsVars, advised, gateVars>>
AdvicePart ==
  part = "advice" /\ Advise /\ UNCHANGED <<part, marketVars, analyticsVars, rulesVars, gateVars>>

Next == RulesPart \/ AdvicePart \/ MarketPart \/ AnalyticsPart \/ GatePart

Spec == Init /\ [][Next]_vars /\ WF_vars(MarketPart /\ MarketStep)

\* SideFollowsMarket where market-data runs: what the exchanges agree on reaches
\* the stream (stabilize_consensus_side, the cycle of market-data).
MarketIsFollowed == part = "market" => SideFollowsMarket
==============================================================================
