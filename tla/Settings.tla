------------------------------ MODULE Settings ------------------------------
(***************************************************************************)
(* Where the strategy finds a setting (services/strategy/src/config.rs). A *)
(* configuration gives values to keys in layers: the pair under the        *)
(* trading mode, the pair, the mode, and what holds for all. Every setting *)
(* has its own order of layers, here that of a pair with an entry in the   *)
(* configuration. Scores, fractions and %B are in hundredths, the volume   *)
(* ratio in tenths.                                                        *)
(***************************************************************************)
EXTENDS Integers, Sequences, FiniteSets

\* A place is a layer and a key; the keys that depend on the side come in a
\* variant for each side, some of them also in one for "any".
At(layer, key, side) == <<layer, key, side>>

\* What the values of a configuration are.
Flags == {"allow", "require_multi_exchange_consensus", "require_btc_macro_alignment",
          "permissive_entry", "exit_on_thesis_invalidation"}
ValuesOf(key) ==
  IF key \in Flags THEN BOOLEAN
  ELSE IF key = "opposite_side_exit" THEN {"off", "any", "both"} ELSE Int
IsConfiguration(cfg) ==
  \A p \in DOMAIN cfg : p = At(p[1], p[2], p[3]) /\ cfg[p] \in ValuesOf(p[2])

\* The value at the first of the places that has one.
FirstOf(cfg, places, default) ==
  LET set == {i \in DOMAIN places : places[i] \in DOMAIN cfg}
  IN IF set = {} THEN default ELSE cfg[places[CHOOSE i \in set : \A j \in set : i <= j]]

\* Settings looked up in the same way share a definition.
FromMode(cfg, key, default) == FirstOf(cfg, <<At("mode", key, "any")>>, default)
FromModeOrPair(cfg, key, default) ==
  FirstOf(cfg, <<At("mode", key, "any"), At("pair", key, "any")>>, default)
FromModeOrGlobal(cfg, key, side, default) ==
  FirstOf(cfg, <<At("mode", key, side), At("global", key, side)>>, default)

Allow(cfg, side) == FirstOf(cfg, <<At("pair", "allow", side)>>, TRUE)

\* The pair's value for the side comes before the mode's.
MinTrendScore(cfg, side) ==
  FirstOf(cfg, <<At("pair", "min_trend_score", side), At("mode", "min_trend_score", side),
                 At("pair", "min_trend_score", "any")>>, 25)

\* Here and in all others the mode's comes first.
MinVolumeRatio(cfg, side) ==
  FirstOf(cfg, <<At("mode", "min_volume_ratio", side), At("pair", "min_volume_ratio", side),
                 At("pair", "min_volume_ratio", "any")>>, 10)
CooldownMinutes(cfg, key, side) ==
  FirstOf(cfg, <<At("mode", key, side), At("pair", key, side), At("pair", key, "any")>>, 3)
ConfirmationTicks(cfg, side) ==
  LET key == "min_signal_confirmation_ticks"
  IN FirstOf(cfg, <<At("mode", key, side), At("pair", key, side), At("global", key, side),
                    At("pair", key, "any"), At("global", key, "any")>>, 2)
ThesisConfirmationTicks(cfg) ==
  LET key == "thesis_invalidation_confirmation_ticks"
  IN FirstOf(cfg, <<At("mode", key, "any"), At("pair", key, "any"), At("global", key, "any")>>, 2)
ThesisDegradingTicks(cfg) ==
  IF ThesisConfirmationTicks(cfg) > 2 THEN ThesisConfirmationTicks(cfg) - 1 ELSE 1

\* The mode counts only if it has both ends.
RsiBounds(cfg, side) ==
  LET ends == IF side = "long" THEN [low |-> 50, high |-> 68] ELSE [low |-> 32, high |-> 50]
      inMode == {At("mode", "rsi_low", side), At("mode", "rsi_high", side)} \subseteq DOMAIN cfg
      End(key, default) ==
        IF inMode THEN cfg[At("mode", key, side)]
        ELSE FirstOf(cfg, <<At("pair", key, side), At("global", key, side)>>, default)
  IN [low |-> End("rsi_low", ends.low), high |-> End("rsi_high", ends.high)]

\* The limit, if one is set.
PercentBLimit(cfg, side) ==
  LET places == <<At("mode", "percent_b", side), At("pair", "percent_b", side),
                  At("global", "percent_b", side)>>
  IN {FirstOf(cfg, places, 0) : i \in {i \in DOMAIN places : places[i] \in DOMAIN cfg}}
MinAdx(cfg) ==
  FirstOf(cfg, <<At("mode", "min_adx", "any"), At("pair", "min_adx", "any"),
                 At("global", "min_adx", "any")>>, 0)

BtcMinTrendScore(cfg, side) == FromModeOrGlobal(cfg, "btc_min_trend_score", side, 5)
BtcMinConsensusCount(cfg, side) ==
  LET n == FromModeOrGlobal(cfg, "btc_min_consensus_count", side, 2) IN IF n < 1 THEN 1 ELSE n
BtcNeutralPenalty(cfg) == FromModeOrGlobal(cfg, "btc_neutral_penalty", "any", 5)

RequireConsensus(cfg) == FromMode(cfg, "require_multi_exchange_consensus", TRUE)
RequireBtcAlignment(cfg) == FromMode(cfg, "require_btc_macro_alignment", TRUE)
Permissive(cfg) == FromMode(cfg, "permissive_entry", FALSE)
ThesisInvalidationEnabled(cfg) ==
  FromMode(cfg, "exit_on_thesis_invalidation", ~Permissive(cfg))

\* MIN_POSITION and the caps, in USDT; a share of the wallet overrules the rest.
MaxPosition(cfg) ==
  LET all == FirstOf(cfg, <<At("global", "max_position_usdt", "any")>>, 30)
      own == FirstOf(cfg, <<At("pair_mode", "max_position_usdt", "any"),
                            At("pair", "max_position_usdt", "any"),
                            At("mode", "max_position_usdt", "any")>>, all)
  IN IF own < all THEN own ELSE all
PositionCap(cfg, equity) ==
  LET share == <<At("pair_mode", "wallet_pct", "any"), At("pair", "wallet_pct", "any"),
                 At("mode", "wallet_pct", "any")>>
  IN IF \E i \in DOMAIN share : share[i] \in DOMAIN cfg
     THEN (equity * FirstOf(cfg, share, 0)) \div 100 ELSE MaxPosition(cfg)

\* Fractions of the price and the funding rate are in hundredths of a percent,
\* the volume of the day in millions of USDT, money in USDT.
MaxSpread(cfg) == FromModeOrPair(cfg, "max_spread_pct", 10)
MaxAtr(cfg) == FromModeOrPair(cfg, "max_atr_pct", 500)
MinVolume24h(cfg) ==
  FirstOf(cfg, <<At("pair_mode", "min_volume_24h_usdt", "any"),
                 At("pair_mode", "min_24h_volume_usdt", "any"),
                 At("mode", "min_volume_24h_usdt", "any"),
                 At("pair", "min_24h_volume_usdt", "any")>>, 30)
MaxFundingRate(cfg) == FromModeOrGlobal(cfg, "max_funding_rate_pct", "any", 150)

StopLossPct(cfg) == FromModeOrPair(cfg, "stop_loss_pct", 150)
TakeProfitPct(cfg) == FromModeOrPair(cfg, "take_profit_pct", 300)
AtrMultiplier(cfg) ==
  FirstOf(cfg, <<At("pair", "atr_multiplier", "any"), At("mode", "atr_multiplier", "any")>>, 1)
MinPosition(cfg) == FirstOf(cfg, <<At("global", "min_position_usdt", "any")>>, 5)

\* The risk of a trade as a share of the equity, in hundredths of a percent: a
\* setting above one (here in hundredths) is a percentage, any other a fraction.
RiskPerTrade(cfg) ==
  LET pct == FirstOf(cfg, <<At("global", "risk_per_trade_pct", "any")>>, 100)
  IN IF pct > 100 THEN pct ELSE 100 * pct
=============================================================================
