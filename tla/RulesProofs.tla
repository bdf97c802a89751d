----------------------------- MODULE RulesProofs -----------------------------
(***************************************************************************)
(* Proofs about what is decided from a signal: the rules of entry mirror   *)
(* each other (EntryRules under Settings), the signal that enters a long   *)
(* does not end it (Thesis), and the advice for an open position favours   *)
(* no side (Analyst).                                                      *)
(***************************************************************************)
EXTENDS Thesis, Analyst, DataLemmas, TLAPS

(***************************************************************************)
(* The rules of entry.  In the mirrored configuration each place holds     *)
(* what its mirror image held, and so does the first one of several.       *)
(***************************************************************************)
TurnedKeys == {"rsi_low", "rsi_high", "percent_b"}
SideOf(side) == CASE side = "long" -> "short" [] side = "short" -> "long" [] OTHER -> side
KeyOf(key) == CASE key = "rsi_low" -> "rsi_high" [] key = "rsi_high" -> "rsi_low" [] OTHER -> key

LEMMA MirrorPlaceFacts ==
  ASSUME NEW layer, NEW key, NEW side
  PROVE  /\ MirrorPlace(At(layer, key, side)) = At(layer, KeyOf(key), SideOf(side))
         /\ MirrorPlace(At(layer, KeyOf(key), SideOf(side))) = At(layer, key, side)
<1>1. KeyOf(KeyOf(key)) = key BY DEF KeyOf
<1>2. SideOf(SideOf(side)) = side BY DEF SideOf
<1>3. \A l, k, s : MirrorPlace(At(l, k, s)) = At(l, KeyOf(k), SideOf(s))
  BY DEF MirrorPlace, At, KeyOf, SideOf
<1> QED BY <1>1, <1>2, <1>3

LEMMA MirroredValue ==
  ASSUME NEW cfg, IsConfiguration(cfg), NEW m, m = MirrorSettings(cfg),
         NEW layer, NEW key, NEW side,
         NEW p, p = At(layer, key, side), NEW q, q = At(layer, KeyOf(key), SideOf(side))
  PROVE  /\ q \in DOMAIN m <=> p \in DOMAIN cfg
         /\ p \in DOMAIN cfg => m[q] = IF key \in TurnedKeys THEN 100 - cfg[p] ELSE cfg[p]
<1>1. MirrorPlace(p) = q /\ MirrorPlace(q) = p BY MirrorPlaceFacts
<1>2. \A r \in DOMAIN cfg : MirrorPlace(MirrorPlace(r)) = r
  BY MirrorPlaceFacts DEF IsConfiguration
<1>3. DOMAIN m = {MirrorPlace(r) : r \in DOMAIN cfg} BY DEF MirrorSettings
<1>4. q \in DOMAIN m <=> p \in DOMAIN cfg BY <1>1, <1>2, <1>3
<1>5. ASSUME p \in DOMAIN cfg PROVE m[q] = IF key \in TurnedKeys THEN 100 - cfg[p] ELSE cfg[p]
  <2>1. m[q] = IF q[2] \in TurnedKeys THEN 100 - cfg[MirrorPlace(q)] ELSE cfg[MirrorPlace(q)]
    BY <1>4, <1>5 DEF MirrorSettings, TurnedKeys
  <2>2. q[2] = KeyOf(key) BY DEF At
  <2>3. KeyOf(key) \in TurnedKeys <=> key \in TurnedKeys BY DEF KeyOf, TurnedKeys
  <2> QED BY <2>1, <2>2, <2>3, <1>1
<1> QED BY <1>4, <1>5

\* What the first of the places gives is a value there, or the default.
LEMMA FirstOfValue ==
  ASSUME NEW cfg, NEW places, DOMAIN places \subseteq Nat, NEW default, NEW V,
         \A i \in DOMAIN places : places[i] \in DOMAIN cfg => cfg[places[i]] \in V
  PROVE  FirstOf(cfg, places, default) \in V \cup {default}
<1>1. PICK set : set = {k \in DOMAIN places : places[k] \in DOMAIN cfg} OBVIOUS
<1>2. PICK c : c = CHOOSE k \in set : \A j \in set : k <= j OBVIOUS
<1>3. FirstOf(cfg, places, default) = IF set = {} THEN default ELSE cfg[places[c]]
  BY <1>1, <1>2 DEF FirstOf
<1>4. set # {} => c \in set
  <2>1. set \subseteq Nat BY <1>1
  <2> QED BY <2>1, <1>2, LeastElement
<1> QED BY <1>1, <1>3, <1>4

\* The image of a place has a value when the place has one, and the same.
Same(cfg, m, p, q) ==
  /\ q \in DOMAIN m <=> p \in DOMAIN cfg
  /\ p \in DOMAIN cfg => m[q] = cfg[p]
Reflected(cfg, m, p, q) ==
  /\ q \in DOMAIN m <=> p \in DOMAIN cfg
  /\ p \in DOMAIN cfg => m[q] = 100 - cfg[p]

LEMMA ImagesOfPlaces ==
  ASSUME NEW cfg, IsConfiguration(cfg), NEW m, m = MirrorSettings(cfg), NEW layer, NEW key
  PROVE  /\ key \notin TurnedKeys => /\ Same(cfg, m, At(layer, key, "any"), At(layer, key, "any"))
                                     /\ Same(cfg, m, At(layer, key, "long"), At(layer, key, "short"))
                                     /\ Same(cfg, m, At(layer, key, "short"), At(layer, key, "long"))
         /\ key \in TurnedKeys => /\ Reflected(cfg, m, At(layer, key, "long"), At(layer, KeyOf(key), "short"))
                                  /\ Reflected(cfg, m, At(layer, key, "short"), At(layer, KeyOf(key), "long"))
<1>1. SideOf("any") = "any" /\ SideOf("long") = "short" /\ SideOf("short") = "long" BY DEF SideOf
<1>2. key \notin TurnedKeys => KeyOf(key) = key BY DEF KeyOf, TurnedKeys
<1>3. \A side : LET p == At(layer, key, side)
                    q == At(layer, KeyOf(key), SideOf(side))
                IN /\ q \in DOMAIN m <=> p \in DOMAIN cfg
                   /\ p \in DOMAIN cfg => m[q] = IF key \in TurnedKeys THEN 100 - cfg[p] ELSE cfg[p]
  BY MirroredValue
<1>4. \A side : key \notin TurnedKeys => Same(cfg, m, At(layer, key, side), At(layer, key, SideOf(side)))
  BY <1>2, <1>3 DEF Same
<1>5. \A side : key \in TurnedKeys =>
      Reflected(cfg, m, At(layer, key, side), At(layer, KeyOf(key), SideOf(side)))
  BY <1>3 DEF Reflected
<1> QED BY <1>1, <1>4, <1>5

LEMMA FirstMirrored ==
  ASSUME NEW cfg, NEW m, NEW places, DOMAIN places \subseteq Nat, NEW images, DOMAIN images = DOMAIN places,
         \A i \in DOMAIN places : Same(cfg, m, places[i], images[i]),
         NEW default
  PROVE  FirstOf(m, images, default) = FirstOf(cfg, places, default)
<1>1. PICK set : set = {k \in DOMAIN places : places[k] \in DOMAIN cfg} OBVIOUS
<1>2. set = {k \in DOMAIN images : images[k] \in DOMAIN m} BY <1>1 DEF Same
<1>3. PICK c : c = CHOOSE k \in set : \A j \in set : k <= j OBVIOUS
<1>4. FirstOf(cfg, places, default) = IF set = {} THEN default ELSE cfg[places[c]]
  BY <1>1, <1>3 DEF FirstOf
<1>5. FirstOf(m, images, default) = IF set = {} THEN default ELSE m[images[c]]
  BY <1>2, <1>3 DEF FirstOf
<1>6. set # {} => c \in set
  <2>1. set \subseteq Nat BY <1>1
  <2> QED BY <2>1, <1>3, LeastElement
<1> QED BY <1>1, <1>4, <1>5, <1>6 DEF Same

LEMMA FirstTurned ==
  ASSUME NEW cfg, NEW m, NEW places, DOMAIN places \subseteq Nat, NEW images, DOMAIN images = DOMAIN places,
         \A i \in DOMAIN places : Reflected(cfg, m, places[i], images[i]),
         NEW default, NEW turned,
         turned = 100 - default \/ \E i \in DOMAIN places : places[i] \in DOMAIN cfg
  PROVE  FirstOf(m, images, turned) = 100 - FirstOf(cfg, places, default)
<1>1. PICK set : set = {k \in DOMAIN places : places[k] \in DOMAIN cfg} OBVIOUS
<1>2. set = {k \in DOMAIN images : images[k] \in DOMAIN m} BY <1>1 DEF Reflected
<1>3. PICK c : c = CHOOSE k \in set : \A j \in set : k <= j OBVIOUS
<1>4. FirstOf(cfg, places, default) = IF set = {} THEN default ELSE cfg[places[c]]
  BY <1>1, <1>3 DEF FirstOf
<1>5. FirstOf(m, images, turned) = IF set = {} THEN turned ELSE m[images[c]]
  BY <1>2, <1>3 DEF FirstOf
<1>6. set # {} => c \in set
  <2>1. set \subseteq Nat BY <1>1
  <2> QED BY <2>1, <1>3, LeastElement
<1> QED BY <1>1, <1>4, <1>5, <1>6 DEF Reflected

LEMMA OneMirrored ==
  ASSUME NEW cfg, NEW m, NEW default, NEW p1, NEW q1,
         Same(cfg, m, p1, q1)
  PROVE  FirstOf(m, <<q1>>, default) = FirstOf(cfg, <<p1>>, default)
<1>1. PICK p, q : p = <<p1>> /\ q = <<q1>> OBVIOUS
<1>2. DOMAIN p \subseteq Nat /\ DOMAIN q = DOMAIN p BY <1>1
<1>3. \A i \in DOMAIN p : Same(cfg, m, p[i], q[i]) BY <1>1
<1>4. FirstOf(m, q, default) = FirstOf(cfg, p, default) BY <1>2, <1>3, FirstMirrored
<1> QED BY <1>1, <1>4

LEMMA TwoMirrored ==
  ASSUME NEW cfg, NEW m, NEW default, NEW p1, NEW q1, NEW p2, NEW q2,
         Same(cfg, m, p1, q1), Same(cfg, m, p2, q2)
  PROVE  FirstOf(m, <<q1, q2>>, default) = FirstOf(cfg, <<p1, p2>>, default)
<1>1. PICK p, q : p = <<p1, p2>> /\ q = <<q1, q2>> OBVIOUS
<1>2. DOMAIN p \subseteq Nat /\ DOMAIN q = DOMAIN p BY <1>1
<1>3. \A i \in DOMAIN p : Same(cfg, m, p[i], q[i]) BY <1>1
<1>4. FirstOf(m, q, default) = FirstOf(cfg, p, default) BY <1>2, <1>3, FirstMirrored
<1> QED BY <1>1, <1>4

LEMMA ThreeMirrored ==
  ASSUME NEW cfg, NEW m, NEW default, NEW p1, NEW q1, NEW p2, NEW q2, NEW p3, NEW q3,
         Same(cfg, m, p1, q1), Same(cfg, m, p2, q2), Same(cfg, m, p3, q3)
  PROVE  FirstOf(m, <<q1, q2, q3>>, default) = FirstOf(cfg, <<p1, p2, p3>>, default)
<1>1. PICK p, q : p = <<p1, p2, p3>> /\ q = <<q1, q2, q3>> OBVIOUS
<1>2. DOMAIN p \subseteq Nat /\ DOMAIN q = DOMAIN p BY <1>1
<1>3. \A i \in DOMAIN p : Same(cfg, m, p[i], q[i]) BY <1>1
<1>4. FirstOf(m, q, default) = FirstOf(cfg, p, default) BY <1>2, <1>3, FirstMirrored
<1> QED BY <1>1, <1>4

LEMMA FourMirrored ==
  ASSUME NEW cfg, NEW m, NEW default, NEW p1, NEW q1, NEW p2, NEW q2, NEW p3, NEW q3, NEW p4, NEW q4,
         Same(cfg, m, p1, q1), Same(cfg, m, p2, q2), Same(cfg, m, p3, q3), Same(cfg, m, p4, q4)
  PROVE  FirstOf(m, <<q1, q2, q3, q4>>, default) = FirstOf(cfg, <<p1, p2, p3, p4>>, default)
<1>1. PICK p, q : p = <<p1, p2, p3, p4>> /\ q = <<q1, q2, q3, q4>> OBVIOUS
<1>2. DOMAIN p \subseteq Nat /\ DOMAIN q = DOMAIN p BY <1>1
<1>3. \A i \in DOMAIN p : Same(cfg, m, p[i], q[i]) BY <1>1
<1>4. FirstOf(m, q, default) = FirstOf(cfg, p, default) BY <1>2, <1>3, FirstMirrored
<1> QED BY <1>1, <1>4

LEMMA TwoTurned ==
  ASSUME NEW cfg, NEW m, NEW default, NEW turned, turned = 100 - default,
         NEW p1, NEW q1, NEW p2, NEW q2, Reflected(cfg, m, p1, q1), Reflected(cfg, m, p2, q2)
  PROVE  FirstOf(m, <<q1, q2>>, turned) = 100 - FirstOf(cfg, <<p1, p2>>, default)
<1>1. PICK p, q : p = <<p1, p2>> /\ q = <<q1, q2>> OBVIOUS
<1>2. DOMAIN p \subseteq Nat /\ DOMAIN q = DOMAIN p BY <1>1
<1>3. \A i \in DOMAIN p : Reflected(cfg, m, p[i], q[i]) BY <1>1
<1>4. FirstOf(m, q, turned) = 100 - FirstOf(cfg, p, default) BY <1>2, <1>3, FirstTurned
<1> QED BY <1>1, <1>4

\* A setting that depends on the side is in the mirrored configuration, for the
\* other side, what it was.
LEMMA SidedSettings ==
  ASSUME NEW cfg, IsConfiguration(cfg), NEW m, m = MirrorSettings(cfg),
         NEW side \in {"long", "short"}, NEW o, o = OtherSide(side)
  PROVE  /\ Allow(m, o) = Allow(cfg, side)
         /\ MinTrendScore(m, o) = MinTrendScore(cfg, side)
         /\ MinVolumeRatio(m, o) = MinVolumeRatio(cfg, side)
         /\ BtcMinTrendScore(m, o) = BtcMinTrendScore(cfg, side)
         /\ BtcMinConsensusCount(m, o) = BtcMinConsensusCount(cfg, side)
<1>1. \A layer, key : key \notin TurnedKeys =>
        /\ Same(cfg, m, At(layer, key, side), At(layer, key, o))
        /\ Same(cfg, m, At(layer, key, "any"), At(layer, key, "any"))
  BY ImagesOfPlaces DEF OtherSide
<1>2. Allow(m, o) = Allow(cfg, side)
  <2>1. Same(cfg, m, At("pair", "allow", side), At("pair", "allow", o)) BY <1>1 DEF TurnedKeys
  <2>2. \A d : FirstOf(m, <<At("pair", "allow", o)>>, d) = FirstOf(cfg, <<At("pair", "allow", side)>>, d)
    BY <2>1, OneMirrored
  <2> QED BY <2>2 DEF Allow
<1>3. MinTrendScore(m, o) = MinTrendScore(cfg, side)
  <2> DEFINE key == "min_trend_score"
  <2>1. /\ Same(cfg, m, At("pair", key, side), At("pair", key, o))
        /\ Same(cfg, m, At("mode", key, side), At("mode", key, o))
        /\ Same(cfg, m, At("pair", key, "any"), At("pair", key, "any"))
    BY <1>1 DEF TurnedKeys
  <2> QED BY <2>1, ThreeMirrored DEF MinTrendScore
<1>4. MinVolumeRatio(m, o) = MinVolumeRatio(cfg, side)
  <2> DEFINE key == "min_volume_ratio"
  <2>1. /\ Same(cfg, m, At("pair", key, side), At("pair", key, o))
        /\ Same(cfg, m, At("mode", key, side), At("mode", key, o))
        /\ Same(cfg, m, At("pair", key, "any"), At("pair", key, "any"))
    BY <1>1 DEF TurnedKeys
  <2> QED BY <2>1, ThreeMirrored DEF MinVolumeRatio
<1>5. \A key, default : key \notin TurnedKeys =>
        FromModeOrGlobal(m, key, o, default) = FromModeOrGlobal(cfg, key, side, default)
  <2> SUFFICES ASSUME NEW key, NEW default, key \notin TurnedKeys
               PROVE  FromModeOrGlobal(m, key, o, default) = FromModeOrGlobal(cfg, key, side, default)
    OBVIOUS
  <2>1. /\ Same(cfg, m, At("mode", key, side), At("mode", key, o))
        /\ Same(cfg, m, At("global", key, side), At("global", key, o))
    BY <1>1
  <2> QED BY <2>1, TwoMirrored DEF FromModeOrGlobal
<1>6. "btc_min_trend_score" \notin TurnedKeys /\ "btc_min_consensus_count" \notin TurnedKeys
  BY DEF TurnedKeys
<1>7. BtcMinTrendScore(m, o) = BtcMinTrendScore(cfg, side) BY <1>5, <1>6 DEF BtcMinTrendScore
<1>8. BtcMinConsensusCount(m, o) = BtcMinConsensusCount(cfg, side)
  BY <1>5, <1>6 DEF BtcMinConsensusCount
<1> QED BY <1>2, <1>3, <1>4, <1>7, <1>8

\* One that does not is what it was.
LEMMA UnsidedSettings ==
  ASSUME NEW cfg, IsConfiguration(cfg), NEW m, m = MirrorSettings(cfg)
  PROVE  /\ MinAdx(m) = MinAdx(cfg) /\ BtcNeutralPenalty(m) = BtcNeutralPenalty(cfg)
         /\ RequireConsensus(m) = RequireConsensus(cfg)
         /\ RequireBtcAlignment(m) = RequireBtcAlignment(cfg) /\ Permissive(m) = Permissive(cfg)
         /\ MaxSpread(m) = MaxSpread(cfg) /\ MaxAtr(m) = MaxAtr(cfg)
         /\ MinVolume24h(m) = MinVolume24h(cfg) /\ MaxFundingRate(m) = MaxFundingRate(cfg)
         /\ StopLossPct(m) = StopLossPct(cfg) /\ TakeProfitPct(m) = TakeProfitPct(cfg)
         /\ AtrMultiplier(m) = AtrMultiplier(cfg) /\ MinPosition(m) = MinPosition(cfg)
         /\ RiskPerTrade(m) = RiskPerTrade(cfg)
         /\ MaxDailyLoss(m) = MaxDailyLoss(cfg) /\ MaxConsecutiveLosses(m) = MaxConsecutiveLosses(cfg)
<1>1. \A layer, key : key \notin TurnedKeys => Same(cfg, m, At(layer, key, "any"), At(layer, key, "any"))
  BY ImagesOfPlaces
<1>2. \A key, default : key \notin TurnedKeys =>
        /\ FromMode(m, key, default) = FromMode(cfg, key, default)
        /\ FromModeOrPair(m, key, default) = FromModeOrPair(cfg, key, default)
        /\ FromModeOrGlobal(m, key, "any", default) = FromModeOrGlobal(cfg, key, "any", default)
        /\ FirstOf(m, <<At("global", key, "any")>>, default)
             = FirstOf(cfg, <<At("global", key, "any")>>, default)
  <2> SUFFICES ASSUME NEW key, NEW default, key \notin TurnedKeys
               PROVE  /\ FromMode(m, key, default) = FromMode(cfg, key, default)
                      /\ FromModeOrPair(m, key, default) = FromModeOrPair(cfg, key, default)
                      /\ FromModeOrGlobal(m, key, "any", default) = FromModeOrGlobal(cfg, key, "any", default)
                      /\ FirstOf(m, <<At("global", key, "any")>>, default)
                           = FirstOf(cfg, <<At("global", key, "any")>>, default)
    OBVIOUS
  <2>1. /\ Same(cfg, m, At("mode", key, "any"), At("mode", key, "any"))
        /\ Same(cfg, m, At("pair", key, "any"), At("pair", key, "any"))
        /\ Same(cfg, m, At("global", key, "any"), At("global", key, "any"))
    BY <1>1
  <2>2. FromMode(m, key, default) = FromMode(cfg, key, default) BY <2>1, OneMirrored DEF FromMode
  <2>3. FromModeOrPair(m, key, default) = FromModeOrPair(cfg, key, default)
    BY <2>1, TwoMirrored DEF FromModeOrPair
  <2>4. FromModeOrGlobal(m, key, "any", default) = FromModeOrGlobal(cfg, key, "any", default)
    BY <2>1, TwoMirrored DEF FromModeOrGlobal
  <2>5. FirstOf(m, <<At("global", key, "any")>>, default)
          = FirstOf(cfg, <<At("global", key, "any")>>, default)
    BY <2>1, OneMirrored
  <2> QED BY <2>2, <2>3, <2>4, <2>5
<1>3. \A key \in {"btc_neutral_penalty", "require_multi_exchange_consensus", "require_btc_macro_alignment",
                  "permissive_entry", "max_spread_pct", "max_atr_pct", "max_funding_rate_pct",
                  "stop_loss_pct", "take_profit_pct", "min_position_usdt", "risk_per_trade_pct",
                  "max_daily_loss_pct", "max_consecutive_losses", "min_adx", "atr_multiplier",
                  "min_volume_24h_usdt", "min_24h_volume_usdt"} : key \notin TurnedKeys
  BY DEF TurnedKeys
<1>4. BtcNeutralPenalty(m) = BtcNeutralPenalty(cfg) /\ MaxFundingRate(m) = MaxFundingRate(cfg)
  BY <1>2, <1>3 DEF BtcNeutralPenalty, MaxFundingRate
<1>5. /\ RequireConsensus(m) = RequireConsensus(cfg)
      /\ RequireBtcAlignment(m) = RequireBtcAlignment(cfg) /\ Permissive(m) = Permissive(cfg)
  BY <1>2, <1>3 DEF RequireConsensus, RequireBtcAlignment, Permissive
<1>6. /\ MaxSpread(m) = MaxSpread(cfg) /\ MaxAtr(m) = MaxAtr(cfg)
      /\ StopLossPct(m) = StopLossPct(cfg) /\ TakeProfitPct(m) = TakeProfitPct(cfg)
  <2>1. MaxSpread(m) = MaxSpread(cfg) BY <1>2, <1>3 DEF MaxSpread
  <2>2. MaxAtr(m) = MaxAtr(cfg)
    <3>1. "max_atr_pct" \notin TurnedKeys BY <1>3
    <3>2. \A d : FromModeOrPair(m, "max_atr_pct", d) = FromModeOrPair(cfg, "max_atr_pct", d)
      BY <3>1, <1>2
    <3> QED BY <3>2 DEF MaxAtr
  <2>3. StopLossPct(m) = StopLossPct(cfg) BY <1>2, <1>3 DEF StopLossPct
  <2>4. TakeProfitPct(m) = TakeProfitPct(cfg) BY <1>2, <1>3 DEF TakeProfitPct
  <2> QED BY <2>1, <2>2, <2>3, <2>4
<1>7. MinPosition(m) = MinPosition(cfg) /\ RiskPerTrade(m) = RiskPerTrade(cfg)
  BY <1>2, <1>3 DEF MinPosition, RiskPerTrade
<1>8. MaxDailyLoss(m) = MaxDailyLoss(cfg) /\ MaxConsecutiveLosses(m) = MaxConsecutiveLosses(cfg)
  BY <1>2, <1>3 DEF MaxDailyLoss, MaxConsecutiveLosses
<1>9. MinAdx(m) = MinAdx(cfg)
  <2>1. /\ Same(cfg, m, At("mode", "min_adx", "any"), At("mode", "min_adx", "any"))
        /\ Same(cfg, m, At("pair", "min_adx", "any"), At("pair", "min_adx", "any"))
        /\ Same(cfg, m, At("global", "min_adx", "any"), At("global", "min_adx", "any"))
    BY <1>1, <1>3
  <2> QED BY <2>1, ThreeMirrored DEF MinAdx
<1>10. AtrMultiplier(m) = AtrMultiplier(cfg)
  <2>1. /\ Same(cfg, m, At("pair", "atr_multiplier", "any"), At("pair", "atr_multiplier", "any"))
        /\ Same(cfg, m, At("mode", "atr_multiplier", "any"), At("mode", "atr_multiplier", "any"))
    BY <1>1, <1>3
  <2> QED BY <2>1, TwoMirrored DEF AtrMultiplier
<1>11. MinVolume24h(m) = MinVolume24h(cfg)
  <2>1. /\ Same(cfg, m, At("pair_mode", "min_volume_24h_usdt", "any"),
                        At("pair_mode", "min_volume_24h_usdt", "any"))
        /\ Same(cfg, m, At("pair_mode", "min_24h_volume_usdt", "any"),
                        At("pair_mode", "min_24h_volume_usdt", "any"))
        /\ Same(cfg, m, At("mode", "min_volume_24h_usdt", "any"), At("mode", "min_volume_24h_usdt", "any"))
        /\ Same(cfg, m, At("pair", "min_24h_volume_usdt", "any"), At("pair", "min_24h_volume_usdt", "any"))
    BY <1>1, <1>3
  <2> QED BY <2>1, FourMirrored DEF MinVolume24h
<1> QED BY <1>4, <1>5, <1>6, <1>7, <1>8, <1>9, <1>10, <1>11

LEMMA CapMirrored ==
  ASSUME NEW cfg, IsConfiguration(cfg), NEW m, m = MirrorSettings(cfg), NEW equity
  PROVE  PositionCap(m, equity) = PositionCap(cfg, equity)
<1>1. \A layer, key : key \notin TurnedKeys => Same(cfg, m, At(layer, key, "any"), At(layer, key, "any"))
  BY ImagesOfPlaces
<1>2. "max_position_usdt" \notin TurnedKeys /\ "wallet_pct" \notin TurnedKeys BY DEF TurnedKeys
<1>3. PICK l1, l2, l3, l4 : /\ l1 = At("pair_mode", "max_position_usdt", "any")
                            /\ l2 = At("pair", "max_position_usdt", "any")
                            /\ l3 = At("mode", "max_position_usdt", "any")
                            /\ l4 = At("global", "max_position_usdt", "any")
  OBVIOUS
<1>4. Same(cfg, m, l1, l1) /\ Same(cfg, m, l2, l2) /\ Same(cfg, m, l3, l3) /\ Same(cfg, m, l4, l4)
  BY <1>1, <1>2, <1>3
<1>5. \A d : FirstOf(m, <<l4>>, d) = FirstOf(cfg, <<l4>>, d) BY <1>4, OneMirrored
<1>6. \A d : FirstOf(m, <<l1, l2, l3>>, d) = FirstOf(cfg, <<l1, l2, l3>>, d)
  BY <1>4, ThreeMirrored
<1>7. MaxPosition(m) = MaxPosition(cfg) BY <1>3, <1>5, <1>6 DEF MaxPosition
<1>8. PICK w1, w2, w3 : /\ w1 = At("pair_mode", "wallet_pct", "any")
                        /\ w2 = At("pair", "wallet_pct", "any") /\ w3 = At("mode", "wallet_pct", "any")
  OBVIOUS
<1>9. Same(cfg, m, w1, w1) /\ Same(cfg, m, w2, w2) /\ Same(cfg, m, w3, w3)
  BY <1>1, <1>2, <1>8
<1>10. FirstOf(m, <<w1, w2, w3>>, 0) = FirstOf(cfg, <<w1, w2, w3>>, 0) BY <1>9, ThreeMirrored
<1>11. PICK share : share = <<w1, w2, w3>> OBVIOUS
<1>12. (\E i \in DOMAIN share : share[i] \in DOMAIN m) <=> (\E i \in DOMAIN share : share[i] \in DOMAIN cfg)
  <2>1. \A i \in DOMAIN share : share[i] \in {w1, w2, w3} BY <1>11
  <2> QED BY <2>1, <1>9 DEF Same
<1> QED BY <1>7, <1>8, <1>10, <1>11, <1>12 DEF PositionCap

\* The bounds of the RSI and of %B are turned around.
LEMMA BoundsTurned ==
  ASSUME NEW cfg, IsConfiguration(cfg), NEW m, m = MirrorSettings(cfg),
         NEW side \in {"long", "short"}, NEW o, o = OtherSide(side)
  PROVE  /\ RsiBounds(m, o).low = 100 - RsiBounds(cfg, side).high
         /\ RsiBounds(m, o).high = 100 - RsiBounds(cfg, side).low
<1>1. \A layer : /\ Reflected(cfg, m, At(layer, "rsi_low", side), At(layer, "rsi_high", o))
                 /\ Reflected(cfg, m, At(layer, "rsi_high", side), At(layer, "rsi_low", o))
  <2>1. KeyOf("rsi_low") = "rsi_high" /\ KeyOf("rsi_high") = "rsi_low"
        /\ "rsi_low" \in TurnedKeys /\ "rsi_high" \in TurnedKeys
    BY DEF KeyOf, TurnedKeys
  <2> QED BY <2>1, ImagesOfPlaces DEF OtherSide
<1>2. PICK l1, l2, l3, h1, h2, h3 :
        /\ l1 = At("mode", "rsi_low", side) /\ l2 = At("pair", "rsi_low", side)
        /\ l3 = At("global", "rsi_low", side) /\ h1 = At("mode", "rsi_high", side)
        /\ h2 = At("pair", "rsi_high", side) /\ h3 = At("global", "rsi_high", side)
  OBVIOUS
<1>3. PICK ll1, ll2, ll3, hh1, hh2, hh3 :
        /\ ll1 = At("mode", "rsi_low", o) /\ ll2 = At("pair", "rsi_low", o)
        /\ ll3 = At("global", "rsi_low", o) /\ hh1 = At("mode", "rsi_high", o)
        /\ hh2 = At("pair", "rsi_high", o) /\ hh3 = At("global", "rsi_high", o)
  OBVIOUS
<1>4. /\ Reflected(cfg, m, l1, hh1) /\ Reflected(cfg, m, l2, hh2) /\ Reflected(cfg, m, l3, hh3)
      /\ Reflected(cfg, m, h1, ll1) /\ Reflected(cfg, m, h2, ll2) /\ Reflected(cfg, m, h3, ll3)
  BY <1>1, <1>2, <1>3
<1>5. \A d, e : e = 100 - d => FirstOf(m, <<hh2, hh3>>, e) = 100 - FirstOf(cfg, <<l2, l3>>, d)
  BY <1>4, TwoTurned
<1>6. \A d, e : e = 100 - d => FirstOf(m, <<ll2, ll3>>, e) = 100 - FirstOf(cfg, <<h2, h3>>, d)
  BY <1>4, TwoTurned
<1>7. PICK end, image :
        /\ end = IF side = "long" THEN [low |-> 50, high |-> 68] ELSE [low |-> 32, high |-> 50]
        /\ image = IF o = "long" THEN [low |-> 50, high |-> 68] ELSE [low |-> 32, high |-> 50]
  OBVIOUS
<1>8. image.low = 100 - end.high /\ image.high = 100 - end.low BY <1>7 DEF OtherSide
<1>9. {l1, h1} \subseteq DOMAIN cfg <=> {ll1, hh1} \subseteq DOMAIN m BY <1>4 DEF Reflected
<1>10. /\ RsiBounds(cfg, side).low = IF {l1, h1} \subseteq DOMAIN cfg THEN cfg[l1]
                                     ELSE FirstOf(cfg, <<l2, l3>>, end.low)
       /\ RsiBounds(cfg, side).high = IF {l1, h1} \subseteq DOMAIN cfg THEN cfg[h1]
                                      ELSE FirstOf(cfg, <<h2, h3>>, end.high)
  BY <1>2, <1>7 DEF RsiBounds
<1>11. /\ RsiBounds(m, o).low = IF {ll1, hh1} \subseteq DOMAIN m THEN m[ll1]
                                ELSE FirstOf(m, <<ll2, ll3>>, image.low)
       /\ RsiBounds(m, o).high = IF {ll1, hh1} \subseteq DOMAIN m THEN m[hh1]
                                 ELSE FirstOf(m, <<hh2, hh3>>, image.high)
  BY <1>3, <1>7 DEF RsiBounds
<1>12. CASE {l1, h1} \subseteq DOMAIN cfg
  <2>1. m[ll1] = 100 - cfg[h1] /\ m[hh1] = 100 - cfg[l1] BY <1>4, <1>12 DEF Reflected
  <2> QED BY <2>1, <1>9, <1>10, <1>11, <1>12
<1>13. CASE ~({l1, h1} \subseteq DOMAIN cfg)
  <2>1. FirstOf(m, <<hh2, hh3>>, image.high) = 100 - FirstOf(cfg, <<l2, l3>>, end.low) BY <1>5, <1>8
  <2>2. FirstOf(m, <<ll2, ll3>>, image.low) = 100 - FirstOf(cfg, <<h2, h3>>, end.high) BY <1>6, <1>8
  <2> QED BY <2>1, <2>2, <1>9, <1>10, <1>11, <1>13
<1> QED BY <1>12, <1>13

LEMMA LimitTurned ==
  ASSUME NEW cfg, IsConfiguration(cfg), NEW m, m = MirrorSettings(cfg),
         NEW side \in {"long", "short"}, NEW o, o = OtherSide(side)
  PROVE  PercentBLimit(m, o) = {100 - limit : limit \in PercentBLimit(cfg, side)}
<1>1. \A layer : Reflected(cfg, m, At(layer, "percent_b", side), At(layer, "percent_b", o))
  <2>1. KeyOf("percent_b") = "percent_b" /\ "percent_b" \in TurnedKeys BY DEF KeyOf, TurnedKeys
  <2> QED BY <2>1, ImagesOfPlaces DEF OtherSide
<1>2. PICK p1, p2, p3, q1, q2, q3 :
        /\ p1 = At("mode", "percent_b", side) /\ p2 = At("pair", "percent_b", side)
        /\ p3 = At("global", "percent_b", side) /\ q1 = At("mode", "percent_b", o)
        /\ q2 = At("pair", "percent_b", o) /\ q3 = At("global", "percent_b", o)
  OBVIOUS
<1>3. Reflected(cfg, m, p1, q1) /\ Reflected(cfg, m, p2, q2) /\ Reflected(cfg, m, p3, q3) BY <1>1, <1>2
<1>4. PICK places, images : places = <<p1, p2, p3>> /\ images = <<q1, q2, q3>> OBVIOUS
<1>5. DOMAIN places \subseteq Nat /\ DOMAIN images = DOMAIN places BY <1>4
<1>6. \A i \in DOMAIN places : Reflected(cfg, m, places[i], images[i]) BY <1>3, <1>4
<1>7. PICK set : set = {i \in DOMAIN places : places[i] \in DOMAIN cfg} OBVIOUS
<1>8. set = {i \in DOMAIN images : images[i] \in DOMAIN m} BY <1>5, <1>6, <1>7 DEF Reflected
<1>9. PercentBLimit(cfg, side) = {FirstOf(cfg, places, 0) : i \in set}
  BY <1>2, <1>4, <1>7 DEF PercentBLimit
<1>10. PercentBLimit(m, o) = {FirstOf(m, images, 0) : i \in set}
  BY <1>2, <1>4, <1>8 DEF PercentBLimit
<1>11. set # {} => FirstOf(m, images, 0) = 100 - FirstOf(cfg, places, 0)
  BY <1>5, <1>6, <1>7, FirstTurned
<1> QED BY <1>9, <1>10, <1>11

\* What the mirrored signal holds.
LEMMA SignalMirrored ==
  ASSUME NEW s \in MarketSignal, NEW t, t = MirrorSignal(s)
  PROVE  /\ t.trend = -s.trend /\ t.slope = -s.slope /\ t.line = -s.line /\ t.signal = -s.signal
         /\ t.btcTrend = -s.btcTrend /\ t.regime = Opposite(s.regime) /\ t.bybit = Opposite(s.bybit)
         /\ t.btcRegime = Opposite(s.btcRegime) /\ t.bulls = s.bears /\ t.bears = s.bulls
         /\ t.emaFast = 2 * Price - s.emaFast /\ t.emaSlow = 2 * Price - s.emaSlow
         /\ t.rsi = 100 - s.rsi /\ t.percentB = 100 - s.percentB /\ t.funding = -s.funding
         /\ t.available = s.available /\ t.bandwidth = s.bandwidth /\ t.adx = s.adx
         /\ t.volume = s.volume /\ t.spread = s.spread /\ t.volume24h = s.volume24h
         /\ t.atr = s.atr /\ t.isBtc = s.isBtc /\ t.btcCount = s.btcCount /\ t.lastBit = s.lastBit
<1>1. t.trend = -s.trend /\ t.slope = -s.slope /\ t.line = -s.line /\ t.signal = -s.signal
  BY DEF MirrorSignal, MarketSignal
<1>2. t.btcTrend = -s.btcTrend /\ t.regime = Opposite(s.regime) /\ t.bybit = Opposite(s.bybit)
      /\ t.btcRegime = Opposite(s.btcRegime)
  BY DEF MirrorSignal, MarketSignal
<1>3. t.bulls = s.bears /\ t.bears = s.bulls
  BY DEF MirrorSignal, MarketSignal
<1>4. t.emaFast = 2 * Price - s.emaFast /\ t.emaSlow = 2 * Price - s.emaSlow
  BY DEF MirrorSignal, MarketSignal
<1>5. t.rsi = 100 - s.rsi /\ t.percentB = 100 - s.percentB /\ t.funding = -s.funding
  BY DEF MirrorSignal, MarketSignal
<1>6. t.available = s.available /\ t.bandwidth = s.bandwidth /\ t.adx = s.adx
  BY DEF MirrorSignal, MarketSignal
<1>7. t.volume = s.volume /\ t.spread = s.spread /\ t.volume24h = s.volume24h
  BY DEF MirrorSignal, MarketSignal
<1>8. t.atr = s.atr /\ t.isBtc = s.isBtc /\ t.btcCount = s.btcCount /\ t.lastBit = s.lastBit
  BY DEF MirrorSignal, MarketSignal
<1> QED BY <1>1, <1>2, <1>3, <1>4, <1>5, <1>6, <1>7, <1>8

LEMMA NumbersAndFlags ==
  ASSUME NEW cfg, IsConfiguration(cfg), NEW side \in {"long", "short"}
  PROVE  /\ BtcMinTrendScore(cfg, side) \in Int /\ StopLossPct(cfg) \in Int /\ TakeProfitPct(cfg) \in Int
         /\ RsiBounds(cfg, side).low \in Int /\ RsiBounds(cfg, side).high \in Int
         /\ PercentBLimit(cfg, side) \subseteq Int /\ Permissive(cfg) \in BOOLEAN
<1>1. \A layer, key, variant : At(layer, key, variant) \in DOMAIN cfg =>
        cfg[At(layer, key, variant)] \in ValuesOf(key)
  BY DEF IsConfiguration, At
<1>2. /\ ValuesOf("permissive_entry") = BOOLEAN
      /\ \A key \in {"btc_min_trend_score", "stop_loss_pct", "take_profit_pct", "rsi_low", "rsi_high",
                     "percent_b"} : ValuesOf(key) = Int
  BY DEF ValuesOf, Flags
<1>3. ASSUME NEW p1, NEW p2, NEW V, p1 \in DOMAIN cfg => cfg[p1] \in V, p2 \in DOMAIN cfg => cfg[p2] \in V,
             NEW default
      PROVE  FirstOf(cfg, <<p1, p2>>, default) \in V \cup {default}
  <2>1. PICK p : p = <<p1, p2>> OBVIOUS
  <2>2. DOMAIN p \subseteq Nat /\ \A i \in DOMAIN p : p[i] \in DOMAIN cfg => cfg[p[i]] \in V BY <1>3, <2>1
  <2>3. FirstOf(cfg, p, default) \in V \cup {default} BY <2>2, FirstOfValue
  <2> QED BY <2>1, <2>3
<1>4. BtcMinTrendScore(cfg, side) \in Int
  <2>1. FirstOf(cfg, <<At("mode", "btc_min_trend_score", side), At("global", "btc_min_trend_score", side)>>,
                5)
          \in Int \cup {5}
    BY <1>1, <1>2, <1>3
  <2> QED BY <2>1 DEF BtcMinTrendScore, FromModeOrGlobal
<1>5. StopLossPct(cfg) \in Int
  <2>1. FirstOf(cfg, <<At("mode", "stop_loss_pct", "any"), At("pair", "stop_loss_pct", "any")>>, 150)
          \in Int \cup {150}
    BY <1>1, <1>2, <1>3
  <2> QED BY <2>1 DEF StopLossPct, FromModeOrPair
<1>6. TakeProfitPct(cfg) \in Int
  <2>1. FirstOf(cfg, <<At("mode", "take_profit_pct", "any"), At("pair", "take_profit_pct", "any")>>, 300)
          \in Int \cup {300}
    BY <1>1, <1>2, <1>3
  <2> QED BY <2>1 DEF TakeProfitPct, FromModeOrPair
<1>7. ASSUME NEW key \in {"rsi_low", "rsi_high"}, NEW default \in Int
      PROVE  FirstOf(cfg, <<At("pair", key, side), At("global", key, side)>>, default) \in Int
  <2>1. FirstOf(cfg, <<At("pair", key, side), At("global", key, side)>>, default) \in Int \cup {default}
    BY <1>1, <1>2, <1>3
  <2> QED BY <2>1
<1>8. RsiBounds(cfg, side).low \in Int /\ RsiBounds(cfg, side).high \in Int
  BY <1>1, <1>2, <1>7 DEF RsiBounds
<1>9. PercentBLimit(cfg, side) \subseteq Int
  <2>1. PICK p : p = <<At("mode", "percent_b", side), At("pair", "percent_b", side),
                       At("global", "percent_b", side)>>
    OBVIOUS
  <2>2. DOMAIN p \subseteq Nat /\ \A i \in DOMAIN p : p[i] \in DOMAIN cfg => cfg[p[i]] \in Int
    BY <1>1, <1>2, <2>1
  <2>3. FirstOf(cfg, p, 0) \in Int \cup {0} BY <2>2, FirstOfValue
  <2>4. \A limit \in PercentBLimit(cfg, side) : limit = FirstOf(cfg, p, 0) BY <2>1 DEF PercentBLimit
  <2> QED BY <2>3, <2>4
<1>10. Permissive(cfg) \in BOOLEAN
  <2>1. PICK p, f : p = <<At("mode", "permissive_entry", "any")>> /\ f = FALSE OBVIOUS
  <2>2. DOMAIN p \subseteq Nat /\ \A i \in DOMAIN p : p[i] \in DOMAIN cfg => cfg[p[i]] \in BOOLEAN
    BY <1>1, <1>2, <2>1
  <2>3. FirstOf(cfg, p, f) \in BOOLEAN \cup {f} BY <2>2, FirstOfValue
  <2>4. BOOLEAN \cup {f} = BOOLEAN BY <2>1
  <2>5. Permissive(cfg) = FirstOf(cfg, p, f) BY <2>1 DEF Permissive, FromMode
  <2> QED BY <2>3, <2>4, <2>5
<1> QED BY <1>4, <1>5, <1>6, <1>8, <1>9, <1>10

\* The side of the mirrored signal, and what speaks for it.
LEMMA SidesMirrored ==
  ASSUME NEW s \in MarketSignal, s.trend # 0, NEW t, t = MirrorSignal(s)
  PROVE  /\ Side(s) \in {"long", "short"} /\ Side(t) = OtherSide(Side(s))
         /\ Side(s) = "long" <=> s.trend > 0
         /\ Side(t) = "long" <=> t.trend > 0
         /\ Histogram(t) = -Histogram(s) /\ Histogram(s) \in Int
         /\ \A side \in {"long", "short"} :
              /\ s.regime = Favour(side) <=> t.regime = Favour(OtherSide(side))
              /\ s.regime = Against(side) <=> t.regime = Against(OtherSide(side))
              /\ s.bybit = Favour(side) <=> t.bybit = Favour(OtherSide(side))
              /\ s.bybit = Against(side) <=> t.bybit = Against(OtherSide(side))
              /\ s.btcRegime = Favour(side) <=> t.btcRegime = Favour(OtherSide(side))
         /\ s.btcRegime = "neutral" <=> t.btcRegime = "neutral"
<1>0. /\ s.trend \in Int /\ s.line \in Int /\ s.signal \in Int /\ s.regime \in SomeRegime
      /\ s.bybit \in SomeRegime /\ s.btcRegime \in SomeRegime
  BY DEF MarketSignal
<1>1. /\ t.trend = -s.trend /\ t.line = -s.line /\ t.signal = -s.signal
      /\ t.regime = Opposite(s.regime) /\ t.bybit = Opposite(s.bybit) /\ t.btcRegime = Opposite(s.btcRegime)
  BY SignalMirrored
<1>2. \A r \in SomeRegime, side \in {"long", "short"} :
        /\ r = Favour(side) <=> Opposite(r) = Favour(OtherSide(side))
        /\ r = Against(side) <=> Opposite(r) = Against(OtherSide(side))
        /\ r = "neutral" <=> Opposite(r) = "neutral"
  BY DEF SomeRegime, Opposite, Favour, Against, OtherSide
<1>3. Side(s) \in {"long", "short"} /\ Side(t) = OtherSide(Side(s)) BY <1>0, <1>1 DEF Side, OtherSide
<1>4. (Side(s) = "long" <=> s.trend > 0) /\ (Side(t) = "long" <=> t.trend > 0)
  BY <1>0, <1>1 DEF Side
<1>5. Histogram(t) = -Histogram(s) /\ Histogram(s) \in Int BY <1>0, <1>1 DEF Histogram
<1> QED BY <1>0, <1>1, <1>2, <1>3, <1>4, <1>5

LEMMA AbsoluteAlike ==
  ASSUME NEW x \in Int PROVE Abs(-x) = Abs(x)
BY DEF Abs

LEMMA PenaltyMirrored ==
  ASSUME NEW cfg, IsConfiguration(cfg), NEW m, m = MirrorSettings(cfg),
         NEW s \in MarketSignal, s.trend # 0, NEW t, t = MirrorSignal(s)
  PROVE  /\ BtcPenalty(m, t, Side(t)) = BtcPenalty(cfg, s, Side(s))
         /\ TrendFloor(m, t) = TrendFloor(cfg, s)
<1>1. PICK side, o : side = Side(s) /\ o = Side(t) OBVIOUS
<1>2. side \in {"long", "short"} /\ o = OtherSide(side) BY <1>1, SidesMirrored
<1>3. /\ s.btcRegime = Favour(side) <=> t.btcRegime = Favour(o)
      /\ s.btcRegime = "neutral" <=> t.btcRegime = "neutral"
  BY <1>2, SidesMirrored
<1>4. t.btcTrend = -s.btcTrend /\ s.btcTrend \in Int /\ t.btcCount = s.btcCount /\ t.isBtc = s.isBtc
  BY SignalMirrored DEF MarketSignal
<1>5. /\ BtcMinTrendScore(m, o) = BtcMinTrendScore(cfg, side) /\ BtcMinTrendScore(cfg, side) \in Int
      /\ BtcMinConsensusCount(m, o) = BtcMinConsensusCount(cfg, side)
      /\ MinTrendScore(m, o) = MinTrendScore(cfg, side)
  BY <1>2, SidedSettings, NumbersAndFlags
<1>6. BtcNeutralPenalty(m) = BtcNeutralPenalty(cfg) /\ RequireBtcAlignment(m) = RequireBtcAlignment(cfg)
  BY UnsidedSettings
<1>7. BtcAligned(m, t, o) <=> BtcAligned(cfg, s, side)
  BY <1>2, <1>3, <1>4, <1>5 DEF BtcAligned, OtherSide
<1>8. BtcPenalty(m, t, o) = BtcPenalty(cfg, s, side)
  BY <1>3, <1>4, <1>5, <1>6, <1>7 DEF BtcPenalty
<1>9. TrendFloor(m, t) = TrendFloor(cfg, s) BY <1>1, <1>5, <1>8 DEF TrendFloor
<1> QED BY <1>1, <1>8, <1>9

\* Each condition of one side is the condition of the other.
LEMMA ConditionsMirrored ==
  ASSUME NEW cfg, IsConfiguration(cfg), NEW m, m = MirrorSettings(cfg),
         NEW s \in MarketSignal, s.trend # 0, NEW t, t = MirrorSignal(s)
  PROVE  /\ ConsensusLong(m, t) <=> ConsensusShort(cfg, s)
         /\ ConsensusShort(m, t) <=> ConsensusLong(cfg, s)
         /\ StrictLong(m, t) <=> StrictShort(cfg, s)
         /\ StrictShort(m, t) <=> StrictLong(cfg, s)
         /\ s.trend < 0 => (PermissiveLong(t) <=> PermissiveShort(s))
         /\ s.trend > 0 => (PermissiveShort(t) <=> PermissiveLong(s))
         /\ RsiInBounds(m, t) <=> RsiInBounds(cfg, s)
         /\ Strength(m, t) <=> Strength(cfg, s)
<1>0. /\ s.trend \in Int /\ s.slope \in Int /\ s.emaFast \in Int /\ s.emaSlow \in Int
      /\ s.line \in Int /\ s.signal \in Int /\ s.rsi \in Int
      /\ s.regime \in SomeRegime /\ s.bybit \in SomeRegime
  BY DEF MarketSignal
<1>1. /\ t.trend = -s.trend /\ t.slope = -s.slope /\ t.line = -s.line /\ t.signal = -s.signal
      /\ t.emaFast = 2 * Price - s.emaFast /\ t.emaSlow = 2 * Price - s.emaSlow
      /\ t.rsi = 100 - s.rsi /\ t.bulls = s.bears /\ t.bears = s.bulls
      /\ t.available = s.available /\ t.volume = s.volume
  BY SignalMirrored
<1>2. /\ t.regime = "bullish" <=> s.regime = "bearish"
      /\ t.regime = "bearish" <=> s.regime = "bullish"
      /\ t.bybit = "bullish" <=> s.bybit = "bearish"
      /\ t.bybit = "bearish" <=> s.bybit = "bullish"
  <2>1. t.regime = Opposite(s.regime) /\ t.bybit = Opposite(s.bybit) BY SignalMirrored
  <2> QED BY <2>1, <1>0 DEF Opposite, SomeRegime
<1>3. Histogram(t) = -Histogram(s) /\ Histogram(s) \in Int BY SidesMirrored
<1>4. RequireConsensus(m) = RequireConsensus(cfg) BY UnsidedSettings
<1>5. ConsensusLong(m, t) <=> ConsensusShort(cfg, s)
  BY <1>1, <1>2, <1>4 DEF ConsensusLong, ConsensusShort
<1>6. ConsensusShort(m, t) <=> ConsensusLong(cfg, s)
  BY <1>1, <1>2, <1>4 DEF ConsensusLong, ConsensusShort
<1>7. /\ t.slope > 0 <=> s.slope < 0
      /\ t.slope < 0 <=> s.slope > 0
      /\ t.slope >= 0 <=> s.slope <= 0
      /\ t.slope <= 0 <=> s.slope >= 0
      /\ t.emaFast > t.emaSlow <=> s.emaFast < s.emaSlow
      /\ t.emaFast < t.emaSlow <=> s.emaFast > s.emaSlow
      /\ t.emaFast >= t.emaSlow <=> s.emaFast <= s.emaSlow
      /\ t.emaFast <= t.emaSlow <=> s.emaFast >= s.emaSlow
      /\ Price >= t.emaFast <=> Price <= s.emaFast
      /\ Price <= t.emaFast <=> Price >= s.emaFast
      /\ Price >= t.emaSlow <=> Price <= s.emaSlow
      /\ Price <= t.emaSlow <=> Price >= s.emaSlow
  BY <1>0, <1>1 DEF Price
<1>8. /\ t.line > t.signal <=> s.line < s.signal
      /\ t.line < t.signal <=> s.line > s.signal
      /\ t.line >= t.signal <=> s.line <= s.signal
      /\ t.line <= t.signal <=> s.line >= s.signal
      /\ Histogram(t) > 0 <=> Histogram(s) < 0
      /\ Histogram(t) < 0 <=> Histogram(s) > 0
      /\ Histogram(t) >= 0 <=> Histogram(s) <= 0
      /\ Histogram(t) <= 0 <=> Histogram(s) >= 0
  BY <1>0, <1>1, <1>3
<1>9. StrictLong(m, t) <=> StrictShort(cfg, s)
  BY <1>2, <1>5, <1>7, <1>8 DEF StrictLong, StrictShort
<1>10. StrictShort(m, t) <=> StrictLong(cfg, s)
  BY <1>2, <1>6, <1>7, <1>8 DEF StrictLong, StrictShort
<1>11. s.trend < 0 => (PermissiveLong(t) <=> PermissiveShort(s))
  <2>1. s.trend < 0 => t.trend >= 0 BY <1>0, <1>1
  <2> QED BY <2>1, <1>2, <1>7, <1>8 DEF PermissiveLong, PermissiveShort
<1>12. s.trend > 0 => (PermissiveShort(t) <=> PermissiveLong(s))
  <2>1. s.trend > 0 => t.trend < 0 /\ s.trend >= 0 BY <1>0, <1>1
  <2> QED BY <2>1, <1>2, <1>7, <1>8 DEF PermissiveLong, PermissiveShort
<1>13. RsiInBounds(m, t) <=> RsiInBounds(cfg, s)
  <2>1. PICK side, o : side = Side(s) /\ o = Side(t) OBVIOUS
  <2>2. side \in {"long", "short"} /\ o = OtherSide(side) BY <2>1, SidesMirrored
  <2>3. PICK b, c : b = RsiBounds(cfg, side) /\ c = RsiBounds(m, o) OBVIOUS
  <2>4. c.low = 100 - b.high /\ c.high = 100 - b.low BY <2>2, <2>3, BoundsTurned
  <2>5. b.low \in Int /\ b.high \in Int BY <2>2, <2>3, NumbersAndFlags
  <2> QED BY <2>1, <2>3, <2>4, <2>5, <1>0, <1>1 DEF RsiInBounds
<1>14. Strength(m, t) <=> Strength(cfg, s)
  <2>1. TrendFloor(m, t) = TrendFloor(cfg, s) BY PenaltyMirrored
  <2>2. MinVolumeRatio(m, Side(t)) = MinVolumeRatio(cfg, Side(s)) BY SidesMirrored, SidedSettings
  <2>3. Abs(t.trend) = Abs(s.trend) BY <1>0, <1>1, AbsoluteAlike
  <2> QED BY <2>1, <2>2, <2>3, <1>1, <1>13 DEF Strength
<1> QED BY <1>5, <1>6, <1>9, <1>10, <1>11, <1>12, <1>13, <1>14

LEMMA EntryOkMirrored ==
  ASSUME NEW cfg, IsConfiguration(cfg), NEW m, m = MirrorSettings(cfg),
         NEW s \in MarketSignal, s.trend # 0, NEW t, t = MirrorSignal(s)
  PROVE  EntryOk(m, t) <=> EntryOk(cfg, s)
<1>1. PICK side, o : side = Side(s) /\ o = Side(t) OBVIOUS
<1>2. /\ side \in {"long", "short"} /\ o = OtherSide(side)
      /\ side = "long" <=> s.trend > 0
  BY <1>1, SidesMirrored
<1>3. /\ t.percentB = 100 - s.percentB /\ s.percentB \in Int /\ s.trend \in Int /\ t.adx = s.adx
      /\ t.spread = s.spread /\ t.volume24h = s.volume24h /\ t.atr = s.atr
  BY SignalMirrored DEF MarketSignal
<1>4. (\A limit \in PercentBLimit(m, o) : IF o = "short" THEN t.percentB >= limit ELSE t.percentB <= limit)
      <=> (\A limit \in PercentBLimit(cfg, side) :
             IF side = "short" THEN s.percentB >= limit ELSE s.percentB <= limit)
  <2>1. PICK L, M : L = PercentBLimit(cfg, side) /\ M = PercentBLimit(m, o) OBVIOUS
  <2>2. M = {100 - limit : limit \in L} BY <1>2, <2>1, LimitTurned
  <2>3. L \subseteq Int BY <1>2, <2>1, NumbersAndFlags
  <2>4. \A limit \in L : (IF o = "short" THEN t.percentB >= 100 - limit ELSE t.percentB <= 100 - limit)
                         <=> (IF side = "short" THEN s.percentB >= limit ELSE s.percentB <= limit)
    <3> TAKE limit \in L
    <3>1. limit \in Int BY <2>3
    <3>2. /\ t.percentB >= 100 - limit <=> s.percentB <= limit
          /\ t.percentB <= 100 - limit <=> s.percentB >= limit
      BY <3>1, <1>3
    <3>3. side = "short" <=> o = "long" BY <1>2 DEF OtherSide
    <3>4. o \in {"long", "short"} BY <1>2 DEF OtherSide
    <3> QED BY <3>2, <3>3, <3>4, <1>2
  <2> QED BY <2>1, <2>2, <2>4
<1>5. Allow(m, o) = Allow(cfg, side) BY <1>2, SidedSettings
<1>6. /\ MinAdx(m) = MinAdx(cfg) /\ Permissive(m) = Permissive(cfg) /\ MaxSpread(m) = MaxSpread(cfg)
      /\ MaxAtr(m) = MaxAtr(cfg) /\ MinVolume24h(m) = MinVolume24h(cfg)
  BY UnsidedSettings
<1>7. Permissive(cfg) \in BOOLEAN BY <1>2, NumbersAndFlags
<1>8. (CASE o = "long" /\ Permissive(m)   -> PermissiveLong(t)
         [] o = "long" /\ ~Permissive(m)  -> StrictLong(m, t)
         [] o = "short" /\ Permissive(m)  -> PermissiveShort(t)
         [] o = "short" /\ ~Permissive(m) -> StrictShort(m, t))
      <=> (CASE side = "long" /\ Permissive(cfg)   -> PermissiveLong(s)
             [] side = "long" /\ ~Permissive(cfg)  -> StrictLong(cfg, s)
             [] side = "short" /\ Permissive(cfg)  -> PermissiveShort(s)
             [] side = "short" /\ ~Permissive(cfg) -> StrictShort(cfg, s))
  <2>1. /\ StrictLong(m, t) <=> StrictShort(cfg, s)
        /\ StrictShort(m, t) <=> StrictLong(cfg, s)
        /\ s.trend < 0 => (PermissiveLong(t) <=> PermissiveShort(s))
        /\ s.trend > 0 => (PermissiveShort(t) <=> PermissiveLong(s))
    BY ConditionsMirrored
  <2>2. CASE side = "long"
    <3>1. o = "short" /\ s.trend > 0 BY <1>2, <2>2 DEF OtherSide
    <3> QED BY <3>1, <2>1, <2>2, <1>6, <1>7
  <2>3. CASE side = "short"
    <3>1. o = "long" /\ s.trend < 0 BY <1>2, <1>3, <2>3 DEF OtherSide
    <3> QED BY <3>1, <2>1, <2>3, <1>6, <1>7
  <2> QED BY <1>2, <2>2, <2>3
<1>9. Strength(m, t) <=> Strength(cfg, s) BY ConditionsMirrored
<1>10. DirectionOk(m, t) <=> DirectionOk(cfg, s)
  <2>1. PICK x, y : x = PercentBLimit(m, o) /\ y = PercentBLimit(cfg, side) OBVIOUS
  <2>2. t.adx >= MinAdx(m) <=> s.adx >= MinAdx(cfg) BY <1>3, <1>6
  <2>3. (\A limit \in PercentBLimit(m, o) : IF o = "short" THEN t.percentB >= limit ELSE t.percentB <= limit)
        <=> (\A limit \in PercentBLimit(cfg, side) :
               IF side = "short" THEN s.percentB >= limit ELSE s.percentB <= limit)
    BY <1>4
  <2> QED BY <1>1, <1>5, <1>8, <1>9, <2>2, <2>3 DEF DirectionOk
<1>11. BtcPenalty(m, t, o) = BtcPenalty(cfg, s, side) BY <1>1, PenaltyMirrored
<1> QED BY <1>1, <1>3, <1>6, <1>10, <1>11 DEF EntryOk

LEMMA QualitiesMirrored ==
  ASSUME NEW x \in Int, NEW side \in {"long", "short"}, NEW o, o = OtherSide(side)
  PROVE  /\ RsiQuality(o, 100 - x) = RsiQuality(side, x)
         /\ BollingerQuality(o, 100 - x) = BollingerQuality(side, x)
<1>1. PICK y : y = 100 - x /\ y \in Int OBVIOUS
<1>2. /\ y > 70 <=> x < 30
      /\ y < 30 <=> x > 70
      /\ y \in 56 .. 70 <=> x \in 30 .. 44
      /\ y \in 30 .. 44 <=> x \in 56 .. 70
      /\ y \in 41 .. 55 <=> x \in 45 .. 59
      /\ y \in 45 .. 59 <=> x \in 41 .. 55
      /\ y \in 31 .. 40 <=> x \in 60 .. 69
      /\ y \in 60 .. 69 <=> x \in 31 .. 40
  BY <1>1
<1>3. /\ y < -5 <=> x > 105
      /\ y > 105 <=> x < -5
      /\ y \in -5 .. 9 <=> x \in 91 .. 105
      /\ y \in 91 .. 105 <=> x \in -5 .. 9
      /\ y \in 15 .. 55 <=> x \in 45 .. 85
      /\ y \in 45 .. 85 <=> x \in 15 .. 55
      /\ y \in 56 .. 75 <=> x \in 25 .. 44
      /\ y \in 25 .. 44 <=> x \in 56 .. 75
      /\ y > 85 <=> x < 15
      /\ y < 15 <=> x > 85
  BY <1>1
<1>4. CASE side = "long"
  <2>1. o = "short" BY <1>4 DEF OtherSide
  <2>2. RsiQuality(o, y) = RsiQuality(side, x) BY <2>1, <1>2, <1>4 DEF RsiQuality
  <2>3. BollingerQuality(o, y) = BollingerQuality(side, x) BY <2>1, <1>3, <1>4 DEF BollingerQuality
  <2> QED BY <2>2, <2>3, <1>1
<1>5. CASE side = "short"
  <2>1. o = "long" BY <1>5 DEF OtherSide
  <2>2. RsiQuality(o, y) = RsiQuality(side, x) BY <2>1, <1>2, <1>5 DEF RsiQuality
  <2>3. BollingerQuality(o, y) = BollingerQuality(side, x) BY <2>1, <1>3, <1>5 DEF BollingerQuality
  <2> QED BY <2>2, <2>3, <1>1
<1> QED BY <1>4, <1>5

LEMMA MacdMirrored ==
  ASSUME NEW s \in MarketSignal, s.trend # 0, NEW t, t = MirrorSignal(s),
         NEW side \in {"long", "short"}, NEW o, o = OtherSide(side)
  PROVE  MacdQuality(o, t) = MacdQuality(side, s)
<1>1. t.line = -s.line /\ t.signal = -s.signal /\ s.line \in Int /\ s.signal \in Int
  BY SignalMirrored DEF MarketSignal
<1>2. Histogram(t) = -Histogram(s) /\ Histogram(s) \in Int BY SidesMirrored
<1>3. Abs(Histogram(t)) = Abs(Histogram(s)) BY <1>2, AbsoluteAlike
<1>4. /\ t.line > t.signal <=> s.line < s.signal
      /\ t.line < t.signal <=> s.line > s.signal
      /\ Histogram(t) > 0 <=> Histogram(s) < 0
      /\ Histogram(t) < 0 <=> Histogram(s) > 0
  BY <1>1, <1>2
<1>5. CASE side = "long"
  <2>1. o = "short" BY <1>5 DEF OtherSide
  <2> QED BY <2>1, <1>3, <1>4, <1>5 DEF MacdQuality
<1>6. CASE side = "short"
  <2>1. o = "long" BY <1>6 DEF OtherSide
  <2> QED BY <2>1, <1>3, <1>4, <1>6 DEF MacdQuality
<1> QED BY <1>5, <1>6

LEMMA TowardsMirrored ==
  ASSUME NEW x \in Int, NEW side \in {"long", "short"}, NEW o, o = OtherSide(side)
  PROVE  Towards(o, -x) = Towards(side, x)
<1>1. -(-x) = x OBVIOUS
<1> QED BY <1>1 DEF Towards, OtherSide

LEMMA ContributionsMirrored ==
  ASSUME NEW cfg, IsConfiguration(cfg), NEW m, m = MirrorSettings(cfg),
         NEW s \in MarketSignal, s.trend # 0, NEW t, t = MirrorSignal(s)
  PROVE  Contributions(m, t) = Contributions(cfg, s)
<1>1. PICK side, o : side = Side(s) /\ o = Side(t) OBVIOUS
<1>2. side \in {"long", "short"} /\ o = OtherSide(side) BY <1>1, SidesMirrored
<1>3. /\ t.slope = -s.slope /\ s.slope \in Int /\ t.emaFast = 2 * Price - s.emaFast
      /\ t.emaSlow = 2 * Price - s.emaSlow /\ s.emaFast \in Int /\ s.emaSlow \in Int
      /\ t.rsi = 100 - s.rsi /\ s.rsi \in Int /\ t.percentB = 100 - s.percentB /\ s.percentB \in Int
      /\ t.bandwidth = s.bandwidth /\ t.volume = s.volume /\ t.line = -s.line /\ t.signal = -s.signal
      /\ s.line \in Int /\ s.signal \in Int /\ t.trend = -s.trend /\ s.trend \in Int
  BY SignalMirrored DEF MarketSignal
<1>4. /\ DirectionalPoints(t.regime, o) = DirectionalPoints(s.regime, side)
      /\ DirectionalPoints(t.bybit, o) = DirectionalPoints(s.bybit, side)
  BY <1>2, SidesMirrored DEF DirectionalPoints
<1>5. ConsensusPoint(m, t) = ConsensusPoint(cfg, s)
  <2>1. /\ ConsensusLong(m, t) <=> ConsensusShort(cfg, s)
        /\ ConsensusShort(m, t) <=> ConsensusLong(cfg, s)
    BY ConditionsMirrored
  <2> QED BY <1>1, <1>2, <2>1 DEF ConsensusPoint, OtherSide
<1>6. PICK bias, turned : /\ bias = IF side = "long" THEN 1 ELSE -1
                          /\ turned = IF o = "long" THEN 1 ELSE -1
  OBVIOUS
<1>7. /\ t.slope * turned = s.slope * bias
      /\ Histogram(t) * turned = Histogram(s) * bias
  <2>1. Histogram(t) = -Histogram(s) /\ Histogram(s) \in Int BY SidesMirrored
  <2>2. CASE side = "long" BY <2>1, <2>2, <1>2, <1>3, <1>6 DEF OtherSide
  <2>3. CASE side = "short" BY <2>1, <2>3, <1>2, <1>3, <1>6 DEF OtherSide
  <2> QED BY <2>2, <2>3, <1>2
<1>8. /\ Towards(o, t.emaFast - t.emaSlow) = Towards(side, s.emaFast - s.emaSlow)
      /\ Towards(o, t.line - t.signal) = Towards(side, s.line - s.signal)
  <2>1. /\ t.emaFast - t.emaSlow = -(s.emaFast - s.emaSlow) /\ s.emaFast - s.emaSlow \in Int
        /\ t.line - t.signal = -(s.line - s.signal) /\ s.line - s.signal \in Int
    BY <1>3 DEF Price
  <2> QED BY <2>1, <1>2, TowardsMirrored
<1>9. /\ RsiQuality(o, t.rsi) = RsiQuality(side, s.rsi)
      /\ BollingerQuality(o, t.percentB) = BollingerQuality(side, s.percentB)
      /\ MacdQuality(o, t) = MacdQuality(side, s)
  BY <1>2, <1>3, QualitiesMirrored, MacdMirrored
<1>10. MinVolumeRatio(m, o) = MinVolumeRatio(cfg, side) BY <1>2, SidedSettings
<1>11. TrendFloor(m, t) = TrendFloor(cfg, s) BY PenaltyMirrored
<1>12. Abs(t.trend) = Abs(s.trend) BY <1>3, AbsoluteAlike
<1> QED BY <1>1, <1>3, <1>4, <1>5, <1>6, <1>7, <1>8, <1>9, <1>10, <1>11, <1>12 DEF Contributions

\* The checks a refusal is explained with are the same, one by one.
LEMMA SameCheck ==
  ASSUME NEW name, NEW a \in BOOLEAN, NEW b \in BOOLEAN, a <=> b
  PROVE  Check(name, a) = Check(name, b)
<1>1. a = b OBVIOUS
<1> QED BY <1>1

LEMMA ChecksMirrored ==
  ASSUME NEW cfg, IsConfiguration(cfg), NEW m, m = MirrorSettings(cfg),
         NEW s \in MarketSignal, s.trend # 0, NEW t, t = MirrorSignal(s)
  PROVE  /\ LiquidityChecks(m, t) = LiquidityChecks(cfg, s)
         /\ StrengthChecks(m, t) = StrengthChecks(cfg, s)
         /\ LongChecks(m, t) = ShortChecks(cfg, s)
         /\ ShortChecks(m, t) = LongChecks(cfg, s)
<1>1. PICK side, o : side = Side(s) /\ o = Side(t) OBVIOUS
<1>2. side \in {"long", "short"} /\ o = OtherSide(side) BY <1>1, SidesMirrored
<1>3. /\ t.trend = -s.trend /\ t.slope = -s.slope /\ t.line = -s.line /\ t.signal = -s.signal
      /\ t.emaFast = 2 * Price - s.emaFast /\ t.emaSlow = 2 * Price - s.emaSlow
      /\ t.percentB = 100 - s.percentB /\ t.bandwidth = s.bandwidth
      /\ t.spread = s.spread /\ t.volume24h = s.volume24h /\ t.atr = s.atr /\ t.volume = s.volume
      /\ s.trend \in Int /\ s.slope \in Int /\ s.emaFast \in Int /\ s.emaSlow \in Int
      /\ s.line \in Int /\ s.signal \in Int /\ s.percentB \in Int
      /\ s.regime \in SomeRegime /\ s.bybit \in SomeRegime
      /\ t.regime = Opposite(s.regime) /\ t.bybit = Opposite(s.bybit)
  BY SignalMirrored DEF MarketSignal
<1>4. Histogram(t) = -Histogram(s) /\ Histogram(s) \in Int BY SidesMirrored
<1>5. LiquidityChecks(m, t) = LiquidityChecks(cfg, s)
  <2>1. Allow(m, o) = Allow(cfg, side) BY <1>2, SidedSettings
  <2>2. /\ MaxSpread(m) = MaxSpread(cfg) /\ MaxAtr(m) = MaxAtr(cfg) /\ MinVolume24h(m) = MinVolume24h(cfg)
    BY UnsidedSettings
  <2> QED BY <1>1, <1>3, <2>1, <2>2 DEF LiquidityChecks
<1>6. StrengthChecks(m, t) = StrengthChecks(cfg, s)
  <2>1. MinVolumeRatio(m, o) = MinVolumeRatio(cfg, side) BY <1>2, SidedSettings
  <2>2. TrendFloor(m, t) = TrendFloor(cfg, s) BY PenaltyMirrored
  <2>3. Abs(t.trend) = Abs(s.trend) BY <1>3, AbsoluteAlike
  <2> QED BY <1>1, <1>3, <2>1, <2>2, <2>3 DEF StrengthChecks
<1>7. Check("rsi", RsiInBounds(m, t)) = Check("rsi", RsiInBounds(cfg, s))
  <2>1. RsiInBounds(m, t) <=> RsiInBounds(cfg, s) BY ConditionsMirrored
  <2>2. RsiInBounds(m, t) \in BOOLEAN /\ RsiInBounds(cfg, s) \in BOOLEAN BY DEF RsiInBounds
  <2> QED BY <2>1, <2>2, SameCheck
<1>8. /\ Check("consensus", ConsensusLong(m, t)) = Check("consensus", ConsensusShort(cfg, s))
      /\ Check("consensus", ConsensusShort(m, t)) = Check("consensus", ConsensusLong(cfg, s))
  <2>1. /\ ConsensusLong(m, t) <=> ConsensusShort(cfg, s)
        /\ ConsensusShort(m, t) <=> ConsensusLong(cfg, s)
    BY ConditionsMirrored
  <2>2. /\ ConsensusLong(m, t) \in BOOLEAN /\ ConsensusShort(m, t) \in BOOLEAN
        /\ ConsensusLong(cfg, s) \in BOOLEAN /\ ConsensusShort(cfg, s) \in BOOLEAN
    BY DEF ConsensusLong, ConsensusShort
  <2> QED BY <2>1, <2>2, SameCheck
<1>9. /\ (t.regime = "bullish") = (s.regime = "bearish")
      /\ (t.regime = "bearish") = (s.regime = "bullish")
      /\ (t.bybit = "bullish") = (s.bybit = "bearish")
      /\ (t.bybit = "bearish") = (s.bybit = "bullish")
  BY <1>3 DEF Opposite, SomeRegime
<1>10. /\ (t.slope > 0) = (s.slope < 0)
       /\ (t.slope < 0) = (s.slope > 0)
       /\ (t.emaFast > t.emaSlow) = (s.emaFast < s.emaSlow)
       /\ (t.emaFast < t.emaSlow) = (s.emaFast > s.emaSlow)
       /\ (Price >= t.emaFast) = (Price <= s.emaFast)
       /\ (Price <= t.emaFast) = (Price >= s.emaFast)
  BY <1>3 DEF Price
<1>11. /\ (t.percentB <= 108 \/ t.bandwidth >= 120) = (s.percentB >= -8 \/ s.bandwidth >= 120)
       /\ (t.percentB >= -8 \/ t.bandwidth >= 120) = (s.percentB <= 108 \/ s.bandwidth >= 120)
  BY <1>3
<1>12. /\ (t.line > t.signal) = (s.line < s.signal)
       /\ (t.line < t.signal) = (s.line > s.signal)
       /\ (Histogram(t) > 0) = (Histogram(s) < 0)
       /\ (Histogram(t) < 0) = (Histogram(s) > 0)
  BY <1>3, <1>4
<1>13. LongChecks(m, t) = ShortChecks(cfg, s)
  BY <1>7, <1>8, <1>9, <1>10, <1>11, <1>12 DEF LongChecks, ShortChecks
<1>14. ShortChecks(m, t) = LongChecks(cfg, s)
  BY <1>7, <1>8, <1>9, <1>10, <1>11, <1>12 DEF LongChecks, ShortChecks
<1> QED BY <1>5, <1>6, <1>13, <1>14

LEMMA EntryMirrored ==
  ASSUME NEW cfg, IsConfiguration(cfg), NEW m, m = MirrorSettings(cfg),
         NEW s \in MarketSignal, s.trend # 0, NEW t, t = MirrorSignal(s),
         NEW e, e = Entry(cfg, s), NEW f, f = Entry(m, t)
  PROVE  /\ f.passed = e.passed /\ e.passed \in BOOLEAN
         /\ f.score = e.score /\ f.reason = e.reason
         /\ e.passed => e.side \in {"long", "short"} /\ f.side = OtherSide(e.side)
<1>1. BtcPenalty(m, t, Side(t)) = BtcPenalty(cfg, s, Side(s)) BY PenaltyMirrored
<1>2. EntryOk(m, t) <=> EntryOk(cfg, s) BY EntryOkMirrored
<1>3. EntryOk(m, t) \in BOOLEAN /\ EntryOk(cfg, s) \in BOOLEAN BY DEF EntryOk
<1>4. EntryScore(m, t) = EntryScore(cfg, s) BY ContributionsMirrored DEF EntryScore
<1>5. PICK k, l : /\ k = LiquidityChecks(cfg, s) \o (IF Side(s) = "long" THEN LongChecks(cfg, s)
                                                                        ELSE ShortChecks(cfg, s))
                                                 \o StrengthChecks(cfg, s)
                  /\ l = LiquidityChecks(m, t) \o (IF Side(t) = "long" THEN LongChecks(m, t)
                                                                     ELSE ShortChecks(m, t))
                                               \o StrengthChecks(m, t)
  OBVIOUS
<1>6. k = l
  <2>1. Side(s) \in {"long", "short"} /\ Side(t) = OtherSide(Side(s)) BY SidesMirrored
  <2>2. (IF Side(t) = "long" THEN LongChecks(m, t) ELSE ShortChecks(m, t))
          = (IF Side(s) = "long" THEN LongChecks(cfg, s) ELSE ShortChecks(cfg, s))
    BY <2>1, ChecksMirrored DEF OtherSide
  <2>3. LiquidityChecks(m, t) = LiquidityChecks(cfg, s) /\ StrengthChecks(m, t) = StrengthChecks(cfg, s)
    BY ChecksMirrored
  <2> QED BY <1>5, <2>2, <2>3
<1>7. CASE BtcPenalty(cfg, s, Side(s)) = {}
  BY <1>1, <1>7 DEF Entry
<1>8. CASE BtcPenalty(cfg, s, Side(s)) # {}
  <2>1. /\ e.passed = EntryOk(cfg, s) /\ e.side = Side(s) /\ e.score = EntryScore(cfg, s)
        /\ e.reason = IF EntryOk(cfg, s) THEN "entry_validated" ELSE FirstFailing(k)
    BY <1>5, <1>8 DEF Entry
  <2>2. /\ f.passed = EntryOk(m, t) /\ f.side = Side(t) /\ f.score = EntryScore(m, t)
        /\ f.reason = IF EntryOk(m, t) THEN "entry_validated" ELSE FirstFailing(l)
    BY <1>1, <1>5, <1>8 DEF Entry
  <2>3. f.passed = e.passed /\ e.passed \in BOOLEAN BY <1>2, <1>3, <2>1, <2>2
  <2>4. f.score = e.score /\ f.reason = e.reason BY <1>2, <1>4, <1>6, <2>1, <2>2
  <2>5. e.side \in {"long", "short"} /\ f.side = OtherSide(e.side) BY <2>1, <2>2, SidesMirrored
  <2> QED BY <2>3, <2>4, <2>5
<1> QED BY <1>7, <1>8

\* What does not depend on the side at all.
LEMMA SizesMirrored ==
  ASSUME NEW cfg, IsConfiguration(cfg), NEW m, m = MirrorSettings(cfg),
         NEW s \in MarketSignal, s.trend # 0, NEW t, t = MirrorSignal(s), NEW equity
  PROVE  /\ FundingOk(m, t) <=> FundingOk(cfg, s)
         /\ FundingScore(m, t) = FundingScore(cfg, s)
         /\ Desired(m, t, equity) = Desired(cfg, s, equity)
         /\ ProposalScore(m, t, equity) = ProposalScore(cfg, s, equity)
         /\ SizeOk(m, t, equity) <=> SizeOk(cfg, s, equity)
         /\ SizeScore(m, t, equity) = SizeScore(cfg, s, equity)
         /\ LossGatesOk(m) <=> LossGatesOk(cfg)
<1>1. t.funding = -s.funding /\ s.funding \in Int /\ t.atr = s.atr /\ t.lastBit = s.lastBit
  BY SignalMirrored DEF MarketSignal
<1>2. Abs(t.funding) = Abs(s.funding) BY <1>1, AbsoluteAlike
<1>3. MaxFundingRate(m) = MaxFundingRate(cfg) /\ AtrMultiplier(m) = AtrMultiplier(cfg)
      /\ MinPosition(m) = MinPosition(cfg) /\ RiskPerTrade(m) = RiskPerTrade(cfg)
      /\ StopLossPct(m) = StopLossPct(cfg)
      /\ MaxDailyLoss(m) = MaxDailyLoss(cfg) /\ MaxConsecutiveLosses(m) = MaxConsecutiveLosses(cfg)
  BY UnsidedSettings
<1>4. PositionCap(m, equity) = PositionCap(cfg, equity) BY CapMirrored
<1>5. FundingOk(m, t) <=> FundingOk(cfg, s) BY <1>2, <1>3 DEF FundingOk
<1>6. FundingScore(m, t) = FundingScore(cfg, s) BY <1>2, <1>3 DEF FundingScore
<1>7. VolatilityDiscount(m, t) = VolatilityDiscount(cfg, s) BY <1>1, <1>3 DEF VolatilityDiscount
<1>8. Desired(m, t, equity) = Desired(cfg, s, equity) BY <1>3, <1>4, <1>7 DEF Desired
<1>9. ProposalScore(m, t, equity) = ProposalScore(cfg, s, equity)
  BY <1>4, <1>7, <1>8 DEF ProposalScore
<1>10. SizeOk(m, t, equity) <=> SizeOk(cfg, s, equity) BY <1>1, <1>3, <1>4, <1>8 DEF SizeOk
<1>11. SizeScore(m, t, equity) = SizeScore(cfg, s, equity) BY <1>3, <1>4, <1>8 DEF SizeScore
<1>12. LossGatesOk(m) <=> LossGatesOk(cfg) BY <1>3 DEF LossGatesOk
<1> QED BY <1>5, <1>6, <1>8, <1>9, <1>10, <1>11, <1>12

LEMMA DecisionMirrored ==
  ASSUME NEW cfg, IsConfiguration(cfg), NEW m, m = MirrorSettings(cfg),
         NEW s \in MarketSignal, s.trend # 0, NEW t, t = MirrorSignal(s), NEW equity, NEW trail,
         NEW here, here = Decision(cfg, s, equity, trail),
         NEW there, there = Decision(m, t, equity, trail)
  PROVE  /\ there.action = (CASE here.action = "ENTER_LONG" -> "ENTER_SHORT"
                              [] here.action = "ENTER_SHORT" -> "ENTER_LONG" [] OTHER -> "HOLD")
         /\ there.size = here.size /\ there.score = here.score /\ there.reason = here.reason
         /\ there.stop = (IF here.action = "HOLD" THEN 0 ELSE 20000 * Price - here.stop)
         /\ there.target = (IF here.action = "HOLD" THEN 0 ELSE 20000 * Price - here.target)
<1>1. PICK e, f : e = Entry(cfg, s) /\ f = Entry(m, t) OBVIOUS
<1>2. /\ f.passed = e.passed /\ e.passed \in BOOLEAN
      /\ f.score = e.score /\ f.reason = e.reason
      /\ e.passed => e.side \in {"long", "short"} /\ f.side = OtherSide(e.side)
  BY <1>1, EntryMirrored
<1>3. PICK g, h : /\ g = (/\ LossGatesOk(cfg) /\ e.passed /\ FundingOk(cfg, s)
                          /\ SizeOk(cfg, s, equity) /\ Desired(cfg, s, equity) > 0)
                  /\ h = (/\ LossGatesOk(m) /\ f.passed /\ FundingOk(m, t)
                          /\ SizeOk(m, t, equity) /\ Desired(m, t, equity) > 0)
  OBVIOUS
<1>4. (g <=> h) /\ (g => e.passed)
  BY <1>2, <1>3, SizesMirrored
<1>5. DecisionScore(m, t, equity, trail) = DecisionScore(cfg, s, equity, trail)
  <2>1. /\ FundingScore(m, t) = FundingScore(cfg, s)
        /\ ProposalScore(m, t, equity) = ProposalScore(cfg, s, equity)
        /\ SizeScore(m, t, equity) = SizeScore(cfg, s, equity)
    BY SizesMirrored
  <2> QED BY <1>1, <1>2, <2>1 DEF DecisionScore
<1>6. Desired(m, t, equity) = Desired(cfg, s, equity) BY SizesMirrored
<1>7. PICK loss, gain : loss = StopLossPct(cfg) /\ gain = TakeProfitPct(cfg) OBVIOUS
<1>8. loss \in Int /\ gain \in Int /\ StopLossPct(m) = loss /\ TakeProfitPct(m) = gain
  BY <1>7, UnsidedSettings, NumbersAndFlags
<1>9. /\ here.action = (IF ~g THEN "HOLD" ELSE IF e.side = "long" THEN "ENTER_LONG" ELSE "ENTER_SHORT")
      /\ here.size = (IF g THEN Desired(cfg, s, equity) ELSE 0)
      /\ here.stop = (IF ~g THEN 0
                      ELSE IF e.side = "long" THEN Price * (10000 + (-loss)) ELSE Price * (10000 + loss))
      /\ here.target = (IF ~g THEN 0
                        ELSE IF e.side = "long" THEN Price * (10000 + gain) ELSE Price * (10000 + (-gain)))
      /\ here.score = DecisionScore(cfg, s, equity, trail) /\ here.reason = e.reason
  BY <1>1, <1>3, <1>7 DEF Decision
<1>10. /\ there.action = (IF ~h THEN "HOLD" ELSE IF f.side = "long" THEN "ENTER_LONG" ELSE "ENTER_SHORT")
       /\ there.size = (IF h THEN Desired(m, t, equity) ELSE 0)
       /\ there.stop = (IF ~h THEN 0
                        ELSE IF f.side = "long" THEN Price * (10000 + (-loss)) ELSE Price * (10000 + loss))
       /\ there.target = (IF ~h THEN 0
                          ELSE IF f.side = "long" THEN Price * (10000 + gain) ELSE Price * (10000 + (-gain)))
       /\ there.score = DecisionScore(m, t, equity, trail) /\ there.reason = f.reason
  BY <1>1, <1>3, <1>8 DEF Decision
<1>11. there.size = here.size /\ there.score = here.score /\ there.reason = here.reason
  BY <1>2, <1>4, <1>5, <1>6, <1>9, <1>10
<1>12. CASE ~g BY <1>4, <1>9, <1>10, <1>11, <1>12
<1>13. CASE g /\ e.side = "long"
  <2>1. h /\ f.side = "short" BY <1>2, <1>4, <1>13 DEF OtherSide
  <2>2. here.action = "ENTER_LONG" /\ there.action = "ENTER_SHORT" BY <1>9, <1>10, <1>13, <2>1
  <2>3. here.stop = Price * (10000 + (-loss)) /\ there.stop = Price * (10000 + loss)
    BY <1>9, <1>10, <1>13, <2>1
  <2>4. here.target = Price * (10000 + gain) /\ there.target = Price * (10000 + (-gain))
    BY <1>9, <1>10, <1>13, <2>1
  <2>5. there.stop = 20000 * Price - here.stop /\ there.target = 20000 * Price - here.target
    BY <2>3, <2>4, <1>8 DEF Price
  <2> QED BY <2>2, <2>5, <1>11
<1>14. CASE g /\ e.side = "short"
  <2>1. h /\ f.side = "long" BY <1>2, <1>4, <1>14 DEF OtherSide
  <2>2. here.action = "ENTER_SHORT" /\ there.action = "ENTER_LONG" BY <1>9, <1>10, <1>14, <2>1
  <2>3. here.stop = Price * (10000 + loss) /\ there.stop = Price * (10000 + (-loss))
    BY <1>9, <1>10, <1>14, <2>1
  <2>4. here.target = Price * (10000 + (-gain)) /\ there.target = Price * (10000 + gain)
    BY <1>9, <1>10, <1>14, <2>1
  <2>5. there.stop = 20000 * Price - here.stop /\ there.target = 20000 * Price - here.target
    BY <2>3, <2>4, <1>8 DEF Price
  <2> QED BY <2>2, <2>5, <1>11
<1> QED BY <1>2, <1>4, <1>12, <1>13, <1>14

\* A short is decided as the long of the mirrored market under the settings
\* turned around, whatever the signal and the settings are
\* (execute_strategy_step, validate_entry).
THEOREM RulesMirror == RulesSpec => []ShortMirrorsLong
<1> DEFINE Inv == /\ config \in Configurations
                  /\ \A d \in judged : d.cfg \in Configurations /\ d.s \in Signals
<1>1. RulesInit => Inv BY DEF RulesInit
<1>2. Inv /\ [Judge]_rulesVars => Inv' BY DEF Judge, rulesVars
<1>3. Inv => ShortMirrorsLong
  <2> SUFFICES ASSUME Inv, NEW d \in judged, d.s.trend # 0
               PROVE  Decision(MirrorSettings(d.cfg), MirrorSignal(d.s), d.equity, d.trail)
                        = Turned(Decision(d.cfg, d.s, d.equity, d.trail))
    BY DEF ShortMirrorsLong
  <2>1. PICK cfg, s : cfg = d.cfg /\ s = d.s OBVIOUS
  <2>2. s \in MarketSignal /\ IsConfiguration(cfg) /\ s.trend # 0 BY <2>1, RulesAssumption
  <2>3. PICK here, there :
          /\ here = Decision(d.cfg, d.s, d.equity, d.trail)
          /\ there = Decision(MirrorSettings(d.cfg), MirrorSignal(d.s), d.equity, d.trail)
    OBVIOUS
  <2>4. /\ there.action = (CASE here.action = "ENTER_LONG" -> "ENTER_SHORT"
                             [] here.action = "ENTER_SHORT" -> "ENTER_LONG" [] OTHER -> "HOLD")
        /\ there.size = here.size /\ there.score = here.score /\ there.reason = here.reason
        /\ there.stop = (IF here.action = "HOLD" THEN 0 ELSE 20000 * Price - here.stop)
        /\ there.target = (IF here.action = "HOLD" THEN 0 ELSE 20000 * Price - here.target)
    BY <2>1, <2>2, <2>3, DecisionMirrored
  <2>5. there = [action |-> there.action, size |-> there.size, stop |-> there.stop,
                 target |-> there.target, score |-> there.score, reason |-> there.reason]
    BY <2>3 DEF Decision
  <2>6. there = Turned(here) BY <2>4, <2>5 DEF Turned
  <2> QED BY <2>3, <2>6
<1> QED BY <1>1, <1>2, <1>3, PTL DEF RulesSpec

(***************************************************************************)
(* The thesis.  A strict entry of a long is a signal of good health for it.*)
(***************************************************************************)
LEMMA RoundedFacts ==
  ASSUME NEW num \in Int, NEW low \in Int, 100 * low <= num
  PROVE  Rounded(num, 100) \in Int /\ Rounded(num, 100) >= low
<1>1. PICK r : r = Rounded(num, 100) OBVIOUS
<1>2. CASE num >= 0
  <2>1. r = (2 * num + 100) \div 200 BY <1>1, <1>2 DEF Rounded
  <2>2. r \in Int /\ 200 * r <= 2 * num + 100 /\ 2 * num + 100 < 200 * r + 200 BY <2>1
  <2> QED BY <1>1, <2>2
<1>3. CASE num < 0
  <2>1. r = -((100 - 2 * num) \div 200) BY <1>1, <1>3 DEF Rounded
  <2>2. PICK q : q = (100 - 2 * num) \div 200 OBVIOUS
  <2>3. q \in Int /\ 200 * q <= 100 - 2 * num /\ 100 - 2 * num < 200 * q + 200 BY <2>2
  <2>4. r = -q BY <2>1, <2>2
  <2> QED BY <1>1, <2>3, <2>4
<1> QED BY <1>2, <1>3

LEMMA StrictEntry ==
  ASSUME NEW cfg, NEW s, NEW equity, NEW trail,
         Decision(cfg, s, equity, trail).action = "ENTER_LONG", ~Permissive(cfg)
  PROVE  StrictLong(cfg, s) /\ s.trend >= 0
<1>1. PICK e : e = Entry(cfg, s) OBVIOUS
<1>2. e.passed /\ e.side = "long"
  BY <1>1 DEF Decision
<1>3. BtcPenalty(cfg, s, Side(s)) # {} /\ EntryOk(cfg, s) /\ Side(s) = "long"
  BY <1>1, <1>2 DEF Entry
<1>4. s.trend >= 0 BY <1>3 DEF Side
<1>5. DirectionOk(cfg, s) BY <1>3 DEF EntryOk
<1>6. StrictLong(cfg, s) BY <1>3, <1>5 DEF DirectionOk
<1> QED BY <1>4, <1>6

LEMMA HealthyLong ==
  ASSUME NEW s \in MarketSignal, NEW cfg, StrictLong(cfg, s), s.trend >= 0
  PROVE  Health(s, "long") \in Int /\ Health(s, "long") >= 40
<1>0. s.regime = "bullish" /\ s.bybit = "bullish" /\ Histogram(s) > 0 /\ Histogram(s) \in Int
      /\ s.emaFast > s.emaSlow /\ Price >= s.emaFast
      /\ s.trend \in Int /\ s.btcTrend \in Int /\ s.percentB \in Int
      /\ s.emaFast \in Int /\ s.emaSlow \in Int
  BY DEF StrictLong, MarketSignal, Histogram
<1>1. PICK c : c = Components(s, "long") OBVIOUS
<1>2. c.consensus_side = 30 /\ c.bybit_regime = 20
  BY <1>0, <1>1 DEF Components, DirectionalPoints, Favour
<1>3. c.btc_regime \in {-10, 0, 10}
  BY <1>1 DEF Components, DirectionalPoints
<1>4. c.consensus_trend_score \in Int /\ c.consensus_trend_score >= 0
  <2>1. PICK n : n = Between(-100 * 20, s.trend * 1 * 50, 100 * 20) OBVIOUS
  <2>2. n \in Int /\ n >= 100 * 0 BY <2>1, <1>0 DEF Between
  <2>3. c.consensus_trend_score = Rounded(n, 100) BY <2>1, <1>1 DEF Components
  <2> QED BY <2>2, <2>3, RoundedFacts
<1>5. c.bybit_trend_score \in Int /\ c.bybit_trend_score >= 0
  <2>1. PICK n : n = Between(-100 * 10, s.trend * 1 * 30, 100 * 10) OBVIOUS
  <2>2. n \in Int /\ n >= 100 * 0 BY <2>1, <1>0 DEF Between
  <2>3. c.bybit_trend_score = Rounded(n, 100) BY <2>1, <1>1 DEF Components
  <2> QED BY <2>2, <2>3, RoundedFacts
<1>6. c.btc_trend_score \in Int /\ c.btc_trend_score >= -10
  <2>1. PICK n : n = Between(-100 * 10, s.btcTrend * 1 * 25, 100 * 10) OBVIOUS
  <2>2. n \in Int /\ n >= 100 * (-10) BY <2>1, <1>0 DEF Between
  <2>3. c.btc_trend_score = IF s.isBtc THEN 0 ELSE Rounded(n, 100) BY <2>1, <1>1 DEF Components
  <2> QED BY <2>2, <2>3, RoundedFacts
<1>7. c.consensus_macd_histogram = 5
  <2>1. Histogram(s) * 1 > 0 BY <1>0
  <2> QED BY <2>1, <1>1 DEF Components, Sign
<1>8. c.bollinger_position \in Int /\ c.bollinger_position >= -5
  <2>1. PICK b : b = BollingerPosition("long", s.percentB) OBVIOUS
  <2>2. b \in {2, 0, -1, -2} BY <2>1, <1>0 DEF BollingerPosition
  <2>3. c.bollinger_position = Rounded(Between(-2, b, 2) * 5, 2) BY <2>1, <1>1 DEF Components, Contribution
  <2>4. Between(-2, b, 2) = b BY <2>2 DEF Between
  <2>5. Rounded(10, 2) = 5 /\ Rounded(0, 2) = 0 /\ Rounded(-5, 2) = -3 /\ Rounded(-10, 2) = -5
    BY DEF Rounded
  <2>6. b * 5 \in {10, 0, -5, -10} BY <2>2
  <2> QED BY <2>3, <2>4, <2>5, <2>6
<1>9. c.ema_alignment = 5
  <2>1. s.emaFast - s.emaSlow > 0 BY <1>0
  <2> QED BY <2>1, <1>1 DEF Components, Towards, Sign
<1>10. c.price_vs_fast_ema = 5 BY <1>0, <1>1 DEF Components
<1>11. PICK n : n = c.consensus_side + c.bybit_regime + c.btc_regime + c.consensus_trend_score
                     + c.bybit_trend_score + c.btc_trend_score + c.consensus_macd_histogram
                     + c.bollinger_position + c.ema_alignment + c.price_vs_fast_ema
  OBVIOUS
<1>12. n \in Int /\ n >= 40
  BY <1>2, <1>3, <1>4, <1>5, <1>6, <1>7, <1>8, <1>9, <1>10, <1>11
<1>13. Health(s, "long") = Between(-100, n, 100) BY <1>1, <1>11 DEF Health
<1> QED BY <1>12, <1>13 DEF Between

\* The scores a long is left at are scores of bad health.
LowThresholds(cfg) ==
  /\ Threshold(cfg, "invalidate", "long", -60) < 40
  /\ Threshold(cfg, "invalidate_confirmed", "long", -50) < 40
  /\ Threshold(cfg, "degrading_hard", "long", -35) < 40
  /\ Threshold(cfg, "degrading_soft", "long", -20) < 40

LEMMA NumberOrDefault ==
  ASSUME NEW cfg, IsConfiguration(cfg), NEW key, NEW side, key \notin Flags, key # "opposite_side_exit",
         NEW default \in Int
  PROVE  FromModeOrGlobal(cfg, key, side, default) \in Int
<1>1. PICK places : places = <<At("mode", key, side), At("global", key, side)>> OBVIOUS
<1>2. DOMAIN places \subseteq Nat BY <1>1
<1>3. \A i \in DOMAIN places : places[i] \in DOMAIN cfg => cfg[places[i]] \in Int
  <2> SUFFICES ASSUME NEW i \in DOMAIN places, places[i] \in DOMAIN cfg PROVE cfg[places[i]] \in Int OBVIOUS
  <2>1. places[i][2] = key BY <1>1 DEF At
  <2> QED BY <2>1 DEF IsConfiguration, ValuesOf
<1>4. FirstOf(cfg, places, default) \in Int \cup {default} BY <1>2, <1>3, FirstOfValue
<1> QED BY <1>1, <1>4 DEF FromModeOrGlobal

\* A signal that enters a long by the strict rules is no reason to leave it, if
\* the thresholds of every configuration are scores below the 40 of the poorest
\* signal there is (evaluate_thesis_invalidation; the defaults are all negative).
THEOREM LongOutlives ==
  ASSUME \A cfg \in Configurations : LowThresholds(cfg)
  PROVE  RulesSpec => []LongOutlivesItsEntry
<1> DEFINE Inv == /\ config \in Configurations
                  /\ \A d \in judged : d.cfg \in Configurations /\ d.s \in Signals
<1>1. RulesInit => Inv BY DEF RulesInit
<1>2. Inv /\ [Judge]_rulesVars => Inv' BY DEF Judge, rulesVars
<1>3. Inv => LongOutlivesItsEntry
  <2> SUFFICES ASSUME Inv, NEW d \in judged,
                      Decision(d.cfg, d.s, d.equity, d.trail).action = "ENTER_LONG", ~Permissive(d.cfg)
               PROVE  ThesisStage(d.cfg, d.s, "long", 0) = "valid"
    BY DEF LongOutlivesItsEntry, OutlivesItsEntry
  <2>1. PICK cfg, s : cfg = d.cfg /\ s = d.s OBVIOUS
  <2>2. s \in MarketSignal /\ IsConfiguration(cfg) /\ LowThresholds(cfg)
    BY <2>1, RulesAssumption
  <2>3. StrictLong(cfg, s) /\ s.trend >= 0 BY <2>1, StrictEntry
  <2>4. Health(s, "long") \in Int /\ Health(s, "long") >= 40 BY <2>2, <2>3, HealthyLong
  <2>5. s.regime = "bullish" /\ s.bybit = "bullish" BY <2>3 DEF StrictLong
  <2>6. ~Flipped(cfg, s, "long") /\ ~Unaligned(s, "long")
    BY <2>5 DEF Flipped, Unaligned, Against, Favour
  <2>7. \A key \in {"invalidate", "invalidate_confirmed", "degrading_hard",
                    "degrading_soft"}, default \in Int :
          Threshold(cfg, key, "long", default) \in Int
    BY <2>2, NumberOrDefault DEF Threshold, Flags
  <2>8. /\ ~(Health(s, "long") <= Threshold(cfg, "invalidate", "long", -60))
        /\ ~(Health(s, "long") <= Threshold(cfg, "invalidate_confirmed", "long", -50))
        /\ ~(Health(s, "long") <= Threshold(cfg, "degrading_hard", "long", -35))
        /\ ~(Health(s, "long") <= Threshold(cfg, "degrading_soft", "long", -20))
    BY <2>2, <2>4, <2>7 DEF LowThresholds
  <2>9. LongStage(cfg, s, 0) = "valid" BY <2>6, <2>8 DEF LongStage
  <2> QED BY <2>1, <2>9 DEF ThesisStage
<1> QED BY <1>1, <1>2, <1>3, PTL DEF RulesSpec

(***************************************************************************)
(* The analyst.  Turned upside down, prices are multiplied by a price, and *)
(* with them both sides of every comparison.                               *)
(***************************************************************************)
LEMMA ScaledAlike ==
  ASSUME NEW a \in Int, NEW b \in Int, NEW k \in Nat \ {0}
  PROVE  /\ k * a \in Int /\ k * b \in Int
         /\ k * a >= k * b <=> a >= b
         /\ k * a > k * b <=> a > b
OBVIOUS

\* Multiplied alike, a quotient passes the same limits.
LEMMA QuotientAlike ==
  ASSUME NEW sum \in Int, NEW n \in Nat \ {0}, NEW k \in Nat \ {0}, NEW x \in Int,
         NEW a, a = [sum |-> sum, n |-> n], NEW b, b = [sum |-> k * sum, n |-> k * n]
  PROVE  /\ AtLeast(b, x) <=> AtLeast(a, x)
         /\ Above(b, x) <=> Above(a, x)
<1>1. x * n \in Int /\ x * (k * n) = k * (x * n) OBVIOUS
<1>2. /\ k * sum >= k * (x * n) <=> sum >= x * n
      /\ k * sum > k * (x * n) <=> sum > x * n
  BY <1>1, ScaledAlike
<1>3. a.sum = sum /\ a.n = n /\ b.sum = k * sum /\ b.n = k * n OBVIOUS
<1> QED BY <1>1, <1>2, <1>3 DEF AtLeast, Above

MarketView == [side : {"bullish", "bearish", "neutral"}, price : Nat \ {0},
               emaFast : Nat \ {0}, percentB : Int, trend : Int]

\* What the mirrored position and signal hold.
LEMMA MirroredFields ==
  ASSUME NEW p, {"side", "entry"} \subseteq DOMAIN p, p.side \in {"long", "short"}, p.entry \in Nat \ {0},
         NEW v \in MarketView, NEW q, q = MirrorPosition(p, v), NEW w, w = MirrorView(p, v)
  PROVE  /\ q.side = OtherSide(p.side) /\ q.entry = v.price * v.emaFast
         /\ q.minutes = p.minutes /\ q.trailing = p.trailing
         /\ w.side = (CASE v.side = "bullish" -> "bearish" [] v.side = "bearish" -> "bullish"
                        [] OTHER -> v.side)
         /\ w.price = p.entry * v.emaFast /\ w.emaFast = p.entry * v.price
         /\ w.percentB = 100 - v.percentB /\ w.trend = -v.trend
<1>1. q.side = OtherSide(p.side) /\ q.entry = v.price * v.emaFast
      /\ q.minutes = p.minutes /\ q.trailing = p.trailing
  BY DEF MirrorPosition
<1>2. w.side = (CASE v.side = "bullish" -> "bearish" [] v.side = "bearish" -> "bullish"
                  [] OTHER -> v.side)
  BY DEF MirrorView, MarketView
<1>3. w.price = p.entry * v.emaFast /\ w.emaFast = p.entry * v.price
  BY DEF MirrorView, MarketView
<1>4. w.percentB = 100 - v.percentB /\ w.trend = -v.trend
  BY DEF MirrorView, MarketView
<1> QED BY <1>1, <1>2, <1>3, <1>4

\* Each flag, and each limit of the profit, is the same for both.
LEMMA FlagsMirrored ==
  ASSUME NEW p, {"side", "entry"} \subseteq DOMAIN p, p.side \in {"long", "short"}, p.entry \in Nat \ {0},
         NEW v \in MarketView, NEW q, q = MirrorPosition(p, v), NEW w, w = MirrorView(p, v)
  PROVE  /\ ConsensusOpposite(q, w) <=> ConsensusOpposite(p, v)
         /\ PriceUnfavourable(q, w) <=> PriceUnfavourable(p, v)
         /\ BandWeak(q, w) <=> BandWeak(p, v)
         /\ TrendAgainst(q, w) <=> TrendAgainst(p, v)
         /\ \A x \in Int : /\ AtLeast(ProfitOf(q, w), x) <=> AtLeast(ProfitOf(p, v), x)
                           /\ Above(ProfitOf(q, w), x) <=> Above(ProfitOf(p, v), x)
         /\ Stalling(q, w) <=> Stalling(p, v)
<1>0. /\ q.side = OtherSide(p.side) /\ q.entry = v.price * v.emaFast
      /\ q.minutes = p.minutes
      /\ w.side = (CASE v.side = "bullish" -> "bearish" [] v.side = "bearish" -> "bullish"
                     [] OTHER -> v.side)
      /\ w.price = p.entry * v.emaFast /\ w.emaFast = p.entry * v.price
      /\ w.percentB = 100 - v.percentB /\ w.trend = -v.trend
  BY MirroredFields
<1>1. PICK e, f, g : e = p.entry /\ f = v.price /\ g = v.emaFast OBVIOUS
<1>2. e \in Nat \ {0} /\ f \in Nat \ {0} /\ g \in Nat \ {0} BY <1>1 DEF MarketView
<1>3. /\ v.side \in {"bullish", "bearish", "neutral"} /\ v.percentB \in Int /\ v.trend \in Int
  BY DEF MarketView
<1>4. /\ q.entry = f * g /\ w.price = e * g /\ w.emaFast = e * f
  BY <1>0, <1>1
<1>5. /\ f * g \in Nat \ {0} /\ e * g \in Nat \ {0} /\ e * f \in Nat \ {0}
      /\ f * g = g * f /\ e * g = g * e
  BY <1>2
<1>6. ConsensusOpposite(q, w) <=> ConsensusOpposite(p, v)
  BY <1>0, <1>3 DEF ConsensusOpposite, OtherSide
<1>7. PriceUnfavourable(q, w) <=> PriceUnfavourable(p, v)
  <2>1. /\ e * g > e * f <=> g > f
        /\ e * f > e * g <=> f > g
    BY <1>2, ScaledAlike
  <2>2. w.price > 0 /\ w.emaFast > 0 /\ v.price > 0 /\ v.emaFast > 0 BY <1>1, <1>2, <1>4, <1>5
  <2>3. CASE p.side = "long"
    <3>1. q.side = "short" BY <2>3, <1>0 DEF OtherSide
    <3>2. w.price > w.emaFast <=> v.price < v.emaFast BY <2>1, <1>1, <1>2, <1>4, <1>5
    <3> QED BY <3>1, <3>2, <2>2, <2>3 DEF PriceUnfavourable
  <2>4. CASE p.side = "short"
    <3>1. q.side = "long" BY <2>4, <1>0 DEF OtherSide
    <3>2. w.price < w.emaFast <=> v.price > v.emaFast BY <2>1, <1>1, <1>2, <1>4, <1>5
    <3> QED BY <3>1, <3>2, <2>2, <2>4 DEF PriceUnfavourable
  <2> QED BY <2>3, <2>4
<1>8. BandWeak(q, w) <=> BandWeak(p, v) BY <1>0, <1>3 DEF BandWeak, OtherSide
<1>9. TrendAgainst(q, w) <=> TrendAgainst(p, v) BY <1>0, <1>3 DEF TrendAgainst, OtherSide
<1>10. ASSUME NEW x \in Int
       PROVE  /\ AtLeast(ProfitOf(q, w), x) <=> AtLeast(ProfitOf(p, v), x)
              /\ Above(ProfitOf(q, w), x) <=> Above(ProfitOf(p, v), x)
  <2>1. ~(v.price <= 0 \/ p.entry <= 0) /\ ~(w.price <= 0 \/ q.entry <= 0)
    BY <1>1, <1>2, <1>4, <1>5
  <2>2. CASE p.side = "long"
    <3>1. q.side = "short" BY <2>2, <1>0 DEF OtherSide
    <3>2. ProfitOf(p, v) = [sum |-> 10000 * (f - e), n |-> e]
      BY <2>1, <2>2, <1>1 DEF ProfitOf
    <3>3. ProfitOf(q, w) = [sum |-> 10000 * (f * g - e * g), n |-> e * g]
      BY <2>1, <3>1, <1>4 DEF ProfitOf
    <3>4. 10000 * (f * g - e * g) = g * (10000 * (f - e)) BY <1>2
    <3>5. ProfitOf(q, w) = [sum |-> g * (10000 * (f - e)), n |-> g * e]
      BY <3>3, <3>4, <1>5
    <3>6. 10000 * (f - e) \in Int BY <1>2
    <3> QED BY <3>2, <3>5, <3>6, <1>2, QuotientAlike
  <2>3. CASE p.side = "short"
    <3>1. q.side = "long" BY <2>3, <1>0 DEF OtherSide
    <3>2. ProfitOf(p, v) = [sum |-> 10000 * (e - f), n |-> f]
      BY <2>1, <2>3, <1>1 DEF ProfitOf
    <3>3. ProfitOf(q, w) = [sum |-> 10000 * (e * g - f * g), n |-> f * g]
      BY <2>1, <3>1, <1>4 DEF ProfitOf
    <3>4. 10000 * (e * g - f * g) = g * (10000 * (e - f)) BY <1>2
    <3>5. ProfitOf(q, w) = [sum |-> g * (10000 * (e - f)), n |-> g * f]
      BY <3>3, <3>4, <1>5
    <3>6. 10000 * (e - f) \in Int BY <1>2
    <3> QED BY <3>2, <3>5, <3>6, <1>2, QuotientAlike
  <2> QED BY <2>2, <2>3
<1>11. Stalling(q, w) <=> Stalling(p, v) BY <1>0, <1>10 DEF Stalling
<1> QED BY <1>6, <1>7, <1>8, <1>9, <1>10, <1>11

LEMMA AdviceMirrored ==
  ASSUME NEW p, {"side", "entry"} \subseteq DOMAIN p, p.side \in {"long", "short"}, p.entry \in Nat \ {0},
         NEW v \in MarketView, NEW q, q = MirrorPosition(p, v), NEW w, w = MirrorView(p, v),
         NEW a, "preferred" \in DOMAIN a, a.preferred \in {"long", "short"}, NEW status,
         NEW b, b = [a EXCEPT !.preferred = OtherSide(@)]
  PROVE  PositionAdvice(p, v, a, status) = PositionAdvice(q, w, b, status)
<1>0. /\ q.side = OtherSide(p.side) /\ q.minutes = p.minutes /\ q.trailing = p.trailing
  BY MirroredFields
<1>1. b.state = a.state /\ b.preferred = OtherSide(a.preferred) OBVIOUS
<1>2. b.preferred = q.side <=> a.preferred = p.side BY <1>0, <1>1 DEF OtherSide
<1>3. PICK o, u, g, t, l, oo, uu, gg, tt, ll :
        /\ o = ConsensusOpposite(p, v) /\ u = PriceUnfavourable(p, v) /\ g = BandWeak(p, v)
        /\ t = TrendAgainst(p, v) /\ l = Stalling(p, v)
        /\ oo = ConsensusOpposite(q, w) /\ uu = PriceUnfavourable(q, w) /\ gg = BandWeak(q, w)
        /\ tt = TrendAgainst(q, w) /\ ll = Stalling(q, w)
  OBVIOUS
<1>4. Points(o, -20) = Points(oo, -20) /\ Points(u, -15) = Points(uu, -15)
      /\ Points(t, -15) = Points(tt, -15) /\ Points(g, -10) = Points(gg, -10)
      /\ Points(l, -10) = Points(ll, -10)
  BY <1>3, FlagsMirrored DEF Points
<1>5. (IF a.preferred = p.side THEN 15 ELSE -15) = (IF b.preferred = q.side THEN 15 ELSE -15)
  BY <1>2
<1>6. (CASE AtLeast(ProfitOf(p, v), 30) -> 15
         [] Above(ProfitOf(p, v), 0) /\ ~AtLeast(ProfitOf(p, v), 30) -> 5
         [] ~Above(ProfitOf(p, v), -50) -> -15
         [] Above(ProfitOf(p, v), -50) /\ ~AtLeast(ProfitOf(p, v), -25) -> -10 [] OTHER -> 0)
      = (CASE AtLeast(ProfitOf(q, w), 30) -> 15
           [] Above(ProfitOf(q, w), 0) /\ ~AtLeast(ProfitOf(q, w), 30) -> 5
           [] ~Above(ProfitOf(q, w), -50) -> -15
           [] Above(ProfitOf(q, w), -50) /\ ~AtLeast(ProfitOf(q, w), -25) -> -10 [] OTHER -> 0)
  <2>1. /\ AtLeast(ProfitOf(q, w), 30) <=> AtLeast(ProfitOf(p, v), 30)
        /\ AtLeast(ProfitOf(q, w), -25) <=> AtLeast(ProfitOf(p, v), -25)
        /\ Above(ProfitOf(q, w), 0) <=> Above(ProfitOf(p, v), 0)
        /\ Above(ProfitOf(q, w), -50) <=> Above(ProfitOf(p, v), -50)
    BY FlagsMirrored
  <2> QED BY <2>1
<1>7. MaintenanceScore(p, v, a, status) = MaintenanceScore(q, w, b, status)
  BY <1>0, <1>1, <1>3, <1>4, <1>5, <1>6 DEF MaintenanceScore
<1>8. RiskFlags(p, v, a, status) = RiskFlags(q, w, b, status)
  <2>1. o = oo /\ u = uu /\ g = gg /\ t = tt /\ l = ll
    <3>1. o = oo BY <1>3, FlagsMirrored DEF ConsensusOpposite
    <3>2. u = uu BY <1>3, FlagsMirrored DEF PriceUnfavourable
    <3>3. g = gg BY <1>3, FlagsMirrored DEF BandWeak
    <3>4. t = tt BY <1>3, FlagsMirrored DEF TrendAgainst
    <3>5. l = ll BY <1>3, FlagsMirrored DEF Stalling
    <3> QED BY <3>1, <3>2, <3>3, <3>4, <3>5
  <2>2. (a.preferred # p.side) = (b.preferred # q.side) BY <1>2
  <2>3. RiskFlags(p, v, a, status)
          = Cardinality({i \in 1 .. 7 : <<status = "fragile", a.preferred # p.side, o, u, g, t, l>>[i]})
    BY <1>3 DEF RiskFlags
  <2>4. RiskFlags(q, w, b, status)
          = Cardinality({i \in 1 .. 7 : <<status = "fragile", b.preferred # q.side, oo, uu, gg, tt, ll>>[i]})
    BY <1>3 DEF RiskFlags
  <2> QED BY <2>1, <2>2, <2>3, <2>4
<1> QED BY <1>0, <1>7, <1>8 DEF PositionAdvice, PositionAction, PositionConfidence

\* A short is judged as the long of the mirrored market, whatever the trades were
\* (build_active_position_advice).
THEOREM AdviceMirrors == AdviceSpec => []PositionAdviceMirrors
<1> DEFINE Inv == \A a \in advised : /\ a.position \in OpenPositions
                                     /\ a.signal \in MarketViews
<1>1. AdviceInit => Inv BY DEF AdviceInit
<1>2. Inv /\ [Advise]_advised => Inv' BY DEF Advise
<1>3. Inv => PositionAdviceMirrors
  <2> SUFFICES ASSUME Inv, NEW x \in advised, x.signal # NoSignal
               PROVE  PositionAdvice(x.position, x.signal, ExecutionAdvice(x.record),
                                     SymbolStatus(x.record, x.position.symbol))
                        = PositionAdvice(MirrorPosition(x.position, x.signal),
                            MirrorView(x.position, x.signal),
                            [ExecutionAdvice(x.record) EXCEPT !.preferred = OtherSide(@)],
                            SymbolStatus(x.record, x.position.symbol))
    BY DEF PositionAdviceMirrors
  <2>1. /\ {"side", "entry"} \subseteq DOMAIN x.position /\ x.position.side \in {"long", "short"}
        /\ x.position.entry \in Nat \ {0} /\ x.signal \in MarketView
    BY AdviceAssumption DEF MarketView
  <2>2. PICK a : a = ExecutionAdvice(x.record) OBVIOUS
  <2>3. "preferred" \in DOMAIN a /\ a.preferred \in {"long", "short"}
    BY <2>2 DEF ExecutionAdvice, DirectionalBias
  <2> QED BY <2>1, <2>2, <2>3, AdviceMirrored
<1> QED BY <1>1, <1>2, <1>3, PTL DEF AdviceSpec
==============================================================================
