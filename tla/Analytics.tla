------------------------------ MODULE Analytics ------------------------------
(***************************************************************************)
(* The sampler behind GET /scores (services/analytics/src/lib.rs): every   *)
(* few seconds it asks each exchange for the candles of a symbol, keeps    *)
(* them in a cache, stores a snapshot of price and predicted direction,    *)
(* and counts how often the direction of the snapshots came true after a   *)
(* horizon. One symbol; the exchanges share the prices but fail apart.     *)
(* A candle is named by its minute; the newest one is still moving.        *)
(***************************************************************************)
EXTENDS Integers, Sequences, SequencesExt, FiniteSets

CONSTANTS Venues,                \* the exchanges, in the order they are asked
          Prices, Depth,         \* closes, and the size of the cache (200)
          Period,                \* of the RSI (14)
          Horizon, Lookback,     \* in minutes
          MaxMinutes, MaxRounds, MaxBroken

ASSUME AnalyticsAssumption ==
  /\ Prices \subseteq Nat /\ Depth \in Nat /\ Depth >= 2 /\ Period \in Nat \ {0}
  /\ Horizon \in Nat \ {0} /\ Lookback \in Nat /\ Horizon < Lookback
  /\ Venues \in Seq(ToSet(Venues))

VARIABLES chart,     \* closes by minute, as the exchanges have them now
          cache,     \* [venue -> candles], CandleCache
          snapshots, \* [venue -> rows of exchange_signal_snapshots, in order]
          scores,    \* score_cache: [venue -> evaluated and hits]
          turn,      \* the venue the round is at; past the last one, the scores
          fetched,   \* history: [venue -> minutes in which its candles arrived]
          rounds, broken

analyticsVars == <<chart, cache, snapshots, scores, turn, fetched, rounds, broken>>

------------------------------------------------------------------------------
(* compute_rsi_wilder and compute_trend: the deltas that seed the averages  *)
(* are smoothed in once more. The sums are kept in whole numbers.           *)

Deltas(candles) ==
  [i \in 1 .. Period |-> candles[Len(candles) - Period + i].close
                         - candles[Len(candles) - Period + i - 1].close]
Smoothed(parts) ==
  LET step[k \in 0 .. Period] ==
        IF k = 0 THEN FoldSeq(+, 0, parts)
        ELSE step[k - 1] * (Period - 1) + parts[k] * Period ^ k
  IN step[Period]

\* The direction the snapshot predicts: the sign of RSI - 50. Without a loss the
\* RSI is 100, so that prices that do not move predict a rise.
TrendSign(candles) ==
  IF Len(candles) < Period + 1 THEN 0
  ELSE LET gain == Smoothed([i \in 1 .. Period |->
                               IF Deltas(candles)[i] > 0 THEN Deltas(candles)[i] ELSE 0])
           loss == Smoothed([i \in 1 .. Period |->
                               IF Deltas(candles)[i] < 0 THEN -Deltas(candles)[i] ELSE 0])
       IN IF loss = 0 \/ gain > loss THEN 1 ELSE IF gain < loss THEN -1 ELSE 0

------------------------------------------------------------------------------
(* merge_candles                                                            *)

Newest(candles, n) ==
  IF Len(candles) > n THEN SubSeq(candles, Len(candles) - n + 1, Len(candles)) ELSE candles

Position(candles, minute) == Cardinality({i \in DOMAIN candles : candles[i].minute < minute}) + 1

\* Mutated: a candle that is already there stays as it was.
KeepKnown(candles, c) ==
  LET i == Position(candles, c.minute)
  IN IF i \in DOMAIN candles /\ candles[i].minute = c.minute THEN candles
     ELSE InsertAt(candles, i, c)

PutCandle(candles, c) ==
  LET i == Position(candles, c.minute)
  IN IF i \in DOMAIN candles /\ candles[i].minute = c.minute THEN [candles EXCEPT ![i] = c]
     ELSE InsertAt(candles, i, c)

Merged(candles, incoming) ==
  LET put[k \in 0 .. Len(incoming)] ==
        IF k = 0 THEN candles ELSE PutCandle(put[k - 1], incoming[k])
  IN Newest(put[Len(incoming)], Depth)

\* What the exchange answers to a request for the last n candles.
Answered(n) == Newest([m \in 1 .. Len(chart) |-> [minute |-> m, close |-> chart[m]]], n)

------------------------------------------------------------------------------
(* compute_scores                                                           *)

Now == Len(chart)
SignOf(x) == IF x > 0 THEN 1 ELSE IF x < 0 THEN -1 ELSE 0

\* A snapshot is compared with the first one that is a horizon younger, however
\* much younger it is.
Forward(rows, i) == {j \in DOMAIN rows : rows[j].minute >= rows[i].minute + Horizon}
FirstForward(rows, i) == CHOOSE j \in Forward(rows, i) : \A k \in Forward(rows, i) : j <= k
Evaluated(rows) ==
  {i \in DOMAIN rows : /\ rows[i].minute <= Now - Horizon /\ rows[i].minute >= Now - Lookback
                       /\ Forward(rows, i) # {} /\ rows[i].trend # 0}
Hits(rows) ==
  {i \in Evaluated(rows) : SignOf(rows[FirstForward(rows, i)].price - rows[i].price) = rows[i].trend}

\* A venue without a pair has no row.
ScoresOf(rows) == [evaluated |-> Cardinality(Evaluated(rows)), hits |-> Cardinality(Hits(rows))]
NoScores == [v \in ToSet(Venues) |-> [evaluated |-> 0, hits |-> 0]]

------------------------------------------------------------------------------
AnalyticsInit ==
  /\ chart \in [1 .. Depth - 1 -> Prices]
  /\ cache = [v \in ToSet(Venues) |-> <<>>]
  /\ snapshots = [v \in ToSet(Venues) |-> <<>>]
  /\ scores = NoScores /\ turn = 1 /\ rounds = 0 /\ broken = 0
  /\ fetched = [v \in ToSet(Venues) |-> {}]

PriceMoves ==
  /\ \E p \in Prices \ {chart[Now]} : chart' = [chart EXCEPT ![Now] = p]
  /\ UNCHANGED <<cache, snapshots, scores, turn, fetched, rounds, broken>>
MinutePasses ==
  /\ Now < MaxMinutes /\ \E p \in Prices : chart' = Append(chart, p)
  /\ UNCHANGED <<cache, snapshots, scores, turn, fetched, rounds, broken>>

Break == broken < MaxBroken /\ broken' = broken + 1

\* A cache that is not full is replaced by a whole answer, a full one takes the
\* last two candles. The cache has changed when the insert fails; a price that
\* is not positive the table refuses.
Store(v) ==
  LET candles == cache'[v]
      row == [minute |-> Now, price |-> Last(candles).close, trend |-> TrendSign(candles)]
  IN \/ /\ row.price > 0 /\ snapshots' = [snapshots EXCEPT ![v] = Append(@, row)]
        /\ UNCHANGED broken
     \/ row.price = 0 /\ UNCHANGED <<snapshots, broken>>
     \/ Break /\ UNCHANGED snapshots

Sample ==
  /\ rounds < MaxRounds /\ turn <= Len(Venues)
  /\ LET v == Venues[turn]
     IN \/ /\ cache' = [cache EXCEPT ![v] = IF Len(@) < Depth THEN Answered(Depth)
                                            ELSE Merged(@, Answered(2))]
           /\ fetched' = [fetched EXCEPT ![v] = @ \cup {Now}]
           /\ Store(v)
        \/ Break /\ UNCHANGED <<cache, fetched, snapshots>>
  /\ turn' = turn + 1
  /\ UNCHANGED <<chart, scores, rounds>>

\* Scores that cannot be computed leave the old ones in place, unmarked.
ComputeScores ==
  /\ turn = Len(Venues) + 1 /\ turn' = 1 /\ rounds' = rounds + 1
  /\ \/ scores' = [v \in ToSet(Venues) |-> ScoresOf(snapshots[v])] /\ UNCHANGED broken
     \/ Break /\ UNCHANGED scores
  /\ UNCHANGED <<chart, cache, snapshots, fetched>>

\* Cache and scores are lost, the snapshots are not.
RestartAnalytics ==
  /\ Break /\ turn' = 1 /\ scores' = NoScores
  /\ cache' = [v \in ToSet(Venues) |-> <<>>]
  /\ UNCHANGED <<chart, snapshots, fetched, rounds>>

AnalyticsNext == PriceMoves \/ MinutePasses \/ Sample \/ ComputeScores \/ RestartAnalytics

AnalyticsSpec == AnalyticsInit /\ [][AnalyticsNext]_analyticsVars

------------------------------------------------------------------------------
\* The cache is the chart as far as it can be known from two candles at a time:
\* in order, at most Depth, and with the final close of every minute it reaches
\* back to whose successor began before a later answer arrived (the candle that
\* was stored while it moved is corrected). Only an outage longer than a minute
\* leaves a gap or an interim close.
CacheIsTheChart ==
  \A v \in ToSet(Venues) :
    LET c == cache[v]
    IN /\ Len(c) <= Depth
       /\ \A i, j \in DOMAIN c : i < j => c[i].minute < c[j].minute
       /\ c # <<>> =>
            \A m \in c[1].minute .. Now - 1 :
              m + 1 \in fetched[v] =>
                \E i \in DOMAIN c : c[i] = [minute |-> m, close |-> chart[m]]
==============================================================================
