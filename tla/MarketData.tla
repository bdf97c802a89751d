----------------------------- MODULE MarketData -----------------------------
(***************************************************************************)
(* The cycle of market-data (services/market-data/src/lib.rs): BTC first,  *)
(* for the context, then every symbol of the universe, which may hold BTC  *)
(* again; then the map behind GET /latest-signals is replaced and the      *)
(* signals are published one by one. What the exchanges see changes at any *)
(* time, requests fail, an exchange may lag behind, the process may die.   *)
(***************************************************************************)
EXTENDS Consensus

CONSTANTS Btc, Universe, \* symbols; the macro context and the ones traded
          Moods,         \* what the exchanges may see: functions to regimes
          Lags,          \* by how many minutes an exchange may lag
          MaxMoves, MaxFaults

ASSUME MarketDataAssumption ==
  /\ Btc \in Universe /\ IsFiniteSet(Universe)
  /\ Moods \subseteq [Exchanges -> Regimes] /\ Lags \subseteq Nat
  /\ MaxMoves \in Nat /\ MaxFaults \in Nat

VARIABLES market,    \* per symbol what each exchange sees
          phase, todo, \* where the cycle is, and the symbols it has still to do
          latch,     \* consensus_latch
          btc,       \* btc_context: its side
          signals,   \* cycle_signals
          latest,    \* latest_signals
          published, \* newest event per symbol in viper:market_data
          streak,    \* history: in how many cycles on end a side was observed
          moves, faulty

marketVars == <<market, phase, todo, latch, btc, signals, latest, published, streak, moves, faulty>>

Empty == <<>>
With(f, s, v) == [k \in DOMAIN f \union {s} |-> IF k = s THEN v ELSE f[k]]

MarketInit ==
  /\ market \in [Universe -> Moods] /\ phase = "rest" /\ todo = {}
  /\ latch = Empty /\ btc = "neutral" /\ signals = Empty /\ latest = Empty
  /\ published = Empty
  /\ streak = [s \in Universe |-> [side |-> "neutral", cycles |-> 0, again |-> FALSE]]
  /\ moves = 0 /\ faulty = 0

\* Answers of the exchanges for a symbol: all as the market is; or without some
\* of them, with one that lags behind, or with no price from bybit.
Answer(s, e, lag, price) ==
  [source |-> e, regime |-> market[s][e], ages |-> Candles(lag), price |-> price]
Good(s) == {Answer(s, e, 0, 1) : e \in Exchanges}
Poor(s) ==
  {{Answer(s, e, 0, 1) : e \in up} : up \in SUBSET Exchanges \ {Exchanges}}
    \union {{Answer(s, e, IF e = late THEN lag ELSE 0, 1) : e \in Exchanges} :
             late \in Exchanges, lag \in Lags}
    \union {{Answer(s, e, 0, IF e = "bybit" THEN 0 ELSE 1) : e \in Exchanges}}

Answers(s) == IF faulty < MaxFaults THEN {Good(s)} \union Poor(s) ELSE {Good(s)}

\* fetch_market_signal
Usable(answers) == Cardinality(answers) >= MinExchanges /\ Alignable(answers)
Fetch(s, answers) == faulty' = IF answers = Good(s) THEN faulty ELSE faulty + 1

Observe(s, side) ==
  /\ latch' = With(latch, s, IF s \in DOMAIN latch THEN Stabilized(latch[s], side)
                             ELSE NewLatch(side))
  /\ streak' = [streak EXCEPT ![s] =
       [side |-> side, again |-> TRUE,
        cycles |-> IF side # @.side THEN 1
                   ELSE IF @.again \/ @.cycles = Confirmations THEN @.cycles ELSE @.cycles + 1]]

\* A cycle makes what is served one cycle older (history).
StartCycle ==
  /\ phase = "rest" /\ phase' = "btc"
  /\ latest' = [s \in DOMAIN latest |-> [latest[s] EXCEPT !.age = LowestOf({@ + 1, 2})]]
  /\ streak' = [s \in Universe |-> [streak[s] EXCEPT !.again = FALSE]]
  /\ UNCHANGED <<market, todo, latch, btc, signals, published, moves, faulty>>

FetchBtc ==
  /\ phase = "btc"
  /\ \E answers \in Answers(Btc) :
       /\ Fetch(Btc, answers)
       /\ \/ /\ Usable(answers)
             /\ Observe(Btc, Unanimous(Aligned(answers)))
             /\ btc' = latch'[Btc].stable
             /\ phase' = "symbols" /\ todo' = Universe /\ signals' = Empty
             /\ UNCHANGED latest
          \/ /\ ~Usable(answers)
             /\ latest' = Empty /\ phase' = "rest"
             /\ UNCHANGED <<latch, streak, btc, todo, signals>>
  /\ UNCHANGED <<market, published, moves>>

\* A signal that is not valid has moved the latch all the same. The order of
\* the symbols does not matter.
FetchSymbol ==
  /\ phase = "symbols"
  /\ \E s \in todo : \E answers \in Answers(s) :
       /\ Fetch(s, answers) /\ todo' = todo \ {s}
       /\ \/ /\ Usable(answers)
             /\ Observe(s, Unanimous(Aligned(answers)))
             /\ signals' = IF PriceTwice(answers) > 0
                           THEN With(signals, s, [side |-> latch'[s].stable, age |-> 0,
                                                  btc |-> IF s = Btc THEN "none" ELSE btc])
                           ELSE signals
          \/ ~Usable(answers) /\ UNCHANGED <<latch, streak, signals>>
  /\ UNCHANGED <<market, phase, btc, latest, published, moves>>

\* Mutated: with nothing new to serve, what was served stays.
KeepsServing == IF DOMAIN signals = {} THEN latest ELSE signals

Served == signals

Serve ==
  /\ phase = "symbols" /\ todo = {}
  /\ latest' = Served /\ todo' = DOMAIN signals /\ phase' = "publish"
  /\ UNCHANGED <<market, latch, btc, signals, published, streak, moves, faulty>>

\* One XADD after the other; the first that fails ends the publication.
Publish ==
  /\ phase = "publish" /\ todo # {}
  /\ \/ \E s \in todo : /\ published' = With(published, s, signals[s])
                        /\ todo' = todo \ {s} /\ UNCHANGED faulty
     \/ /\ faulty < MaxFaults /\ faulty' = faulty + 1
        /\ todo' = {} /\ UNCHANGED published
  /\ UNCHANGED <<market, phase, latch, btc, signals, latest, streak, moves>>

EndCycle ==
  /\ phase = "publish" /\ todo = {}
  /\ phase' = "rest" /\ signals' = Empty
  /\ UNCHANGED <<market, todo, latch, btc, latest, published, streak, moves, faulty>>

\* The process dies and starts again, without the latch.
RestartMarketData ==
  /\ faulty < MaxFaults /\ faulty' = faulty + 1
  /\ phase' = "rest" /\ todo' = {} /\ latch' = Empty /\ btc' = "neutral"
  /\ signals' = Empty /\ latest' = Empty
  /\ streak' = [s \in Universe |-> [side |-> "neutral", cycles |-> 0, again |-> FALSE]]
  /\ UNCHANGED <<market, published, moves>>

MarketMoves ==
  /\ moves < MaxMoves /\ moves' = moves + 1
  /\ \E s \in Universe, m \in Moods : market[s] # m /\ market' = [market EXCEPT ![s] = m]
  /\ UNCHANGED <<phase, todo, latch, btc, signals, latest, published, streak, faulty>>

MarketStep == StartCycle \/ FetchBtc \/ FetchSymbol \/ Serve \/ Publish \/ EndCycle
MarketNext == MarketStep \/ RestartMarketData \/ MarketMoves

MarketSpec == MarketInit /\ [][MarketNext]_marketVars

------------------------------------------------------------------------------
\* The side of a symbol changes only after the exchanges that answered agreed on
\* the new one in as many cycles on end as the constant says.
Confirmed(s) ==
  (s \in DOMAIN latch /\ s \in DOMAIN latch') /\ latch'[s].stable # latch[s].stable =>
    streak'[s].side = latch'[s].stable /\ streak'[s].cycles >= Confirmations

SideIsConfirmed == [][\A s \in Universe \ {Btc} : Confirmed(s)]_marketVars

\* "still latched after 1 bearish cycle" (services/market-data/src/lib.rs 625,
\* of BTCUSDT): for the symbol that is also the context.
BtcSideIsConfirmed == [][Confirmed(Btc)]_marketVars

\* Between two cycles nothing is served that the last one has not produced, and
\* within a cycle nothing older than the one before, whatever fails.
NothingStaleIsServed ==
  \A s \in DOMAIN latest : latest[s].age <= (IF phase = "rest" THEN 0 ELSE 1)

\* When what the exchanges see no longer changes and they answer again, the side
\* they agree on and BTC's reach the stream and stay: neither the latch nor a
\* fault in a cycle holds them back for ever.
SideFollowsMarket ==
  \A s \in Universe :
    <>[](/\ s \in DOMAIN published
         /\ published[s].side = Unanimous(Good(s))
         /\ s # Btc => published[s].btc = Unanimous(Good(Btc)))
============================================================================
