-------------------------------- MODULE Exits --------------------------------
(***************************************************************************)
(* How the strategy gets out of one open trade: hard stop, fixed target,   *)
(* trailing stop and thesis guard, evaluated on every market signal of the *)
(* symbol, with the columns of `trades` that carry the trailing state and  *)
(* the excursion from one signal to the next.                              *)
(*                                                                         *)
(* Prices are integers and every trade is entered at Scale, so that a      *)
(* fraction of x/Scale of the entry price is the integer x; fractions that *)
(* an advice multiplies are kept in hundredths of that.  What the health   *)
(* score of a position amounts to is an input, one of three stages.        *)
(*                                                                         *)
(* One signal is handled in one step: only this loop writes these columns, *)
(* and what may happen between its awaits is the subject of StrategyLoop,  *)
(* as is the suppression of closes that repeat.  A close that the executor *)
(* does not carry out leaves the trade to the signals that follow.         *)
(***************************************************************************)
EXTENDS Integers, FiniteSets, Sequences

CONSTANTS
  Scale,        \* the entry price
  Moves,        \* how far, in favour of the position, a signal's price may be
  Configs,      \* mode profiles: the settings read by the exit rules
  Side,         \* "Long" and "Short", or one of them
  MaxOpens,     \* bound: trades
  MaxFaults,    \* bound: UPDATEs that fail
  MaxRestarts   \* bound: restarts of the strategy

\* "valid" stands for "degrading_soft" too: both forget what was counted.
Stage  == {"valid", "degrading_hard", "invalidated"}
Advice == {"hold", "hold_but_tighten", "reduce_risk"}
Trigger == {"none", "hold", "stop_loss", "take_profit", "trailing_stop", "thesis_invalidated"}

\* A mode profile.  takeProfit 0: no fixed target; the trailing thresholds are
\* fractions of the entry price, minHold and confirm are counted in signals.
Profile == [stopLoss : Nat, takeProfit : Nat, trailing : BOOLEAN, armAt : Nat, trail : Nat,
            ratchets : Seq([at : Nat, trail : Nat]), breakEven : Nat, threshold : Nat,
            minHold : Nat, thesisExit : BOOLEAN, confirm : Nat \ {0}]

ASSUME ConstantsAssumption ==
  /\ Scale \in Nat \ {0} /\ Moves \subseteq (1 - Scale)..(Scale - 1) /\ Configs \subseteq Profile
  /\ Side \subseteq {"Long", "Short"}
  /\ MaxOpens \in Nat /\ MaxFaults \in Nat /\ MaxRestarts \in Nat

VARIABLES
  cfg,         \* the profile in force
  trade,       \* the open row of the symbol, or NoTrade
  thesis,      \* thesis_invalidations of the symbol, or NoThesis
  decided,     \* trigger of the last exit evaluation
  last,        \* history: the price at which it held the trade
  best, worst, \* history: extremes of the prices since the trade was opened
  armedBest,   \* history: best price since the trailing stop was armed
  streak,      \* history: signals in a row that found the thesis in the stage named
  opens, faults, restarts

history == <<last, best, worst, armedBest, streak>>
bounds  == <<opens, faults, restarts>>
vars    == <<cfg, trade, thesis, decided, history, bounds>>

NoTrade  == [side |-> "none", age |-> 0, armed |-> FALSE, peak |-> 0, distance |-> 0,
             mfe |-> 0, mae |-> 0]
NoStreak == [side |-> "none", stage |-> "valid", length |-> 0]
NoThesis == [side |-> "none", invalid |-> 0, degrading |-> 0]
-----------------------------------------------------------------------------
(* Profit and excursion.                                                   *)

Higher(a, b) == IF a >= b THEN a ELSE b
Lower(a, b)  == IF a <= b THEN a ELSE b

Profit(side, p) == IF side = "Long" THEN p - Scale ELSE Scale - p
PriceAt(side, move) == IF side = "Long" THEN Scale + move ELSE Scale - move
Better(side, p, q) == IF side = "Long" THEN Higher(p, q) ELSE Lower(p, q)
Worse(side, p, q)  == IF side = "Long" THEN Lower(p, q) ELSE Higher(p, q)

\* update_excursion: both extremes are positive
ExcursionOnceArmed(t, p) ==                   \* mutation: only what the trailing sees
  [mfe |-> IF t.armed THEN Higher(t.mfe, Profit(t.side, p)) ELSE t.mfe,
   mae |-> IF t.armed THEN Higher(t.mae, - Profit(t.side, p)) ELSE t.mae]
Excursion(t, p) == [mfe |-> Higher(t.mfe, Profit(t.side, p)),
                    mae |-> Higher(t.mae, - Profit(t.side, p))]
-----------------------------------------------------------------------------
(* The trailing stop.                                                      *)

\* apply_active_position_advice_to_trailing, in per cent of the settings
Unadvised == [arm |-> 100, even |-> 100, trail |-> 100, at |-> 100, step |-> 100]
Factor ==
  [hold             |-> Unadvised,
   hold_but_tighten |-> [Unadvised EXCEPT !.even = 85, !.trail = 90, !.step = 92],
   reduce_risk      |-> [arm |-> 60, even |-> 50, trail |-> 65, at |-> 80, step |-> 70]]

Arms(t, p, a) == \/ t.armed
                 \/ 100 * Profit(t.side, p) >= Factor[a].arm * cfg.armAt

Reached(t, p, a) == {i \in DOMAIN cfg.ratchets :
                       100 * Profit(t.side, p) >= Factor[a].at * cfg.ratchets[i].at}

Top(reached) == CHOOSE i \in reached : \A j \in reached : j <= i

\* The distance of the last ratchet reached, but never less than the stored one.
Distance(t, p, a) ==
  LET reached == Reached(t, p, a)
      step == IF reached = {} THEN Factor[a].trail * cfg.trail
              ELSE Factor[a].step * cfg.ratchets[Top(reached)].trail
  IN Higher(step, t.distance)

\* The stop is hit: prices are compared in units of 1/(100 * Scale).
Hit(t, p, a, peak, distance) ==
  LET even == 100 * Profit(t.side, p) >= Factor[a].even * cfg.breakEven
      unit == 100 * Scale
  IN IF t.side = "Long"
     THEN \/ p * unit <= peak * (unit - distance)
          \/ even /\ p <= Scale
     ELSE \/ p * unit >= peak * (unit + distance)
          \/ even /\ p >= Scale

\* evaluate_trailing
Eval(t, p, a) ==
  LET peak == Better(t.side, t.peak, p)
      distance == Distance(t, p, a)
  IN [peak |-> peak, distance |-> distance, hit |-> Hit(t, p, a, peak, distance)]

Tracks(t, p, a) == cfg.trailing /\ Arms(t, p, a)

\* should_persist_trailing_update
OnlyOnArming(t, e) == ~t.armed                \* mutation: later peaks are not stored
ShouldPersist(t, e) ==
  LET move == Profit(t.side, e.peak) - Profit(t.side, t.peak) IN
  \/ ~t.armed
  \/ move > 0 /\ move * Scale >= cfg.threshold * t.peak
  \/ e.distance # t.distance
-----------------------------------------------------------------------------
(* evaluate_open_trade_exit, in its order.                                 *)

StopLossHit(t, p) == Profit(t.side, p) <= - cfg.stopLoss
TargetHit(t, p) == cfg.takeProfit > 0 /\ Profit(t.side, p) >= cfg.takeProfit

ExitTrigger(t, p, a) ==
  IF StopLossHit(t, p) THEN "stop_loss"
  ELSE IF TargetHit(t, p) THEN "take_profit"
  ELSE IF Tracks(t, p, a) /\ Eval(t, p, a).hit THEN "trailing_stop"
  ELSE "none"

\* The trailing state is only computed when neither of the first two fires.
Trails(t, p, a) == ~StopLossHit(t, p) /\ ~TargetHit(t, p) /\ Tracks(t, p, a)
-----------------------------------------------------------------------------
(* The thesis guard.                                                       *)

\* evaluate_thesis_guard_policy and evaluate_thesis_degrading_policy: a signal
\* in one stage ends a row of the other.
CountedOn(state, stage) ==                    \* mutation: the other row goes on
  IF stage = "invalidated" THEN [state EXCEPT !.invalid = @ + 1]
  ELSE [state EXCEPT !.degrading = @ + 1]
Counted(state, stage) ==
  IF stage = "invalidated" THEN [state EXCEPT !.invalid = @ + 1, !.degrading = 0]
  ELSE [state EXCEPT !.degrading = @ + 1, !.invalid = 0]

Required(stage) == IF stage = "invalidated" THEN cfg.confirm ELSE Higher(cfg.confirm - 1, 1)
OneMore(state, stage) ==                      \* mutation: one signal late
  IF stage = "invalidated" THEN state.invalid > Required(stage)
  ELSE state.degrading > Required(stage)
Confirmed(state, stage) ==
  IF stage = "invalidated" THEN state.invalid >= Required(stage)
  ELSE state.degrading >= Required(stage)

\* enforce_open_position_thesis_guard: whether to close, and what is remembered.
Guard(t, stage, state) ==
  LET counted == Counted(IF state.side = t.side THEN state ELSE [NoThesis EXCEPT !.side = t.side],
                         stage)
  IN IF ~cfg.thesisExit \/ stage = "valid" THEN [close |-> FALSE, state |-> NoThesis]
     ELSE IF Confirmed(counted, stage) THEN [close |-> TRUE, state |-> NoThesis]
     ELSE [close |-> FALSE, state |-> counted]
-----------------------------------------------------------------------------
Init ==
  /\ cfg \in Configs /\ trade = NoTrade /\ thesis = NoThesis /\ decided = "none"
  /\ last = Scale /\ best = Scale /\ worst = Scale /\ armedBest = Scale
  /\ streak = NoStreak
  /\ opens = 0 /\ faults = 0 /\ restarts = 0

Fresh == last' = Scale /\ best' = Scale /\ worst' = Scale /\ armedBest' = Scale

Opened(side) == [NoTrade EXCEPT !.side = side, !.peak = Scale]

\* The executor inserts a row, with nothing in the columns of this loop.
OpenTrade(side) ==
  /\ trade = NoTrade /\ opens < MaxOpens /\ opens' = opens + 1
  /\ trade' = Opened(side)
  /\ UNCHANGED <<cfg, thesis, decided, history, faults, restarts>>

\* The executor carries a close out, or something else ends the trade.
CloseTrade ==
  /\ trade # NoTrade /\ trade' = NoTrade /\ decided' = "none" /\ Fresh
  /\ UNCHANGED <<cfg, thesis, streak, bounds>>

\* A signal finds no open trade.
SignalWithoutTrade ==
  /\ trade = NoTrade /\ thesis' = NoThesis
  /\ UNCHANGED <<cfg, trade, decided, history, bounds>>

Restart ==
  /\ restarts < MaxRestarts /\ restarts' = restarts + 1 /\ thesis' = NoThesis
  /\ UNCHANGED <<cfg, trade, decided, history, opens, faults>>

\* update_trade_excursion, then update_trade_trailing_state.  Either may fail:
\* that is logged, and the columns keep their values.
WithExcursion(t, p) == [t EXCEPT !.mfe = Excursion(t, p).mfe, !.mae = Excursion(t, p).mae]

WithTrailing(t, p, a) ==
  LET e == Eval(t, p, a)
  IN IF Trails(t, p, a) /\ ShouldPersist(t, e)
     THEN [t EXCEPT !.armed = TRUE, !.peak = e.peak, !.distance = e.distance]
     ELSE t

Evaluated(t) == t.age >= cfg.minHold /\ cfg.thesisExit

HandleSignal(p, stage, a) ==
  LET t == trade
      trigger == ExitTrigger(t, p, a)
      guard == IF t.age < cfg.minHold THEN [close |-> FALSE, state |-> thesis]
               ELSE Guard(t, stage, thesis)
      x == WithExcursion(t, p)
      e == WithTrailing(t, p, a)
      both == [x EXCEPT !.armed = e.armed, !.peak = e.peak, !.distance = e.distance]
  IN
  /\ t # NoTrade
  /\ decided' = IF trigger # "none" THEN trigger
                ELSE IF guard.close THEN "thesis_invalidated" ELSE "hold"
  /\ thesis' = IF decided' = "hold" THEN guard.state ELSE NoThesis
  /\ \E row \in {both, x, e}, age \in {t.age, Lower(t.age + 1, cfg.minHold)} :
       /\ trade' = [row EXCEPT !.age = age]
       /\ IF row = both THEN UNCHANGED faults
          ELSE faults < MaxFaults /\ faults' = faults + 1
  /\ last' = IF decided' = "hold" THEN p ELSE Scale
  /\ best' = Better(t.side, best, p) /\ worst' = Worse(t.side, worst, p)
  /\ armedBest' = IF Trails(t, p, a) THEN Better(t.side, armedBest, p) ELSE armedBest
  /\ streak' = IF ~Evaluated(t) THEN streak
               ELSE IF stage = "valid" THEN NoStreak
               ELSE IF streak.side = t.side /\ streak.stage = stage
               THEN [streak EXCEPT !.length = Lower(@ + 1, cfg.confirm)]
               ELSE [side |-> t.side, stage |-> stage, length |-> 1]
  /\ UNCHANGED <<cfg, opens, restarts>>

\* Inputs that the profile does not look at are fixed.
Stages  == IF cfg.thesisExit THEN Stage ELSE {"valid"}
Advices == IF cfg.trailing THEN Advice ELSE {"hold"}

Next ==
  \/ \E side \in Side : OpenTrade(side)
  \/ CloseTrade \/ SignalWithoutTrade \/ Restart
  \/ \E move \in Moves, stage \in Stages, a \in Advices :
       HandleSignal(PriceAt(trade.side, move), stage, a)

Spec == Init /\ [][Next]_vars
-----------------------------------------------------------------------------
(* Properties.                                                             *)

TradeOK ==
  trade \in [side : Side, age : 0..cfg.minHold, armed : BOOLEAN, peak : 1..(2 * Scale - 1),
            distance : Nat, mfe : Nat, mae : Nat] \cup {NoTrade}
ThesisOK ==
  thesis \in [side : Side, invalid : 0..(cfg.confirm - 1), degrading : 0..(cfg.confirm - 1)]
            \cup {NoThesis}

\* Types of all variables; a stored distance is one of an armed trailing stop.
TypeOK ==
  /\ cfg \in Configs /\ TradeOK /\ ThesisOK /\ decided \in Trigger
  /\ {last, best, worst, armedBest} \subseteq 1..(2 * Scale - 1)
  /\ streak.length \in Nat /\ opens \in 0..MaxOpens /\ faults \in 0..MaxFaults
  /\ restarts \in 0..MaxRestarts
  /\ trade.distance > 0 => trade.armed

Held == decided = "hold" /\ trade # NoTrade

\* The widest distance a profile allows, and what a stored peak may lag behind.
Widest == CHOOSE w \in {cfg.trail} \cup {cfg.ratchets[i].trail : i \in DOMAIN cfg.ratchets} :
            /\ w >= cfg.trail
            /\ \A i \in DOMAIN cfg.ratchets : w >= cfg.ratchets[i].trail

GivesBackLittle ==
  IF trade.side = "Long"
  THEN last * (Scale + cfg.threshold) > armedBest * (Scale - Widest)
  ELSE last * (Scale - cfg.threshold) < armedBest * (Scale + Widest)

\* A trade that is held is above its hard stop; and if its trailing stop is
\* armed it has given back no more than the widest distance and the threshold
\* below which a new peak is not stored, restarts and advice notwithstanding.
HeldWithinStops ==
  Held => /\ Profit(trade.side, last) > - cfg.stopLoss
          /\ trade.armed /\ faults = 0 => GivesBackLittle

\* trailing.rs, "runs at every tick": the excursion is that of the whole trade,
\* before and after arming, and a failed write never makes it exceed the truth.
ExcursionIsTruthful ==
  trade # NoTrade =>
    LET mfe == Profit(trade.side, best)
        mae == - Profit(trade.side, worst)
    IN /\ trade.mfe <= mfe /\ trade.mae <= mae
       /\ faults = 0 => trade.mfe = mfe /\ trade.mae = mae

\* No thesis exit on a blip: as many signals in a row as the profile asks for
\* have found the position in the stage that ends it.
ThesisExitIsConfirmed ==
  decided = "thesis_invalidated" =>
    /\ streak.side = trade.side
    /\ streak.stage # "valid" /\ streak.length >= Required(streak.stage)

\* A claim of a document that the code does not keep (TLC refutes it):
\* docs/spec/05-runtime-and-operations.md: "the trail only tightens".
TrailOnlyTightens ==
  [][trade.armed /\ trade' # NoTrade => trade'.distance <= trade.distance]_trade
=============================================================================
