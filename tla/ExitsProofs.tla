----------------------------- MODULE ExitsProofs -----------------------------
(***************************************************************************)
(* Proofs about Exits and Replay: whatever signals, advices, failing        *)
(* UPDATEs and restarts a trade meets, one that is held is within its       *)
(* stops, its excursion is that of the whole trade, and a thesis exit was   *)
(* confirmed; and the backtest leaves a trade where live does.              *)
(***************************************************************************)
EXTENDS Replay, DataLemmas, TLAPS

Price == 1 .. (2 * Scale - 1)

RowType == [side : Side, age : Nat, armed : BOOLEAN, peak : Price, distance : Nat,
            mfe : Nat, mae : Nat]

(***************************************************************************)
(* The invariant.  A peak that was not stored is behind the best price by  *)
(* less than the threshold (Lag), no stored distance exceeds the widest of *)
(* the profile, and whatever the thesis guard still counts for the side it *)
(* has in mind is the end of a row of signals in that stage (CountInv).    *)
(***************************************************************************)
Lag == IF trade.side = "Long"
       THEN armedBest * Scale <= trade.peak * (Scale + cfg.threshold)
       ELSE armedBest * Scale >= trade.peak * (Scale - cfg.threshold)

TrailingInv ==
  trade # NoTrade => /\ trade.armed => cfg.trailing
                     /\ trade.distance <= 100 * Widest
                     /\ faults = 0 => Lag

Row(stage, counted) == /\ streak.side = thesis.side /\ streak.stage = stage
                       /\ streak.length >= Lower(counted, cfg.confirm)

CountInv == /\ thesis.invalid > 0 => Row("invalidated", thesis.invalid)
            /\ thesis.degrading > 0 => Row("degrading_hard", thesis.degrading)

StreakOK == streak \in [side : Side \cup {"none"}, stage : Stage, length : Nat]

Untouched == trade = NoTrade => decided = "none" /\ last = Scale /\ best = Scale
                                /\ worst = Scale /\ armedBest = Scale

ExitsInv == /\ TypeOK /\ StreakOK /\ Untouched /\ TrailingInv /\ CountInv
            /\ HeldWithinStops /\ ExcursionIsTruthful /\ ThesisExitIsConfirmed

(***************************************************************************)
(* Arithmetic.                                                             *)
(***************************************************************************)
LEMMA TimesOrder ==
  ASSUME NEW a \in Int, NEW b \in Int, NEW c \in Int, a <= b, c >= 0
  PROVE  a * c <= b * c
OBVIOUS

LEMMA TimesStrict ==
  ASSUME NEW a \in Int, NEW b \in Int, NEW c \in Int, a < b, c > 0
  PROVE  a * c < b * c
OBVIOUS

(* What the stop allows the price to give back of the peak, and what the    *)
(* peak may be behind the best price, add up to what the trade gives back.  *)
LEMMA GivenBackLong ==
  ASSUME NEW p \in Nat, NEW peak \in Nat, NEW top \in Nat, NEW th \in Nat, NEW w \in Nat,
         p > 0, top > 0, Scale \in Nat \ {0},
         p * Scale > peak * (Scale - w), top * Scale <= peak * (Scale + th)
  PROVE  p * (Scale + th) > top * (Scale - w)
<1>1. PICK S \in Nat \ {0} : S = Scale OBVIOUS
<1>2. PICK d \in Int : d = S - w BY <1>1
<1>3. PICK u \in Nat : u = S + th /\ u > 0 BY <1>1
<1>4. p * S > peak * d /\ top * S <= peak * u BY <1>1, <1>2, <1>3
<1>5. p * u > 0 BY <1>3, TimesStrict
<1>6. p * u > top * d
  <2>1. CASE d <= 0
    <3>1. d * top <= 0 * top BY <1>2, <2>1, TimesOrder
    <3>2. d * top = top * d BY <1>2
    <3>3. 0 * top = 0 OBVIOUS
    <3> QED BY <1>2, <1>5, <3>1, <3>2, <3>3
  <2>2. CASE d > 0
    <3>1. (top * S) * d <= (peak * u) * d BY <1>1, <1>2, <1>3, <1>4, <2>2, TimesOrder
    <3>2. (peak * d) * u < (p * S) * u BY <1>1, <1>2, <1>3, <1>4, TimesStrict
    <3>3. (peak * u) * d = (peak * d) * u /\ (top * S) * d = (top * d) * S
          /\ (p * S) * u = (p * u) * S
      BY <1>1, <1>2, <1>3
    <3>4. (top * d) * S < (p * u) * S BY <1>1, <1>2, <1>3, <3>1, <3>2, <3>3
    <3>5. (p * u) <= (top * d) => (p * u) * S <= (top * d) * S BY <1>1, <1>2, <1>3, TimesOrder
    <3> QED BY <1>1, <1>2, <1>3, <3>4, <3>5
  <2> QED BY <1>2, <2>1, <2>2
<1> QED BY <1>1, <1>2, <1>3, <1>6

LEMMA GivenBackShort ==
  ASSUME NEW p \in Nat, NEW peak \in Nat, NEW top \in Nat, NEW th \in Nat, NEW w \in Nat,
         p > 0, top > 0, Scale \in Nat \ {0},
         p * Scale < peak * (Scale + w), top * Scale >= peak * (Scale - th)
  PROVE  p * (Scale - th) < top * (Scale + w)
<1>1. PICK S \in Nat \ {0} : S = Scale OBVIOUS
<1>2. PICK d \in Int : d = S - th BY <1>1
<1>3. PICK u \in Nat : u = S + w /\ u > 0 BY <1>1
<1>4. p * S < peak * u /\ top * S >= peak * d BY <1>1, <1>2, <1>3
<1>5. top * u > 0 BY <1>3, TimesStrict
<1>6. p * d < top * u
  <2>1. CASE d <= 0
    <3>1. d * p <= 0 * p BY <1>2, <2>1, TimesOrder
    <3>2. d * p = p * d BY <1>2
    <3>3. 0 * p = 0 OBVIOUS
    <3> QED BY <1>2, <1>5, <3>1, <3>2, <3>3
  <2>2. CASE d > 0
    <3>1. (p * S) * d < (peak * u) * d BY <1>1, <1>2, <1>3, <1>4, <2>2, TimesStrict
    <3>2. (peak * d) * u <= (top * S) * u BY <1>1, <1>2, <1>3, <1>4, TimesOrder
    <3>3. (peak * u) * d = (peak * d) * u /\ (p * S) * d = (p * d) * S
          /\ (top * S) * u = (top * u) * S
      BY <1>1, <1>2, <1>3
    <3>4. (p * d) * S < (top * u) * S BY <1>1, <1>2, <1>3, <3>1, <3>2, <3>3
    <3>5. (top * u) <= (p * d) => (top * u) * S <= (p * d) * S BY <1>1, <1>2, <1>3, TimesOrder
    <3> QED BY <1>1, <1>2, <1>3, <3>4, <3>5
  <2> QED BY <1>2, <2>1, <2>2
<1> QED BY <1>1, <1>2, <1>3, <1>6

(* Among finitely many trails there is a widest.                           *)
LEMMA RatchetType ==
  ASSUME cfg \in Profile
  PROVE  \A i \in DOMAIN cfg.ratchets : cfg.ratchets[i].trail \in Nat
<1>1. cfg.ratchets \in Seq([at : Nat, trail : Nat]) BY DEF Profile
<1>2. PICK T : T = [at : Nat, trail : Nat] OBVIOUS
<1>3. PICK r \in Seq(T) : r = cfg.ratchets BY <1>1, <1>2
<1>4. \A i \in DOMAIN r : r[i] \in T OBVIOUS
<1> SUFFICES ASSUME NEW i \in DOMAIN cfg.ratchets PROVE cfg.ratchets[i].trail \in Nat
  OBVIOUS
<1>5. cfg.ratchets[i] \in [at : Nat, trail : Nat] BY <1>2, <1>3, <1>4
<1> QED BY <1>5

LEMMA WidestFacts ==
  ASSUME cfg \in Profile
  PROVE  /\ Widest \in Nat /\ Widest >= cfg.trail
         /\ \A i \in DOMAIN cfg.ratchets : Widest >= cfg.ratchets[i].trail
<1> DEFINE r == cfg.ratchets
           W(n) == {cfg.trail} \cup {r[i].trail : i \in 1 .. n}
           Tops == {n \in Nat : n <= Len(r) =>
                      \E w \in W(n) : w >= cfg.trail /\ \A i \in 1 .. n : w >= r[i].trail}
<1>1. /\ r \in Seq([at : Nat, trail : Nat]) /\ cfg.trail \in Nat /\ Len(r) \in Nat
      /\ DOMAIN r = 1 .. Len(r)
  BY DEF Profile
<1>2. \A i \in 1 .. Len(r) : r[i].trail \in Nat BY RatchetType, <1>1
<1> HIDE DEF r
<1>3. 0 \in Tops
  <2>1. cfg.trail \in W(0) /\ cfg.trail >= cfg.trail BY <1>1
  <2>2. \A i \in 1 .. 0 : cfg.trail >= r[i].trail OBVIOUS
  <2> QED BY <2>1, <2>2
<1>4. ASSUME NEW n \in Nat, n \in Tops PROVE n + 1 \in Tops
  <2> SUFFICES ASSUME n + 1 <= Len(r)
               PROVE  \E w \in W(n + 1) : /\ w >= cfg.trail
                                          /\ \A i \in 1 .. n + 1 : w >= r[i].trail
    OBVIOUS
  <2>1. n <= Len(r) /\ n + 1 \in 1 .. Len(r) BY <1>1
  <2>2. PICK w \in W(n) : w >= cfg.trail /\ \A i \in 1 .. n : w >= r[i].trail BY <1>4, <2>1
  <2>3. \A i \in 1 .. n + 1 : i \in 1 .. n \/ i = n + 1 OBVIOUS
  <2>4. \A i \in 1 .. n : i \in 1 .. n + 1 /\ i \in 1 .. Len(r) BY <2>1
  <2>5. w \in Nat /\ w \in W(n + 1) BY <1>1, <1>2, <2>2, <2>4
  <2>6. PICK x \in Nat : x = r[n + 1].trail BY <1>2, <2>1
  <2>7. x \in W(n + 1)
    <3>1. n + 1 \in 1 .. n + 1 OBVIOUS
    <3> QED BY <2>6, <3>1
  <2>8. CASE w >= x BY <2>2, <2>3, <2>5, <2>6, <2>8
  <2>9. CASE x >= w
    <3>1. x >= cfg.trail BY <1>1, <2>2, <2>5, <2>9
    <3>2. \A i \in 1 .. n : x >= r[i].trail
      <4> SUFFICES ASSUME NEW i \in 1 .. n PROVE x >= r[i].trail OBVIOUS
      <4>1. w >= r[i].trail /\ r[i].trail \in Nat BY <1>2, <2>2, <2>4
      <4> QED BY <2>5, <2>9, <4>1
    <3>3. \A i \in 1 .. n + 1 : x >= r[i].trail BY <2>3, <2>6, <3>2
    <3> QED BY <2>7, <3>1, <3>3
  <2> QED BY <2>5, <2>8, <2>9
<1>5. Len(r) \in Tops
  <2> HIDE DEF Tops
  <2> QED BY <1>1, <1>3, <1>4, SetInduction
<1>6. \E w \in W(Len(r)) : w >= cfg.trail /\ \A i \in 1 .. Len(r) : w >= r[i].trail
  BY <1>1, <1>5
<1>7. Widest = CHOOSE w \in W(Len(r)) : /\ w >= cfg.trail
                                        /\ \A i \in DOMAIN r : w >= r[i].trail
  BY <1>1 DEF Widest, r
<1>8. /\ Widest \in W(Len(r)) /\ Widest >= cfg.trail
      /\ \A i \in DOMAIN r : Widest >= r[i].trail
  <2> HIDE DEF W
  <2> QED BY <1>1, <1>6, <1>7
<1>9. Widest \in Nat BY <1>1, <1>2, <1>8
<1> QED BY <1>8, <1>9 DEF r

LEMMA DistanceFacts ==
  ASSUME cfg \in Profile, NEW t, t.distance \in Nat, t.distance <= 100 * Widest,
         NEW p, NEW a \in Advice
  PROVE  Distance(t, p, a) \in Nat /\ Distance(t, p, a) <= 100 * Widest
<1> DEFINE R == Reached(t, p, a)
           top == Top(R)
           step == IF R = {} THEN Factor[a].trail * cfg.trail
                   ELSE Factor[a].step * cfg.ratchets[top].trail
<1>1. PICK f, g : /\ f = Factor[a].trail /\ g = Factor[a].step
                  /\ f \in {100, 90, 65} /\ g \in {100, 92, 70}
  <2>1. CASE a = "hold" BY <2>1 DEF Factor, Unadvised
  <2>2. CASE a = "hold_but_tighten" BY <2>2 DEF Factor, Unadvised
  <2>3. CASE a = "reduce_risk" BY <2>3 DEF Factor, Unadvised
  <2> QED BY <2>1, <2>2, <2>3 DEF Advice
<1>2. /\ cfg.ratchets \in Seq([at : Nat, trail : Nat]) /\ Len(cfg.ratchets) \in Nat
      /\ DOMAIN cfg.ratchets = 1 .. Len(cfg.ratchets) /\ cfg.trail \in Nat
  BY DEF Profile
<1>3. PICK w \in Nat : /\ w = Widest /\ w >= cfg.trail
                       /\ \A i \in DOMAIN cfg.ratchets : w >= cfg.ratchets[i].trail
  BY WidestFacts
<1>4. step \in Nat /\ step <= 100 * w
  <2>1. CASE R = {} BY <1>1, <1>2, <1>3, <2>1
  <2>2. CASE R # {}
    <3>1. R \subseteq 0 .. Len(cfg.ratchets) /\ R \subseteq DOMAIN cfg.ratchets
      BY <1>2 DEF Reached
    <3>2. \E i \in R : \A j \in R : j <= i
      <4> HIDE DEF R
      <4> QED BY <1>2, <2>2, <3>1, GreatestElement
    <3>3. top \in DOMAIN cfg.ratchets
      <4> HIDE DEF R
      <4> QED BY <3>1, <3>2 DEF Top
    <3> HIDE DEF top
    <3>4. PICK x \in Nat : x = cfg.ratchets[top].trail /\ w >= x
      BY <1>3, <3>3, RatchetType
    <3> QED BY <1>1, <1>3, <2>2, <3>4
  <2> QED BY <2>1, <2>2
<1>5. Distance(t, p, a) = Higher(step, t.distance) BY DEF Distance
<1> HIDE DEF step
<1> QED BY <1>3, <1>4, <1>5 DEF Higher

(***************************************************************************)
(* What one signal leaves in the row of the trade.                         *)
(***************************************************************************)
LEMMA PriceInRange ==
  ASSUME NEW side, NEW move \in Moves PROVE PriceAt(side, move) \in Price
<1>1. Scale \in Nat \ {0} /\ move \in (1 - Scale) .. (Scale - 1) BY ConstantsAssumption
<1> QED BY <1>1 DEF PriceAt, Price

LEMMA TradeType ==
  ASSUME TypeOK, trade # NoTrade
  PROVE  /\ trade \in RowType /\ trade.side \in {"Long", "Short"}
         /\ trade.age \in 0 .. cfg.minHold /\ cfg \in Profile
         /\ trade.side \in Side /\ trade.armed \in BOOLEAN /\ trade.peak \in Price
         /\ trade.distance \in Nat /\ trade.mfe \in Nat /\ trade.mae \in Nat
<1>1. cfg \in Profile BY ConstantsAssumption DEF TypeOK
<1>2. cfg.minHold \in Nat BY <1>1 DEF Profile
<1>3. trade \in [side : Side, age : 0..cfg.minHold, armed : BOOLEAN, peak : 1..(2 * Scale - 1),
                 distance : Nat, mfe : Nat, mae : Nat]
  BY DEF TypeOK, TradeOK
<1>4. trade.age \in 0 .. cfg.minHold /\ trade.side \in Side BY <1>3
<1>5. \A n \in 0 .. cfg.minHold : n \in Nat BY <1>2
<1>6. trade \in RowType BY <1>3, <1>5 DEF RowType, Price
<1>7. trade.side \in {"Long", "Short"} BY <1>4, ConstantsAssumption
<1> QED BY <1>1, <1>3, <1>4, <1>6, <1>7 DEF Price

OldExcursion    == trade'.mfe = trade.mfe /\ trade'.mae = trade.mae
NewExcursion(p) == /\ trade'.mfe = Higher(trade.mfe, Profit(trade.side, p))
                   /\ trade'.mae = Higher(trade.mae, - Profit(trade.side, p))

OldTrailing == /\ trade'.armed = trade.armed /\ trade'.peak = trade.peak
               /\ trade'.distance = trade.distance
NewTrailing(p, a) ==
  /\ trade'.armed = TRUE /\ trade'.peak = Better(trade.side, trade.peak, p)
  /\ trade'.distance = Distance(trade, p, a)

Stores(p, a) == Trails(trade, p, a) /\ ShouldPersist(trade, Eval(trade, p, a))

LEMMA ProfitType ==
  ASSUME NEW side, NEW p \in Price, NEW q \in Price
  PROVE  /\ Profit(side, p) \in Int /\ Better(side, p, q) \in Price /\ Worse(side, p, q) \in Price
         /\ Profit(side, Better(side, p, q)) = Higher(Profit(side, p), Profit(side, q))
         /\ - Profit(side, Worse(side, p, q)) = Higher(- Profit(side, p), - Profit(side, q))
BY ConstantsAssumption DEF Price, Profit, Better, Worse, Higher, Lower

LEMMA TrailingRow ==
  ASSUME NEW t \in RowType, NEW p, NEW a, NEW e, e = WithTrailing(t, p, a)
  PROVE  /\ e.side = t.side /\ e.age = t.age /\ e.mfe = t.mfe /\ e.mae = t.mae
         /\ IF Trails(t, p, a) /\ ShouldPersist(t, Eval(t, p, a))
            THEN /\ e.armed = TRUE /\ e.peak = Better(t.side, t.peak, p)
                 /\ e.distance = Distance(t, p, a)
                 /\ e = [t EXCEPT !.armed = TRUE, !.peak = Better(t.side, t.peak, p),
                                  !.distance = Distance(t, p, a)]
            ELSE e = t
<1>1. /\ Eval(t, p, a).peak = Better(t.side, t.peak, p)
      /\ Eval(t, p, a).distance = Distance(t, p, a)
  BY DEF Eval
<1>2. CASE Trails(t, p, a) /\ ShouldPersist(t, Eval(t, p, a))
  <2>1. e = [t EXCEPT !.armed = TRUE, !.peak = Better(t.side, t.peak, p),
                      !.distance = Distance(t, p, a)]
    BY <1>1, <1>2 DEF WithTrailing
  <2> QED BY <1>2, <2>1 DEF RowType
<1>3. CASE ~(Trails(t, p, a) /\ ShouldPersist(t, Eval(t, p, a)))
  BY <1>3 DEF WithTrailing
<1> QED BY <1>2, <1>3

LEMMA SignalFacts ==
  ASSUME TypeOK, NEW p \in Price, NEW stage, NEW a \in Advice, HandleSignal(p, stage, a)
  PROVE  /\ trade # NoTrade /\ trade'.side = trade.side
         /\ trade'.age \in 0 .. cfg.minHold
         /\ DOMAIN trade' = {"side", "age", "armed", "peak", "distance", "mfe", "mae"}
         /\ trade' = [side |-> trade'.side, age |-> trade'.age, armed |-> trade'.armed,
                      peak |-> trade'.peak, distance |-> trade'.distance, mfe |-> trade'.mfe,
                      mae |-> trade'.mae]
         /\ OldExcursion \/ NewExcursion(p)
         /\ IF Stores(p, a) THEN OldTrailing \/ NewTrailing(p, a) ELSE OldTrailing
         /\ \/ /\ faults' = faults /\ NewExcursion(p)
               /\ Stores(p, a) => NewTrailing(p, a)
            \/ faults < MaxFaults /\ faults' = faults + 1
<1> DEFINE x == WithExcursion(trade, p)
           e == WithTrailing(trade, p, a)
           both == [x EXCEPT !.armed = e.armed, !.peak = e.peak, !.distance = e.distance]
<1>1. trade # NoTrade BY DEF HandleSignal
<1>2. PICK t \in RowType : t = trade /\ t.age \in 0 .. cfg.minHold /\ cfg.minHold \in Nat
  BY <1>1, TradeType DEF Profile
<1>3. PICK row \in {both, x, e}, age \in {t.age, Lower(t.age + 1, cfg.minHold)} :
         /\ trade' = [row EXCEPT !.age = age]
         /\ IF row = both THEN faults' = faults ELSE faults < MaxFaults /\ faults' = faults + 1
  BY <1>2 DEF HandleSignal
<1>4. age \in 0 .. cfg.minHold BY <1>2, <1>3 DEF Lower
<1>5. PICK m, n : m = Higher(t.mfe, Profit(t.side, p)) /\ n = Higher(t.mae, - Profit(t.side, p))
  OBVIOUS
<1>6. x = [t EXCEPT !.mfe = m, !.mae = n] BY <1>2, <1>5 DEF WithExcursion, Excursion
<1>7. PICK e1 : e1 = e OBVIOUS
<1>8. PICK pk, d : pk = Better(t.side, t.peak, p) /\ d = Distance(t, p, a) OBVIOUS
<1>9. IF Stores(p, a) THEN e1 = [t EXCEPT !.armed = TRUE, !.peak = pk, !.distance = d]
      ELSE e1 = t
  <2>1. e1 = WithTrailing(t, p, a) BY <1>2, <1>7
  <2>2. Stores(p, a) <=> Trails(t, p, a) /\ ShouldPersist(t, Eval(t, p, a))
    BY <1>2 DEF Stores
  <2> QED BY <1>8, <2>1, <2>2, TrailingRow
<1>10. row \in {[x EXCEPT !.armed = e1.armed, !.peak = e1.peak, !.distance = e1.distance], x, e1}
  BY <1>3, <1>7
<1> HIDE DEF x, e
<1>11. /\ row.side = t.side
       /\ row = [side |-> t.side, age |-> t.age, armed |-> row.armed, peak |-> row.peak,
                 distance |-> row.distance, mfe |-> row.mfe, mae |-> row.mae]
  BY <1>6, <1>9, <1>10 DEF RowType
<1>12. \/ row.mfe = t.mfe /\ row.mae = t.mae
       \/ row.mfe = m /\ row.mae = n
  BY <1>6, <1>9, <1>10 DEF RowType
<1>13. \/ row.armed = t.armed /\ row.peak = t.peak /\ row.distance = t.distance
       \/ Stores(p, a) /\ row.armed = TRUE /\ row.peak = pk /\ row.distance = d
  <2>1. CASE row = x BY <1>6, <2>1 DEF RowType
  <2>2. \/ e1.armed = t.armed /\ e1.peak = t.peak /\ e1.distance = t.distance
        \/ Stores(p, a) /\ e1.armed = TRUE /\ e1.peak = pk /\ e1.distance = d
    BY <1>9 DEF RowType
  <2>3. CASE row = e1 BY <2>2, <2>3
  <2>4. CASE row = [x EXCEPT !.armed = e1.armed, !.peak = e1.peak, !.distance = e1.distance]
    <3>1. row.armed = e1.armed /\ row.peak = e1.peak /\ row.distance = e1.distance
      BY <1>6, <2>4 DEF RowType
    <3> QED BY <2>2, <3>1
  <2> QED BY <1>10, <2>1, <2>3, <2>4
<1>14. row = both => /\ row.mfe = m /\ row.mae = n
                     /\ Stores(p, a) => row.armed = TRUE /\ row.peak = pk /\ row.distance = d
  <2> SUFFICES ASSUME row = [x EXCEPT !.armed = e1.armed, !.peak = e1.peak, !.distance = e1.distance]
               PROVE  /\ row.mfe = m /\ row.mae = n
                      /\ Stores(p, a) => row.armed = TRUE /\ row.peak = pk /\ row.distance = d
    BY <1>7
  <2> QED BY <1>6, <1>9 DEF RowType
<1> HIDE DEF both
<1>15. trade' = [side |-> t.side, age |-> age, armed |-> row.armed, peak |-> row.peak,
                 distance |-> row.distance, mfe |-> row.mfe, mae |-> row.mae]
  BY <1>3, <1>11
<1>16. OldExcursion \/ NewExcursion(p)
  BY <1>2, <1>5, <1>12, <1>15 DEF OldExcursion, NewExcursion
<1>17. IF Stores(p, a) THEN OldTrailing \/ NewTrailing(p, a) ELSE OldTrailing
  BY <1>2, <1>8, <1>13, <1>15 DEF OldTrailing, NewTrailing
<1>18. row = both => NewExcursion(p) /\ (Stores(p, a) => NewTrailing(p, a))
  BY <1>2, <1>5, <1>8, <1>14, <1>15 DEF NewExcursion, NewTrailing
<1>19. /\ trade'.side = trade.side /\ trade'.age \in 0 .. cfg.minHold
       /\ DOMAIN trade' = {"side", "age", "armed", "peak", "distance", "mfe", "mae"}
       /\ trade' = [side |-> trade'.side, age |-> trade'.age, armed |-> trade'.armed,
                    peak |-> trade'.peak, distance |-> trade'.distance, mfe |-> trade'.mfe,
                    mae |-> trade'.mae]
  BY <1>2, <1>4, <1>15
<1>20. \/ /\ faults' = faults /\ NewExcursion(p)
          /\ Stores(p, a) => NewTrailing(p, a)
       \/ faults < MaxFaults /\ faults' = faults + 1
  BY <1>3, <1>18
<1> QED BY <1>1, <1>16, <1>17, <1>19, <1>20

(***************************************************************************)
(* The thesis guard counts no more signals than the row it has seen.       *)
(***************************************************************************)
LEMMA RequiredFacts ==
  ASSUME cfg \in Profile, NEW stage
  PROVE  Required(stage) \in Nat /\ 1 <= Required(stage) /\ Required(stage) <= cfg.confirm
<1>1. cfg.confirm \in Nat \ {0} BY DEF Profile
<1> QED BY <1>1 DEF Required, Higher

Number(stage, state) == IF stage = "invalidated" THEN state.invalid ELSE state.degrading

LEMMA CountedFacts ==
  ASSUME cfg \in Profile, NEW s \in Side, NEW stage \in {"invalidated", "degrading_hard"},
         NEW base \in [side : {s}, invalid : 0 .. (cfg.confirm - 1), degrading : 0 .. (cfg.confirm - 1)],
         NEW c, c = Counted(base, stage)
  PROVE  /\ c.side = s /\ Number(stage, c) = Number(stage, base) + 1
         /\ stage = "invalidated" => c.degrading = 0
         /\ stage = "degrading_hard" => c.invalid = 0
         /\ Number(stage, c) \in Nat
         /\ Confirmed(c, stage) <=> Number(stage, c) >= Required(stage)
         /\ Number(stage, c) < cfg.confirm =>
              c \in [side : Side, invalid : 0 .. (cfg.confirm - 1), degrading : 0 .. (cfg.confirm - 1)]
<1>1. cfg.confirm \in Nat \ {0} BY DEF Profile
<1>2. PICK m \in Nat : m = cfg.confirm - 1 BY <1>1
<1>3. /\ base.side = s /\ base.invalid \in 0 .. m /\ base.degrading \in 0 .. m BY <1>2
<1>4. CASE stage = "invalidated"
  <2>1. c = [base EXCEPT !.invalid = @ + 1, !.degrading = 0] BY <1>4 DEF Counted
  <2>2. c = [side |-> s, invalid |-> base.invalid + 1, degrading |-> 0] BY <1>3, <2>1
  <2>3. c.side = s /\ c.invalid = base.invalid + 1 /\ c.degrading = 0 BY <2>2
  <2>4. c.invalid < cfg.confirm =>
          c \in [side : Side, invalid : 0 .. (cfg.confirm - 1), degrading : 0 .. (cfg.confirm - 1)]
    <3>1. c.invalid < cfg.confirm => base.invalid + 1 \in 0 .. m /\ 0 \in 0 .. m
      BY <1>1, <1>2, <1>3, <2>3
    <3> QED BY <1>2, <2>2, <3>1
  <2> QED BY <1>2, <1>3, <1>4, <2>3, <2>4 DEF Number, Confirmed
<1>5. CASE stage = "degrading_hard"
  <2>1. c = [base EXCEPT !.degrading = @ + 1, !.invalid = 0] BY <1>5 DEF Counted
  <2>2. c = [side |-> s, invalid |-> 0, degrading |-> base.degrading + 1] BY <1>3, <2>1
  <2>3. c.side = s /\ c.degrading = base.degrading + 1 /\ c.invalid = 0 BY <2>2
  <2>4. c.degrading < cfg.confirm =>
          c \in [side : Side, invalid : 0 .. (cfg.confirm - 1), degrading : 0 .. (cfg.confirm - 1)]
    <3>1. c.degrading < cfg.confirm => base.degrading + 1 \in 0 .. m /\ 0 \in 0 .. m
      BY <1>1, <1>2, <1>3, <2>3
    <3> QED BY <1>2, <2>2, <3>1
  <2> QED BY <1>2, <1>3, <1>5, <2>3, <2>4 DEF Number, Confirmed
<1> QED BY <1>4, <1>5

(* The row of signals after one more in stage: as long as what was counted. *)
LEMMA RowGoesOn ==
  ASSUME TypeOK, StreakOK, CountInv, NEW stage \in {"invalidated", "degrading_hard"}, NEW s \in Side,
         streak' = IF streak.side = s /\ streak.stage = stage
                   THEN [streak EXCEPT !.length = Lower(@ + 1, cfg.confirm)]
                   ELSE [side |-> s, stage |-> stage, length |-> 1],
         NEW n \in Nat, n > 0 => thesis.side = s /\ n = Number(stage, thesis)
  PROVE  /\ StreakOK' /\ streak'.side = s /\ streak'.stage = stage
         /\ streak'.length \in Nat /\ streak'.length >= Lower(n + 1, cfg.confirm)
<1>1. cfg.confirm \in Nat \ {0} BY ConstantsAssumption DEF TypeOK, Profile
<1>2. streak \in [side : Side \cup {"none"}, stage : Stage, length : Nat] BY DEF StreakOK
<1>3. PICK l \in Nat : l = streak.length BY <1>2
<1>4. n > 0 => streak.side = s /\ streak.stage = stage /\ l >= Lower(n, cfg.confirm)
  BY <1>3 DEF CountInv, Row, Number
<1>5. CASE streak.side = s /\ streak.stage = stage
  <2>1. PICK k \in Nat : k = Lower(l + 1, cfg.confirm) BY <1>1 DEF Lower
  <2>2. streak' = [streak EXCEPT !.length = k] BY <1>3, <1>5, <2>1
  <2>3. /\ streak' \in [side : Side \cup {"none"}, stage : Stage, length : Nat]
        /\ streak'.side = s /\ streak'.stage = stage /\ streak'.length = k
    BY <1>2, <1>5, <2>2
  <2>4. k >= Lower(n + 1, cfg.confirm) BY <1>1, <1>4, <2>1 DEF Lower
  <2> QED BY <2>3, <2>4 DEF StreakOK
<1>6. CASE ~(streak.side = s /\ streak.stage = stage)
  <2>1. n = 0 /\ streak' = [side |-> s, stage |-> stage, length |-> 1] BY <1>4, <1>6
  <2>2. 1 >= Lower(n + 1, cfg.confirm) /\ 1 \in Nat BY <1>1, <2>1 DEF Lower
  <2> QED BY <2>1, <2>2 DEF StreakOK, Stage
<1> QED BY <1>5, <1>6

LEMMA SignalThesis ==
  ASSUME TypeOK, StreakOK, CountInv, NEW p \in Price, NEW stage \in Stage, NEW a \in Advice,
         HandleSignal(p, stage, a)
  PROVE  ThesisOK' /\ StreakOK' /\ CountInv' /\ ThesisExitIsConfirmed' /\ decided' \in Trigger \ {"none"}
<1> DEFINE t == trade
           trigger == ExitTrigger(t, p, a)
           guard == IF t.age < cfg.minHold THEN [close |-> FALSE, state |-> thesis]
                    ELSE Guard(t, stage, thesis)
           Records == [side : Side, invalid : 0..(cfg.confirm - 1), degrading : 0..(cfg.confirm - 1)]
<1>1. /\ trade # NoTrade /\ trade'.side = trade.side /\ cfg' = cfg
      /\ trade.side \in Side /\ cfg \in Profile
      /\ trade.age \in Nat /\ cfg.minHold \in Nat /\ cfg.confirm \in Nat \ {0}
  <2>1. trade # NoTrade /\ trade'.side = trade.side /\ cfg' = cfg
    BY SignalFacts DEF HandleSignal
  <2> QED BY <2>1, TradeType DEF RowType, Profile
<1>2. PICK g : g = guard OBVIOUS
<1>3. /\ decided' = IF trigger # "none" THEN trigger ELSE IF g.close THEN "thesis_invalidated" ELSE "hold"
      /\ thesis' = IF decided' = "hold" THEN g.state ELSE NoThesis
      /\ streak' = IF ~Evaluated(t) THEN streak
                   ELSE IF stage = "valid" THEN NoStreak
                   ELSE IF streak.side = t.side /\ streak.stage = stage
                   THEN [streak EXCEPT !.length = Lower(@ + 1, cfg.confirm)]
                   ELSE [side |-> t.side, stage |-> stage, length |-> 1]
  BY <1>2 DEF HandleSignal
<1>4. trigger \in {"none", "stop_loss", "take_profit", "trailing_stop"} BY DEF ExitTrigger
<1>5. decided' \in Trigger \ {"none"} BY <1>3, <1>4 DEF Trigger
<1>6. decided' = "thesis_invalidated" => g.close BY <1>3, <1>4
<1> HIDE DEF trigger, guard
<1>7. thesis \in Records \cup {NoThesis} BY DEF TypeOK, ThesisOK
<1>8. NoStreak \in [side : Side \cup {"none"}, stage : Stage, length : Nat] BY DEF NoStreak, Stage
<1>9. NoThesis.invalid = 0 /\ NoThesis.degrading = 0 BY DEF NoThesis
<1>10. CASE t.age < cfg.minHold
  <2>1. g.close = FALSE /\ g.state = thesis BY <1>2, <1>10 DEF guard
  <2>2. streak' = streak BY <1>1, <1>3, <1>10 DEF Evaluated
  <2>3. thesis' \in {thesis, NoThesis} BY <1>3, <2>1
  <2>4. CountInv' BY <1>1, <1>9, <2>2, <2>3 DEF CountInv, Row
  <2>5. ThesisOK' BY <1>1, <1>7, <2>3 DEF ThesisOK
  <2> QED BY <1>5, <1>6, <2>1, <2>2, <2>4, <2>5 DEF StreakOK, ThesisExitIsConfirmed
<1>11. CASE t.age >= cfg.minHold /\ (~cfg.thesisExit \/ stage = "valid")
  <2>1. ~(t.age < cfg.minHold) BY <1>1, <1>11
  <2>2. g.close = FALSE /\ g.state = NoThesis BY <1>2, <1>11, <2>1 DEF guard, Guard
  <2>3. streak' \in {streak, NoStreak} BY <1>3, <1>11 DEF Evaluated
  <2>4. thesis' = NoThesis BY <1>3, <2>2
  <2>5. CountInv' BY <1>9, <2>4 DEF CountInv
  <2>6. StreakOK' BY <1>8, <2>3 DEF StreakOK
  <2> QED BY <1>5, <1>6, <2>2, <2>4, <2>5, <2>6 DEF ThesisOK, ThesisExitIsConfirmed
<1>12. CASE t.age >= cfg.minHold /\ cfg.thesisExit /\ stage # "valid"
  <2> DEFINE Fresh0 == [NoThesis EXCEPT !.side = t.side]
  <2>1. ~(t.age < cfg.minHold) /\ stage \in {"invalidated", "degrading_hard"}
    BY <1>1, <1>12 DEF Stage
  <2>2. PICK base : base = IF thesis.side = t.side THEN thesis ELSE Fresh0 OBVIOUS
  <2>3. PICK m \in Nat : m = cfg.confirm - 1 BY <1>1
  <2>4. base \in [side : {t.side}, invalid : 0 .. m, degrading : 0 .. m]
    <3>1. CASE thesis.side = t.side
      <4>1. thesis # NoThesis \/ thesis.side = "none" BY DEF NoThesis
      <4>2. t.side # "none" BY <1>1, ConstantsAssumption
      <4> QED BY <1>7, <2>2, <2>3, <3>1, <4>1, <4>2
    <3>2. CASE thesis.side # t.side BY <2>2, <2>3, <3>2 DEF NoThesis
    <3> QED BY <3>1, <3>2
  <2>5. base.invalid \in Nat /\ base.degrading \in Nat /\ Number(stage, base) \in Nat
    BY <2>4 DEF Number
  <2>6. Number(stage, base) > 0 => thesis.side = t.side /\ Number(stage, base) = Number(stage, thesis)
    <3>1. CASE thesis.side = t.side BY <2>2, <3>1
    <3>2. CASE thesis.side # t.side BY <2>2, <3>2 DEF NoThesis, Number
    <3> QED BY <3>1, <3>2
  <2>7. PICK n \in Nat : n = Number(stage, base) BY <2>5
  <2>8. /\ StreakOK' /\ streak'.side = t.side /\ streak'.stage = stage
        /\ streak'.length \in Nat /\ streak'.length >= Lower(n + 1, cfg.confirm)
    <3>1. streak' = IF streak.side = t.side /\ streak.stage = stage
                    THEN [streak EXCEPT !.length = Lower(@ + 1, cfg.confirm)]
                    ELSE [side |-> t.side, stage |-> stage, length |-> 1]
      BY <1>3, <1>12 DEF Evaluated
    <3> QED BY <1>1, <2>1, <2>6, <2>7, <3>1, RowGoesOn
  <2>9. PICK c : c = Counted(base, stage) OBVIOUS
  <2>10. /\ c.side = t.side /\ Number(stage, c) = n + 1
         /\ stage = "invalidated" => c.degrading = 0
         /\ stage = "degrading_hard" => c.invalid = 0
         /\ Confirmed(c, stage) <=> n + 1 >= Required(stage)
         /\ n + 1 < cfg.confirm => c \in Records
    BY <1>1, <2>1, <2>3, <2>4, <2>7, <2>9, CountedFacts
  <2>11. g = IF Confirmed(c, stage) THEN [close |-> TRUE, state |-> NoThesis]
             ELSE [close |-> FALSE, state |-> c]
    BY <1>2, <1>12, <2>1, <2>2, <2>9 DEF guard, Guard
  <2>12. Required(stage) \in Nat /\ 1 <= Required(stage) /\ Required(stage) <= cfg.confirm
    BY <1>1, RequiredFacts
  <2>13. n + 1 >= Required(stage) => streak'.length >= Required(stage)
    BY <1>1, <2>8, <2>12 DEF Lower
  <2>14. g.close => n + 1 >= Required(stage) BY <2>10, <2>11
  <2>15. ThesisExitIsConfirmed'
    <3>1. Required(stage)' = Required(stage) BY <1>1 DEF Required
    <3>2. PICK q : q = streak'.stage OBVIOUS
    <3>3. q = stage /\ Required(q)' = Required(stage) BY <2>8, <3>1, <3>2
    <3>4. decided' = "thesis_invalidated" => streak'.length >= Required(stage)
      BY <1>6, <2>13, <2>14
    <3> QED BY <1>1, <2>1, <2>8, <3>2, <3>3, <3>4 DEF ThesisExitIsConfirmed, Required
  <2>16. \/ thesis' = NoThesis
         \/ thesis' = c /\ n + 1 < cfg.confirm
    <3>1. CASE Confirmed(c, stage) BY <1>3, <2>11, <3>1
    <3>2. CASE ~Confirmed(c, stage)
      <4>1. n + 1 < cfg.confirm BY <1>1, <2>10, <2>12, <3>2
      <4> QED BY <1>3, <2>11, <3>2, <4>1
    <3> QED BY <3>1, <3>2
  <2>17. CountInv'
    <3>1. CASE thesis' = NoThesis BY <1>9, <3>1 DEF CountInv
    <3>2. CASE thesis' = c /\ n + 1 < cfg.confirm
      <4>1. CASE stage = "invalidated"
        BY <1>1, <2>8, <2>10, <3>2, <4>1 DEF CountInv, Row, Number, Lower
      <4>2. CASE stage = "degrading_hard"
        BY <1>1, <2>8, <2>10, <3>2, <4>2 DEF CountInv, Row, Number, Lower
      <4> QED BY <2>1, <4>1, <4>2
    <3> QED BY <2>16, <3>1, <3>2
  <2>18. ThesisOK' BY <1>1, <2>10, <2>16 DEF ThesisOK
  <2> QED BY <1>5, <2>8, <2>15, <2>17, <2>18
<1> QED BY <1>1, <1>10, <1>11, <1>12

(***************************************************************************)
(* Types, excursion and stops after a signal.                              *)
(***************************************************************************)
LEMMA ScaleInRange == Scale \in Price /\ Scale \in Nat \ {0} /\ Scale \in Int
BY ConstantsAssumption DEF Price

LEMMA HistoryTypes ==
  ASSUME TypeOK
  PROVE  /\ last \in Price /\ best \in Price /\ worst \in Price /\ armedBest \in Price
         /\ faults \in Nat /\ faults <= MaxFaults /\ MaxFaults \in Nat
BY ConstantsAssumption DEF TypeOK, Price

LEMMA SignalRow ==
  ASSUME TypeOK, TrailingInv, NEW p \in Price, NEW stage, NEW a \in Advice,
         HandleSignal(p, stage, a)
  PROVE  /\ TradeOK' /\ trade' # NoTrade /\ (trade.distance > 0 => trade.armed)'
         /\ trade'.peak \in Price /\ trade'.distance \in Nat
         /\ trade'.distance <= 100 * Widest /\ (trade'.armed => cfg.trailing)
<1>1. /\ trade # NoTrade /\ trade'.side = trade.side /\ trade'.age \in 0 .. cfg.minHold
      /\ trade' = [side |-> trade'.side, age |-> trade'.age, armed |-> trade'.armed,
                   peak |-> trade'.peak, distance |-> trade'.distance, mfe |-> trade'.mfe,
                   mae |-> trade'.mae]
      /\ OldExcursion \/ NewExcursion(p)
      /\ IF Stores(p, a) THEN OldTrailing \/ NewTrailing(p, a) ELSE OldTrailing
      /\ cfg' = cfg
  BY SignalFacts DEF HandleSignal
<1>2. /\ trade.side \in Side /\ trade.side \in {"Long", "Short"} /\ trade.armed \in BOOLEAN
      /\ trade.peak \in Price /\ trade.distance \in Nat /\ trade.mfe \in Nat /\ trade.mae \in Nat
      /\ cfg \in Profile
  BY <1>1, TradeType
<1>3. trade'.mfe \in Nat /\ trade'.mae \in Nat
  <2>1. Profit(trade.side, p) \in Int BY ProfitType
  <2> QED BY <1>1, <1>2, <2>1 DEF OldExcursion, NewExcursion, Higher
<1>4. /\ trade.distance <= 100 * Widest
      /\ trade.armed => cfg.trailing
      /\ trade.distance > 0 => trade.armed
  BY <1>1 DEF TrailingInv, TypeOK
<1>5. /\ trade'.armed \in BOOLEAN /\ trade'.peak \in Price /\ trade'.distance \in Nat
      /\ trade'.distance <= 100 * Widest
      /\ trade'.armed => cfg.trailing
      /\ trade'.distance > 0 => trade'.armed
  <2>1. CASE OldTrailing BY <1>2, <1>4, <2>1 DEF OldTrailing
  <2>2. CASE NewTrailing(p, a) /\ Stores(p, a)
    <3>1. Better(trade.side, trade.peak, p) \in Price BY <1>2, ProfitType
    <3>2. Distance(trade, p, a) \in Nat /\ Distance(trade, p, a) <= 100 * Widest
      <4>1. PICK t : t = trade OBVIOUS
      <4>2. t.distance \in Nat /\ t.distance <= 100 * Widest BY <1>2, <1>4, <4>1
      <4>3. Distance(t, p, a) \in Nat /\ Distance(t, p, a) <= 100 * Widest
        BY <1>2, <4>2, DistanceFacts
      <4> QED BY <4>1, <4>3
    <3>3. cfg.trailing BY <2>2 DEF Stores, Trails, Tracks
    <3> QED BY <2>2, <3>1, <3>2, <3>3 DEF NewTrailing
  <2> QED BY <1>1, <2>1, <2>2
<1>6. trade' \in [side : Side, age : 0 .. cfg.minHold, armed : BOOLEAN, peak : Price,
                  distance : Nat, mfe : Nat, mae : Nat]
  BY <1>1, <1>2, <1>3, <1>5
<1>7. TradeOK' BY <1>1, <1>6 DEF TradeOK, Price
<1>8. trade' # NoTrade
  <2>1. NoTrade.side = "none" BY DEF NoTrade
  <2> QED BY <1>1, <1>2, <2>1
<1>9. (trade.distance > 0 => trade.armed)' BY <1>5
<1> QED BY <1>5, <1>7, <1>8, <1>9

LEMMA SignalTypes ==
  ASSUME TypeOK, StreakOK, CountInv, TrailingInv, NEW p \in Price, NEW stage \in Stage,
         NEW a \in Advice, HandleSignal(p, stage, a)
  PROVE  TypeOK'
<1>1. TradeOK' /\ (trade.distance > 0 => trade.armed)' BY SignalRow
<1>2. ThesisOK' /\ StreakOK' /\ decided' \in Trigger BY SignalThesis
<1>3. cfg' = cfg /\ opens' = opens /\ restarts' = restarts BY DEF HandleSignal
<1>4. /\ last' \in {p, Scale} /\ best' = Better(trade.side, best, p)
      /\ worst' = Worse(trade.side, worst, p)
      /\ armedBest' \in {armedBest, Better(trade.side, armedBest, p)}
  BY DEF HandleSignal
<1>5. last' \in Price /\ best' \in Price /\ worst' \in Price /\ armedBest' \in Price
  <2>1. \A q \in Price : Better(trade.side, q, p) \in Price /\ Worse(trade.side, q, p) \in Price
    BY ProfitType
  <2> QED BY <1>4, <2>1, HistoryTypes, ScaleInRange
<1>6. faults' \in 0 .. MaxFaults
  <2>1. faults' = faults \/ (faults < MaxFaults /\ faults' = faults + 1) BY SignalFacts
  <2> QED BY <2>1, HistoryTypes
<1>7. (streak.length \in Nat)' BY <1>2 DEF StreakOK
<1> QED BY <1>1, <1>2, <1>3, <1>5, <1>6, <1>7 DEF TypeOK, Price

LEMMA SignalExcursion ==
  ASSUME TypeOK, ExcursionIsTruthful, NEW p \in Price, NEW stage, NEW a \in Advice,
         HandleSignal(p, stage, a)
  PROVE  ExcursionIsTruthful'
<1>1. /\ trade # NoTrade /\ trade'.side = trade.side
      /\ OldExcursion \/ NewExcursion(p)
      /\ (faults' = faults /\ NewExcursion(p)) \/ faults' = faults + 1
  BY SignalFacts
<1>2. PICK s : s = trade.side OBVIOUS
<1>3. /\ trade.mfe \in Nat /\ trade.mae \in Nat BY <1>1, TradeType
<1>4. best \in Price /\ worst \in Price /\ faults \in Nat BY HistoryTypes
<1>5. /\ best' = Better(s, best, p) /\ worst' = Worse(s, worst, p)
  BY <1>2 DEF HandleSignal
<1>6. PICK b \in Int, w \in Int, g \in Int :
        b = Profit(s, best) /\ w = - Profit(s, worst) /\ g = Profit(s, p)
  <2>1. Profit(s, best) \in Int /\ Profit(s, worst) \in Int /\ Profit(s, p) \in Int
    BY <1>4, ProfitType
  <2> QED BY <2>1
<1>7. Profit(s, best') = Higher(b, g) /\ - Profit(s, worst') = Higher(w, - g)
  BY <1>4, <1>5, <1>6, ProfitType
<1>8. trade.mfe <= b /\ trade.mae <= w /\ (faults = 0 => trade.mfe = b /\ trade.mae = w)
  BY <1>1, <1>2, <1>6 DEF ExcursionIsTruthful
<1>9. /\ OldExcursion => trade'.mfe = trade.mfe /\ trade'.mae = trade.mae
      /\ NewExcursion(p) => trade'.mfe = Higher(trade.mfe, g) /\ trade'.mae = Higher(trade.mae, - g)
  BY <1>2, <1>6 DEF OldExcursion, NewExcursion
<1>10. /\ trade'.mfe <= Higher(b, g) /\ trade'.mae <= Higher(w, - g)
  BY <1>1, <1>3, <1>6, <1>8, <1>9 DEF Higher
<1>11. faults' = 0 => trade'.mfe = Higher(b, g) /\ trade'.mae = Higher(w, - g)
  BY <1>1, <1>4, <1>8, <1>9
<1> QED BY <1>1, <1>2, <1>7, <1>10, <1>11 DEF ExcursionIsTruthful, Profit

(* A stored peak is behind the best price by less than the threshold.      *)
LEMMA StoredOrClose ==
  ASSUME TypeOK, NEW p \in Price, NEW a, trade # NoTrade, trade.armed,
         ~ShouldPersist(trade, Eval(trade, p, a)),
         NEW peak \in Price, peak = Better(trade.side, trade.peak, p)
  PROVE  /\ trade.side = "Long" => peak * Scale <= trade.peak * (Scale + cfg.threshold)
         /\ trade.side = "Short" => peak * Scale >= trade.peak * (Scale - cfg.threshold)
<1>1. /\ trade.peak \in Price /\ trade.side \in {"Long", "Short"} /\ cfg.threshold \in Nat
  BY TradeType DEF Profile
<1>2. PICK old \in Nat : old = trade.peak /\ old >= 1 BY <1>1, ScaleInRange DEF Price
<1>3. PICK th \in Nat, S \in Nat \ {0} : th = cfg.threshold /\ S = Scale BY <1>1, ScaleInRange
<1>4. peak \in Nat /\ p \in Nat BY ScaleInRange DEF Price
<1>5. Eval(trade, p, a).peak = peak BY DEF Eval
<1>6. PICK m \in Int : m = Profit(trade.side, peak) - Profit(trade.side, old)
  BY <1>1, <1>2, <1>3, <1>4 DEF Profit
<1>7. ~(m > 0 /\ m * S >= th * old) BY <1>2, <1>3, <1>5, <1>6 DEF ShouldPersist
<1>8. old * th = th * old /\ old * th >= 0
  <2>1. 0 * th <= old * th BY <1>2, <1>3, TimesOrder
  <2> QED BY <1>2, <1>3, <2>1
<1>9. old * (S + th) = old * S + old * th /\ old * (S - th) = old * S - old * th
  BY <1>2, <1>3
<1>10. CASE trade.side = "Long"
  <2>1. m = peak - old /\ old <= peak
    BY <1>2, <1>3, <1>4, <1>6, <1>10 DEF Profit, Better, Higher
  <2>2. peak * S = old * S + m * S BY <1>2, <1>3, <1>4, <2>1
  <2>3. m * S <= th * old
    <3>1. CASE m = 0
      <4>1. 0 * S = 0 BY <1>3
      <4> QED BY <1>8, <3>1, <4>1
    <3>2. CASE m > 0 BY <1>2, <1>3, <1>6, <1>7, <3>2
    <3> QED BY <1>2, <1>4, <1>6, <2>1, <3>1, <3>2
  <2> QED BY <1>2, <1>3, <1>6, <1>8, <1>9, <1>10, <2>2, <2>3
<1>11. CASE trade.side = "Short"
  <2>1. m = old - peak /\ old >= peak
    BY <1>2, <1>3, <1>4, <1>6, <1>11 DEF Profit, Better, Lower
  <2>2. peak * S = old * S - m * S BY <1>2, <1>3, <1>4, <2>1
  <2>3. m * S <= th * old
    <3>1. CASE m = 0
      <4>1. 0 * S = 0 BY <1>3
      <4> QED BY <1>8, <3>1, <4>1
    <3>2. CASE m > 0 BY <1>2, <1>3, <1>6, <1>7, <3>2
    <3> QED BY <1>2, <1>4, <1>6, <2>1, <3>1, <3>2
  <2> QED BY <1>2, <1>3, <1>6, <1>8, <1>9, <1>11, <2>2, <2>3
<1> QED BY <1>1, <1>10, <1>11

LEMMA BehindLong ==
  ASSUME NEW old \in Nat, NEW top \in Nat, NEW p \in Nat, NEW th \in Nat,
         top * Scale <= old * (Scale + th)
  PROVE  /\ Higher(top, p) * Scale <= Higher(old, p) * (Scale + th)
         /\ Higher(old, p) * Scale <= old * (Scale + th) =>
              Higher(top, p) * Scale <= old * (Scale + th)
<1>1. PICK S \in Nat : S = Scale BY ScaleInRange
<1>2. PICK u \in Nat : u = S + th /\ S <= u BY <1>1
<1>3. PICK peak \in Nat : peak = Higher(old, p) /\ old <= peak /\ p <= peak BY DEF Higher
<1>4. old * u <= peak * u /\ p * S <= peak * S /\ peak * S <= peak * u
  <2>1. S * peak <= u * peak BY <1>1, <1>2, <1>3, TimesOrder
  <2> QED BY <1>1, <1>2, <1>3, <2>1, TimesOrder
<1>5. top * S \in Nat /\ p * S \in Nat /\ peak * S \in Nat /\ old * u \in Nat /\ peak * u \in Nat
  BY <1>1, <1>2, <1>3
<1>6. PICK t \in {top, p} : t = Higher(top, p) BY DEF Higher
<1>7. top * S <= old * u BY <1>1, <1>2
<1>8. t * S <= peak * u BY <1>4, <1>5, <1>6, <1>7
<1>9. peak * S <= old * u => t * S <= old * u BY <1>4, <1>5, <1>6, <1>7
<1> QED BY <1>1, <1>2, <1>3, <1>6, <1>8, <1>9

LEMMA BehindShort ==
  ASSUME NEW old \in Nat, NEW top \in Nat, NEW p \in Nat, NEW th \in Nat,
         top * Scale >= old * (Scale - th)
  PROVE  /\ Lower(top, p) * Scale >= Lower(old, p) * (Scale - th)
         /\ Lower(old, p) * Scale >= old * (Scale - th) =>
              Lower(top, p) * Scale >= old * (Scale - th)
<1>1. PICK S \in Nat : S = Scale BY ScaleInRange
<1>2. PICK u \in Int : u = S - th /\ u <= S BY <1>1
<1>3. PICK peak \in Nat : peak = Lower(old, p) /\ peak <= old /\ peak <= p BY DEF Lower
<1>4. /\ top * S \in Nat /\ p * S \in Nat /\ peak * S \in Nat /\ old * u \in Int /\ peak * u \in Int
  BY <1>1, <1>2, <1>3
<1>5. peak * S <= p * S /\ peak * u <= peak * S
  <2>1. u * peak <= S * peak BY <1>1, <1>2, <1>3, TimesOrder
  <2>2. u * peak = peak * u /\ S * peak = peak * S BY <1>1, <1>2, <1>3
  <2>3. peak * S <= p * S BY <1>1, <1>3, TimesOrder
  <2> QED BY <2>1, <2>2, <2>3
<1>6. PICK t \in {top, p} : t = Lower(top, p) BY DEF Lower
<1>7. top * S >= old * u BY <1>1, <1>2
<1>8. peak * u <= top * S
  <2>1. CASE u >= 0
    <3>1. peak * u <= old * u BY <1>2, <1>3, <2>1, TimesOrder
    <3> QED BY <1>4, <1>7, <3>1
  <2>2. CASE u < 0
    <3>1. u * peak <= 0 * peak BY <1>2, <1>3, <2>2, TimesOrder
    <3>2. u * peak = peak * u /\ 0 * peak = 0 BY <1>2, <1>3
    <3> QED BY <1>4, <3>1, <3>2
  <2> QED BY <1>2, <2>1, <2>2
<1>9. t * S >= peak * u BY <1>4, <1>5, <1>6, <1>8
<1>10. peak * S >= old * u => t * S >= old * u BY <1>4, <1>5, <1>6, <1>7
<1> QED BY <1>1, <1>2, <1>3, <1>6, <1>9, <1>10

(* The best price since arming is not far from the peak that the stop is    *)
(* computed from, nor from the one that is stored.                          *)
PeakLag(side, top, peak) ==
  IF side = "Long" THEN top * Scale <= peak * (Scale + cfg.threshold)
                   ELSE top * Scale >= peak * (Scale - cfg.threshold)

LEMMA TrailingLag ==
  ASSUME TypeOK, TrailingInv, NEW p \in Price, NEW a \in Advice, trade # NoTrade, faults = 0,
         Trails(trade, p, a),
         NEW top, top = Better(trade.side, armedBest, p),
         NEW peak, peak = Better(trade.side, trade.peak, p)
  PROVE  /\ PeakLag(trade.side, top, peak)
         /\ ~Stores(p, a) => PeakLag(trade.side, top, trade.peak)
<1>1. /\ trade.side \in {"Long", "Short"} /\ trade.peak \in Price /\ cfg.threshold \in Nat
  BY TradeType DEF Profile
<1>2. armedBest \in Nat /\ p \in Nat /\ trade.peak \in Nat /\ peak \in Price
  <2>1. peak \in Price BY <1>1, ProfitType
  <2> QED BY <1>1, <2>1, HistoryTypes, ScaleInRange DEF Price
<1>3. PICK o \in Nat, t0 \in Nat : o = trade.peak /\ t0 = armedBest BY <1>2
<1>4. PeakLag(trade.side, t0, o) BY <1>3 DEF TrailingInv, Lag, PeakLag
<1>5. ~Stores(p, a) => trade.armed /\ ~ShouldPersist(trade, Eval(trade, p, a))
  BY DEF Stores, ShouldPersist
<1>6. CASE trade.side = "Long"
  <2>1. top = Higher(t0, p) /\ peak = Higher(o, p) BY <1>3, <1>6 DEF Better
  <2>2. /\ top * Scale <= peak * (Scale + cfg.threshold)
        /\ peak * Scale <= o * (Scale + cfg.threshold) => top * Scale <= o * (Scale + cfg.threshold)
    BY <1>1, <1>2, <1>3, <1>4, <1>6, <2>1, BehindLong DEF PeakLag
  <2>3. ~Stores(p, a) => peak * Scale <= o * (Scale + cfg.threshold)
    BY <1>2, <1>3, <1>5, <1>6, StoredOrClose
  <2> QED BY <1>3, <1>6, <2>2, <2>3 DEF PeakLag
<1>7. CASE trade.side = "Short"
  <2>1. top = Lower(t0, p) /\ peak = Lower(o, p) BY <1>3, <1>7 DEF Better
  <2>2. /\ top * Scale >= peak * (Scale - cfg.threshold)
        /\ peak * Scale >= o * (Scale - cfg.threshold) => top * Scale >= o * (Scale - cfg.threshold)
    BY <1>1, <1>2, <1>3, <1>4, <1>7, <2>1, BehindShort DEF PeakLag
  <2>3. ~Stores(p, a) => peak * Scale >= o * (Scale - cfg.threshold)
    BY <1>2, <1>3, <1>5, <1>7, StoredOrClose
  <2> QED BY <1>3, <1>7, <2>2, <2>3 DEF PeakLag
<1> QED BY <1>1, <1>6, <1>7

LEMMA SignalLag ==
  ASSUME TypeOK, TrailingInv, NEW p \in Price, NEW stage, NEW a \in Advice,
         HandleSignal(p, stage, a)
  PROVE  TrailingInv'
<1>1. /\ trade'.distance <= 100 * Widest /\ (trade'.armed => cfg.trailing) /\ trade # NoTrade
      /\ trade'.side = trade.side /\ cfg' = cfg
      /\ armedBest' = IF Trails(trade, p, a) THEN Better(trade.side, armedBest, p) ELSE armedBest
      /\ IF Stores(p, a) THEN OldTrailing \/ NewTrailing(p, a) ELSE OldTrailing
      /\ \/ faults' = faults /\ (Stores(p, a) => NewTrailing(p, a))
         \/ faults' = faults + 1
  BY SignalFacts, SignalRow DEF HandleSignal
<1>2. Widest' = Widest BY <1>1 DEF Widest
<1>3. ASSUME faults' = 0 PROVE PeakLag(trade.side, armedBest', trade'.peak)
  <2>1. faults = 0 /\ (Stores(p, a) => NewTrailing(p, a)) BY <1>1, <1>3, HistoryTypes
  <2>2. CASE Trails(trade, p, a)
    <3>1. PICK top, peak : /\ top = Better(trade.side, armedBest, p)
                           /\ peak = Better(trade.side, trade.peak, p)
      OBVIOUS
    <3>2. /\ PeakLag(trade.side, top, peak)
          /\ ~Stores(p, a) => PeakLag(trade.side, top, trade.peak)
      BY <1>1, <2>1, <2>2, <3>1, TrailingLag
    <3>3. armedBest' = top BY <1>1, <2>2, <3>1
    <3>4. CASE Stores(p, a)
      <4>1. trade'.peak = peak BY <2>1, <3>1, <3>4 DEF NewTrailing
      <4> QED BY <3>2, <3>3, <4>1
    <3>5. CASE ~Stores(p, a)
      <4>1. trade'.peak = trade.peak BY <1>1, <3>5 DEF OldTrailing
      <4> QED BY <3>2, <3>3, <3>5, <4>1
    <3> QED BY <3>4, <3>5
  <2>3. CASE ~Trails(trade, p, a)
    <3>1. trade'.peak = trade.peak /\ armedBest' = armedBest
      BY <1>1, <2>3 DEF Stores, OldTrailing
    <3> QED BY <1>1, <2>1, <3>1 DEF TrailingInv, Lag, PeakLag
  <2> QED BY <2>2, <2>3
<1>4. faults' = 0 => Lag' BY <1>1, <1>3 DEF Lag, PeakLag
<1> QED BY <1>1, <1>2, <1>4 DEF TrailingInv

LEMMA NotHit ==
  ASSUME TypeOK, TrailingInv, NEW p \in Price, NEW a \in Advice, trade # NoTrade,
         ~Eval(trade, p, a).hit, NEW peak, peak = Better(trade.side, trade.peak, p)
  PROVE  IF trade.side = "Long" THEN p * Scale > peak * (Scale - Widest)
                                ELSE p * Scale < peak * (Scale + Widest)
<1>1. /\ trade.side \in {"Long", "Short"} /\ trade.peak \in Price /\ trade.distance \in Nat
      /\ cfg \in Profile /\ trade.distance <= 100 * Widest
  BY TradeType DEF TrailingInv
<1>2. peak \in Price BY <1>1, ProfitType
<1>3. PICK q \in Nat, b \in Nat, S \in Nat \ {0} : q = p /\ b = peak /\ S = Scale
  BY <1>2, ScaleInRange DEF Price
<1>4. PICK w \in Nat : w = Widest BY <1>1, WidestFacts
<1>5. PICK d \in Nat : d = Distance(trade, p, a) /\ d <= 100 * w
  <2>1. PICK t : t = trade OBVIOUS
  <2>2. t.distance \in Nat /\ t.distance <= 100 * Widest BY <1>1, <2>1
  <2>3. Distance(t, p, a) \in Nat /\ Distance(t, p, a) <= 100 * Widest
    BY <1>1, <2>2, DistanceFacts
  <2> QED BY <1>4, <2>1, <2>3
<1>6. ~Hit(trade, p, a, b, d) BY <1>3, <1>5 DEF Eval
<1>7. CASE trade.side = "Long"
  <2>1. ~(q * (100 * S) <= b * (100 * S - d)) BY <1>3, <1>6, <1>7 DEF Hit
  <2>2. PICK x \in Int, y \in Int : x = 100 * S - d /\ y = S - w /\ 100 * y <= x
    BY <1>3, <1>4, <1>5
  <2>3. (100 * y) * b <= x * b BY <1>3, <2>2, TimesOrder
  <2>4. (100 * y) * b = 100 * (b * y) /\ x * b = b * x /\ q * (100 * S) = 100 * (q * S)
    BY <1>3, <2>2
  <2>5. b * x < q * (100 * S) BY <1>3, <2>1, <2>2
  <2>6. 100 * (b * y) < 100 * (q * S) BY <1>3, <2>2, <2>3, <2>4, <2>5
  <2> QED BY <1>3, <1>4, <1>7, <2>2, <2>6
<1>8. CASE trade.side = "Short"
  <2>1. ~(q * (100 * S) >= b * (100 * S + d)) BY <1>3, <1>6, <1>8 DEF Hit
  <2>2. PICK x \in Int, y \in Int : x = 100 * S + d /\ y = S + w /\ 100 * y >= x
    BY <1>3, <1>4, <1>5
  <2>3. x * b <= (100 * y) * b BY <1>3, <2>2, TimesOrder
  <2>4. (100 * y) * b = 100 * (b * y) /\ x * b = b * x /\ q * (100 * S) = 100 * (q * S)
    BY <1>3, <2>2
  <2>5. b * x > q * (100 * S) BY <1>3, <2>1, <2>2
  <2>6. 100 * (b * y) > 100 * (q * S) BY <1>3, <2>2, <2>3, <2>4, <2>5
  <2> QED BY <1>3, <1>4, <1>8, <2>2, <2>6
<1> QED BY <1>1, <1>7, <1>8

LEMMA SignalHeld ==
  ASSUME TypeOK, TrailingInv, NEW p \in Price, NEW stage, NEW a \in Advice,
         HandleSignal(p, stage, a)
  PROVE  HeldWithinStops'
<1> SUFFICES ASSUME Held'
             PROVE  /\ (Profit(trade.side, last) > - cfg.stopLoss)'
                    /\ (trade.armed /\ faults = 0 => GivesBackLittle)'
  BY DEF HeldWithinStops
<1>1. /\ decided' = "hold" /\ trade # NoTrade /\ trade'.side = trade.side /\ cfg' = cfg /\ last' = p
      /\ armedBest' = IF Trails(trade, p, a) THEN Better(trade.side, armedBest, p) ELSE armedBest
      /\ IF Stores(p, a) THEN OldTrailing \/ NewTrailing(p, a) ELSE OldTrailing
      /\ faults' = faults \/ faults' = faults + 1
  BY SignalFacts DEF HandleSignal, Held
<1>2. ExitTrigger(trade, p, a) = "none"
  <2>1. ExitTrigger(trade, p, a) \in {"none", "stop_loss", "take_profit", "trailing_stop"}
    BY DEF ExitTrigger
  <2>2. ExitTrigger(trade, p, a) # "none" => decided' = ExitTrigger(trade, p, a)
    BY DEF HandleSignal
  <2> QED BY <1>1, <2>1, <2>2
<1>3. /\ ~StopLossHit(trade, p) /\ ~TargetHit(trade, p)
      /\ ~(Tracks(trade, p, a) /\ Eval(trade, p, a).hit)
  BY <1>2 DEF ExitTrigger
<1>4. /\ trade.side \in {"Long", "Short"} /\ cfg.stopLoss \in Nat /\ trade.peak \in Price
      /\ cfg \in Profile /\ cfg.threshold \in Nat
  BY <1>1, TradeType DEF Profile
<1>5. Profit(trade.side, p) > - cfg.stopLoss
  <2>1. Profit(trade.side, p) \in Int BY ProfitType
  <2> QED BY <1>3, <1>4, <2>1 DEF StopLossHit
<1>6. ASSUME trade'.armed, faults' = 0 PROVE GivesBackLittle'
  <2>1. faults = 0 BY <1>1, <1>6, HistoryTypes
  <2>2. Trails(trade, p, a)
    <3>1. CASE trade.armed
      BY <1>1, <1>3, <3>1 DEF TrailingInv, Trails, Tracks, Arms
    <3>2. CASE ~trade.armed BY <1>1, <1>6, <3>2 DEF OldTrailing, Stores
    <3> QED BY <3>1, <3>2
  <2>3. ~Eval(trade, p, a).hit BY <1>3, <2>2 DEF Trails
  <2>4. PICK top, peak : /\ top = Better(trade.side, armedBest, p)
                         /\ peak = Better(trade.side, trade.peak, p)
    OBVIOUS
  <2>5. armedBest' = top BY <1>1, <2>2, <2>4
  <2>6. top \in Nat /\ top > 0 /\ peak \in Nat /\ p \in Nat /\ p > 0
    <3>1. top \in Price /\ peak \in Price BY <1>4, <2>4, HistoryTypes, ProfitType
    <3> QED BY <3>1, ScaleInRange DEF Price
  <2>7. PeakLag(trade.side, top, peak) BY <1>1, <2>1, <2>2, <2>4, TrailingLag
  <2>8. IF trade.side = "Long" THEN p * Scale > peak * (Scale - Widest)
                               ELSE p * Scale < peak * (Scale + Widest)
    BY <1>1, <2>3, <2>4, NotHit
  <2>9. Widest \in Nat /\ Widest' = Widest BY <1>1, <1>4, WidestFacts DEF Widest
  <2>10. CASE trade.side = "Long"
    <3>1. p * (Scale + cfg.threshold) > top * (Scale - Widest)
      BY <1>4, <2>6, <2>7, <2>8, <2>9, <2>10, GivenBackLong, ScaleInRange DEF PeakLag
    <3> QED BY <1>1, <2>5, <2>9, <2>10, <3>1 DEF GivesBackLittle
  <2>11. CASE trade.side = "Short"
    <3>1. p * (Scale - cfg.threshold) < top * (Scale + Widest)
      BY <1>4, <2>6, <2>7, <2>8, <2>9, <2>11, GivenBackShort, ScaleInRange DEF PeakLag
    <3> QED BY <1>1, <2>5, <2>9, <2>11, <3>1 DEF GivesBackLittle
  <2> QED BY <1>4, <2>10, <2>11
<1> QED BY <1>1, <1>5, <1>6 DEF Profit

(***************************************************************************)
(* The other steps, and the theorems.                                      *)
(***************************************************************************)
LEMMA StopLossType ==
  ASSUME TypeOK
  PROVE  cfg \in Profile /\ cfg.stopLoss \in Nat /\ cfg.minHold \in Nat
         /\ cfg.threshold \in Nat /\ cfg.confirm \in Nat \ {0}
BY ConstantsAssumption DEF TypeOK, Profile

LEMMA SignalStep ==
  ASSUME ExitsInv, NEW p \in Price, NEW stage \in Stage, NEW a \in Advice,
         HandleSignal(p, stage, a)
  PROVE  ExitsInv'
<1>1. TypeOK /\ StreakOK /\ CountInv /\ TrailingInv /\ ExcursionIsTruthful BY DEF ExitsInv
<1>2. TypeOK' BY <1>1, SignalTypes
<1>3. StreakOK' /\ CountInv' /\ ThesisExitIsConfirmed' BY <1>1, SignalThesis
<1>4. TrailingInv' /\ HeldWithinStops' BY <1>1, SignalLag, SignalHeld
<1>5. ExcursionIsTruthful' BY <1>1, SignalExcursion
<1>6. Untouched' BY <1>1, SignalRow DEF Untouched
<1> QED BY <1>2, <1>3, <1>4, <1>5, <1>6 DEF ExitsInv

LEMMA OpenStep ==
  ASSUME ExitsInv, NEW side \in Side, OpenTrade(side) PROVE ExitsInv'
<1>1. /\ trade = NoTrade /\ trade' = Opened(side) /\ opens' = opens + 1 /\ opens < MaxOpens
      /\ cfg' = cfg /\ thesis' = thesis /\ decided' = decided /\ faults' = faults
      /\ restarts' = restarts /\ last' = last /\ best' = best /\ worst' = worst
      /\ armedBest' = armedBest /\ streak' = streak
  BY DEF OpenTrade, history
<1>2. trade' = [side |-> side, age |-> 0, armed |-> FALSE, peak |-> Scale, distance |-> 0,
                mfe |-> 0, mae |-> 0]
  BY <1>1 DEF Opened, NoTrade
<1>3. /\ TypeOK /\ StreakOK /\ CountInv
      /\ decided = "none" /\ last = Scale /\ best = Scale /\ worst = Scale /\ armedBest = Scale
  BY <1>1 DEF ExitsInv, Untouched
<1>4. /\ trade'.side = side /\ trade'.armed = FALSE /\ trade'.peak = Scale /\ trade'.distance = 0
      /\ trade'.mfe = 0 /\ trade'.mae = 0 /\ trade' # NoTrade
  <2>1. side # "none" BY ConstantsAssumption
  <2>2. NoTrade.side = "none" BY DEF NoTrade
  <2> QED BY <1>2, <2>1, <2>2
<1>5. TypeOK'
  <2>1. TradeOK'
    <3>1. 0 \in 0 .. cfg.minHold BY <1>3, StopLossType
    <3>2. trade' \in [side : Side, age : 0 .. cfg.minHold, armed : BOOLEAN, peak : Price,
                      distance : Nat, mfe : Nat, mae : Nat]
      BY <1>2, <3>1, ScaleInRange
    <3> QED BY <1>1, <3>2 DEF TradeOK, Price
  <2>2. ThesisOK' BY <1>1, <1>3 DEF TypeOK, ThesisOK
  <2>3. (opens \in 0 .. MaxOpens)' BY <1>1, <1>3, ConstantsAssumption DEF TypeOK
  <2>4. (trade.distance > 0 => trade.armed)' BY <1>4
  <2> QED BY <1>1, <1>3, <2>1, <2>2, <2>3, <2>4 DEF TypeOK
<1>6. StreakOK' /\ CountInv' BY <1>1, <1>3 DEF StreakOK, CountInv, Row
<1>7. Untouched' BY <1>4 DEF Untouched
<1>8. Lag'
  <2>1. PICK S \in Nat, th \in Nat : S = Scale /\ th = cfg.threshold
    BY <1>3, StopLossType, ScaleInRange
  <2>2. S * S <= S * (S + th) /\ S * S >= S * (S - th)
    <3>1. S * S <= (S + th) * S /\ (S - th) * S <= S * S BY <2>1, TimesOrder
    <3> QED BY <2>1, <3>1
  <2> QED BY <1>1, <1>3, <1>4, <2>1, <2>2 DEF Lag
<1>9. TrailingInv'
  <2>1. Widest' = Widest /\ Widest \in Nat BY <1>1, <1>3, StopLossType, WidestFacts DEF Widest
  <2> QED BY <1>4, <1>8, <2>1 DEF TrailingInv
<1>10. HeldWithinStops' /\ ThesisExitIsConfirmed'
  BY <1>1, <1>3 DEF HeldWithinStops, Held, ThesisExitIsConfirmed
<1>11. ExcursionIsTruthful'
  BY <1>1, <1>3, <1>4, ScaleInRange DEF ExcursionIsTruthful, Profit
<1> QED BY <1>5, <1>6, <1>7, <1>9, <1>10, <1>11 DEF ExitsInv

LEMMA CloseStep ==
  ASSUME ExitsInv, CloseTrade PROVE ExitsInv'
<1>1. /\ trade' = NoTrade /\ decided' = "none" /\ last' = Scale /\ best' = Scale
      /\ worst' = Scale /\ armedBest' = Scale /\ cfg' = cfg /\ thesis' = thesis
      /\ streak' = streak /\ opens' = opens /\ faults' = faults /\ restarts' = restarts
  BY DEF CloseTrade, Fresh, bounds
<1>2. TypeOK /\ StreakOK /\ CountInv BY DEF ExitsInv
<1>3. TypeOK'
  <2>1. NoTrade.distance = 0 BY DEF NoTrade
  <2>2. Scale \in 1 .. (2 * Scale - 1) BY ScaleInRange DEF Price
  <2>3. ThesisOK' /\ TradeOK' BY <1>1, <1>2 DEF TypeOK, ThesisOK, TradeOK
  <2>4. (trade.distance > 0 => trade.armed)' BY <1>1, <2>1
  <2> QED BY <1>1, <1>2, <2>2, <2>3, <2>4 DEF TypeOK, Trigger
<1>4. StreakOK' /\ CountInv' BY <1>1, <1>2 DEF StreakOK, CountInv, Row
<1>5. Untouched' /\ TrailingInv' BY <1>1 DEF Untouched, TrailingInv
<1>6. HeldWithinStops' /\ ThesisExitIsConfirmed' /\ ExcursionIsTruthful'
  BY <1>1 DEF HeldWithinStops, Held, ThesisExitIsConfirmed, ExcursionIsTruthful
<1> QED BY <1>3, <1>4, <1>5, <1>6 DEF ExitsInv

(* A restart, or a signal without a trade: the guard's count is forgotten.  *)
LEMMA ForgetStep ==
  ASSUME ExitsInv, SignalWithoutTrade \/ Restart PROVE ExitsInv'
<1>1. /\ thesis' = NoThesis /\ restarts' \in 0 .. MaxRestarts
      /\ UNCHANGED <<cfg, trade, decided, history, opens, faults>>
  BY ConstantsAssumption DEF SignalWithoutTrade, Restart, ExitsInv, TypeOK, bounds
<1>2. TypeOK' BY <1>1 DEF ExitsInv, TypeOK, ThesisOK, TradeOK, history
<1>3. CountInv' BY <1>1 DEF CountInv, NoThesis
<1>4. Widest' = Widest BY <1>1 DEF Widest
<1>5. TrailingInv' BY <1>1, <1>4 DEF ExitsInv, TrailingInv, Lag, history
<1>6. /\ StreakOK' /\ Untouched' /\ HeldWithinStops' /\ ExcursionIsTruthful'
      /\ ThesisExitIsConfirmed'
  BY <1>1, <1>4 DEF ExitsInv, StreakOK, Untouched, HeldWithinStops, Held, GivesBackLittle,
     ExcursionIsTruthful, ThesisExitIsConfirmed, Required, Profit, history
<1> QED BY <1>2, <1>3, <1>5, <1>6 DEF ExitsInv

LEMMA ExitsStart == Init => ExitsInv
<1> SUFFICES ASSUME Init PROVE ExitsInv OBVIOUS
<1>1. /\ cfg \in Configs /\ trade = NoTrade /\ thesis = NoThesis /\ decided = "none"
      /\ last = Scale /\ best = Scale /\ worst = Scale /\ armedBest = Scale
      /\ streak = NoStreak /\ opens = 0 /\ faults = 0 /\ restarts = 0
  BY DEF Init
<1>2. TypeOK
  <2>1. NoTrade.distance = 0 BY DEF NoTrade
  <2>2. Scale \in 1 .. (2 * Scale - 1) BY ScaleInRange DEF Price
  <2>3. NoStreak.length \in Nat BY DEF NoStreak
  <2> QED BY <1>1, <2>1, <2>2, <2>3, ConstantsAssumption
        DEF TypeOK, ThesisOK, TradeOK, Trigger
<1>3. StreakOK BY <1>1 DEF StreakOK, NoStreak, Stage
<1>4. CountInv BY <1>1 DEF CountInv, NoThesis
<1> QED BY <1>1, <1>2, <1>3, <1>4 DEF ExitsInv, Untouched, TrailingInv, HeldWithinStops, Held,
       ExcursionIsTruthful, ThesisExitIsConfirmed

LEMMA ExitsStep == ExitsInv /\ [Next]_vars => ExitsInv'
<1> SUFFICES ASSUME ExitsInv, [Next]_vars PROVE ExitsInv' OBVIOUS
<1>1. CASE UNCHANGED vars
  <2>1. Widest' = Widest BY <1>1 DEF Widest, vars
  <2> QED BY <1>1, <2>1 DEF vars, history, bounds, ExitsInv, TypeOK, TradeOK, ThesisOK, StreakOK,
        Untouched, TrailingInv, Lag, CountInv, Row, HeldWithinStops, Held, GivesBackLittle,
        ExcursionIsTruthful, ThesisExitIsConfirmed, Required, Profit
<1>2. ASSUME NEW side \in Side, OpenTrade(side) PROVE ExitsInv' BY <1>2, OpenStep
<1>3. ASSUME NEW move \in Moves, NEW stage \in Stages, NEW a \in Advices,
             HandleSignal(PriceAt(trade.side, move), stage, a)
      PROVE  ExitsInv'
  <2>1. stage \in Stage /\ a \in Advice BY DEF Stages, Advices, Stage, Advice
  <2>2. PICK p \in Price : p = PriceAt(trade.side, move) BY PriceInRange
  <2> QED BY <1>3, <2>1, <2>2, SignalStep
<1> QED BY <1>1, <1>2, <1>3, CloseStep, ForgetStep DEF Next

LEMMA ExitsInvariance == Spec => []ExitsInv
BY ExitsStart, ExitsStep, PTL DEF Spec

\* The columns of a trade and everything the strategy remembers of it keep
\* their types, and a distance is stored only once the trailing stop is armed.
THEOREM ExitTypes == Spec => []TypeOK
<1>1. ExitsInv => TypeOK BY DEF ExitsInv
<1> QED BY <1>1, ExitsInvariance, PTL

\* Whatever profile, prices, advices, failing UPDATEs and restarts: a trade that
\* is held is above its hard stop, and what it gives back of the best price
\* since it armed is bounded by the widest distance and the threshold.
THEOREM StopsHold == Spec => []HeldWithinStops
<1>1. ExitsInv => HeldWithinStops BY DEF ExitsInv
<1> QED BY <1>1, ExitsInvariance, PTL

\* The excursion in the row never exceeds that of the trade, and is exactly it
\* as long as no UPDATE fails.
THEOREM ExcursionHolds == Spec => []ExcursionIsTruthful
<1>1. ExitsInv => ExcursionIsTruthful BY DEF ExitsInv
<1> QED BY <1>1, ExitsInvariance, PTL

\* However the stages alternate, a thesis exit was confirmed by as many signals
\* in a row as the profile asks for.
THEOREM ThesisIsConfirmed == Spec => []ThesisExitIsConfirmed
<1>1. ExitsInv => ThesisExitIsConfirmed BY DEF ExitsInv
<1> QED BY <1>1, ExitsInvariance, PTL

(***************************************************************************)
(* The backtest.  As long as it is comparable its snapshot is the row of   *)
(* the trade, but for the age and the excursion, which it does not look    *)
(* at, and it has counted for the thesis what live has counted.            *)
(***************************************************************************)
Snapshot == [side |-> trade.side, age |-> 0, armed |-> trade.armed, peak |-> trade.peak,
             distance |-> trade.distance, mfe |-> 0, mae |-> 0]

ReplayInv ==
  /\ comparable => Replayable
  /\ sim = NoTrade => simThesis = NoThesis
  /\ sim # NoTrade => comparable /\ trade # NoTrade /\ sim = Snapshot /\ simThesis = thesis

SameExit(s, t) == s.side = t.side /\ s.armed = t.armed /\ s.peak = t.peak
                  /\ s.distance = t.distance

LEMMA SameTrigger ==
  ASSUME NEW s, NEW t, SameExit(s, t), NEW p
  PROVE  /\ ExitTrigger(s, p, "hold") = ExitTrigger(t, p, "hold")
         /\ Trails(s, p, "hold") = Trails(t, p, "hold")
         /\ Eval(s, p, "hold") = Eval(t, p, "hold")
<1>1. s.side = t.side /\ s.armed = t.armed /\ s.peak = t.peak /\ s.distance = t.distance
  BY DEF SameExit
<1>2. Profit(s.side, p) = Profit(t.side, p) BY <1>1
<1>3. StopLossHit(s, p) = StopLossHit(t, p) /\ TargetHit(s, p) = TargetHit(t, p)
  BY <1>2 DEF StopLossHit, TargetHit
<1>4. Tracks(s, p, "hold") = Tracks(t, p, "hold") BY <1>1, <1>2 DEF Tracks, Arms
<1>5. Reached(s, p, "hold") = Reached(t, p, "hold") BY <1>2 DEF Reached
<1>6. Distance(s, p, "hold") = Distance(t, p, "hold") BY <1>1, <1>5 DEF Distance
<1>7. \A peak, distance : Hit(s, p, "hold", peak, distance) = Hit(t, p, "hold", peak, distance)
  BY <1>1, <1>2 DEF Hit
<1>8. Eval(s, p, "hold") = Eval(t, p, "hold") BY <1>1, <1>6, <1>7, Zenon DEF Eval
<1>9. Trails(s, p, "hold") = Trails(t, p, "hold") BY <1>3, <1>4, Zenon DEF Trails
<1> QED BY <1>3, <1>4, <1>8, <1>9, Zenon DEF ExitTrigger

(* A threshold of nothing stores every new peak.                            *)
LEMMA EveryPeakIsStored ==
  ASSUME TypeOK, cfg.threshold = 0, trade # NoTrade, NEW p \in Price, NEW a,
         ~ShouldPersist(trade, Eval(trade, p, a))
  PROVE  /\ trade.armed = TRUE /\ trade.peak = Better(trade.side, trade.peak, p)
         /\ trade.distance = Distance(trade, p, a)
<1>1. /\ trade.peak \in Price /\ trade.side \in {"Long", "Short"} /\ trade.armed \in BOOLEAN
  BY TradeType
<1>2. PICK old \in Nat, S \in Nat \ {0} : old = trade.peak /\ S = Scale
  BY <1>1, ScaleInRange DEF Price
<1>3. PICK peak \in Price : peak = Better(trade.side, trade.peak, p) BY <1>1, ProfitType
<1>4. /\ Eval(trade, p, a).peak = peak /\ Eval(trade, p, a).distance = Distance(trade, p, a)
  BY <1>3 DEF Eval
<1>5. peak \in Nat /\ p \in Nat BY ScaleInRange DEF Price
<1>6. PICK m \in Int : m = Profit(trade.side, peak) - Profit(trade.side, old)
  BY <1>1, <1>2, <1>5 DEF Profit
<1>7. /\ trade.armed /\ ~(m > 0 /\ m * S >= 0 * old)
      /\ trade.distance = Distance(trade, p, a)
  BY <1>2, <1>4, <1>6 DEF ShouldPersist
<1>8. m <= 0
  <2> SUFFICES ASSUME m > 0 PROVE FALSE BY <1>6
  <2>1. 0 * S <= m * S BY <1>2, <1>6, TimesOrder
  <2>2. 0 * S = 0 /\ 0 * old = 0 BY <1>2
  <2> QED BY <1>2, <1>6, <1>7, <2>1, <2>2
<1>9. peak = old
  BY <1>1, <1>2, <1>3, <1>5, <1>6, <1>8 DEF Profit, Better, Higher, Lower
<1> QED BY <1>1, <1>2, <1>3, <1>7, <1>9

LEMMA SameGuard ==
  ASSUME sim.side = trade.side, simThesis = thesis, NEW stage
  PROVE  Guard(sim, stage, simThesis) = Guard(trade, stage, thesis)
BY DEF Guard

(* A signal that simulate() replays: both hold the trade and remember the   *)
(* same of it, or both leave it.                                            *)
LEMMA TickMirrors ==
  ASSUME ExitsInv, ReplayInv, NEW p \in Price, NEW stage, HandleSignal(p, stage, "hold"),
         faults' = faults, sim # NoTrade, SimulateTick(p, stage)
  PROVE  /\ simDecided' = decided'
         /\ sim' = NoTrade => simThesis' = NoThesis
         /\ sim' # NoTrade => sim' = Snapshot' /\ simThesis' = thesis'
<1>1. /\ TypeOK /\ comparable /\ trade # NoTrade /\ simThesis = thesis /\ sim = Snapshot
      /\ cfg.minHold = 0 /\ cfg.threshold = 0
  BY DEF ExitsInv, ReplayInv, Replayable
<1>2. /\ sim.side = trade.side /\ sim.armed = trade.armed /\ sim.peak = trade.peak
      /\ sim.distance = trade.distance
  BY <1>1 DEF Snapshot
<1>3. /\ ExitTrigger(sim, p, "hold") = ExitTrigger(trade, p, "hold")
      /\ Trails(sim, p, "hold") = Trails(trade, p, "hold")
      /\ Eval(sim, p, "hold") = Eval(trade, p, "hold")
  <2>1. PICK s, t : s = sim /\ t = trade OBVIOUS
  <2>2. SameExit(s, t) BY <1>2, <2>1 DEF SameExit
  <2> QED BY <2>1, <2>2, SameTrigger
<1>4. PICK trigger, guard : /\ trigger = ExitTrigger(trade, p, "hold")
                            /\ guard = Guard(trade, stage, thesis)
  OBVIOUS
<1>5. Guard(sim, stage, simThesis) = guard BY <1>1, <1>2, <1>4, SameGuard
<1>6. ~(trade.age < cfg.minHold)
  BY <1>1, TradeType DEF RowType
<1>7. /\ decided' = IF trigger # "none" THEN trigger
                    ELSE IF guard.close THEN "thesis_invalidated" ELSE "hold"
      /\ thesis' = IF decided' = "hold" THEN guard.state ELSE NoThesis
  BY <1>4, <1>6 DEF HandleSignal
<1>8. CASE ~(trigger = "none" /\ ~guard.close)
  <2>1. /\ simDecided' = IF trigger # "none" THEN trigger ELSE "thesis_invalidated"
        /\ sim' = NoTrade /\ simThesis' = NoThesis
    BY <1>3, <1>4, <1>5, <1>8 DEF SimulateTick
  <2> QED BY <1>7, <1>8, <2>1
<1>9. CASE trigger = "none" /\ ~guard.close
  <2>1. simDecided' = "hold" /\ sim' = Threaded(sim, p) /\ simThesis' = guard.state
    BY <1>3, <1>4, <1>5, <1>9 DEF SimulateTick
  <2>2. decided' = "hold" /\ thesis' = guard.state BY <1>7, <1>9
  <2>3. faults \in Nat BY <1>1, ConstantsAssumption DEF TypeOK
  <2>4. /\ trade'.side = trade.side
        /\ IF Stores(p, "hold") THEN OldTrailing \/ NewTrailing(p, "hold") ELSE OldTrailing
        /\ Stores(p, "hold") => NewTrailing(p, "hold")
    BY <1>1, <2>3, SignalFacts DEF Advice
  <2>5. IF Trails(trade, p, "hold") THEN NewTrailing(p, "hold") ELSE OldTrailing
    <3>1. CASE Stores(p, "hold") BY <2>4, <3>1 DEF Stores
    <3>2. CASE ~Trails(trade, p, "hold") BY <2>4, <3>2 DEF Stores
    <3>3. CASE Trails(trade, p, "hold") /\ ~ShouldPersist(trade, Eval(trade, p, "hold"))
      <4>1. OldTrailing BY <2>4, <3>3 DEF Stores
      <4>2. /\ trade.armed = TRUE /\ trade.peak = Better(trade.side, trade.peak, p)
            /\ trade.distance = Distance(trade, p, "hold")
        BY <1>1, <3>3, EveryPeakIsStored
      <4> QED BY <3>3, <4>1, <4>2 DEF OldTrailing, NewTrailing
    <3> QED BY <3>1, <3>2, <3>3 DEF Stores
  <2>6. sim' = Snapshot'
    <3>1. CASE Trails(trade, p, "hold")
      <4>1. PICK k, d : k = Better(trade.side, trade.peak, p) /\ d = Distance(trade, p, "hold")
        OBVIOUS
      <4>2. /\ Eval(trade, p, "hold").peak = k /\ Eval(trade, p, "hold").distance = d
        BY <4>1 DEF Eval
      <4>3. sim' = [sim EXCEPT !.armed = TRUE, !.peak = k, !.distance = d]
        BY <1>3, <2>1, <3>1, <4>2 DEF Threaded
      <4>4. sim' = [side |-> trade.side, age |-> 0, armed |-> TRUE, peak |-> k,
                    distance |-> d, mfe |-> 0, mae |-> 0]
        BY <1>1, <4>3 DEF Snapshot
      <4>5. trade'.armed = TRUE /\ trade'.peak = k /\ trade'.distance = d
        BY <2>5, <3>1, <4>1 DEF NewTrailing
      <4> QED BY <2>4, <4>4, <4>5 DEF Snapshot
    <3>2. CASE ~Trails(trade, p, "hold")
      <4>1. sim' = sim BY <1>3, <2>1, <3>2 DEF Threaded
      <4>2. OldTrailing BY <2>5, <3>2
      <4> QED BY <1>1, <2>4, <4>1, <4>2 DEF Snapshot, OldTrailing
    <3> QED BY <3>1, <3>2
  <2>7. sim' # NoTrade
    <3>1. trade'.side \in {"Long", "Short"} BY <1>1, <2>4, TradeType
    <3>2. NoTrade.side = "none" BY DEF NoTrade
    <3> QED BY <2>6, <3>1, <3>2 DEF Snapshot
  <2> QED BY <2>1, <2>2, <2>6, <2>7
<1> QED BY <1>8, <1>9

LEMMA ReplayStart == ReplayInit => ReplayInv
BY DEF ReplayInit, ReplayInv

LEMMA EnterStep ==
  ASSUME ExitsInv, ReplayInv, NEW side \in Side, Enter(side) PROVE ReplayInv'
<1>1. /\ trade = NoTrade /\ trade' = Opened(side) /\ thesis' = thesis /\ cfg' = cfg
      /\ simThesis' = simThesis /\ comparable' = (comparable /\ thesis = NoThesis)
      /\ sim' = IF comparable' THEN Opened(side) ELSE NoTrade
  BY DEF Enter, OpenTrade
<1>2. sim = NoTrade /\ simThesis = NoThesis BY <1>1 DEF ReplayInv
<1>3. trade' = [side |-> side, age |-> 0, armed |-> FALSE, peak |-> Scale, distance |-> 0,
                mfe |-> 0, mae |-> 0]
  BY <1>1 DEF Opened, NoTrade
<1>4. Snapshot' = trade' BY <1>3 DEF Snapshot
<1>5. trade' # NoTrade
  <2>1. side # "none" BY ConstantsAssumption
  <2>2. NoTrade.side = "none" BY DEF NoTrade
  <2> QED BY <1>3, <2>1, <2>2
<1>6. (comparable => Replayable)' BY <1>1 DEF ReplayInv, Replayable
<1>7. CASE ~comparable' BY <1>1, <1>2, <1>6, <1>7 DEF ReplayInv
<1>8. CASE comparable'
  <2>1. sim' = trade' /\ thesis = NoThesis BY <1>1, <1>8
  <2> QED BY <1>1, <1>2, <1>4, <1>5, <1>6, <1>8, <2>1 DEF ReplayInv
<1> QED BY <1>7, <1>8

LEMMA SignalMirrors ==
  ASSUME ExitsInv, ReplayInv, NEW p \in Price, NEW stage \in Stage, NEW a \in Advice,
         Signal(p, stage, a)
  PROVE  /\ ReplayInv'
         /\ comparable' /\ sim # NoTrade => simDecided' = decided'
<1>1. /\ HandleSignal(p, stage, a) /\ cfg' = cfg
      /\ comparable' = (comparable /\ a = "hold" /\ faults' = faults)
      /\ IF comparable' /\ sim # NoTrade THEN SimulateTick(p, stage) ELSE Forget
  BY DEF Signal, HandleSignal
<1>2. (comparable => Replayable)' BY <1>1 DEF ReplayInv, Replayable
<1>3. CASE comparable' /\ sim # NoTrade
  <2>1. /\ simDecided' = decided'
        /\ sim' = NoTrade => simThesis' = NoThesis
        /\ sim' # NoTrade => sim' = Snapshot' /\ simThesis' = thesis'
    BY <1>1, <1>3, TickMirrors
  <2>2. TypeOK /\ TrailingInv BY DEF ExitsInv
  <2>3. trade' # NoTrade BY <1>1, <2>2, SignalRow
  <2> QED BY <1>2, <1>3, <2>1, <2>3 DEF ReplayInv
<1>4. CASE ~(comparable' /\ sim # NoTrade)
  BY <1>1, <1>2, <1>4 DEF Forget, ReplayInv
<1> QED BY <1>3, <1>4

LEMMA ReplaySignal ==
  ASSUME NEW move \in Moves, NEW stage \in Stages, NEW a \in Advices
  PROVE  PriceAt(trade.side, move) \in Price /\ stage \in Stage /\ a \in Advice
BY PriceInRange DEF Stages, Advices, Stage, Advice

LEMMA ReplayStep == ExitsInv /\ ReplayInv /\ [ReplayNext]_allVars => ReplayInv'
<1> SUFFICES ASSUME ExitsInv, ReplayInv, [ReplayNext]_allVars PROVE ReplayInv' OBVIOUS
<1>1. CASE UNCHANGED allVars
  BY <1>1 DEF allVars, vars, replayVars, ReplayInv, Replayable, Snapshot
<1>2. ASSUME NEW side \in Side, Enter(side) PROVE ReplayInv' BY <1>2, EnterStep
<1>3. CASE Leave BY <1>3 DEF Leave, CloseTrade, Forget, ReplayInv, Replayable
<1>4. CASE SignalWithoutTrade /\ UNCHANGED replayVars
  BY <1>4 DEF SignalWithoutTrade, replayVars, ReplayInv, Replayable
<1>5. CASE Restart /\ Forget /\ comparable' = FALSE BY <1>5 DEF Forget, ReplayInv
<1>6. ASSUME NEW move \in Moves, NEW stage \in Stages, NEW a \in Advices,
             Signal(PriceAt(trade.side, move), stage, a)
      PROVE  ReplayInv'
  <2>1. PICK p \in Price : p = PriceAt(trade.side, move) BY ReplaySignal
  <2> QED BY <1>6, <2>1, ReplaySignal, SignalMirrors
<1> QED BY <1>1, <1>2, <1>3, <1>4, <1>5, <1>6 DEF ReplayNext

(* What the backtest adds to a run of the strategy takes nothing from it.   *)
LEMMA ReplayRidesAlong == ReplaySpec => Spec
<1>1. ReplayInit => Init BY DEF ReplayInit
<1>2. [ReplayNext]_allVars => [Next]_vars
  <2> SUFFICES ASSUME [ReplayNext]_allVars PROVE [Next]_vars OBVIOUS
  <2>1. CASE UNCHANGED allVars BY <2>1 DEF allVars
  <2>2. ASSUME NEW side \in Side, Enter(side) PROVE Next BY <2>2 DEF Enter, Next
  <2>3. CASE Leave BY <2>3 DEF Leave, Next
  <2>4. CASE SignalWithoutTrade \/ Restart BY <2>4 DEF Next
  <2>5. ASSUME NEW move \in Moves, NEW stage \in Stages, NEW a \in Advices,
               Signal(PriceAt(trade.side, move), stage, a)
        PROVE  Next
    BY <2>5 DEF Signal, Next
  <2> QED BY <2>1, <2>2, <2>3, <2>4, <2>5 DEF ReplayNext
<1> QED BY <1>1, <1>2, PTL DEF ReplaySpec, Spec

\* Whatever profile, prices and thesis stages: as long as simulate() replays all
\* there is, it leaves a trade at the signal at which live decides to, and for
\* the same reason.
THEOREM BacktestMirrorsLive == ReplaySpec => ReplayMirrorsLive
<1>1. ReplaySpec => []ExitsInv BY ReplayRidesAlong, ExitsInvariance, PTL
<1>2. ExitsInv /\ ReplayInv /\ [ReplayNext]_allVars
        => [comparable' /\ trade # NoTrade /\ trade' # NoTrade /\ sim # NoTrade
              => simDecided' = decided']_allVars
  <2> SUFFICES ASSUME ExitsInv, ReplayInv, ReplayNext, comparable', trade # NoTrade,
                      trade' # NoTrade, sim # NoTrade
               PROVE  simDecided' = decided'
    OBVIOUS
  <2>1. ~Leave /\ ~SignalWithoutTrade /\ ~(Restart /\ Forget /\ comparable' = FALSE)
    BY DEF Leave, CloseTrade, SignalWithoutTrade
  <2>2. ASSUME NEW side \in Side, Enter(side) PROVE FALSE BY <2>2 DEF Enter, OpenTrade
  <2>3. ASSUME NEW move \in Moves, NEW stage \in Stages, NEW a \in Advices,
               Signal(PriceAt(trade.side, move), stage, a)
        PROVE  simDecided' = decided'
    <3>1. PICK p \in Price : p = PriceAt(trade.side, move) BY ReplaySignal
    <3> QED BY <2>3, <3>1, ReplaySignal, SignalMirrors
  <2> QED BY <2>1, <2>2, <2>3 DEF ReplayNext
<1> QED BY <1>1, <1>2, ReplayStart, ReplayStep, PTL DEF ReplaySpec, ReplayMirrorsLive
==============================================================================
