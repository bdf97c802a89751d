---------------------------- MODULE SignalsProofs ----------------------------
(***************************************************************************)
(* Proofs about the way of a signal from the exchanges to the queue of     *)
(* candidates: the cycle of market-data (MarketData), whose latch turns    *)
(* only on a confirmed side and which serves nothing stale; the sampler of *)
(* analytics (Analytics), whose cache is the chart; and the gate of the    *)
(* strategy (EntryGate), which admits no entry that a quarantine forbids   *)
(* or that too few signals have confirmed.                                 *)
(***************************************************************************)
EXTENDS MarketData, EntryGate, Analytics, DataLemmas, FiniteSetTheorems, SequenceTheorems, TLAPS

(***************************************************************************)
(* market-data.  What is served is as old as the phase of the cycle says,  *)
(* and what the next Serve will serve is new.                              *)
(***************************************************************************)
Phases == {"rest", "btc", "symbols", "publish"}

FreshInv ==
  /\ phase \in Phases
  /\ \A s \in DOMAIN signals : "age" \in DOMAIN signals[s] /\ signals[s].age = 0
  /\ \A s \in DOMAIN latest :
       /\ "age" \in DOMAIN latest[s]
       /\ latest[s].age = 0 \/ (phase \in {"btc", "symbols"} /\ latest[s].age = 1)

(***************************************************************************)
(* A symbol other than BTC is observed at most once in a cycle, so that    *)
(* what its latch counts are cycles: its pending side is the one observed  *)
(* last, for at least as many cycles on end as it has counted.             *)
(***************************************************************************)
Latch  == [stable : Regimes, pending : Regimes, count : Nat]
Streak == [side : Regimes, cycles : Nat, again : BOOLEAN]

LatchTypes ==
  /\ phase \in Phases /\ streak \in [Universe -> Streak] /\ DOMAIN latch \subseteq Universe
  /\ \A s \in DOMAIN latch : latch[s] \in Latch
  /\ phase = "symbols" => todo \subseteq Universe

OncePerCycle ==
  \A s \in Universe \ {Btc} :
    phase = "btc" \/ (phase = "symbols" /\ s \in todo) => ~streak[s].again

LatchCounts ==
  \A s \in DOMAIN latch \ {Btc} : /\ latch[s].pending = streak[s].side
                                  /\ latch[s].count <= streak[s].cycles
                                  /\ latch[s].count < Confirmations

LatchInv == LatchTypes /\ OncePerCycle /\ LatchCounts

(***************************************************************************)
(* The gate.  A quarantine of the gate lasts at least as long as the one   *)
(* advised, and the confirmations counted for a side are proposals for it, *)
(* the last ones there were.                                               *)
(***************************************************************************)
QuarantineInv ==
  /\ guard \in [Symbols -> Nat] /\ imposed \in [Symbols -> Nat]
  /\ DOMAIN candidate = Symbols
  /\ \A s \in Symbols : imposed[s] <= guard[s]

Tick == [side : Sides \cup {"none"}, ticks : 0 .. MinTicks]

LastOnes(s) ==
  /\ confirmation[s].ticks <= Len(proposals[s]) /\ Len(proposals[s]) <= MinTicks
  /\ \A i \in DOMAIN proposals[s] :
       i > Len(proposals[s]) - confirmation[s].ticks => proposals[s][i] = confirmation[s].side

ConfirmationInv ==
  /\ confirmation \in [Symbols -> Tick] /\ proposals \in [Symbols -> Seq(Sides)]
  /\ DOMAIN candidate = Symbols
  /\ \A s \in Symbols : LastOnes(s)

-----------------------------------------------------------------------------
LEMMA WithFacts ==
  ASSUME NEW f, NEW s, NEW v, NEW g, g = With(f, s, v)
  PROVE  /\ DOMAIN g = DOMAIN f \cup {s} /\ g[s] = v
         /\ \A k \in DOMAIN f : k # s => g[k] = f[k]
BY DEF With

LEMMA NothingIsEmpty == DOMAIN Empty = {}
BY DEF Empty

LEMMA Older == LowestOf({0 + 1, 2}) = 1
BY DEF LowestOf

LEMMA FreshStart == MarketInit => FreshInv
BY NothingIsEmpty DEF MarketInit, FreshInv, Phases

(* A signal enters the cycle's with an age of nothing.                      *)
LEMMA FreshSymbol ==
  ASSUME FreshInv, FetchSymbol PROVE FreshInv'
<1>1. /\ phase = "symbols" /\ phase' = phase /\ latest' = latest
      /\ \/ signals' = signals
         \/ \E s \in todo : \E side, context :
              signals' = With(signals, s, [side |-> side, age |-> 0, btc |-> context])
  BY DEF FetchSymbol
<1>2. CASE signals' = signals BY <1>1, <1>2 DEF FreshInv
<1>3. ASSUME NEW s \in todo, NEW side, NEW context,
             signals' = With(signals, s, [side |-> side, age |-> 0, btc |-> context])
      PROVE  FreshInv'
  <2>1. PICK v : v = [side |-> side, age |-> 0, btc |-> context] OBVIOUS
  <2>2. PICK f, g : f = signals /\ g = signals' /\ g = With(f, s, v) BY <1>3, <2>1
  <2>3. /\ DOMAIN g = DOMAIN f \cup {s} /\ g[s] = v
        /\ \A k \in DOMAIN f : k # s => g[k] = f[k]
    BY <2>2 DEF With
  <2>4. "age" \in DOMAIN v /\ v.age = 0 BY <2>1
  <2>5. \A k \in DOMAIN g : "age" \in DOMAIN g[k] /\ g[k].age = 0
    BY <2>2, <2>3, <2>4 DEF FreshInv
  <2> QED BY <1>1, <2>2, <2>5 DEF FreshInv
<1> QED BY <1>1, <1>2, <1>3

LEMMA FreshStep == FreshInv /\ [MarketNext]_marketVars => FreshInv'
<1> SUFFICES ASSUME FreshInv, [MarketNext]_marketVars PROVE FreshInv' OBVIOUS
<1>1. CASE UNCHANGED marketVars BY <1>1 DEF marketVars, FreshInv
<1>2. CASE StartCycle
  <2>1. /\ phase = "rest" /\ phase' = "btc" /\ signals' = signals
        /\ latest' = [s \in DOMAIN latest |-> [latest[s] EXCEPT !.age = LowestOf({@ + 1, 2})]]
    BY <1>2 DEF StartCycle
  <2>2. \A s \in DOMAIN latest' : "age" \in DOMAIN latest'[s] /\ latest'[s].age = 1
    <3> SUFFICES ASSUME NEW s \in DOMAIN latest
                 PROVE  "age" \in DOMAIN latest'[s] /\ latest'[s].age = 1
      BY <2>1
    <3>1. latest[s].age = 0 /\ "age" \in DOMAIN latest[s] BY <2>1 DEF FreshInv
    <3>2. latest'[s] = [latest[s] EXCEPT !.age = LowestOf({0 + 1, 2})] BY <2>1, <3>1
    <3>3. latest'[s] = [latest[s] EXCEPT !.age = 1] BY <3>2, Older
    <3> QED BY <3>1, <3>3
  <2> QED BY <2>1, <2>2 DEF FreshInv, Phases
<1>3. CASE FetchBtc
  <2>1. /\ phase = "btc"
        /\ \/ phase' = "symbols" /\ signals' = Empty /\ latest' = latest
           \/ phase' = "rest" /\ latest' = Empty /\ signals' = signals
    BY <1>3 DEF FetchBtc
  <2> QED BY <2>1, NothingIsEmpty DEF FreshInv, Phases
<1>4. CASE Serve
  <2>1. PICK f : /\ phase' = "publish" /\ latest' = f /\ signals' = f /\ signals = f
    BY <1>4 DEF Serve, Served
  <2>2. \A s \in DOMAIN f : "age" \in DOMAIN f[s] /\ f[s].age = 0
    BY <2>1 DEF FreshInv
  <2> QED BY <2>1, <2>2 DEF FreshInv, Phases
<1>5. CASE Publish BY <1>5 DEF Publish, FreshInv
<1>6. CASE EndCycle BY <1>6, NothingIsEmpty DEF EndCycle, FreshInv, Phases
<1>7. CASE RestartMarketData BY <1>7, NothingIsEmpty DEF RestartMarketData, FreshInv, Phases
<1>8. CASE MarketMoves BY <1>8 DEF MarketMoves, FreshInv
<1> QED BY <1>1, <1>2, <1>3, <1>4, <1>5, <1>6, <1>7, <1>8, FreshSymbol
      DEF MarketNext, MarketStep

\* Whatever fails and whenever the process dies: between two cycles nothing is
\* served that the last one has not produced, and within a cycle nothing older
\* than the one before (latest_signals of the run loop of market-data).
THEOREM ServesNothingStale == MarketSpec => []NothingStaleIsServed
<1>1. FreshInv => NothingStaleIsServed BY DEF FreshInv, NothingStaleIsServed
<1> QED BY <1>1, FreshStart, FreshStep, PTL DEF MarketSpec

-----------------------------------------------------------------------------
LEMMA SidesSeen == \A answers : Unanimous(answers) \in Regimes
BY DEF Unanimous, Regimes

(* One observation, of a symbol that had none in this cycle.                *)
LEMMA CountFacts ==
  ASSUME NEW l \in Latch, NEW side \in Regimes, NEW m, m = Stabilized(l, side),
         NEW n \in Nat, l.count <= n, l.count < Confirmations,
         NEW k \in Nat, k >= 1, side = l.pending => k >= n /\ (k > n \/ k >= Confirmations)
  PROVE  /\ m \in Latch /\ m.pending = side /\ m.count <= k /\ m.count < Confirmations
         /\ m.stable # l.stable => m.stable = side /\ k >= Confirmations
<1>1. Confirmations \in Nat \ {0} BY ConsensusAssumption
<1>2. l.count \in Nat /\ Count(l, side) \in Nat /\ Count(l, side) >= 1 BY DEF Latch, Count
<1>3. Count(l, side) <= k \/ k >= Confirmations BY <1>1, <1>2 DEF Count
<1>4. CASE side = l.stable
  <2>1. m = [l EXCEPT !.pending = side, !.count = 0] BY <1>4 DEF Stabilized
  <2>2. m = [stable |-> l.stable, pending |-> side, count |-> 0] BY <2>1 DEF Latch
  <2> QED BY <1>1, <2>2 DEF Latch
<1>5. CASE side # l.stable /\ Count(l, side) >= Confirmations
  <2>1. m = [stable |-> side, pending |-> side, count |-> 0] BY <1>5 DEF Stabilized, NewLatch
  <2> QED BY <1>1, <1>2, <1>3, <1>5, <2>1 DEF Latch
<1>6. CASE side # l.stable /\ ~(Count(l, side) >= Confirmations)
  <2>1. PICK c \in Nat : c = Count(l, side) /\ c <= k /\ c < Confirmations
    BY <1>1, <1>2, <1>3, <1>6
  <2>2. m = [l EXCEPT !.pending = side, !.count = c] BY <1>6, <2>1 DEF Stabilized
  <2>3. m = [stable |-> l.stable, pending |-> side, count |-> c] BY <2>2 DEF Latch
  <2> QED BY <2>1, <2>3 DEF Latch
<1> QED BY <1>4, <1>5, <1>6

LEMMA LatchType ==
  ASSUME NEW l \in Latch, NEW side \in Regimes
  PROVE  NewLatch(side) \in Latch /\ Stabilized(l, side) \in Latch
<1>1. NewLatch(side) \in Latch BY DEF NewLatch, Latch
<1>2. PICK c \in Nat : c = Count(l, side) BY DEF Latch, Count
<1>3. /\ [l EXCEPT !.pending = side, !.count = 0] \in Latch
      /\ [l EXCEPT !.pending = side, !.count = c] \in Latch
  BY <1>2 DEF Latch
<1> QED BY <1>1, <1>2, <1>3 DEF Stabilized

LEMMA StreakFacts ==
  ASSUME streak \in [Universe -> Streak], NEW s \in Universe, NEW side \in Regimes,
         Observe(s, side)
  PROVE  /\ streak' \in [Universe -> Streak]
         /\ \A k \in Universe : k # s => streak'[k] = streak[k]
         /\ streak'[s].side = side
         /\ ~streak[s].again => LET n == streak[s].cycles
                                    m == streak'[s].cycles
                                IN /\ m >= 1
                                   /\ side = streak[s].side =>
                                        m >= n /\ (m > n \/ m >= Confirmations)
<1>1. Confirmations \in Nat \ {0} BY ConsensusAssumption
<1>2. PICK x \in Streak : x = streak[s] OBVIOUS
<1>3. /\ x.side \in Regimes /\ x.cycles \in Nat /\ x.again \in BOOLEAN BY DEF Streak
<1>4. PICK m \in Nat : m = IF side # x.side THEN 1
                           ELSE IF x.again \/ x.cycles = Confirmations THEN x.cycles
                           ELSE x.cycles + 1
  BY <1>3
<1>5. PICK y : y = [side |-> side, again |-> TRUE, cycles |-> m] OBVIOUS
<1>6. y \in Streak /\ y.side = side /\ y.cycles = m BY <1>5 DEF Streak
<1>7. streak' = [streak EXCEPT ![s] = y] BY <1>2, <1>4, <1>5 DEF Observe
<1>8. streak' \in [Universe -> Streak] /\ streak'[s] = y BY <1>6, <1>7
<1>9. \A k \in Universe : k # s => streak'[k] = streak[k] BY <1>7
<1>10. ~x.again => m >= 1 /\ (side = x.side => m >= x.cycles /\ (m > x.cycles \/ m >= Confirmations))
  BY <1>1, <1>3, <1>4
<1> QED BY <1>2, <1>6, <1>8, <1>9, <1>10

(* The latch of a symbol other than BTC, observed for the first time in this *)
(* cycle: it counts cycles, and turns only on as many as it takes.           *)
LEMMA ObserveStep ==
  ASSUME LatchTypes, LatchCounts, NEW s \in Universe, NEW side \in Regimes,
         Observe(s, side), s # Btc => ~streak[s].again
  PROVE  /\ DOMAIN latch' \subseteq Universe
         /\ \A k \in DOMAIN latch' : latch'[k] \in Latch
         /\ LatchCounts'
         /\ \A k \in Universe \ {Btc} : Confirmed(k)
<1>1. PICK new : new = IF s \in DOMAIN latch THEN Stabilized(latch[s], side) ELSE NewLatch(side)
  OBVIOUS
<1>2. /\ DOMAIN latch' = DOMAIN latch \cup {s} /\ latch'[s] = new
      /\ \A k \in DOMAIN latch : k # s => latch'[k] = latch[k]
  BY <1>1 DEF Observe, With
<1>3. DOMAIN latch \subseteq Universe /\ streak \in [Universe -> Streak]
      /\ \A k \in DOMAIN latch : latch[k] \in Latch
  BY DEF LatchTypes
<1>4. new \in Latch
  <2>1. CASE s \in DOMAIN latch
    <3>1. PICK l \in Latch : l = latch[s] BY <1>3, <2>1
    <3>2. new = Stabilized(l, side) BY <1>1, <2>1, <3>1
    <3> QED BY <3>2, LatchType
  <2>2. CASE s \notin DOMAIN latch BY <1>1, <2>2 DEF NewLatch, Latch
  <2> QED BY <2>1, <2>2
<1>5. /\ DOMAIN latch' \subseteq Universe
      /\ \A k \in DOMAIN latch' : latch'[k] \in Latch
  BY <1>2, <1>3, <1>4
<1>6. /\ streak' \in [Universe -> Streak]
      /\ \A k \in Universe : k # s => streak'[k] = streak[k]
      /\ streak'[s].side = side
  BY <1>3, StreakFacts
<1>7. ASSUME s # Btc
      PROVE  /\ new.pending = side /\ new.count <= streak'[s].cycles /\ new.count < Confirmations
             /\ s \in DOMAIN latch /\ new.stable # latch[s].stable =>
                  new.stable = side /\ streak'[s].cycles >= Confirmations
  <2>1. PICK n \in Nat, k \in Nat : n = streak[s].cycles /\ k = streak'[s].cycles
    BY <1>3, <1>6 DEF Streak
  <2>2. ~streak[s].again BY <1>7
  <2>3. k >= 1 /\ (side = streak[s].side => k >= n /\ (k > n \/ k >= Confirmations))
    BY <1>3, <2>1, <2>2, StreakFacts
  <2>4. CASE s \notin DOMAIN latch
    <3>1. new = [stable |-> side, pending |-> side, count |-> 0] BY <1>1, <2>4 DEF NewLatch
    <3> QED BY <2>1, <2>4, <3>1, ConsensusAssumption
  <2>5. CASE s \in DOMAIN latch
    <3>1. PICK l \in Latch : l = latch[s] BY <1>3, <2>5
    <3>2. l.pending = streak[s].side /\ l.count <= n /\ l.count < Confirmations
      BY <1>7, <2>1, <2>5, <3>1 DEF LatchCounts
    <3>3. new = Stabilized(l, side) BY <1>1, <2>5, <3>1
    <3> QED BY <2>1, <2>3, <3>1, <3>2, <3>3, CountFacts
  <2> QED BY <2>4, <2>5
<1>8. LatchCounts'
  <2> SUFFICES ASSUME NEW k \in DOMAIN latch' \ {Btc}
               PROVE  /\ latch'[k].pending = streak'[k].side
                      /\ latch'[k].count <= streak'[k].cycles
                      /\ latch'[k].count < Confirmations
    BY DEF LatchCounts
  <2>1. CASE k = s BY <1>2, <1>6, <1>7, <2>1
  <2>2. CASE k # s
    <3>1. k \in DOMAIN latch \ {Btc} /\ k \in Universe BY <1>2, <1>3, <2>2
    <3>2. latch'[k] = latch[k] /\ streak'[k] = streak[k] BY <1>2, <1>6, <2>2, <3>1
    <3> QED BY <3>1, <3>2 DEF LatchCounts
  <2> QED BY <2>1, <2>2
<1>9. ASSUME NEW k \in Universe \ {Btc} PROVE Confirmed(k)
  <2>1. CASE k = s
    <3>1. PICK m : m = latch' OBVIOUS
    <3>2. s # Btc /\ m[s] = new BY <1>2, <2>1, <3>1
    <3>3. s \in DOMAIN latch /\ new.stable # latch[s].stable =>
            new.stable = side /\ streak'[s].cycles >= Confirmations
      BY <1>7, <3>2
    <3> QED BY <1>6, <2>1, <3>1, <3>2, <3>3 DEF Confirmed
  <2>2. CASE k # s
    <3>1. k \in DOMAIN latch => latch'[k] = latch[k] BY <1>2, <2>2
    <3> QED BY <3>1 DEF Confirmed
  <2> QED BY <2>1, <2>2
<1> QED BY <1>5, <1>8, <1>9

LEMMA LatchStart == MarketInit => LatchInv
<1> SUFFICES ASSUME MarketInit PROVE LatchInv OBVIOUS
<1>1. DOMAIN latch = {} /\ phase = "rest" BY NothingIsEmpty DEF MarketInit
<1>2. streak \in [Universe -> Streak]
  <2>1. [side |-> "neutral", cycles |-> 0, again |-> FALSE] \in Streak BY DEF Streak, Regimes
  <2> QED BY <2>1 DEF MarketInit
<1> QED BY <1>1, <1>2 DEF LatchInv, LatchTypes, OncePerCycle, LatchCounts, Phases

(* A step that observes nothing.                                             *)
LEMMA SideHeld ==
  ASSUME latch' = latch \/ latch' = Empty PROVE \A k \in Universe : Confirmed(k)
<1>1. latch' = latch => \A k \in Universe : latch'[k] = latch[k] OBVIOUS
<1> QED BY <1>1, NothingIsEmpty DEF Confirmed

LEMMA LatchStep ==
  LatchInv /\ [MarketNext]_marketVars
    => LatchInv' /\ (marketVars' = marketVars \/ \A k \in Universe \ {Btc} : Confirmed(k))
<1> SUFFICES ASSUME LatchInv, [MarketNext]_marketVars
             PROVE  LatchInv' /\ (marketVars' = marketVars
                                    \/ \A k \in Universe \ {Btc} : Confirmed(k))
  OBVIOUS
<1>0. LatchTypes /\ OncePerCycle /\ LatchCounts BY DEF LatchInv
<1>1. CASE UNCHANGED marketVars
  BY <1>0, <1>1 DEF marketVars, LatchInv, LatchTypes, OncePerCycle, LatchCounts
<1>2. CASE StartCycle
  <2>1. /\ phase' = "btc" /\ latch' = latch /\ todo' = todo
        /\ streak' = [s \in Universe |-> [streak[s] EXCEPT !.again = FALSE]]
    BY <1>2 DEF StartCycle
  <2>2. \A s \in Universe : /\ streak'[s] \in Streak /\ ~streak'[s].again
                            /\ streak'[s].side = streak[s].side
                            /\ streak'[s].cycles = streak[s].cycles
    <3> SUFFICES ASSUME NEW s \in Universe
                 PROVE  /\ streak'[s] \in Streak /\ ~streak'[s].again
                        /\ streak'[s].side = streak[s].side
                        /\ streak'[s].cycles = streak[s].cycles
      OBVIOUS
    <3>1. PICK x \in Streak : x = streak[s] BY <1>0 DEF LatchTypes
    <3>2. streak'[s] = [x EXCEPT !.again = FALSE] BY <2>1, <3>1
    <3> QED BY <3>1, <3>2 DEF Streak
  <2>3. streak' \in [Universe -> Streak] BY <2>1, <2>2
  <2>4. LatchTypes' BY <1>0, <2>1, <2>3 DEF LatchTypes, Phases
  <2>5. OncePerCycle' BY <2>2 DEF OncePerCycle
  <2>6. LatchCounts' BY <1>0, <2>1, <2>2 DEF LatchCounts, LatchTypes
  <2> QED BY <2>1, <2>4, <2>5, <2>6, SideHeld DEF LatchInv
<1>3. CASE FetchBtc
  <2>1. /\ phase = "btc"
        /\ \/ /\ \E side \in Regimes : Observe(Btc, side)
              /\ phase' = "symbols" /\ todo' = Universe
           \/ /\ phase' = "rest" /\ latch' = latch /\ streak' = streak /\ todo' = todo
    BY <1>3, SidesSeen DEF FetchBtc
  <2>2. ASSUME NEW side \in Regimes, Observe(Btc, side), phase' = "symbols", todo' = Universe
        PROVE  LatchInv' /\ \A k \in Universe \ {Btc} : Confirmed(k)
    <3>1. Btc \in Universe BY MarketDataAssumption
    <3>2. /\ DOMAIN latch' \subseteq Universe /\ \A k \in DOMAIN latch' : latch'[k] \in Latch
          /\ LatchCounts' /\ \A k \in Universe \ {Btc} : Confirmed(k)
      BY <1>0, <2>2, <3>1, ObserveStep
    <3>3. /\ streak' \in [Universe -> Streak]
          /\ \A k \in Universe : k # Btc => streak'[k] = streak[k]
      BY <1>0, <2>2, <3>1, StreakFacts DEF LatchTypes
    <3>4. LatchTypes' BY <2>2, <3>2, <3>3 DEF LatchTypes, Phases
    <3>5. OncePerCycle' BY <1>0, <2>1, <3>3 DEF OncePerCycle
    <3> QED BY <3>2, <3>4, <3>5 DEF LatchInv
  <2>3. CASE phase' = "rest" /\ latch' = latch /\ streak' = streak /\ todo' = todo
    BY <1>0, <2>3, SideHeld DEF LatchInv, LatchTypes, OncePerCycle, LatchCounts, Phases
  <2> QED BY <2>1, <2>2, <2>3
<1>4. CASE FetchSymbol
  <2>1. /\ phase = "symbols" /\ phase' = phase
        /\ \E s \in todo : /\ todo' = todo \ {s}
                           /\ \/ \E side \in Regimes : Observe(s, side)
                              \/ latch' = latch /\ streak' = streak
    BY <1>4, SidesSeen DEF FetchSymbol
  <2>2. PICK s \in todo : /\ todo' = todo \ {s}
                          /\ \/ \E side \in Regimes : Observe(s, side)
                             \/ latch' = latch /\ streak' = streak
    BY <2>1
  <2>3. s \in Universe /\ todo \subseteq Universe BY <1>0, <2>1 DEF LatchTypes
  <2>4. s # Btc => ~streak[s].again BY <1>0, <2>1, <2>3 DEF OncePerCycle
  <2>5. ASSUME NEW side \in Regimes, Observe(s, side)
        PROVE  LatchInv' /\ \A k \in Universe \ {Btc} : Confirmed(k)
    <3>2. /\ DOMAIN latch' \subseteq Universe /\ \A k \in DOMAIN latch' : latch'[k] \in Latch
          /\ LatchCounts' /\ \A k \in Universe \ {Btc} : Confirmed(k)
      BY <1>0, <2>3, <2>4, <2>5, ObserveStep
    <3>3. /\ streak' \in [Universe -> Streak]
          /\ \A k \in Universe : k # s => streak'[k] = streak[k]
      BY <1>0, <2>3, <2>5, StreakFacts DEF LatchTypes
    <3>4. LatchTypes' BY <2>1, <2>2, <2>3, <3>2, <3>3 DEF LatchTypes, Phases
    <3>5. OncePerCycle' BY <1>0, <2>1, <2>2, <3>3 DEF OncePerCycle
    <3> QED BY <3>2, <3>4, <3>5 DEF LatchInv
  <2>6. CASE latch' = latch /\ streak' = streak
    BY <1>0, <2>1, <2>2, <2>6, SideHeld DEF LatchInv, LatchTypes, OncePerCycle, LatchCounts
  <2> QED BY <2>2, <2>5, <2>6
<1>5. CASE Serve \/ Publish \/ EndCycle
  <2>1. /\ phase' \in {"publish", "rest"} /\ latch' = latch /\ streak' = streak
    BY <1>5 DEF Serve, Publish, EndCycle
  <2> QED BY <1>0, <2>1, SideHeld DEF LatchInv, LatchTypes, OncePerCycle, LatchCounts, Phases
<1>6. CASE RestartMarketData
  <2>1. /\ phase' = "rest" /\ latch' = Empty
        /\ streak' = [s \in Universe |-> [side |-> "neutral", cycles |-> 0, again |-> FALSE]]
    BY <1>6 DEF RestartMarketData
  <2>2. streak' \in [Universe -> Streak]
    <3>1. [side |-> "neutral", cycles |-> 0, again |-> FALSE] \in Streak BY DEF Streak, Regimes
    <3> QED BY <2>1, <3>1
  <2> QED BY <2>1, <2>2, NothingIsEmpty, SideHeld
        DEF LatchInv, LatchTypes, OncePerCycle, LatchCounts, Phases
<1>7. CASE MarketMoves
  BY <1>0, <1>7, SideHeld DEF MarketMoves, LatchInv, LatchTypes, OncePerCycle, LatchCounts
<1> QED BY <1>1, <1>2, <1>3, <1>4, <1>5, <1>6, <1>7 DEF MarketNext, MarketStep

\* However the exchanges answer and whenever the process dies: the side of a
\* symbol that is not the context changes only after they agreed on the new one
\* in as many cycles on end as the constant says (stabilize_consensus_side).
THEOREM LatchConfirms == MarketSpec => SideIsConfirmed
<1>1. LatchInv /\ [MarketNext]_marketVars => [\A s \in Universe \ {Btc} : Confirmed(s)]_marketVars
  BY LatchStep
<1>2. LatchInv /\ [MarketNext]_marketVars => LatchInv' BY LatchStep
<1> QED BY <1>1, <1>2, LatchStart, PTL DEF MarketSpec, SideIsConfirmed

-----------------------------------------------------------------------------
LEMMA QuarantineTimes == \A a : QuarantineTime(a) \in Nat
BY DEF QuarantineTime

LEMMA QuarantineStart == GateInit => QuarantineInv
BY DEF GateInit, QuarantineInv

(* Whatever is answered, the guard is at least what has been advised.       *)
LEMMA HearStep ==
  ASSUME QuarantineInv, NEW s, NEW trend, NEW answer, HearSignal(s, trend, answer)
  PROVE  /\ guard' \in [Symbols -> Nat] /\ imposed' \in [Symbols -> Nat]
         /\ \A x \in Symbols : imposed'[x] <= guard'[x]
<1>1. /\ guard' = [x \in Symbols |-> SyncedGuard(x, answer)]
      /\ imposed' = [x \in Symbols |->
                       IF answer # NoAdvice /\ x \in answer.avoid /\ imposed[x] < QuarantineTime(answer)
                       THEN QuarantineTime(answer) ELSE imposed[x]]
  BY DEF HearSignal
<1>2. ASSUME NEW x \in Symbols
      PROVE  guard'[x] \in Nat /\ imposed'[x] \in Nat /\ imposed'[x] <= guard'[x]
  <2>1. PICK g \in Nat, n \in Nat : g = guard[x] /\ n = imposed[x] /\ n <= g BY DEF QuarantineInv
  <2>2. PICK q \in Nat : q = QuarantineTime(answer) BY QuarantineTimes
  <2>3. guard'[x] = IF answer = NoAdvice \/ x \notin answer.avoid \/ g >= q THEN g ELSE q
    BY <1>1, <2>1, <2>2 DEF SyncedGuard
  <2>4. imposed'[x] = IF answer # NoAdvice /\ x \in answer.avoid /\ n < q THEN q ELSE n
    BY <1>1, <2>1, <2>2
  <2> QED BY <2>1, <2>2, <2>3, <2>4
<1> QED BY <1>1, <1>2

(* The conditions under which a proposal becomes the candidate.             *)
Admitted(s, side, p, answer) ==
  /\ confirmation'[s].ticks >= MinTicks /\ guard'[s] = 0
  /\ ~Vetoed(s, side, p, answer) /\ Better(s, p)

LEMMA ProposeFacts ==
  ASSUME DOMAIN candidate = Symbols, NEW s \in Symbols, NEW side, NEW p, NEW answer, NEW failed,
         Propose(s, side, p, answer, failed)
  PROVE  /\ DOMAIN candidate' = Symbols
         /\ \A k \in Symbols \ {s} : candidate'[k] = candidate[k]
         /\ candidate'[s] # candidate[s] =>
              Admitted(s, side, p, answer) /\ candidate'[s].side = side
<1>1. PICK c : c = [side |-> side, rank |-> p.rank, score |-> p.score,
                    percent |-> SizedPercent(answer)]
  OBVIOUS
<1>2. candidate' = [candidate EXCEPT ![s] = IF Admitted(s, side, p, answer) THEN c ELSE @]
  BY <1>1 DEF Propose, Admitted
<1>3. c.side = side BY <1>1
<1>4. CASE Admitted(s, side, p, answer)
  <2>1. candidate' = [candidate EXCEPT ![s] = c] BY <1>2, <1>4
  <2> QED BY <1>3, <1>4, <2>1
<1>5. CASE ~Admitted(s, side, p, answer)
  <2>1. candidate' = [candidate EXCEPT ![s] = candidate[s]] BY <1>2, <1>5
  <2> QED BY <2>1
<1> QED BY <1>4, <1>5

(* Every other step leaves the candidates alone, or takes one away.         *)
LEMMA OnlyProposalsAdmit ==
  ASSUME DOMAIN candidate = Symbols, [GateNext]_gateVars
  PROVE  \/ \E s \in Symbols, side \in Sides, answer \in Advices \cup {NoAdvice}, p \in Proposed,
               failed \in SUBSET {"trade", "stop"} : Propose(s, side, p, answer, failed)
         \/ DOMAIN candidate' = Symbols /\ \A k \in Symbols : ~Admits(k)
<1>1. CASE candidate' = candidate
  <2>1. \A k \in Symbols : candidate'[k] = candidate[k] BY <1>1
  <2> QED BY <1>1, <2>1 DEF Admits
<1>2. CASE Flush
  <2>1. PICK s \in Symbols : candidate' = [candidate EXCEPT ![s] = NoCandidate]
    BY <1>2 DEF Flush
  <2>2. DOMAIN candidate' = Symbols /\ candidate'[s] = NoCandidate
        /\ \A k \in Symbols : k # s => candidate'[k] = candidate[k]
    BY <2>1
  <2> QED BY <2>2 DEF Admits
<1>3. CASE Signal
  <2>1. \/ \E s \in Symbols, side \in Sides, answer \in Advices \cup {NoAdvice}, p \in Proposed,
             failed \in SUBSET {"trade", "stop"} : Propose(s, side, p, answer, failed)
        \/ candidate' = candidate
    BY <1>3 DEF Signal, NoEntry, CoolingDown
  <2> QED BY <1>1, <2>1
<1>4. CASE UNCHANGED gateVars \/ Close \/ TimePasses \/ RestartStrategy
  BY <1>1, <1>4 DEF gateVars, Close, TimePasses, RestartStrategy
<1> QED BY <1>2, <1>3, <1>4 DEF GateNext

LEMMA QuarantineStep ==
  QuarantineInv /\ [GateNext]_gateVars
    => QuarantineInv' /\ \A s \in Symbols : Admits(s) => imposed'[s] = 0
<1> SUFFICES ASSUME QuarantineInv, [GateNext]_gateVars
             PROVE  QuarantineInv' /\ \A s \in Symbols : Admits(s) => imposed'[s] = 0
  OBVIOUS
<1>0. DOMAIN candidate = Symbols BY DEF QuarantineInv
<1>1. ASSUME NEW s \in Symbols, NEW side \in Sides, NEW answer, NEW p, NEW failed,
             Propose(s, side, p, answer, failed)
      PROVE  QuarantineInv' /\ \A k \in Symbols : Admits(k) => imposed'[k] = 0
  <2>1. HearSignal(s, side, answer) BY <1>1 DEF Propose
  <2>2. /\ guard' \in [Symbols -> Nat] /\ imposed' \in [Symbols -> Nat]
        /\ \A x \in Symbols : imposed'[x] <= guard'[x]
    BY <2>1, HearStep
  <2>3. /\ DOMAIN candidate' = Symbols
        /\ \A k \in Symbols \ {s} : candidate'[k] = candidate[k]
        /\ candidate'[s] # candidate[s] => guard'[s] = 0
    BY <1>0, <1>1, ProposeFacts DEF Admitted
  <2>4. \A k \in Symbols : guard'[k] = 0 => imposed'[k] = 0
    <3> SUFFICES ASSUME NEW k \in Symbols, guard'[k] = 0 PROVE imposed'[k] = 0 OBVIOUS
    <3>1. imposed'[k] \in Nat /\ imposed'[k] <= guard'[k] BY <2>2
    <3> QED BY <3>1
  <2> QED BY <2>2, <2>3, <2>4 DEF QuarantineInv, Admits
<1>2. ASSUME DOMAIN candidate' = Symbols, \A k \in Symbols : ~Admits(k)
      PROVE  QuarantineInv' /\ \A k \in Symbols : Admits(k) => imposed'[k] = 0
  <2>1. /\ guard' \in [Symbols -> Nat] /\ imposed' \in [Symbols -> Nat]
        /\ \A x \in Symbols : imposed'[x] <= guard'[x]
    <3>1. CASE guard' = guard /\ imposed' = imposed BY <3>1 DEF QuarantineInv
    <3>2. CASE TimePasses
      <4> DEFINE Less(t) == IF t > 0 THEN t - 1 ELSE 0
      <4>1. /\ guard' = [s \in Symbols |-> Less(guard[s])]
            /\ imposed' = [s \in Symbols |-> Less(imposed[s])]
        BY <3>2 DEF TimePasses
      <4>2. \A t, u \in Nat : Less(t) \in Nat /\ (t <= u => Less(t) <= Less(u)) OBVIOUS
      <4> HIDE DEF Less
      <4> QED BY <4>1, <4>2 DEF QuarantineInv
    <3>3. CASE RestartStrategy BY <3>3 DEF RestartStrategy
    <3>4. CASE Signal
      <4>1. \E s, trend, answer : HearSignal(s, trend, answer)
        BY <3>4 DEF Signal, NoEntry, CoolingDown, Propose
      <4> QED BY <4>1, HearStep
    <3> QED BY <3>1, <3>2, <3>3, <3>4 DEF GateNext, gateVars, Flush, Close
  <2> QED BY <1>2, <2>1 DEF QuarantineInv
<1> QED BY <1>0, <1>1, <1>2, OnlyProposalsAdmit

\* Whatever advice follows which: no entry is admitted for a symbol while the
\* longest quarantine asked for since the process started is still running
\* (sync_execution_advice_guards).
THEOREM QuarantineHolds == GateSpec => EntryRespectsQuarantine
<1>1. QuarantineInv /\ [GateNext]_gateVars
        => [\A s \in Symbols : Admits(s) => imposed'[s] = 0]_gateVars
  BY QuarantineStep
<1>2. QuarantineInv /\ [GateNext]_gateVars => QuarantineInv' BY QuarantineStep
<1> QED BY <1>1, <1>2, QuarantineStart, PTL DEF GateSpec, EntryRespectsQuarantine

-----------------------------------------------------------------------------
Ends(q, c) == /\ c.ticks <= Len(q) /\ Len(q) <= MinTicks
              /\ \A i \in DOMAIN q : i > Len(q) - c.ticks => q[i] = c.side

Moved(q, side) == IF Len(q) < MinTicks THEN Append(q, side) ELSE Append(Tail(q), side)
Ticked(c, side) ==
  IF c.side = side
  THEN [side |-> side, ticks |-> IF c.ticks < MinTicks THEN c.ticks + 1 ELSE MinTicks]
  ELSE [side |-> side, ticks |-> 1]

(* One more proposal: the window moves on, and the count is that of its end. *)
LEMMA OneMoreTick ==
  ASSUME NEW q \in Seq(Sides), NEW c \in Tick, Ends(q, c), NEW side \in Sides,
         NEW r, r = Moved(q, side), NEW d, d = Ticked(c, side)
  PROVE  /\ r \in Seq(Sides) /\ d \in Tick /\ d.side = side /\ Ends(r, d)
         /\ d.ticks >= MinTicks => Len(r) = MinTicks /\ Range(r) = {side}
<1>1. MinTicks \in Nat \ {0} BY GateAssumption
<1>2. PICK t \in 0 .. MinTicks : t = c.ticks BY DEF Tick
<1>3. PICK n \in Nat : n = Len(q) /\ t <= n /\ n <= MinTicks /\ DOMAIN q = 1 .. n
  BY <1>2 DEF Ends
<1>4. \A i \in 1 .. n : i > n - t => q[i] = c.side BY <1>2, <1>3 DEF Ends
<1>5. PICK u \in 1 .. MinTicks : /\ u = IF c.side = side THEN IF t < MinTicks THEN t + 1 ELSE MinTicks
                                        ELSE 1
                                 /\ d = [side |-> side, ticks |-> u]
  BY <1>1, <1>2 DEF Ticked
<1>6. d \in Tick /\ d.side = side /\ d.ticks = u BY <1>1, <1>5 DEF Tick
<1>7. PICK m \in Nat : /\ m = IF n < MinTicks THEN n + 1 ELSE n
                       /\ r \in Seq(Sides) /\ Len(r) = m /\ DOMAIN r = 1 .. m
                       /\ r[m] = side
                       /\ \A i \in 1 .. m : i < m => r[i] = q[IF n < MinTicks THEN i ELSE i + 1]
  <2>1. CASE n < MinTicks
    <3>1. r = Append(q, side) BY <1>3, <2>1 DEF Moved
    <3>2. /\ r \in Seq(Sides) /\ Len(r) = n + 1 /\ DOMAIN r = 1 .. n + 1
          /\ \A i \in 1 .. n : r[i] = q[i]
          /\ r[n + 1] = side
      <4>1. /\ r \in Seq(Sides) /\ Len(r) = Len(q) + 1 /\ DOMAIN r = 1 .. Len(q) + 1
            /\ \A i \in 1 .. Len(q) : r[i] = q[i]
            /\ r[Len(q) + 1] = side
        BY <3>1, AppendFacts
      <4> QED BY <1>3, <4>1
    <3> QED BY <1>3, <2>1, <3>2
  <2>2. CASE ~(n < MinTicks)
    <3>1. PICK p : p = Tail(q) /\ r = Append(p, side) BY <1>3, <2>2 DEF Moved
    <3>2. q # <<>> /\ n >= 1 BY <1>1, <1>3, <2>2
    <3>3. p \in Seq(Sides) /\ Len(p) = n - 1 /\ \A i \in 1 .. n - 1 : p[i] = q[i + 1]
      BY <1>3, <3>1, <3>2, HeadTailProperties
    <3>4. /\ r \in Seq(Sides) /\ Len(r) = n /\ DOMAIN r = 1 .. n
          /\ \A i \in 1 .. n - 1 : r[i] = p[i]
          /\ r[n] = side
      <4>1. /\ r \in Seq(Sides) /\ Len(r) = Len(p) + 1 /\ DOMAIN r = 1 .. Len(p) + 1
            /\ \A i \in 1 .. Len(p) : r[i] = p[i]
            /\ r[Len(p) + 1] = side
        BY <3>1, <3>3, AppendFacts
      <4> QED BY <3>2, <3>3, <4>1
    <3> QED BY <1>3, <2>2, <3>2, <3>3, <3>4
  <2> QED BY <2>1, <2>2
<1>8. u <= m /\ m <= MinTicks /\ m >= 1 BY <1>1, <1>2, <1>3, <1>5, <1>7
<1>9. ASSUME NEW i \in 1 .. m, i > m - u PROVE r[i] = side
  <2>1. CASE i = m BY <1>7, <2>1
  <2>2. CASE i # m
    <3>1. c.side = side /\ u >= 2 BY <1>5, <1>9, <2>2
    <3>2. CASE n < MinTicks
      <4>1. r[i] = q[i] /\ i \in 1 .. n /\ i > n - t BY <1>2, <1>3, <1>5, <1>7, <1>9, <2>2, <3>1, <3>2
      <4> QED BY <1>4, <3>1, <4>1
    <3>3. CASE ~(n < MinTicks)
      <4>1. r[i] = q[i + 1] /\ i + 1 \in 1 .. n /\ i + 1 > n - t
        BY <1>2, <1>3, <1>5, <1>7, <1>9, <2>2, <3>1, <3>3
      <4> QED BY <1>4, <3>1, <4>1
    <3> QED BY <3>2, <3>3
  <2> QED BY <2>1, <2>2
<1>10. Ends(r, d) BY <1>6, <1>7, <1>8, <1>9 DEF Ends
<1>11. ASSUME d.ticks >= MinTicks PROVE Len(r) = MinTicks /\ Range(r) = {side}
  <2>1. u = MinTicks /\ m = MinTicks BY <1>1, <1>5, <1>6, <1>8, <1>11
  <2>2. \A i \in 1 .. m : i > m - u BY <1>1, <2>1
  <2>3. \A i \in 1 .. m : r[i] = side BY <1>9, <2>2
  <2> QED BY <1>1, <1>7, <2>1, <2>3 DEF Range
<1> QED BY <1>6, <1>7, <1>10, <1>11

LEMMA ConfirmationStart == GateInit => ConfirmationInv
<1> SUFFICES ASSUME GateInit PROVE ConfirmationInv OBVIOUS
<1>1. [side |-> "none", ticks |-> 0] \in Tick BY GateAssumption DEF Tick
<1>2. <<>> \in Seq(Sides) /\ Len(<<>>) = 0 /\ Len(<<>>) <= MinTicks BY GateAssumption
<1> QED BY <1>1, <1>2 DEF GateInit, ConfirmationInv, LastOnes

LEMMA ConfirmationStep ==
  ConfirmationInv /\ [GateNext]_gateVars
    => /\ ConfirmationInv'
       /\ \A s \in Symbols : Admits(s) => /\ Len(proposals'[s]) = MinTicks
                                          /\ Range(proposals'[s]) = {candidate'[s].side}
<1> DEFINE Shown(s) == Admits(s) => /\ Len(proposals'[s]) = MinTicks
                                    /\ Range(proposals'[s]) = {candidate'[s].side}
<1> SUFFICES ASSUME ConfirmationInv, [GateNext]_gateVars
             PROVE  ConfirmationInv' /\ \A s \in Symbols : Shown(s)
  OBVIOUS
<1>0. DOMAIN candidate = Symbols BY DEF ConfirmationInv
<1>1. ASSUME NEW s \in Symbols, NEW side \in Sides, NEW answer, NEW p, NEW failed,
             Propose(s, side, p, answer, failed)
      PROVE  ConfirmationInv' /\ \A k \in Symbols : Shown(k)
  <2>1. PICK q \in Seq(Sides), c \in Tick : q = proposals[s] /\ c = confirmation[s]
    BY DEF ConfirmationInv
  <2>2. Ends(q, c) BY <2>1 DEF Ends, ConfirmationInv, LastOnes
  <2>3. PICK r : r = Moved(q, side) OBVIOUS
  <2>4. PICK d : d = Ticked(c, side) OBVIOUS
  <2>5. /\ r \in Seq(Sides) /\ d \in Tick /\ d.side = side /\ Ends(r, d)
        /\ d.ticks >= MinTicks => Len(r) = MinTicks /\ Range(r) = {side}
    BY <2>2, <2>3, <2>4, OneMoreTick
  <2>6. CountTick(s, side) = d BY <2>1, <2>4 DEF CountTick, Ticked
  <2>7. /\ confirmation' = [confirmation EXCEPT ![s] = d]
        /\ proposals' = [proposals EXCEPT ![s] = r]
    BY <1>1, <2>1, <2>3, <2>6 DEF Propose, Moved
  <2>8. /\ confirmation' \in [Symbols -> Tick] /\ proposals' \in [Symbols -> Seq(Sides)]
        /\ confirmation'[s] = d /\ proposals'[s] = r
        /\ \A k \in Symbols : k # s => /\ confirmation'[k] = confirmation[k]
                                       /\ proposals'[k] = proposals[k]
    BY <2>5, <2>7 DEF ConfirmationInv
  <2>9. ASSUME NEW k \in Symbols PROVE LastOnes(k)'
    <3>1. CASE k = s BY <2>5, <2>8, <3>1 DEF LastOnes, Ends
    <3>2. CASE k # s
      <4>1. LastOnes(k) BY DEF ConfirmationInv
      <4> QED BY <2>8, <3>2, <4>1 DEF LastOnes
    <3> QED BY <3>1, <3>2
  <2>10. /\ DOMAIN candidate' = Symbols
         /\ \A k \in Symbols \ {s} : candidate'[k] = candidate[k]
         /\ candidate'[s] # candidate[s] => d.ticks >= MinTicks /\ candidate'[s].side = side
    BY <1>0, <1>1, <2>8, ProposeFacts DEF Admitted
  <2>11. \A k \in Symbols : Shown(k) BY <2>5, <2>8, <2>10 DEF Admits
  <2> QED BY <2>8, <2>9, <2>10, <2>11 DEF ConfirmationInv
<1>2. ASSUME DOMAIN candidate' = Symbols, \A k \in Symbols : ~Admits(k)
      PROVE  ConfirmationInv' /\ \A k \in Symbols : Shown(k)
  <2>1. CASE confirmation' = confirmation /\ proposals' = proposals
    BY <1>2, <2>1 DEF ConfirmationInv, LastOnes
  <2>2. CASE RestartStrategy
    <3>1. [side |-> "none", ticks |-> 0] \in Tick BY GateAssumption DEF Tick
    <3>2. <<>> \in Seq(Sides) /\ Len(<<>>) = 0 /\ Len(<<>>) <= MinTicks BY GateAssumption
    <3> QED BY <1>2, <2>2, <3>1, <3>2 DEF RestartStrategy, ConfirmationInv, LastOnes
  <2>3. CASE \E s \in Symbols, side \in Sides, answer \in Advices \cup {NoAdvice}, p \in Proposed,
                failed \in SUBSET {"trade", "stop"} : Propose(s, side, p, answer, failed)
    BY <1>1, <2>3
  <2>4. CASE Signal BY <2>1, <2>3, <2>4 DEF Signal, NoEntry, CoolingDown
  <2> QED BY <2>1, <2>2, <2>4 DEF GateNext, gateVars, Flush, Close, TimePasses
<1> QED BY <1>0, <1>1, <1>2, OnlyProposalsAdmit

\* An entry that is admitted was proposed for its side by the last MinTicks
\* proposals for the symbol, with none for the other side among them
\* (evaluate_entry_guard_policy and the reset on a change of side).
THEOREM EntriesAreConfirmed == GateSpec => EntryIsConfirmed
<1>1. ConfirmationInv /\ [GateNext]_gateVars
        => [\A s \in Symbols :
              Admits(s) => /\ Len(proposals'[s]) = MinTicks
                           /\ Range(proposals'[s]) = {candidate'[s].side}]_gateVars
  BY ConfirmationStep
<1>2. ConfirmationInv /\ [GateNext]_gateVars => ConfirmationInv' BY ConfirmationStep
<1> QED BY <1>1, <1>2, ConfirmationStart, PTL DEF GateSpec, EntryIsConfirmed

(***************************************************************************)
(* analytics.  The candles of a venue are in order, none is younger than   *)
(* the chart, and each minute that the cache reaches back to is there with *)
(* its final close if anything arrived in the minute after it.             *)
(***************************************************************************)
Candle == [minute : Nat, close : Prices]
Ascending(c) == \A i, j \in 1 .. Len(c) : i < j => c[i].minute < c[j].minute
Holds(c, x) == \E i \in 1 .. Len(c) : c[i] = x
FinalCandle(m) == [minute |-> m, close |-> chart[m]]
Known(c, minutes) ==
  c # <<>> => \A m \in c[1].minute .. Now - 1 : m + 1 \in minutes => Holds(c, FinalCandle(m))

CandlesInv(c, minutes) ==
  /\ c \in Seq(Candle) /\ Len(c) <= Depth /\ Ascending(c)
  /\ \A i \in 1 .. Len(c) : c[i].minute \in 1 .. Now
  /\ Known(c, minutes)

CacheInv ==
  /\ chart \in Seq(Prices) /\ Now >= 1 /\ turn \in Nat \ {0}
  /\ cache \in [ToSet(Venues) -> Seq(Candle)]
  /\ fetched \in [ToSet(Venues) -> SUBSET (1 .. Now)]
  /\ \A v \in ToSet(Venues) : CandlesInv(cache[v], fetched[v])

LEMMA ConcatFacts ==
  ASSUME NEW S, NEW s \in Seq(S), NEW t \in Seq(S), NEW u, u = s \o t
  PROVE  /\ u \in Seq(S) /\ Len(u) = Len(s) + Len(t)
         /\ \A i \in 1 .. Len(s) : u[i] = s[i]
         /\ \A i \in 1 .. Len(t) : u[Len(s) + i] = t[i]
OBVIOUS

\* Those before a minute are the first ones.
LEMMA PositionFacts ==
  ASSUME NEW c \in Seq(Candle), Ascending(c), NEW m \in Nat, NEW p, p = Position(c, m)
  PROVE  /\ p \in 1 .. Len(c) + 1
         /\ \A i \in 1 .. Len(c) : (i < p => c[i].minute < m) /\ (i >= p => c[i].minute >= m)
<1> DEFINE S == {i \in 1 .. Len(c) : c[i].minute < m}
<1>0. Len(c) \in Nat /\ DOMAIN c = 1 .. Len(c) /\ \A i \in 1 .. Len(c) : c[i] \in Candle OBVIOUS
<1>1. p = Cardinality(S) + 1 BY <1>0 DEF Position
<1>2. \A i \in 1 .. Len(c) : c[i].minute \in Nat BY <1>0 DEF Candle
<1>3. \E k \in 0 .. Len(c) : S = 1 .. k
  <2>1. CASE S = {}
    <3>1. S = 1 .. 0 BY <2>1
    <3> QED BY <3>1, <1>0
  <2>2. CASE S # {}
    <3>1. S \subseteq 0 .. Len(c) BY <1>0
    <3>2. PICK k \in S : \A i \in S : i <= k BY <3>1, <2>2, <1>0, GreatestElement
    <3>3. k \in 1 .. Len(c) /\ c[k].minute < m OBVIOUS
    <3>4. \A i \in 1 .. k : i \in S
      <4> TAKE i \in 1 .. k
      <4>1. i \in 1 .. Len(c) BY <3>3, <1>0
      <4>2. c[i].minute <= c[k].minute BY <3>3, <4>1, <1>2 DEF Ascending
      <4> QED BY <4>1, <4>2, <3>3, <1>2
    <3>5. \A i \in S : i \in 1 .. k BY <3>2, <3>3, <1>0
    <3>6. S = 1 .. k BY <3>4, <3>5
    <3> QED BY <3>6, <3>3
  <2> QED BY <2>1, <2>2
<1>4. PICK k \in 0 .. Len(c) : S = 1 .. k BY <1>3
<1>5. Cardinality(1 .. k) = k BY <1>0, FS_Interval
<1>6. p = k + 1 BY <1>1, <1>4, <1>5
<1>7. \A i \in 1 .. Len(c) : i \in S <=> i \in 1 .. k BY <1>4
<1> HIDE DEF S
<1>8. \A i \in 1 .. Len(c) : c[i].minute < m <=> i <= k BY <1>7, <1>0 DEF S
<1> QED BY <1>0, <1>2, <1>6, <1>8

\* What a candle that is put in order leaves as it was.
LEMMA PutFacts ==
  ASSUME NEW c \in Seq(Candle), Ascending(c), NEW x \in Candle, NEW d, d = PutCandle(c, x)
  PROVE  /\ d \in Seq(Candle) /\ Ascending(d) /\ Holds(d, x) /\ Len(d) >= Len(c)
         /\ \A i \in 1 .. Len(d) : d[i] = x \/ Holds(c, d[i])
         /\ \A i \in 1 .. Len(c) : c[i].minute # x.minute => Holds(d, c[i])
<1>0. Len(c) \in Nat /\ DOMAIN c = 1 .. Len(c) /\ \A i \in 1 .. Len(c) : c[i] \in Candle OBVIOUS
<1>1. x.minute \in Nat /\ \A i \in 1 .. Len(c) : c[i].minute \in Nat BY <1>0 DEF Candle
<1>2. PICK p : p = Position(c, x.minute) OBVIOUS
<1>3. /\ p \in 1 .. Len(c) + 1
      /\ \A i \in 1 .. Len(c) : /\ i < p => c[i].minute < x.minute
                                /\ i >= p => c[i].minute >= x.minute
  BY <1>1, <1>2, PositionFacts
<1>4. \A i, j \in 1 .. Len(c) : i < j => c[i].minute < c[j].minute BY DEF Ascending
<1>5. CASE p \in 1 .. Len(c) /\ c[p].minute = x.minute
  <2>1. d = [c EXCEPT ![p] = x] BY <1>0, <1>2, <1>5 DEF PutCandle
  <2>2. d \in Seq(Candle) /\ Len(d) = Len(c) BY <2>1, <1>5
  <2>3. \A i \in 1 .. Len(c) : d[i] = IF i = p THEN x ELSE c[i] BY <2>1, <1>0
  <2>4. \A i \in 1 .. Len(c) : d[i].minute = c[i].minute BY <2>3, <1>5
  <2>5. Ascending(d) BY <2>2, <2>4, <1>4 DEF Ascending
  <2>6. Holds(d, x) BY <1>5, <2>2, <2>3 DEF Holds
  <2>7. \A i \in 1 .. Len(d) : d[i] = x \/ Holds(c, d[i]) BY <2>2, <2>3 DEF Holds
  <2>8. \A i \in 1 .. Len(c) : c[i].minute # x.minute => Holds(d, c[i])
    BY <2>2, <2>3, <1>5 DEF Holds
  <2> QED BY <2>2, <2>5, <2>6, <2>7, <2>8, <1>0
<1>6. CASE ~(p \in 1 .. Len(c) /\ c[p].minute = x.minute)
  <2>1. d = SubSeq(c, 1, p - 1) \o <<x>> \o SubSeq(c, p, Len(c))
    BY <1>0, <1>2, <1>6 DEF PutCandle, InsertAt
  <2> DEFINE Old(i) == IF i < p THEN c[i] ELSE IF i = p THEN x ELSE c[i - 1]
  <2>10. PICK l, r : l = SubSeq(c, 1, p - 1) /\ r = SubSeq(c, p, Len(c)) OBVIOUS
  <2>11. /\ l \in Seq(Candle) /\ Len(l) = p - 1
         /\ \A i \in 1 .. p - 1 : l[i] = c[i]
    BY <2>10, <1>0, <1>3
  <2>12. /\ r \in Seq(Candle) /\ Len(r) = Len(c) - p + 1
         /\ \A i \in 1 .. Len(c) - p + 1 : r[i] = c[p + i - 1]
    BY <2>10, <1>0, <1>3
  <2>13. PICK h : h = l \o <<x>> OBVIOUS
  <2>14. h \in Seq(Candle) /\ Len(h) = p /\ h[p] = x /\ \A i \in 1 .. p - 1 : h[i] = c[i]
    BY <2>11, <2>13, <1>3
  <2>15. d = h \o r BY <2>1, <2>10, <2>13
  <2>16. /\ d \in Seq(Candle) /\ Len(d) = Len(h) + Len(r)
         /\ \A i \in 1 .. Len(h) : d[i] = h[i]
         /\ \A i \in 1 .. Len(r) : d[Len(h) + i] = r[i]
    <3>1. h \in Seq(Candle) /\ r \in Seq(Candle) /\ d = h \o r BY <2>12, <2>14, <2>15
    <3> HIDE DEF Candle
    <3> QED BY <3>1, ConcatFacts
  <2>2. d \in Seq(Candle) /\ Len(d) = Len(c) + 1 BY <2>16, <2>12, <2>14, <1>0, <1>3
  <2>3. \A i \in 1 .. Len(c) + 1 : d[i] = IF i < p THEN c[i] ELSE IF i = p THEN x ELSE c[i - 1]
    <3> TAKE i \in 1 .. Len(c) + 1
    <3>1. CASE i < p
      <4>1. i \in 1 .. p - 1 /\ i \in 1 .. Len(h) BY <3>1, <2>14, <1>3
      <4> QED BY <4>1, <3>1, <2>14, <2>16
    <3>2. CASE i = p BY <3>2, <2>14, <2>16, <1>3
    <3>3. CASE i > p
      <4>1. i - p \in 1 .. Len(c) - p + 1 BY <3>3, <1>0, <1>3
      <4>2. d[p + (i - p)] = r[i - p] BY <4>1, <2>12, <2>14, <2>16
      <4>3. r[i - p] = c[p + (i - p) - 1] BY <4>1, <2>12
      <4>4. p + (i - p) = i /\ p + (i - p) - 1 = i - 1 BY <1>3
      <4> QED BY <4>2, <4>3, <4>4, <3>3, <1>3
    <3> QED BY <3>1, <3>2, <3>3, <1>3
  <2>4. \A i \in 1 .. Len(c) : i >= p => c[i].minute > x.minute
    <3> TAKE i \in 1 .. Len(c)
    <3> HAVE i >= p
    <3>1. p \in 1 .. Len(c) /\ c[p].minute > x.minute BY <1>0, <1>1, <1>3, <1>6
    <3>2. c[p].minute <= c[i].minute BY <3>1, <1>0, <1>1, <1>4
    <3> QED BY <3>1, <3>2, <1>1
  <2>5. Ascending(d)
    <3> SUFFICES ASSUME NEW i \in 1 .. Len(c) + 1, NEW j \in 1 .. Len(c) + 1, i < j
                 PROVE  d[i].minute < d[j].minute BY <2>2 DEF Ascending
    <3>1. CASE j < p BY <3>1, <1>0, <1>3, <1>4, <2>3
    <3>2. CASE j = p
      <4>1. i \in 1 .. Len(c) /\ i < p /\ d[i] = c[i] /\ d[j] = x BY <3>2, <1>0, <1>3, <2>3
      <4> QED BY <4>1, <1>3
    <3>3. CASE j > p
      <4>1. j - 1 \in 1 .. Len(c) /\ j - 1 >= p /\ d[j] = c[j - 1] BY <3>3, <1>0, <1>3, <2>3
      <4>2. CASE i < p
        <5>1. i \in 1 .. Len(c) /\ d[i] = c[i] /\ i < j - 1 BY <4>1, <4>2, <1>0, <1>3, <2>3
        <5> QED BY <4>1, <5>1, <1>4
      <4>3. CASE i = p
        <5>1. d[i] = x BY <4>3, <1>0, <2>3
        <5> QED BY <4>1, <5>1, <2>4, <1>1
      <4>4. CASE i > p
        <5>1. i - 1 \in 1 .. Len(c) /\ d[i] = c[i - 1] /\ i - 1 < j - 1 BY <4>4, <1>0, <1>3, <2>3
        <5> QED BY <4>1, <5>1, <1>4
      <4> QED BY <4>2, <4>3, <4>4, <1>3
    <3> QED BY <3>1, <3>2, <3>3, <1>3
  <2>6. Holds(d, x) BY <1>0, <1>3, <2>2, <2>3 DEF Holds
  <2>7. \A i \in 1 .. Len(d) : d[i] = x \/ Holds(c, d[i])
    <3> SUFFICES ASSUME NEW i \in 1 .. Len(c) + 1 PROVE d[i] = x \/ Holds(c, d[i]) BY <2>2
    <3>1. CASE i < p BY <3>1, <1>0, <1>3, <2>3 DEF Holds
    <3>2. CASE i = p BY <3>2, <1>0, <2>3
    <3>3. CASE i > p
      <4>1. i - 1 \in 1 .. Len(c) /\ d[i] = c[i - 1] BY <3>3, <1>0, <1>3, <2>3
      <4> QED BY <4>1 DEF Holds
    <3> QED BY <3>1, <3>2, <3>3, <1>3
  <2>8. \A i \in 1 .. Len(c) : Holds(d, c[i])
    <3> TAKE i \in 1 .. Len(c)
    <3>1. CASE i < p BY <3>1, <1>0, <2>2, <2>3 DEF Holds
    <3>2. CASE i >= p
      <4>1. i + 1 \in 1 .. Len(c) + 1 /\ d[i + 1] = c[i] BY <3>2, <1>0, <1>3, <2>3
      <4> QED BY <4>1, <2>2 DEF Holds
    <3> QED BY <3>1, <3>2, <1>3
  <2> QED BY <2>2, <2>5, <2>6, <2>7, <2>8, <1>0
<1> QED BY <1>5, <1>6

\* The newest n of a row are its end.
LEMMA NewestFacts ==
  ASSUME NEW c \in Seq(Candle), NEW n \in Nat \ {0}, NEW d, d = Newest(c, n)
  PROVE  /\ d \in Seq(Candle) /\ Len(d) <= n /\ Len(d) <= Len(c) /\ Len(d) \in Nat
         /\ Len(d) = (IF Len(c) > n THEN n ELSE Len(c))
         /\ \A i \in 1 .. Len(d) : d[i] = c[Len(c) - Len(d) + i]
<1>1. CASE Len(c) > n
  <2>1. d = SubSeq(c, Len(c) - n + 1, Len(c)) BY <1>1 DEF Newest
  <2>2. d \in Seq(Candle) /\ Len(d) = n BY <2>1, <1>1
  <2>3. \A i \in 1 .. n : d[i] = c[Len(c) - n + i] BY <2>1, <1>1
  <2> QED BY <2>2, <2>3, <1>1
<1>2. CASE ~(Len(c) > n)
  <2>1. d = c BY <1>2 DEF Newest
  <2> QED BY <2>1, <1>2
<1> QED BY <1>1, <1>2

LEMMA MergedTwo ==
  ASSUME NEW c, NEW x, NEW y, NEW e, e = PutCandle(c, x), NEW d, d = PutCandle(e, y)
  PROVE  Merged(c, <<x, y>>) = Newest(d, Depth)
<1> DEFINE Puts(f) == f = [k \in 0 .. 2 |-> IF k = 0 THEN c ELSE PutCandle(f[k - 1], <<x, y>>[k])]
<1>1. PICK f : f = [k \in 0 .. 2 |-> IF k = 0 THEN c ELSE IF k = 1 THEN e ELSE d] OBVIOUS
<1>2. f[0] = c /\ f[1] = e /\ f[2] = d BY <1>1
<1>3. \A k \in 0 .. 2 : f[k] = IF k = 0 THEN c ELSE PutCandle(f[k - 1], <<x, y>>[k])
  <2> TAKE k \in 0 .. 2
  <2>1. CASE k = 0 BY <2>1, <1>2
  <2>2. CASE k = 1 BY <2>2, <1>2
  <2>3. CASE k = 2 BY <2>3, <1>2
  <2> QED BY <2>1, <2>2, <2>3
<1>4. Puts(f) BY <1>1, <1>3
<1>5. PICK g : g = CHOOSE h : Puts(h) OBVIOUS
<1>6. Puts(g) BY <1>4, <1>5
<1>7. \A k \in 0 .. 2 : g[k] = IF k = 0 THEN c ELSE PutCandle(g[k - 1], <<x, y>>[k]) BY <1>6
<1>8. g[0] = c BY <1>7
<1>9. g[1] = e BY <1>7, <1>8
<1>10. g[2] = d BY <1>7, <1>9
<1>11. Len(<<x, y>>) = 2 OBVIOUS
<1>12. Merged(c, <<x, y>>) = Newest(g[2], Depth) BY <1>5, <1>11 DEF Merged
<1> QED BY <1>10, <1>12

LEMMA AnsweredFacts ==
  ASSUME chart \in Seq(Prices), Now >= 1, NEW n \in Nat \ {0}, NEW a, a = Answered(n)
  PROVE  /\ a \in Seq(Candle) /\ Len(a) \in Nat /\ Len(a) = (IF Now > n THEN n ELSE Now)
         /\ \A i \in 1 .. Len(a) : a[i] = FinalCandle(Now - Len(a) + i)
<1>0. Now \in Nat /\ \A m \in 1 .. Now : chart[m] \in Prices BY DEF Now
<1>1. PICK b : b = [m \in 1 .. Now |-> FinalCandle(m)] OBVIOUS
<1>2. \A m \in 1 .. Now : b[m] = FinalCandle(m) /\ FinalCandle(m) \in Candle
  BY <1>0, <1>1 DEF FinalCandle, Candle
<1>3. b \in [1 .. Now -> Candle] BY <1>1, <1>2
<1>4. b \in Seq(Candle) /\ Len(b) = Now BY <1>0, <1>3, FunctionIsSequence
<1>5. a = Newest(b, n) BY <1>1 DEF Answered, FinalCandle, Now
<1>6. /\ a \in Seq(Candle) /\ Len(a) \in Nat /\ Len(a) <= Len(b)
      /\ Len(a) = (IF Len(b) > n THEN n ELSE Len(b))
      /\ \A i \in 1 .. Len(a) : a[i] = b[Len(b) - Len(a) + i]
  <2>1. b \in Seq(Candle) /\ n \in Nat \ {0} /\ a = Newest(b, n) BY <1>4, <1>5
  <2> HIDE DEF Candle
  <2> QED BY <2>1, NewestFacts
<1>7. \A i \in 1 .. Len(a) : Now - Len(a) + i \in 1 .. Now BY <1>0, <1>4, <1>6
<1>8. \A i \in 1 .. Len(a) : a[i] = FinalCandle(Now - Len(a) + i) BY <1>2, <1>4, <1>6, <1>7
<1> QED BY <1>4, <1>6, <1>8

\* A whole answer takes the place of a cache that is not full.
LEMMA Replaced ==
  ASSUME chart \in Seq(Prices), Now >= 1, NEW minutes, NEW a, a = Answered(Depth)
  PROVE  CandlesInv(a, minutes)
<1>0. Now \in Nat BY DEF Now
<1>1. /\ a \in Seq(Candle) /\ Len(a) \in Nat /\ Len(a) = (IF Now > Depth THEN Depth ELSE Now)
      /\ \A i \in 1 .. Len(a) : a[i] = FinalCandle(Now - Len(a) + i)
  BY AnsweredFacts, AnalyticsAssumption
<1>2. Len(a) <= Depth /\ Len(a) <= Now /\ Len(a) >= 1 BY <1>0, <1>1, AnalyticsAssumption
<1>3. \A i \in 1 .. Len(a) : a[i].minute = Now - Len(a) + i
  <2>1. \A k : FinalCandle(k).minute = k BY DEF FinalCandle
  <2> QED BY <2>1, <1>1
<1>4. Ascending(a) BY <1>0, <1>1, <1>3 DEF Ascending
<1>5. \A i \in 1 .. Len(a) : a[i].minute \in 1 .. Now BY <1>0, <1>1, <1>2, <1>3
<1>6. ASSUME NEW m \in a[1].minute .. Now - 1 PROVE Holds(a, FinalCandle(m))
  <2>1. a[1].minute = Now - Len(a) + 1 BY <1>2, <1>3, <1>1
  <2>2. PICK i : i = m - Now + Len(a) OBVIOUS
  <2>3. i \in 1 .. Len(a) /\ Now - Len(a) + i = m
    <3>1. m \in Now - Len(a) + 1 .. Now - 1 BY <2>1
    <3>2. Len(a) \in Nat BY <1>1
    <3> QED BY <3>1, <3>2, <2>2, <1>0
  <2>4. a[i] = FinalCandle(m) BY <2>3, <1>1
  <2> QED BY <2>3, <2>4 DEF Holds
<1>7. Known(a, minutes) BY <1>6 DEF Known
<1> QED BY <1>1, <1>2, <1>4, <1>5, <1>7 DEF CandlesInv

\* The last two candles are put into a cache that is full.
LEMMA Patched ==
  ASSUME chart \in Seq(Prices), Now >= 1, NEW minutes \in SUBSET (1 .. Now),
         NEW c, CandlesInv(c, minutes), ~(Len(c) < Depth), NEW g, g = Merged(c, Answered(2))
  PROVE  CandlesInv(g, minutes \cup {Now})
<1>0. /\ Now \in Nat /\ c \in Seq(Candle) /\ Len(c) \in Nat /\ Ascending(c)
      /\ \A i \in 1 .. Len(c) : c[i].minute \in 1 .. Now /\ c[i] \in Candle
      /\ Depth \in Nat /\ Depth >= 2
  BY AnalyticsAssumption DEF CandlesInv, Now
<1>1. Len(c) >= 2 BY <1>0
<1>2. Now >= 2
  <2>1. 1 \in 1 .. Len(c) /\ 2 \in 1 .. Len(c) BY <1>0, <1>1
  <2>2. c[1].minute < c[2].minute BY <1>0, <2>1 DEF Ascending
  <2>3. c[1].minute \in 1 .. Now /\ c[2].minute \in 1 .. Now BY <1>0, <2>1
  <2> QED BY <2>2, <2>3, <1>0
<1>3. PICK x, y : x = FinalCandle(Now - 1) /\ y = FinalCandle(Now) OBVIOUS
<1>4. Answered(2) = <<x, y>>
  <2>1. PICK a : a = Answered(2) OBVIOUS
  <2>2. /\ a \in Seq(Candle) /\ Len(a) = (IF Now > 2 THEN 2 ELSE Now)
        /\ \A i \in 1 .. Len(a) : a[i] = FinalCandle(Now - Len(a) + i)
    <3>1. 2 \in Nat \ {0} OBVIOUS
    <3> HIDE DEF Candle
    <3> QED BY <3>1, <2>1, AnsweredFacts
  <2>3. Len(a) = 2 BY <2>2, <1>0, <1>2
  <2>4. a[1] = x /\ a[2] = y
    <3>1. a[1] = FinalCandle(Now - 2 + 1) /\ a[2] = FinalCandle(Now - 2 + 2) BY <2>2, <2>3
    <3>2. Now - 2 + 1 = Now - 1 /\ Now - 2 + 2 = Now BY <1>0
    <3> QED BY <3>1, <3>2, <1>3
  <2>5. a = <<x, y>> BY <2>2, <2>3, <2>4
  <2> QED BY <2>1, <2>5
<1>5. x \in Candle /\ x.minute = Now - 1 /\ y \in Candle /\ y.minute = Now
  <2>1. Now - 1 \in Nat /\ chart[Now - 1] \in Prices /\ chart[Now] \in Prices
    BY <1>0, <1>2 DEF Now
  <2> QED BY <2>1, <1>0, <1>3 DEF FinalCandle, Candle
<1>6. PICK e, d : e = PutCandle(c, x) /\ d = PutCandle(e, y) OBVIOUS
<1>7. /\ e \in Seq(Candle) /\ Ascending(e) /\ Holds(e, x) /\ Len(e) >= Len(c)
      /\ \A i \in 1 .. Len(e) : e[i] = x \/ Holds(c, e[i])
      /\ \A i \in 1 .. Len(c) : c[i].minute # x.minute => Holds(e, c[i])
  BY <1>0, <1>5, <1>6, PutFacts
<1>8. /\ d \in Seq(Candle) /\ Ascending(d) /\ Holds(d, y) /\ Len(d) >= Len(e)
      /\ \A i \in 1 .. Len(d) : d[i] = y \/ Holds(e, d[i])
      /\ \A i \in 1 .. Len(e) : e[i].minute # y.minute => Holds(d, e[i])
  BY <1>7, <1>5, <1>6, PutFacts
<1>9. /\ g \in Seq(Candle) /\ Len(g) <= Depth /\ Len(g) <= Len(d) /\ Len(g) \in Nat
      /\ Len(g) = (IF Len(d) > Depth THEN Depth ELSE Len(d))
      /\ \A i \in 1 .. Len(g) : g[i] = d[Len(d) - Len(g) + i]
  <2>1. g = Newest(d, Depth) BY <1>4, <1>6, MergedTwo
  <2>2. d \in Seq(Candle) /\ Depth \in Nat \ {0} BY <1>0, <1>8
  <2>3. g \in Seq(Candle) /\ Len(g) \in Nat BY <2>1, <2>2, NewestFacts
  <2>4. Len(g) <= Depth /\ Len(g) <= Len(d) BY <2>1, <2>2, NewestFacts
  <2>5. Len(g) = (IF Len(d) > Depth THEN Depth ELSE Len(d)) BY <2>1, <2>2, NewestFacts
  <2>6. \A i \in 1 .. Len(g) : g[i] = d[Len(d) - Len(g) + i]
    BY <2>1, <2>2, NewestFacts
  <2> QED BY <2>3, <2>4, <2>5, <2>6
<1>10. Len(d) \in Nat /\ Len(e) \in Nat /\ Len(g) >= 1
       /\ \A i \in 1 .. Len(g) : Len(d) - Len(g) + i \in 1 .. Len(d)
  <2>1. Len(d) \in Nat /\ Len(e) \in Nat BY <1>7, <1>8
  <2>2. Len(d) >= 2 BY <2>1, <1>0, <1>1, <1>7, <1>8
  <2>3. Len(g) >= 1 BY <2>1, <2>2, <1>0, <1>9
  <2> QED BY <2>1, <2>3, <1>9
<1>11. \A i \in 1 .. Len(d) : d[i] = x \/ d[i] = y \/ Holds(c, d[i])
  BY <1>7, <1>8 DEF Holds
<1>12. \A i \in 1 .. Len(d) : d[i].minute \in 1 .. Now
  <2>1. x.minute = Now - 1 /\ y.minute = Now /\ Now \in Nat /\ Now >= 2 BY <1>0, <1>2, <1>3 DEF FinalCandle
  <2>2. x.minute \in 1 .. Now /\ y.minute \in 1 .. Now BY <2>1
  <2>3. \A i \in 1 .. Len(c) : c[i].minute \in 1 .. Now BY <1>0
  <2>4. \A a : Holds(c, a) => a.minute \in 1 .. Now BY <2>3 DEF Holds
  <2> QED BY <1>11, <2>2, <2>4
<1>13. \A i \in 1 .. Len(g) : g[i].minute \in 1 .. Now BY <1>9, <1>10, <1>12
<1>14. Ascending(g)
  <2> SUFFICES ASSUME NEW i \in 1 .. Len(g), NEW j \in 1 .. Len(g), i < j
               PROVE  g[i].minute < g[j].minute BY DEF Ascending
  <2>1. PICK k \in 1 .. Len(d), l \in 1 .. Len(d) :
          k = Len(d) - Len(g) + i /\ l = Len(d) - Len(g) + j BY <1>10
  <2>2. g[i] = d[k] /\ g[j] = d[l] BY <2>1, <1>9
  <2>3. k < l BY <2>1, <1>9, <1>10
  <2> QED BY <2>2, <2>3, <1>8 DEF Ascending
\* What the merged candles have is still there if the cache reaches back to it.
<1>15. ASSUME NEW z, Holds(d, z), z.minute \in Nat, g[1].minute <= z.minute PROVE Holds(g, z)
  <2>1. PICK l \in 1 .. Len(d) : d[l] = z BY <1>15 DEF Holds
  <2>2. PICK k \in 1 .. Len(d) : k = Len(d) - Len(g) + 1 /\ g[1] = d[k] BY <1>9, <1>10
  <2>3. k <= l
    <3> SUFFICES ASSUME l < k PROVE FALSE BY <1>10
    <3>1. d[l].minute < d[k].minute BY <1>8 DEF Ascending
    <3>2. d[k].minute \in Nat BY <1>12
    <3> QED BY <3>1, <3>2, <2>1, <2>2, <1>15
  <2>4. PICK i : i = l - k + 1 OBVIOUS
  <2>5. i \in 1 .. Len(g) /\ Len(d) - Len(g) + i = l BY <2>2, <2>3, <2>4, <1>9, <1>10
  <2>6. g[i] = z BY <2>1, <2>5, <1>9
  <2> QED BY <2>5, <2>6 DEF Holds
<1>16. ASSUME NEW m \in g[1].minute .. Now - 1, m + 1 \in minutes \cup {Now}
       PROVE  Holds(g, FinalCandle(m))
  <2>1. 1 \in 1 .. Len(g) /\ g[1].minute \in 1 .. Now BY <1>10, <1>9, <1>13
  <2>2. m \in Nat /\ FinalCandle(m).minute = m /\ g[1].minute <= m /\ m <= Now - 1
    BY <2>1, <1>0 DEF FinalCandle
  <2>3. Holds(d, FinalCandle(m))
    <3>1. CASE m = Now - 1
      <4>1. Holds(e, x) /\ x.minute # y.minute /\ FinalCandle(m) = x BY <3>1, <1>0, <1>3, <1>5, <1>7
      <4> QED BY <4>1, <1>8 DEF Holds
    <3>2. CASE m < Now - 1
      <4>1. m + 1 \in minutes BY <3>2, <1>16, <2>2, <1>0
      <4>2. c # <<>> /\ 1 \in 1 .. Len(c) BY <1>0, <1>1
      <4>3. c[1].minute <= m
        <5>1. PICK k \in 1 .. Len(d) : g[1] = d[k] BY <2>1, <1>9, <1>10
        <5>2. d[k] # x /\ d[k] # y BY <5>1, <3>2, <2>2, <1>0, <1>5
        <5>3. PICK i \in 1 .. Len(c) : c[i] = g[1] BY <5>1, <5>2, <1>11 DEF Holds
        <5>4. c[1].minute <= c[i].minute
          <6>1. CASE i = 1 BY <6>1, <1>0
          <6>2. CASE i # 1
            <7>1. 1 < i BY <6>2, <1>0
            <7>2. c[1].minute < c[i].minute BY <7>1, <4>2, <1>0 DEF Ascending
            <7> QED BY <7>2, <4>2, <1>0
          <6> QED BY <6>1, <6>2
        <5>5. c[1].minute \in Nat
          <6>1. c[1].minute \in 1 .. Now BY <4>2, <1>0
          <6> QED BY <6>1, <1>0
        <5> QED BY <5>3, <5>4, <5>5, <2>1, <2>2
      <4>4. m \in c[1].minute .. Now - 1 BY <4>2, <4>3, <2>2, <1>0
      <4>5. PICK i \in 1 .. Len(c) : c[i] = FinalCandle(m)
        BY <4>1, <4>2, <4>4 DEF CandlesInv, Known, Holds
      <4>6. c[i].minute # x.minute /\ c[i].minute # y.minute BY <4>5, <3>2, <2>2, <1>0, <1>5
      <4>7. PICK k \in 1 .. Len(e) : e[k] = c[i] BY <4>6, <1>7 DEF Holds
      <4>8. Holds(d, e[k]) BY <4>6, <4>7, <1>8
      <4> QED BY <4>5, <4>7, <4>8
    <3> QED BY <3>1, <3>2, <2>2, <1>0
  <2> QED BY <2>2, <2>3, <1>15
<1>17. Known(g, minutes \cup {Now}) BY <1>16 DEF Known
<1> QED BY <1>9, <1>13, <1>14, <1>17 DEF CandlesInv

LEMMA CacheStart == AnalyticsInit => CacheInv
<1> SUFFICES ASSUME AnalyticsInit PROVE CacheInv OBVIOUS
<1>1. Depth - 1 \in Nat \ {0} BY AnalyticsAssumption
<1>2. chart \in Seq(Prices) /\ Now = Depth - 1
  BY <1>1, FunctionIsSequence DEF AnalyticsInit, Now
<1>3. <<>> \in Seq(Candle) /\ Len(<<>>) = 0 OBVIOUS
<1>4. CandlesInv(<<>>, {})
  BY <1>1, <1>2, <1>3, AnalyticsAssumption DEF CandlesInv, Ascending, Known
<1>5. \A v \in ToSet(Venues) : cache[v] = <<>> /\ fetched[v] = {} BY DEF AnalyticsInit
<1>6. cache \in [ToSet(Venues) -> Seq(Candle)] BY <1>3 DEF AnalyticsInit
<1>7. fetched \in [ToSet(Venues) -> SUBSET (1 .. Now)] BY DEF AnalyticsInit
<1>8. turn = 1 BY DEF AnalyticsInit
<1>9. Now >= 1 BY <1>1, <1>2, AnalyticsAssumption
<1>10. \A v \in ToSet(Venues) : CandlesInv(cache[v], fetched[v]) BY <1>4, <1>5
<1>11. chart \in Seq(Prices) /\ turn \in Nat \ {0} BY <1>2, <1>8
<1> QED BY <1>6, <1>7, <1>9, <1>10, <1>11 DEF CacheInv

\* As long as the candles before the newest stay as they are.
LEMMA ChartMoves ==
  ASSUME CacheInv, chart' \in Seq(Prices), Now' \in {Now, Now + 1},
         \A m \in 1 .. Now - 1 : chart'[m] = chart[m], UNCHANGED <<cache, fetched, turn>>
  PROVE  CacheInv'
<1>0. Now \in Nat /\ Now' \in Nat /\ Now >= 1 BY DEF Now, CacheInv
<1>1. fetched \in [ToSet(Venues) -> SUBSET (1 .. Now)] BY DEF CacheInv
<1>2. 1 .. Now \subseteq 1 .. Now' BY <1>0
<1>3. fetched' \in [ToSet(Venues) -> SUBSET (1 .. Now')] BY <1>1, <1>2
<1>4. ASSUME NEW v \in ToSet(Venues) PROVE CandlesInv(cache[v], fetched[v])'
  <2>1. PICK c, minutes : c = cache[v] /\ minutes = fetched[v] OBVIOUS
  <2>2. cache'[v] = c /\ fetched'[v] = minutes BY <2>1
  <2>3. CandlesInv(c, minutes) BY <2>1 DEF CacheInv
  <2>4. minutes \subseteq 1 .. Now BY <2>1, <1>1
  <2>5. /\ c \in Seq(Candle) /\ Len(c) <= Depth /\ Ascending(c)
        /\ \A i \in 1 .. Len(c) : c[i].minute \in 1 .. Now
    BY <2>3 DEF CandlesInv
  <2>6. \A i \in 1 .. Len(c) : c[i].minute \in 1 .. Now' BY <2>5, <1>2
  <2>7. ASSUME c # <<>>, NEW m \in c[1].minute .. Now' - 1, m + 1 \in minutes
        PROVE  \E i \in 1 .. Len(c) : c[i] = [minute |-> m, close |-> chart'[m]]
    <3>1. 1 \in 1 .. Len(c) BY <2>5, <2>7
    <3>2. c[1].minute \in 1 .. Now BY <2>5, <3>1
    <3>3. m + 1 \in 1 .. Now BY <2>4, <2>7
    <3>4. m \in c[1].minute .. Now - 1 BY <2>7, <3>2, <3>3, <1>0
    <3>5. PICK i \in 1 .. Len(c) : c[i] = [minute |-> m, close |-> chart[m]]
      BY <2>3, <2>7, <3>4 DEF CandlesInv, Known, Holds, FinalCandle
    <3>6. chart'[m] = chart[m] BY <3>2, <3>4, <1>0
    <3> QED BY <3>5, <3>6
  <2>8. Known(c, minutes)' BY <2>7 DEF Known, Holds, FinalCandle
  <2> QED BY <2>2, <2>5, <2>6, <2>8 DEF CandlesInv
<1>5. Now' >= 1 BY <1>0
<1> QED BY <1>3, <1>4, <1>5 DEF CacheInv

\* What one venue's turn, or a restart, makes of the caches.
LEMMA CachesChange ==
  ASSUME CacheInv, UNCHANGED chart, turn' \in Nat \ {0},
         cache' \in [ToSet(Venues) -> Seq(Candle)],
         fetched' \in [ToSet(Venues) -> SUBSET (1 .. Now)],
         \A v \in ToSet(Venues) : CandlesInv(cache'[v], fetched'[v])
  PROVE  CacheInv'
BY DEF CacheInv, CandlesInv, Known, Holds, FinalCandle, Now

LEMMA CacheStep == CacheInv /\ [AnalyticsNext]_analyticsVars => CacheInv'
<1> SUFFICES ASSUME CacheInv, [AnalyticsNext]_analyticsVars PROVE CacheInv' OBVIOUS
<1>0. /\ chart \in Seq(Prices) /\ Now \in Nat /\ Now >= 1 /\ turn \in Nat \ {0}
      /\ cache \in [ToSet(Venues) -> Seq(Candle)]
      /\ fetched \in [ToSet(Venues) -> SUBSET (1 .. Now)]
      /\ \A v \in ToSet(Venues) : CandlesInv(cache[v], fetched[v])
  BY DEF CacheInv, Now
<1>1. CASE PriceMoves
  <2>1. PICK p \in Prices : chart' = [chart EXCEPT ![Now] = p] BY <1>1 DEF PriceMoves
  <2>2. PICK n \in Nat \ {0} : n = Now BY <1>0
  <2>3. chart' = [chart EXCEPT ![n] = p] /\ n = Len(chart) BY <2>1, <2>2 DEF Now
  <2>4. chart' \in Seq(Prices) /\ Len(chart') = n BY <2>3, <1>0
  <2>5. \A m \in 1 .. n - 1 : chart'[m] = chart[m] BY <2>3, <1>0
  <2>6. Now' = Now BY <2>2, <2>4 DEF Now
  <2>7. \A m \in 1 .. Now - 1 : chart'[m] = chart[m] BY <2>2, <2>5
  <2> QED BY <1>1, <2>4, <2>6, <2>7, ChartMoves DEF PriceMoves
<1>2. CASE MinutePasses
  <2>1. PICK p \in Prices : chart' = Append(chart, p) BY <1>2 DEF MinutePasses
  <2>2. chart' \in Seq(Prices) /\ Now' = Now + 1 BY <2>1, <1>0 DEF Now
  <2>3. \A m \in 1 .. Now - 1 : chart'[m] = chart[m] BY <2>1, <1>0 DEF Now
  <2> QED BY <1>2, <2>2, <2>3, ChartMoves DEF MinutePasses
<1>3. CASE Sample
  <2>1. PICK v : v = Venues[turn] OBVIOUS
  <2>2. v \in ToSet(Venues)
    <3>1. turn \in DOMAIN Venues BY <1>3, <1>0, AnalyticsAssumption DEF Sample
    <3> QED BY <2>1, <3>1 DEF ToSet
  <2>3. turn' = turn + 1 /\ chart' = chart BY <1>3 DEF Sample
  <2>4. CASE UNCHANGED <<cache, fetched>> BY <2>3, <2>4, <1>0, CachesChange
  <2>5. CASE /\ cache' = [cache EXCEPT ![v] = IF Len(@) < Depth THEN Answered(Depth)
                                              ELSE Merged(@, Answered(2))]
             /\ fetched' = [fetched EXCEPT ![v] = @ \cup {Now}]
    <3>1. PICK c, ms : c = cache[v] /\ ms = fetched[v] OBVIOUS
    <3>2. PICK g : g = IF Len(c) < Depth THEN Answered(Depth) ELSE Merged(c, Answered(2)) OBVIOUS
    <3>3. ms \in SUBSET (1 .. Now) /\ CandlesInv(c, ms) BY <3>1, <2>2, <1>0
    <3>4. CandlesInv(g, ms \cup {Now})
      <4>1. CASE Len(c) < Depth BY <4>1, <3>2, <1>0, Replaced
      <4>2. CASE ~(Len(c) < Depth)
        <5>1. g = Merged(c, Answered(2)) BY <4>2, <3>2
        <5> QED BY <5>1, <4>2, <3>3, <1>0, Patched
      <4> QED BY <4>1, <4>2
    <3>5. cache' = [cache EXCEPT ![v] = g] /\ fetched' = [fetched EXCEPT ![v] = ms \cup {Now}]
      BY <2>5, <3>1, <3>2
    <3>6. g \in Seq(Candle) BY <3>4 DEF CandlesInv
    <3>7. ms \cup {Now} \in SUBSET (1 .. Now) BY <3>3, <1>0
    <3>8. cache' \in [ToSet(Venues) -> Seq(Candle)] BY <3>5, <3>6, <1>0
    <3>9. fetched' \in [ToSet(Venues) -> SUBSET (1 .. Now)] BY <3>5, <3>7, <1>0
    <3>10. \A w \in ToSet(Venues) : CandlesInv(cache'[w], fetched'[w])
      BY <3>4, <3>5, <1>0
    <3> QED BY <2>3, <3>8, <3>9, <3>10, <1>0, CachesChange
  <2> QED BY <1>3, <2>1, <2>4, <2>5 DEF Sample
<1>4. CASE ComputeScores BY <1>4, <1>0, CachesChange DEF ComputeScores
<1>5. CASE RestartAnalytics
  <2>1. <<>> \in Seq(Candle) /\ Len(<<>>) = 0 OBVIOUS
  <2>2. \A v \in ToSet(Venues) : cache'[v] = <<>> BY <1>5 DEF RestartAnalytics
  <2>3. \A ms : CandlesInv(<<>>, ms)
    BY <2>1, AnalyticsAssumption DEF CandlesInv, Ascending, Known
  <2>4. cache' \in [ToSet(Venues) -> Seq(Candle)] BY <2>1, <1>5 DEF RestartAnalytics
  <2>5. fetched' = fetched /\ chart' = chart /\ turn' = 1 BY <1>5 DEF RestartAnalytics
  <2> QED BY <2>2, <2>3, <2>4, <2>5, <1>0, CachesChange
<1>6. CASE UNCHANGED analyticsVars BY <1>6, <1>0, CachesChange DEF analyticsVars
<1> QED BY <1>1, <1>2, <1>3, <1>4, <1>5, <1>6 DEF AnalyticsNext

\* Whatever requests fail and whenever the process dies: the cache of each venue
\* is the chart, as far as the answers let it know (merge_candles and the
\* two sizes of a request).
THEOREM CacheTellsTheChart == AnalyticsSpec => []CacheIsTheChart
<1>1. CacheInv => CacheIsTheChart
  <2> SUFFICES ASSUME CacheInv, NEW v \in ToSet(Venues), NEW c, c = cache[v]
               PROVE  /\ Len(c) <= Depth
                      /\ \A i, j \in DOMAIN c : i < j => c[i].minute < c[j].minute
                      /\ c # <<>> =>
                           \A m \in c[1].minute .. Now - 1 :
                             m + 1 \in fetched[v] =>
                               \E i \in DOMAIN c : c[i] = [minute |-> m, close |-> chart[m]]
    BY DEF CacheIsTheChart
  <2>1. CandlesInv(c, fetched[v]) BY DEF CacheInv
  <2>2. DOMAIN c = 1 .. Len(c) BY <2>1 DEF CandlesInv
  <2> QED BY <2>1, <2>2 DEF CandlesInv, Ascending, Known, Holds, FinalCandle
<1> QED BY <1>1, CacheStart, CacheStep, PTL DEF AnalyticsSpec
==============================================================================
