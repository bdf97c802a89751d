----------------------------- MODULE EntryGate -----------------------------
(***************************************************************************)
(* What stands between a decision to enter and the queue of candidates     *)
(* (services/strategy/src/lib.rs, filters.rs, ai_advice.rs): the cached    *)
(* advice of the analyst and the quarantine it imposes, the cooldown after *)
(* a stop-loss, the confirmation by consecutive signals, the veto and the  *)
(* sizing by the advice. Time passes in units of five minutes.             *)
(***************************************************************************)
EXTENDS Integers, Sequences, FiniteSets, SequencesExt

CONSTANTS Symbols, Advices, MinTicks, MaxErrors, Notional, LeastNotional

ASSUME GateAssumption == MinTicks \in Nat \ {0} /\ Notional >= LeastNotional

NoAdvice == [state |-> "none"]
NoCandidate == [side |-> "none"]
Sides == {"long", "short"}

VARIABLES
  advice,        \* the cached advice of the analyst
  stale,         \* the advice is older than the refresh interval
  guard,         \* [symbol -> time left of the quarantine in entry_guards]
  confirmation,  \* [symbol -> side and number of consecutive valid ticks]
  open,          \* [symbol -> side of the trade open in the database]
  stopAge,       \* [symbol -> time since the last stop-loss, capped]
  candidate,     \* [symbol -> entry waiting for the flush]
  faults,        \* database errors that have happened
  imposed,       \* history: [symbol -> time left of the longest quarantine advised]
  proposals,     \* history: [symbol -> sides of the last counted proposals]
  unflipped      \* history: [symbol -> side stopped out and not refuted by a signal since]

gateVars == <<advice, stale, guard, confirmation, open, stopAge, candidate, faults,
              imposed, proposals, unflipped>>

----------------------------------------------------------------------------
\* 30, 20 and 15 minutes; and the cooldown after a stop-loss, five minutes for a
\* long and eight (two units here) for a short.
QuarantineTime(a) ==
  CASE a.state = "defensive" -> 6 [] a.state = "selective" -> 4
    [] a.state = "observation_mode" -> 3 [] OTHER -> 0
StopCooldown(side) == IF side = "long" THEN 1 ELSE 2
LongAgo == 2

\* Mutated: a shorter quarantine replaces a longer one.
SyncOverwrites(s, a) == IF a = NoAdvice \/ s \notin a.avoid THEN guard[s] ELSE QuarantineTime(a)

SyncedGuard(s, a) ==
  IF a = NoAdvice \/ s \notin a.avoid \/ guard[s] >= QuarantineTime(a) THEN guard[s]
  ELSE QuarantineTime(a)

\* Mutated: a change of side keeps the count.
CountKeepsOtherSide(s, side) ==
  [side |-> side, ticks |-> IF confirmation[s].ticks < MinTicks
                            THEN confirmation[s].ticks + 1 ELSE MinTicks]

CountTick(s, side) ==
  IF confirmation[s].side = side
  THEN [side |-> side, ticks |-> IF confirmation[s].ticks < MinTicks
                                 THEN confirmation[s].ticks + 1 ELSE MinTicks]
  ELSE [side |-> side, ticks |-> 1]

\* The veto: scores are the classes its floors tell apart.
ScoreFloor(a) ==
  CASE a.state = "defensive" /\ a.entry = "avoid_marginal_entries" -> 88
    [] a.state = "observation_mode" /\ a.entry = "only_best_setups" -> 90
    [] OTHER -> 0
Vetoed(s, side, p, a) ==
  /\ a # NoAdvice
  /\ LET avoided == s \in a.avoid
         mismatch == a.preferred \notin {"neutral", side}
         lowScore == p.score < ScoreFloor(a)
         lowRank == a.size \in {"minimal_size_33", "reduced_size_50"} /\ p.rank < 82
     IN \/ a.state = "defensive" /\ avoided
        \/ avoided /\ lowScore
        \/ a.state = "defensive" /\ lowScore /\ mismatch
        \/ a.state = "observation_mode" /\ lowScore /\ lowRank
        \/ avoided /\ mismatch

\* In hundredths of the proposed size; a cut below the least size is not made.
Percent(a) ==
  CASE a.size = "reduced_size_75" -> 75 [] a.size = "reduced_size_50" -> 50
    [] a.size = "minimal_size_33" -> 33 [] OTHER -> 100
SizedPercent(a) ==
  IF a = NoAdvice \/ Percent(a) * Notional < 100 * LeastNotional THEN 100 ELSE Percent(a)

Better(s, p) ==
  \/ candidate[s] = NoCandidate
  \/ candidate[s].rank < p.rank
  \/ candidate[s].rank = p.rank /\ candidate[s].score < p.score

----------------------------------------------------------------------------
\* A signal for s with the trend on a side. The advice is asked for when there
\* is none or it is due; an answer that does not come leaves the old one.
FetchedAdvice(answer) ==
  IF advice # NoAdvice /\ ~stale THEN answer = advice
  ELSE answer \in Advices \cup {advice}

HearSignal(s, trend, answer) ==
  /\ FetchedAdvice(answer)
  /\ advice' = answer /\ stale' = FALSE
  /\ guard' = [x \in Symbols |-> SyncedGuard(x, answer)]
  /\ imposed' = [x \in Symbols |->
                   IF answer # NoAdvice /\ x \in answer.avoid /\ imposed[x] < QuarantineTime(answer)
                   THEN QuarantineTime(answer) ELSE imposed[x]]
  /\ unflipped' = [unflipped EXCEPT ![s] = IF @ = trend THEN @ ELSE "none"]

\* With a trade open the signal is for the exit rules, and one that is no
\* entry leaves the gate as it is.
NoEntry(s, trend, answer) ==
  /\ HearSignal(s, trend, answer)
  /\ UNCHANGED <<confirmation, open, stopAge, candidate, faults, proposals>>

\* The check of the open trade and that of the last stop-loss ask the database,
\* and an error counts as "none" for both.
Reaches(s, side, broken) ==
  /\ faults' = faults + Cardinality(broken)
  /\ faults' <= MaxErrors
  /\ "trade" \in broken \/ open[s] = "none"
  /\ "stop" \in broken \/ stopAge[s] >= StopCooldown(side)

CoolingDown(s, side, answer) ==
  /\ open[s] = "none" /\ stopAge[s] < StopCooldown(side)
  /\ NoEntry(s, side, answer)

\* p is what the decision steps propose: its rank and its entry score.
Propose(s, side, p, answer, broken) ==
  /\ HearSignal(s, side, answer)
  /\ Reaches(s, side, broken)
  /\ confirmation' = [confirmation EXCEPT ![s] = CountTick(s, side)]
  /\ proposals' = [proposals EXCEPT ![s] =
                     IF Len(@) < MinTicks THEN Append(@, side) ELSE Append(Tail(@), side)]
  /\ LET admitted == /\ confirmation'[s].ticks >= MinTicks
                     /\ guard'[s] = 0
                     /\ ~Vetoed(s, side, p, answer)
                     /\ Better(s, p)
     IN candidate' = [candidate EXCEPT ![s] =
                        IF admitted THEN [side |-> side, rank |-> p.rank, score |-> p.score,
                                          percent |-> SizedPercent(answer)]
                        ELSE @]
  /\ UNCHANGED <<open, stopAge>>

Proposed == [rank : {80, 90}, score : {85, 95}]

Signal ==
  \E s \in Symbols, side \in Sides, answer \in Advices \cup {NoAdvice} :
    \/ NoEntry(s, side, answer)
    \/ CoolingDown(s, side, answer)
    \/ \E p \in Proposed, broken \in SUBSET {"trade", "stop"} : Propose(s, side, p, answer, broken)

\* The flush publishes the candidate; the executor opens the trade, or does not.
Flush ==
  \E s \in Symbols, filled \in BOOLEAN :
    /\ candidate[s] # NoCandidate
    /\ candidate' = [candidate EXCEPT ![s] = NoCandidate]
    /\ open' = [open EXCEPT ![s] = IF filled THEN candidate[s].side ELSE @]
    /\ UNCHANGED <<advice, stale, guard, confirmation, stopAge, faults, imposed, proposals, unflipped>>

Close ==
  \E s \in Symbols, byStop \in BOOLEAN :
    /\ open[s] # "none"
    /\ open' = [open EXCEPT ![s] = "none"]
    /\ stopAge' = [stopAge EXCEPT ![s] = IF byStop THEN 0 ELSE @]
    /\ unflipped' = [unflipped EXCEPT ![s] = IF byStop THEN open[s] ELSE @]
    /\ UNCHANGED <<advice, stale, guard, confirmation, candidate, faults, imposed, proposals>>

TimePasses ==
  LET Less(t) == IF t > 0 THEN t - 1 ELSE 0
  IN /\ stale' = TRUE
     /\ guard' = [s \in Symbols |-> Less(guard[s])]
     /\ imposed' = [s \in Symbols |-> Less(imposed[s])]
     /\ stopAge' = [s \in Symbols |-> IF stopAge[s] < LongAgo THEN stopAge[s] + 1 ELSE LongAgo]
     /\ UNCHANGED <<advice, confirmation, open, candidate, faults, proposals, unflipped>>

\* The gate is in memory only; the waiting candidates are flushed on the way out.
RestartStrategy ==
  /\ \A s \in Symbols : candidate[s] = NoCandidate
  /\ advice' = NoAdvice /\ stale' = TRUE
  /\ guard' = [s \in Symbols |-> 0]
  /\ imposed' = [s \in Symbols |-> 0]
  /\ confirmation' = [s \in Symbols |-> [side |-> "none", ticks |-> 0]]
  /\ proposals' = [s \in Symbols |-> <<>>]
  /\ UNCHANGED <<open, stopAge, candidate, faults, unflipped>>

GateInit ==
  /\ advice = NoAdvice /\ stale = TRUE /\ faults = 0
  /\ guard = [s \in Symbols |-> 0] /\ imposed = [s \in Symbols |-> 0]
  /\ confirmation = [s \in Symbols |-> [side |-> "none", ticks |-> 0]]
  /\ proposals = [s \in Symbols |-> <<>>]
  /\ open = [s \in Symbols |-> "none"] /\ unflipped = [s \in Symbols |-> "none"]
  /\ stopAge = [s \in Symbols |-> LongAgo]
  /\ candidate = [s \in Symbols |-> NoCandidate]

GateNext == Signal \/ Flush \/ Close \/ TimePasses \/ RestartStrategy

GateSpec == GateInit /\ [][GateNext]_gateVars

----------------------------------------------------------------------------
Admits(s) == candidate'[s] # candidate[s] /\ candidate'[s] # NoCandidate

\* No entry is admitted for a symbol while the longest quarantine the analyst's
\* advice has asked for since the process started is still running, whatever
\* advice follows it (sync_execution_advice_guards only ever extends).
EntryRespectsQuarantine == [][\A s \in Symbols : Admits(s) => imposed'[s] = 0]_gateVars

\* An entry that is admitted was proposed for its side by the last MinTicks
\* proposals for the symbol, with none for the other side among them
\* (min_signal_confirmation_ticks).
EntryIsConfirmed ==
  [][\A s \in Symbols :
       Admits(s) => /\ Len(proposals'[s]) = MinTicks
                    /\ Range(proposals'[s]) = {candidate'[s].side}]_gateVars

\* "Cooldown expiration alone is not enough; same-direction reentry stays blocked
\* until the market bias flips once" (lib.rs 1688-1690): after a stop-loss, an entry
\* on the same side follows a signal with the opposite trend.
ReentryNeedsFlip == [][\A s \in Symbols : Admits(s) => candidate'[s].side # unflipped'[s]]_gateVars

=============================================================================
