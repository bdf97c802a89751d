-------------------------------- MODULE Replay --------------------------------
(***************************************************************************)
(* The backtest beside the live exits: simulate() replays the signals that *)
(* the strategy handled, with the same exit rules but with its own memory  *)
(* of the trade, and leaves the trade in the signal in which it closes it. *)
(* Both enter at the same signal and at the same price.                    *)
(***************************************************************************)
EXTENDS Exits

VARIABLES
  sim,          \* the open snapshot of simulate(), or NoTrade
  simThesis,    \* its thesis_state
  simDecided,   \* trigger of its last evaluation
  comparable    \* history: nothing has happened that simulate() does not replay

replayVars == <<sim, simThesis, simDecided, comparable>>
allVars    == <<vars, replayVars>>

\* What simulate() leaves out by design: advice, the minimum hold, the
\* threshold for storing a peak, failed writes and restarts.
Replayable == cfg.minHold = 0 /\ cfg.threshold = 0

ReplayInit == /\ Init /\ sim = NoTrade /\ simThesis = NoThesis /\ simDecided = "none"
              /\ comparable = Replayable

Forget == sim' = NoTrade /\ simThesis' = NoThesis /\ simDecided' = "none"
-----------------------------------------------------------------------------
UnthreadedPeak(t, p) ==                       \* mutation: peak and distance are lost
  [t EXCEPT !.armed = @ \/ Tracks(t, p, "hold")]

\* The trailing state of every signal is threaded on.
Threaded(t, p) ==
  IF Trails(t, p, "hold")
  THEN [t EXCEPT !.armed = TRUE, !.peak = Eval(t, p, "hold").peak,
                 !.distance = Eval(t, p, "hold").distance]
  ELSE t

\* The body of simulate() for one tick of an open position.
SimulateTick(p, stage) ==
  LET trigger == ExitTrigger(sim, p, "hold")
      guard   == Guard(sim, stage, simThesis)
  IN IF trigger = "none" /\ ~guard.close
     THEN simDecided' = "hold" /\ sim' = Threaded(sim, p) /\ simThesis' = guard.state
     ELSE /\ simDecided' = IF trigger # "none" THEN trigger ELSE "thesis_invalidated"
          /\ sim' = NoTrade /\ simThesis' = NoThesis

\* simulate() forgot with the last trade what it had counted; live did so too if
\* a signal found no trade since then, but not if an entry was carried out late.
Enter(side) ==
  /\ OpenTrade(side) /\ UNCHANGED <<simThesis, simDecided>>
  /\ comparable' = (comparable /\ thesis = NoThesis)
  /\ sim' = IF comparable' THEN Opened(side) ELSE NoTrade

Leave == CloseTrade /\ Forget /\ UNCHANGED comparable

Signal(p, stage, a) ==
  /\ HandleSignal(p, stage, a)
  /\ comparable' = (comparable /\ a = "hold" /\ faults' = faults)
  /\ IF comparable' /\ sim # NoTrade THEN SimulateTick(p, stage) ELSE Forget

ReplayNext ==
  \/ \E side \in Side : Enter(side)
  \/ Leave
  \/ SignalWithoutTrade /\ UNCHANGED replayVars
  \/ Restart /\ Forget /\ comparable' = FALSE
  \/ \E move \in Moves, stage \in Stages, a \in Advices :
       Signal(PriceAt(trade.side, move), stage, a)

ReplaySpec == ReplayInit /\ [][ReplayNext]_allVars
-----------------------------------------------------------------------------
\* backtest.rs: "Exit precedence mirrors live".  As long as simulate() replays
\* all there is, it leaves a trade at the signal at which live decides to, and
\* for the same reason.
ReplayMirrorsLive ==
  [][comparable' /\ trade # NoTrade /\ trade' # NoTrade /\ sim # NoTrade
       => simDecided' = decided']_allVars
=============================================================================
