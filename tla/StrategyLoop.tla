----------------------------- MODULE StrategyLoop -----------------------------
(***************************************************************************)
(* The main loop of the strategy service with every await as a step of its *)
(* own, composed with the decisions stream and with the executor, of which *)
(* one step stands for the whole handling of a decision (module Executor   *)
(* has the detail): it may be refused, missed by the paper fill or carried *)
(* out.                                                                    *)
(*                                                                         *)
(* The pipeline and the exit rules are abstracted to what they may answer: *)
(* enter with some score, hold, or close.  A HOLD is published like any    *)
(* decision, but nothing downstream depends on it, so it is no event here. *)
(* All trades of a symbol are on one side: the case in which a stray close *)
(* finds a trade it was not meant for.  Time is counted in ticks, and ages *)
(* stop counting at the limit they are compared with.                      *)
(***************************************************************************)
EXTENDS Integers, Sequences, FiniteSets

CONSTANTS
  Symbol,
  Rank,         \* rank_score and entry_score, compared lexicographically: one number
  LiveModes,    \* EXECUTOR_ENABLE_LIVE_ORDERS: the modes the executor may be in
  MaxOpen,      \* paper_max_open_positions of the strategy
  ExecutorMaxOpen, \* the same setting as the executor reads it
  SuppressFor,  \* ticks for which a close counts as recent (five minutes)
  Prompt,       \* assumption: what is under way finishes before a tick goes by
  MaxOffers,    \* bound: entries the pipeline proposes
  MaxQueue,     \* bound: decisions waiting in the stream while signals are read
  MaxFaults,    \* bound: database statements and publications that fail
  MaxCrashes,   \* bound: crashes of the strategy
  MaxStops      \* bound: graceful shutdowns of the strategy

ASSUME ConstantsAssumption ==
  /\ IsFiniteSet(Symbol) /\ Rank \subseteq Nat \ {0}
  /\ LiveModes \subseteq BOOLEAN /\ Prompt \in BOOLEAN
  /\ MaxOpen \in Nat \ {0} /\ ExecutorMaxOpen \in Nat \ {0} /\ SuppressFor \in Nat \ {0}
  /\ MaxOffers \in Nat /\ MaxQueue \in Nat
  /\ MaxFaults \in Nat /\ MaxCrashes \in Nat /\ MaxStops \in Nat

SelectionWindow == 1   \* ticks a candidate waits for better ones (three seconds)

Trade     == 1..MaxOffers      \* a trade is named by the candidate it came from
Candidate == [trade : Trade, rank : Rank, age : 0..SelectionWindow]
NoCandidate == [trade |-> 0, rank |-> 0, age |-> 0]
Decision  == [close : BOOLEAN, symbol : Symbol, trade : Trade]

VARIABLES
  live,          \* the executor's mode: it has no entry guards in live mode
  up, stopping,  \* the process runs; it has been told to stop
  pc,            \* where the main loop awaits
  hand,          \* the decision being made or published, in a one-element sequence
  symbol,        \* the symbol whose signal is being handled, in a one-element sequence
  pending,       \* pending_candidates
  batch,         \* entries selected by a flush that are still to be published
  sinceClose,    \* ticks since the last CLOSE row in tupa_audit_logs, by symbol
  closedTrade,   \* history: the trade that CLOSE was for (0: none)
  queue,         \* viper:decisions, not yet handled by the executor
  book,          \* open trades, by symbol
  offers, faults, crashes, stops

loopVars  == <<up, stopping, pc, hand, symbol, pending, batch>>
auditVars == <<sinceClose, closedTrade>>
bounds    == <<offers, faults, crashes, stops>>
stepVars  == <<loopVars, auditVars, queue, book, bounds>>
vars      == <<live, stepVars>>
-----------------------------------------------------------------------------
Close(s, i) == [close |-> TRUE,  symbol |-> s, trade |-> i]
Entry(s, i) == [close |-> FALSE, symbol |-> s, trade |-> i]

Waiting     == {s \in Symbol : pending[s] # NoCandidate}
OpenTrades  == UNION {book[s] : s \in Symbol}
Oldest(i, S) == \A j \in S : i <= j
Newest(i, S) == \A j \in S : j <= i
Lower(a, b) == IF a <= b THEN a ELSE b

\* has_recent_close_decision_for_symbol
NeverRecent(s) == FALSE                                  \* mutation: row not found
RecentClose(s) == sinceClose[s] < SuppressFor

\* The order in which a flush ranks two candidates; equals come in any order.
Before(c, d) == \/ c.rank > d.rank
                \/ c.rank = d.rank /\ c.age > d.age

Rankings(S) == {r \in [1..Cardinality(S) -> S] :
                  \A i, j \in DOMAIN r : i < j => /\ r[i] # r[j]
                                                  /\ ~Before(pending[r[j]], pending[r[i]])}

NoCount(n)    == MaxOpen                                  \* mutation: all slots are free
FreeSlots(n)  == IF n < MaxOpen THEN MaxOpen - n ELSE 0
KeepTurnedAway(chosen) ==                                 \* mutation: not drained
  [s \in Symbol |-> IF s \in chosen THEN NoCandidate ELSE pending[s]]
Drained(chosen) == [s \in Symbol |-> NoCandidate]

Init ==
  /\ live \in LiveModes
  /\ up = TRUE /\ stopping = FALSE /\ pc = "idle" /\ hand = <<>> /\ symbol = <<>>
  /\ pending = [s \in Symbol |-> NoCandidate] /\ batch = <<>>
  /\ sinceClose = [s \in Symbol |-> SuppressFor]
  /\ closedTrade = [s \in Symbol |-> 0]
  /\ queue = <<>> /\ book = [s \in Symbol |-> {}]
  /\ offers = 0 /\ faults = 0 /\ crashes = 0 /\ stops = 0
-----------------------------------------------------------------------------
(* Time, crashes and the executor.                                         *)

Tick ==
  /\ Prompt => pc = "idle" /\ queue = <<>>
  /\ pending' = [s \in Symbol |-> IF s \in Waiting
                   THEN [pending[s] EXCEPT !.age = Lower(@ + 1, SelectionWindow)]
                   ELSE NoCandidate]
  /\ sinceClose' = [s \in Symbol |-> Lower(sinceClose[s] + 1, SuppressFor)]
  /\ UNCHANGED <<up, stopping, pc, hand, symbol, batch, closedTrade, queue, book, bounds>>

\* Everything the loop holds is memory; signals it had received are gone too.
Gone == /\ up' = FALSE /\ stopping' = FALSE /\ pc' = "idle" /\ hand' = <<>> /\ symbol' = <<>>
        /\ batch' = <<>> /\ pending' = [s \in Symbol |-> NoCandidate]

Crash ==
  /\ up /\ crashes < MaxCrashes /\ crashes' = crashes + 1 /\ Gone
  /\ UNCHANGED <<auditVars, queue, book, offers, faults, stops>>

Restart ==
  /\ ~up /\ up' = TRUE
  /\ UNCHANGED <<stopping, pc, hand, symbol, pending, batch, auditVars, queue, book, bounds>>

\* open_trade_side_for_symbol and count_open_trades, asked in paper mode only.
Admitted(s) == live \/ (book[s] = {} /\ Cardinality(OpenTrades) < ExecutorMaxOpen)

ExecuteNext ==
  LET d == Head(queue) IN
  /\ queue # <<>> /\ queue' = Tail(queue)
  /\ \/ UNCHANGED book                  \* refused, not filled, failed
     \/ /\ ~d.close /\ Admitted(d.symbol)
        /\ book' = [book EXCEPT ![d.symbol] = @ \cup {d.trade}]
     \/ \E i \in book[d.symbol] :
          /\ d.close /\ Newest(i, book[d.symbol])
          /\ book' = [book EXCEPT ![d.symbol] = @ \ {i}]
  /\ UNCHANGED <<loopVars, auditVars, bounds>>
-----------------------------------------------------------------------------
(* A market signal arrives: the open trade of its symbol is looked up.     *)

Ok    == UNCHANGED faults
Fails == faults < MaxFaults /\ faults' = faults + 1

FetchOpenTrade(s) ==
  /\ up /\ pc = "idle" /\ Len(queue) < MaxQueue
  /\ \/ \E i \in book[s] :              \* an exit rule fires; otherwise HOLD
          /\ Ok /\ Oldest(i, book[s])
          /\ hand' = <<Close(s, i)>> /\ pc' = "recent" /\ UNCHANGED symbol
     \/ /\ \/ Ok /\ book[s] = {}
           \/ Fails                     \* logged, and treated as no open trade
        /\ symbol' = <<s>> /\ pc' = "pipeline" /\ UNCHANGED hand
  /\ UNCHANGED <<up, stopping, pending, batch, auditVars, queue, book, offers, crashes, stops>>

\* Entry path: the pipeline and the guards answer HOLD or an entry, which has
\* to beat the candidate the symbol may have already.  A replaced candidate
\* starts a new selection window.
EvaluatePipeline ==
  LET s == Head(symbol) IN
  /\ up /\ pc = "pipeline" /\ pc' = "idle" /\ symbol' = <<>>
  /\ \/ UNCHANGED <<pending, offers>>
     \/ \E r \in Rank :
          /\ offers < MaxOffers /\ offers' = offers + 1
          /\ pending' = IF pending[s].rank >= r THEN pending
                        ELSE [pending EXCEPT ![s] = [trade |-> offers', rank |-> r, age |-> 0]]
  /\ UNCHANGED <<up, stopping, hand, batch, auditVars, queue, book, faults, crashes, stops>>

\* Exit path: a close that was decided recently is taken to be under way.
CheckRecentClose ==
  LET s == hand[1].symbol IN
  /\ up /\ pc = "recent"
  /\ \/ Ok /\ RecentClose(s)  /\ pc' = "idle" /\ hand' = <<>>      \* HOLD
     \/ Ok /\ ~RecentClose(s) /\ pc' = "audit" /\ UNCHANGED hand
     \/ Fails /\ pc' = "audit" /\ UNCHANGED hand
  /\ UNCHANGED <<up, stopping, symbol, pending, batch, auditVars, queue, book, offers,
                 crashes, stops>>
-----------------------------------------------------------------------------
(* finalize_strategy_decision: the audit row first, then the stream.       *)

Audited(d) == IF d.close THEN /\ sinceClose' = [sinceClose EXCEPT ![d.symbol] = 0]
                              /\ closedTrade' = [closedTrade EXCEPT ![d.symbol] = d.trade]
              ELSE UNCHANGED auditVars

\* A failure is logged and the decision published all the same.
PersistAuditLog ==
  /\ up /\ pc = "audit" /\ pc' = "publish"
  /\ \/ Ok /\ Audited(hand[1])
     \/ Fails /\ Audited(hand[1])
     \/ Fails /\ UNCHANGED auditVars
  /\ UNCHANGED <<up, stopping, hand, symbol, pending, batch, queue, book, offers, crashes, stops>>

\* Entries left to publish go on; otherwise the loop waits, or the process ends.
Proceed(rest) ==
  IF rest # <<>>
  THEN /\ hand' = <<Head(rest)>> /\ batch' = Tail(rest) /\ pc' = "audit"
       /\ UNCHANGED <<up, stopping, symbol, pending>>
  ELSE IF stopping THEN Gone
  ELSE hand' = <<>> /\ batch' = <<>> /\ pc' = "idle" /\ UNCHANGED <<up, stopping, symbol, pending>>

\* A failed publication loses the decision and, "?", the rest of the batch.
PublishDecisionEvent ==
  /\ up /\ pc = "publish"
  /\ \/ Ok /\ queue' = Append(queue, hand[1]) /\ Proceed(batch)
     \/ Fails /\ queue' \in {queue, Append(queue, hand[1])} /\ Proceed(<<>>)
  /\ UNCHANGED <<auditVars, book, offers, crashes, stops>>
-----------------------------------------------------------------------------
(* flush_pending_entry_candidates.                                         *)

\* One candidate that has waited long enough takes all the others with it.
SelectionTick ==
  /\ up /\ pc = "idle" /\ \E s \in Waiting : pending[s].age >= SelectionWindow
  /\ pc' = "count"
  /\ UNCHANGED <<up, stopping, hand, symbol, pending, batch, auditVars, queue, book, bounds>>

\* SIGTERM: a last flush, whatever the age of the candidates.
Shutdown ==
  /\ up /\ pc = "idle" /\ stops < MaxStops /\ stops' = stops + 1
  /\ stopping' = TRUE /\ pc' = "count"
  /\ UNCHANGED <<up, hand, symbol, pending, batch, auditVars, queue, book, offers, faults, crashes>>

\* count_open_trades, then, without another await, drain, sort and cut: the
\* candidates beyond the free slots become HOLDs.  A failed count is zero.
FlushPendingEntryCandidates ==
  LET select(n) ==
        \E r \in Rankings(Waiting) :
          LET k == Lower(FreeSlots(n), Cardinality(Waiting))
              chosen == [i \in 1..k |-> Entry(r[i], pending[r[i]].trade)]
          IN /\ pending' = Drained({r[i] : i \in 1..k})
             /\ IF k > 0
                THEN /\ hand' = <<chosen[1]>> /\ batch' = Tail(chosen) /\ pc' = "audit"
                     /\ UNCHANGED <<up, stopping, symbol>>
                ELSE /\ hand' = <<>> /\ batch' = <<>> /\ pc' = "idle" /\ symbol' = <<>>
                     /\ up' = ~stopping /\ stopping' = FALSE
  IN
  /\ up /\ pc = "count"
  /\ \/ Ok /\ select(Cardinality(OpenTrades))
     \/ Fails /\ select(0)
  /\ UNCHANGED <<auditVars, queue, book, offers, crashes, stops>>
-----------------------------------------------------------------------------
LoopStep ==
  \/ EvaluatePipeline \/ CheckRecentClose \/ PersistAuditLog \/ PublishDecisionEvent
  \/ FlushPendingEntryCandidates

Step ==
  \/ Tick \/ Crash \/ Restart \/ Shutdown \/ SelectionTick \/ LoopStep \/ ExecuteNext
  \/ \E s \in Symbol : FetchOpenTrade(s)

Next == Step /\ UNCHANGED live   \* the mode is set when the process starts

Spec == Init /\ [][Next]_vars

(* Time passes and the container restarts; tokio's select! chooses at      *)
(* random among its ready branches, so a steady flow of signals does not   *)
(* keep the selection tick from being served.                              *)
FairSpec == /\ Spec /\ WF_stepVars(Tick) /\ WF_stepVars(Restart) /\ WF_stepVars(LoopStep)
            /\ WF_stepVars(ExecuteNext) /\ SF_stepVars(SelectionTick)
-----------------------------------------------------------------------------
(* Properties.                                                             *)

LoopSteps == {"idle", "pipeline", "recent", "audit", "publish", "count"}

LoopOK ==
  /\ up \in BOOLEAN /\ stopping \in BOOLEAN /\ pc \in LoopSteps /\ (pc # "idle" => up)
  /\ hand \in Seq(Decision) /\ Len(hand) = (IF pc \in {"recent", "audit", "publish"} THEN 1 ELSE 0)
  /\ symbol \in Seq(Symbol) /\ Len(symbol) = (IF pc = "pipeline" THEN 1 ELSE 0)
  /\ pending \in [Symbol -> Candidate \cup {NoCandidate}]
  /\ batch \in Seq(Decision)
  /\ (~up => Waiting = {} /\ batch = <<>>)
StoreOK ==
  /\ queue \in Seq(Decision)
  /\ sinceClose \in [Symbol -> 0..SuppressFor]
  /\ closedTrade \in [Symbol -> Trade \cup {0}]
  /\ book \in [Symbol -> SUBSET Trade]
BoundsOK ==
  faults \in 0..MaxFaults /\ crashes \in Nat /\ stops \in Nat /\ offers \in 0..MaxOffers

\* Types of all variables, what the loop holds at each of its awaits, and that
\* a process that is down holds nothing.
TypeOK == live \in BOOLEAN /\ LoopOK /\ StoreOK /\ BoundsOK

ClosesInFlight(s) ==
  {i \in 1..Len(queue) : queue[i].close /\ queue[i].symbol = s}

\* strategy/src/db.rs on the audit row: it "prevents" a duplicate exit.  At
\* most one close of a symbol is on its way, across restarts of the strategy.
NoDuplicateExit == \A s \in Symbol : Cardinality(ClosesInFlight(s)) <= 1

\* In paper mode, where a symbol has one trade at most, a close never closes
\* another trade than the one it was decided for.
CloseHitsItsTrade ==
  [][~live => \A s \in Symbol : \A i \in book[s] \ book'[s] : i = Head(queue).trade]_<<live, book>>

\* In live mode only the strategy limits the book.  If decisions are handled
\* before the next selection, the slots it counts are never taken twice, until
\* a shutdown flushes once more without a tick in between.
BookWithinLimit == stops = 0 => Cardinality(OpenTrades) <= MaxOpen

\* A candidate is decided upon, entered or turned away, and never sits there.
CandidatesAreSettled == \A s \in Symbol : (s \in Waiting) ~> (s \notin Waiting)

\* strategy/src/db.rs: "there is at most one open position per symbol, so
\* matching by symbol is sufficient".
OneOpenPerSymbol == \A s \in Symbol : Cardinality(book[s]) <= 1

Suppresses == pc = "recent" /\ pc' = "idle" /\ up'

\* Two claims that the code does not keep (TLC refutes both): a recent close
\* holds back only another close of the same trade.
SuppressedForSameTrade ==
  [][Suppresses => closedTrade[hand[1].symbol] = hand[1].trade]_vars

\* Log line of the suppression: "a recent CLOSE for this open position is
\* still pending execution".
SuppressedWhilePending ==
  [][Suppresses => ClosesInFlight(hand[1].symbol) # {}]_vars
=============================================================================
