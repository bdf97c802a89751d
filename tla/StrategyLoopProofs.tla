-------------------------- MODULE StrategyLoopProofs --------------------------
(* Proofs about the strategy's loop, for every value of its constants.     *)
EXTENDS StrategyLoop, DataLemmas, FiniteSetTheorems, SequenceTheorems, TLAPS

USE DEF loopVars, auditVars, bounds, Ok, Fails

LEMMA LowerType == ASSUME NEW a \in Nat, NEW b \in Nat PROVE Lower(a, b) \in Nat /\ Lower(a, b) <= b
BY DEF Lower

LEMMA Candidates ==
  /\ NoCandidate \notin Candidate
  /\ TypeOK => \A s \in Waiting : /\ s \in Symbol
                                 /\ pending[s] \in Candidate /\ pending[s].trade \in Trade
BY DEF NoCandidate, Candidate, Trade, TypeOK, LoopOK, Waiting

LEMMA FiniteOpenTrades == TypeOK => Cardinality(OpenTrades) \in Nat
<1> SUFFICES ASSUME TypeOK PROVE Cardinality(OpenTrades) \in Nat
  OBVIOUS
<1>1. OpenTrades \subseteq 1..MaxOffers
  BY DEF TypeOK, StoreOK, OpenTrades, Trade
<1>2. IsFiniteSet(1..MaxOffers)
  BY FS_Interval, ConstantsAssumption
<1> QED BY <1>1, <1>2, FS_Subset, FS_CardinalityType

LEMMA FiniteWaiting == Cardinality(Waiting) \in Nat
<1>1. Waiting \subseteq Symbol
  BY DEF Waiting
<1> QED BY <1>1, ConstantsAssumption, FS_Subset, FS_CardinalityType

(* What a flush selects is a sequence of entries.                          *)
Selected(r, k) == [i \in 1..k |-> Entry(r[i], pending[r[i]].trade)]

LEMMA SelectedType ==
  ASSUME TypeOK, NEW r \in Rankings(Waiting), NEW n \in Nat,
         NEW k, k = Lower(FreeSlots(n), Cardinality(Waiting))
  PROVE  /\ k \in Nat /\ Selected(r, k) \in Seq(Decision) /\ Len(Selected(r, k)) = k
         /\ \A i \in 1..k : ~Selected(r, k)[i].close
<1>1. FreeSlots(n) \in Nat
  BY ConstantsAssumption DEF FreeSlots
<1>2. k \in Nat /\ k <= Cardinality(Waiting)
  BY <1>1, FiniteWaiting, LowerType
<1>3. ASSUME NEW i \in 1..k PROVE Entry(r[i], pending[r[i]].trade) \in Decision
  <2>1. i \in 1..Cardinality(Waiting)
    BY <1>2, FiniteWaiting
  <2>2. r[i] \in Waiting
    BY <2>1 DEF Rankings
  <2> QED BY <2>2, Candidates DEF Entry, Decision
<1>4. Selected(r, k) \in [1..k -> Decision]
  BY <1>3 DEF Selected
<1>5. \A i \in 1..k : ~Selected(r, k)[i].close
  BY DEF Selected, Entry
<1> QED BY <1>2, <1>4, <1>5
-----------------------------------------------------------------------------
(* Type correctness.                                                       *)

LEMMA TypeInit == Init => TypeOK
<1> SUFFICES ASSUME Init PROVE TypeOK
  OBVIOUS
<1>1. LoopOK
  <2>1. hand \in Seq(Decision) /\ batch \in Seq(Decision) /\ Len(hand) = 0
    BY DEF Init
  <2>2. symbol \in Seq(Symbol) /\ Len(symbol) = 0
    BY DEF Init
  <2>3. pending \in [Symbol -> Candidate \cup {NoCandidate}]
    BY DEF Init
  <2> QED BY <2>1, <2>2, <2>3 DEF Init, LoopOK, LoopSteps
<1>2. StoreOK
  BY ConstantsAssumption DEF Init, StoreOK
<1>3. BoundsOK
  BY ConstantsAssumption DEF Init, BoundsOK
<1>4. live \in BOOLEAN
  BY ConstantsAssumption DEF Init
<1> QED BY <1>1, <1>2, <1>3, <1>4 DEF TypeOK

LEMMA TypeTick == ASSUME TypeOK, Tick, UNCHANGED live PROVE TypeOK'
<1>1. LoopOK'
  <2>1. ASSUME NEW s \in Waiting
        PROVE  [pending[s] EXCEPT !.age = Lower(@ + 1, SelectionWindow)] \in Candidate
    BY <2>1, Candidates DEF Candidate, SelectionWindow, Lower
  <2>2. pending' \in [Symbol -> Candidate \cup {NoCandidate}]
    BY <2>1 DEF Tick
  <2>3. Waiting = {} => Waiting' = {}
    BY DEF Tick, Waiting
  <2> QED BY <2>2, <2>3 DEF TypeOK, LoopOK, Tick
<1>2. StoreOK'
  <2>1. \A s \in Symbol : Lower(sinceClose[s] + 1, SuppressFor) \in 0..SuppressFor
    BY ConstantsAssumption DEF TypeOK, StoreOK, Lower
  <2> QED BY <2>1 DEF TypeOK, StoreOK, Tick
<1>3. BoundsOK'
  BY DEF TypeOK, BoundsOK, Tick
<1> QED BY <1>1, <1>2, <1>3 DEF TypeOK

LEMMA TypeGone == ASSUME TypeOK, Gone PROVE LoopOK'
<1>1. hand' \in Seq(Decision) /\ batch' \in Seq(Decision) /\ Len(hand') = 0
  BY DEF Gone
<1>2. symbol' \in Seq(Symbol) /\ Len(symbol') = 0
  BY DEF Gone
<1>3. pending' \in [Symbol -> Candidate \cup {NoCandidate}] /\ Waiting' = {}
  BY DEF Gone, Waiting
<1> QED BY <1>1, <1>2, <1>3 DEF Gone, LoopOK, LoopSteps

LEMMA TypeCrash == ASSUME TypeOK, Crash, UNCHANGED live PROVE TypeOK'
<1>1. LoopOK'
  BY TypeGone DEF Crash
<1>2. StoreOK' /\ BoundsOK'
  BY DEF TypeOK, StoreOK, BoundsOK, Crash
<1> QED BY <1>1, <1>2 DEF TypeOK

LEMMA TypeRestart == ASSUME TypeOK, Restart, UNCHANGED live PROVE TypeOK'
BY DEF TypeOK, LoopOK, StoreOK, BoundsOK, Restart, Waiting

LEMMA TypeSelectionTick == ASSUME TypeOK, SelectionTick, UNCHANGED live PROVE TypeOK'
BY DEF TypeOK, LoopOK, StoreOK, BoundsOK, SelectionTick, Waiting, LoopSteps

LEMMA TypeShutdown == ASSUME TypeOK, Shutdown, UNCHANGED live PROVE TypeOK'
BY DEF TypeOK, LoopOK, StoreOK, BoundsOK, Shutdown, Waiting, LoopSteps

LEMMA TypeExecuteNext == ASSUME TypeOK, ExecuteNext, UNCHANGED live PROVE TypeOK'
<1>1. Head(queue) \in Decision /\ queue' \in Seq(Decision)
  BY DEF ExecuteNext, TypeOK, StoreOK
<1>2. book' \in [Symbol -> SUBSET Trade]
  <2>1. Head(queue).symbol \in Symbol /\ Head(queue).trade \in Trade
    BY <1>1 DEF Decision
  <2>2. book \in [Symbol -> SUBSET Trade]
    BY DEF TypeOK, StoreOK
  <2>3. CASE UNCHANGED book
    BY <2>2, <2>3
  <2>4. CASE book' = [book EXCEPT ![Head(queue).symbol] = @ \cup {Head(queue).trade}]
    BY <2>1, <2>2, <2>4
  <2>5. ASSUME NEW i, book' = [book EXCEPT ![Head(queue).symbol] = @ \ {i}]
        PROVE  book' \in [Symbol -> SUBSET Trade]
    BY <2>1, <2>2, <2>5
  <2> QED BY <2>3, <2>4, <2>5 DEF ExecuteNext
<1>3. LoopOK' /\ BoundsOK'
  BY DEF TypeOK, LoopOK, BoundsOK, ExecuteNext, Waiting
<1> QED BY <1>1, <1>2, <1>3 DEF TypeOK, StoreOK, ExecuteNext

LEMMA TypeFetchOpenTrade ==
  ASSUME TypeOK, NEW s \in Symbol, FetchOpenTrade(s), UNCHANGED live
  PROVE  TypeOK'
<1>1. CASE /\ symbol' = <<s>> /\ pc' = "pipeline" /\ UNCHANGED hand
  <2>1. LoopOK'
    BY <1>1 DEF TypeOK, LoopOK, FetchOpenTrade, Waiting, LoopSteps
  <2>2. StoreOK' /\ BoundsOK'
    BY ConstantsAssumption DEF TypeOK, StoreOK, BoundsOK, FetchOpenTrade
  <2> QED BY <2>1, <2>2 DEF TypeOK
<1>2. ASSUME NEW i \in book[s], hand' = <<Close(s, i)>>, pc' = "recent", UNCHANGED symbol
      PROVE  TypeOK'
  <2>1. Close(s, i) \in Decision
    BY DEF TypeOK, StoreOK, Close, Decision
  <2>2. LoopOK'
    BY <1>2, <2>1 DEF TypeOK, LoopOK, FetchOpenTrade, Waiting, LoopSteps
  <2>3. StoreOK' /\ BoundsOK'
    BY ConstantsAssumption DEF TypeOK, StoreOK, BoundsOK, FetchOpenTrade
  <2> QED BY <2>2, <2>3 DEF TypeOK
<1> QED BY <1>1, <1>2 DEF FetchOpenTrade

LEMMA TypeEvaluatePipeline == ASSUME TypeOK, EvaluatePipeline, UNCHANGED live PROVE TypeOK'
<1>1. Head(symbol) \in Symbol
  <2>1. symbol \in Seq(Symbol) /\ Len(symbol) = 1
    BY DEF TypeOK, LoopOK, EvaluatePipeline
  <2>2. symbol # <<>>
    BY <2>1
  <2> QED BY <2>1, <2>2, HeadTailProperties
<1>2. pending' \in [Symbol -> Candidate \cup {NoCandidate}] /\ offers' \in 0..MaxOffers
  <2>1. CASE UNCHANGED <<pending, offers>>
    BY <2>1 DEF TypeOK, LoopOK, BoundsOK
  <2>2. ASSUME NEW r \in Rank, offers < MaxOffers, offers' = offers + 1,
               pending' = IF pending[Head(symbol)].rank >= r THEN pending
                          ELSE [pending EXCEPT ![Head(symbol)] =
                                  [trade |-> offers', rank |-> r, age |-> 0]]
        PROVE  pending' \in [Symbol -> Candidate \cup {NoCandidate}] /\ offers' \in 0..MaxOffers
    <3>1. offers' \in Trade
      BY <2>2, ConstantsAssumption DEF TypeOK, BoundsOK, Trade
    <3>2. [trade |-> offers', rank |-> r, age |-> 0] \in Candidate
      BY <3>1 DEF Candidate, SelectionWindow
    <3>3. offers' \in 0..MaxOffers
      BY <3>1, ConstantsAssumption DEF Trade
    <3>4. pending \in [Symbol -> Candidate \cup {NoCandidate}]
      BY DEF TypeOK, LoopOK
    <3> DEFINE new == [trade |-> offers', rank |-> r, age |-> 0]
    <3>5. [pending EXCEPT ![Head(symbol)] = new] \in [Symbol -> Candidate \cup {NoCandidate}]
      <4> HIDE DEF new
      <4> QED BY <3>2, <3>4 DEF new
    <3> QED BY <2>2, <3>3, <3>4, <3>5
  <2> QED BY <2>1, <2>2 DEF EvaluatePipeline
<1>3. LoopOK'
  BY <1>2 DEF TypeOK, LoopOK, EvaluatePipeline, LoopSteps
<1> QED BY <1>2, <1>3 DEF TypeOK, StoreOK, BoundsOK, EvaluatePipeline

LEMMA InHand ==
  ASSUME TypeOK, pc \in {"recent", "audit", "publish"}
  PROVE  hand[1] \in Decision /\ hand[1].symbol \in Symbol /\ hand[1].trade \in Trade
<1>1. hand \in Seq(Decision) /\ Len(hand) = 1
  BY DEF TypeOK, LoopOK
<1>2. hand[1] \in Decision
  <2>1. 1 \in 1..Len(hand)
    BY <1>1
  <2> QED BY <1>1, <2>1, ElementOfSeq
<1> QED BY <1>2 DEF Decision

LEMMA TypeCheckRecentClose == ASSUME TypeOK, CheckRecentClose, UNCHANGED live PROVE TypeOK'
<1>1. LoopOK'
  <2>1. CASE pc' = "idle" /\ hand' = <<>>
    <3>1. hand' \in Seq(Decision) /\ Len(hand') = 0
      BY <2>1
    <3> QED BY <2>1, <3>1 DEF TypeOK, LoopOK, CheckRecentClose, Waiting, LoopSteps
  <2>2. CASE pc' = "audit" /\ UNCHANGED hand
    BY <2>2 DEF TypeOK, LoopOK, CheckRecentClose, Waiting, LoopSteps
  <2> QED BY <2>1, <2>2 DEF CheckRecentClose
<1> QED BY <1>1, ConstantsAssumption DEF TypeOK, StoreOK, BoundsOK, CheckRecentClose

LEMMA TypePersistAuditLog == ASSUME TypeOK, PersistAuditLog, UNCHANGED live PROVE TypeOK'
<1>1. LoopOK'
  BY DEF TypeOK, LoopOK, PersistAuditLog, Waiting, LoopSteps
<1>2. StoreOK'
  <2>1. hand[1] \in Decision /\ hand[1].trade \in Trade
    BY InHand DEF PersistAuditLog
  <2>2. sinceClose' \in [Symbol -> 0..SuppressFor]
    BY ConstantsAssumption DEF TypeOK, StoreOK, PersistAuditLog, Audited
  <2>3. closedTrade' \in [Symbol -> Trade \cup {0}]
    BY <2>1 DEF TypeOK, StoreOK, PersistAuditLog, Audited
  <2> QED BY <2>2, <2>3 DEF TypeOK, StoreOK, PersistAuditLog
<1> QED BY <1>1, <1>2, ConstantsAssumption DEF TypeOK, BoundsOK, PersistAuditLog

LEMMA TypeProceed ==
  ASSUME TypeOK, NEW rest \in Seq(Decision), Proceed(rest), up, pc = "publish"
  PROVE  LoopOK'
<1>1. CASE rest # <<>>
  <2>1. Head(rest) \in Decision /\ Tail(rest) \in Seq(Decision)
    BY <1>1, HeadTailProperties
  <2>2. hand' \in Seq(Decision) /\ Len(hand') = 1
    <3>1. \A d \in Decision : <<d>> \in Seq(Decision) /\ Len(<<d>>) = 1
      OBVIOUS
    <3> QED BY <1>1, <2>1, <3>1 DEF Proceed
  <2> QED BY <1>1, <2>1, <2>2 DEF TypeOK, LoopOK, Proceed, Waiting, LoopSteps
<1>2. CASE rest = <<>> /\ stopping
  BY <1>2, TypeGone DEF Proceed
<1>3. CASE rest = <<>> /\ ~stopping
  BY <1>3 DEF TypeOK, LoopOK, Proceed, Waiting, LoopSteps
<1> QED BY <1>1, <1>2, <1>3 DEF TypeOK, LoopOK

LEMMA TypePublishDecisionEvent == ASSUME TypeOK, PublishDecisionEvent, UNCHANGED live PROVE TypeOK'
<1>1. batch \in Seq(Decision) /\ <<>> \in Seq(Decision)
  BY DEF TypeOK, LoopOK
<1>2. LoopOK'
  BY <1>1, TypeProceed DEF PublishDecisionEvent
<1>3. StoreOK'
  <2>1. hand[1] \in Decision
    BY InHand DEF PublishDecisionEvent
  <2>2. queue \in Seq(Decision) /\ Append(queue, hand[1]) \in Seq(Decision)
    BY <2>1 DEF TypeOK, StoreOK
  <2> QED BY <2>2 DEF TypeOK, StoreOK, PublishDecisionEvent
<1> QED BY <1>2, <1>3, ConstantsAssumption DEF TypeOK, BoundsOK, PublishDecisionEvent

LEMMA TypeFlush == ASSUME TypeOK, FlushPendingEntryCandidates, UNCHANGED live PROVE TypeOK'
<1>1. PICK n \in Nat, r \in Rankings(Waiting) :
        LET k == Lower(FreeSlots(n), Cardinality(Waiting))
            chosen == Selected(r, k)
        IN /\ pending' = Drained({r[i] : i \in 1..k})
           /\ IF k > 0
              THEN /\ hand' = <<chosen[1]>> /\ batch' = Tail(chosen) /\ pc' = "audit"
                   /\ UNCHANGED <<up, stopping, symbol>>
              ELSE /\ hand' = <<>> /\ batch' = <<>> /\ pc' = "idle" /\ symbol' = <<>>
                   /\ up' = ~stopping /\ stopping' = FALSE
  BY FiniteOpenTrades DEF FlushPendingEntryCandidates, Selected
<1> DEFINE k == Lower(FreeSlots(n), Cardinality(Waiting))
<1>2. k \in Nat /\ Selected(r, k) \in Seq(Decision) /\ Len(Selected(r, k)) = k
  BY SelectedType
<1>3. up /\ pc = "count" /\ pending' = [s \in Symbol |-> NoCandidate]
  BY <1>1 DEF FlushPendingEntryCandidates, Drained
<1>4. Waiting' = {} /\ pending' \in [Symbol -> Candidate \cup {NoCandidate}]
  BY <1>3 DEF Waiting
<1> DEFINE Rest == /\ UNCHANGED <<auditVars, queue, book, offers, crashes, stops>>
                   /\ Ok \/ Fails
<1>7. Rest
  BY DEF FlushPendingEntryCandidates
<1>8. StoreOK' /\ BoundsOK'
  BY <1>7, ConstantsAssumption DEF TypeOK, StoreOK, BoundsOK
<1> HIDE DEF Rest
<1>5. CASE k > 0
  <2>1. Selected(r, k)[1] \in Decision /\ Tail(Selected(r, k)) \in Seq(Decision)
    <3> DEFINE sel == Selected(r, k)
    <3> HIDE DEF sel
    <3>1. sel \in Seq(Decision) /\ Len(sel) > 0 /\ 1 \in 1..Len(sel) /\ sel # <<>>
      BY <1>2, <1>5 DEF sel
    <3>2. sel[1] \in Decision /\ Tail(sel) \in Seq(Decision)
      BY <3>1, ElementOfSeq, HeadTailProperties
    <3> QED BY <3>2 DEF sel
  <2>2. /\ hand' = <<Selected(r, k)[1]>> /\ batch' = Tail(Selected(r, k)) /\ pc' = "audit"
        /\ UNCHANGED <<up, stopping, symbol>>
    BY <1>1, <1>5
  <2>3. LoopOK'
    BY <2>1, <2>2, <1>3, <1>4 DEF TypeOK, LoopOK, LoopSteps
  <2> QED BY <2>3, <1>8 DEF TypeOK
<1>6. CASE ~(k > 0)
  <2>1. /\ hand' = <<>> /\ batch' = <<>> /\ pc' = "idle" /\ symbol' = <<>>
        /\ up' = ~stopping /\ stopping' = FALSE
    BY <1>1, <1>6
  <2>2. hand' \in Seq(Decision) /\ Len(hand') = 0 /\ batch' \in Seq(Decision)
        /\ symbol' \in Seq(Symbol) /\ Len(symbol') = 0
    BY <2>1
  <2>3. LoopOK'
    BY <2>1, <2>2, <1>3, <1>4 DEF TypeOK, LoopOK, LoopSteps
  <2> QED BY <2>3, <1>8 DEF TypeOK
<1> QED BY <1>5, <1>6

LEMMA TypeNext == TypeOK /\ [Next]_vars => TypeOK'
<1> SUFFICES ASSUME TypeOK, [Next]_vars PROVE TypeOK'
  OBVIOUS
<1>1. CASE UNCHANGED vars
  BY <1>1 DEF TypeOK, LoopOK, StoreOK, BoundsOK, Waiting, vars, stepVars
<1>2. CASE Next
  BY <1>2, TypeTick, TypeCrash, TypeRestart, TypeShutdown, TypeSelectionTick, TypeExecuteNext,
     TypeFetchOpenTrade, TypeEvaluatePipeline, TypeCheckRecentClose, TypePersistAuditLog,
     TypePublishDecisionEvent, TypeFlush DEF Next, Step, LoopStep
<1> QED BY <1>1, <1>2

\* Every variable keeps its type, the loop holds a decision exactly when it is
\* making or publishing one, and a process that is down holds nothing.
THEOREM TypeCorrect == Spec => []TypeOK
<1> QED BY TypeInit, TypeNext, PTL DEF Spec
-----------------------------------------------------------------------------
(* Closes, when no statement fails and what is under way finishes before a *)
(* tick goes by.  The audit row of a close is as young as can be while the *)
(* close is in the stream, so a second one is suppressed; the window opens *)
(* again only in a state in which nothing is under way.                    *)

CloseInv ==
  /\ \A i \in 1..Len(batch) : ~batch[i].close
  /\ \A s \in Symbol : \A i, j \in ClosesInFlight(s) : i = j
  /\ \A s \in Symbol : ClosesInFlight(s) # {} => sinceClose[s] = 0
  /\ pc \in {"audit", "publish"} /\ hand[1].close => ClosesInFlight(hand[1].symbol) = {}
  /\ pc = "publish" /\ hand[1].close => sinceClose[hand[1].symbol] = 0

\* With the executor's guards a symbol has one open trade at most, and a close
\* that is decided or under way is for that trade.
TradeInv ==
  /\ \A s \in Symbol : \A i, j \in book[s] : i = j
  /\ \A i \in 1..Len(queue) : queue[i].close => book[queue[i].symbol] = {queue[i].trade}
  /\ pc \in {"audit", "publish"} /\ hand[1].close => book[hand[1].symbol] = {hand[1].trade}
  /\ pc = "recent" => /\ hand[1].close
                      /\ ~RecentClose(hand[1].symbol) => book[hand[1].symbol] = {hand[1].trade}

LEMMA Queued ==
  ASSUME TypeOK, NEW i \in 1..Len(queue)
  PROVE  queue[i] \in Decision /\ queue[i].symbol \in Symbol
<1>1. queue \in Seq(Decision)
  BY DEF TypeOK, StoreOK
<1>2. queue[i] \in Decision
  BY <1>1, ElementOfSeq
<1> QED BY <1>2 DEF Decision

LEMMA InFlightAppend ==
  ASSUME TypeOK, NEW d \in Decision, queue' = Append(queue, d), NEW s \in Symbol
  PROVE  \A i \in ClosesInFlight(s)' : \/ i \in ClosesInFlight(s)
                                       \/ i = Len(queue) + 1 /\ d.close /\ d.symbol = s
<1>1. queue \in Seq(Decision)
  BY DEF TypeOK, StoreOK
<1>2. Len(queue') = Len(queue) + 1 /\ Len(queue) \in Nat
  BY <1>1
<1>3. \A i \in 1..Len(queue) : queue'[i] = queue[i]
  BY <1>1
<1>4. queue'[Len(queue) + 1] = d
  BY <1>1
<1> QED BY <1>2, <1>3, <1>4 DEF ClosesInFlight

LEMMA InFlightTail ==
  ASSUME TypeOK, queue # <<>>, queue' = Tail(queue), NEW s \in Symbol
  PROVE  /\ \A i \in ClosesInFlight(s)' : i \in Nat /\ i + 1 \in ClosesInFlight(s)
         /\ \A i \in 1..Len(queue') : i + 1 \in 1..Len(queue) /\ queue'[i] = queue[i + 1]
<1>1. queue \in Seq(Decision)
  BY DEF TypeOK, StoreOK
<1>2. /\ Len(queue') = Len(queue) - 1 /\ Len(queue) \in Nat
      /\ \A i \in 1..Len(queue') : queue'[i] = queue[i + 1]
  BY <1>1, HeadTailProperties
<1>3. \A i \in 1..Len(queue') : i \in Nat /\ i + 1 \in 1..Len(queue)
  BY <1>2
<1> QED BY <1>2, <1>3 DEF ClosesInFlight

\* A step that leaves alone what the invariant speaks about.
LEMMA CloseQuiet ==
  ASSUME CloseInv, UNCHANGED queue, UNCHANGED sinceClose,
         \A i \in 1..Len(batch') : ~batch'[i].close,
         pc' \in {"audit", "publish"} => ~hand'[1].close
  PROVE  CloseInv'
<1>1. \A s \in Symbol : ClosesInFlight(s)' = ClosesInFlight(s)
  BY DEF ClosesInFlight
<1> QED BY <1>1 DEF CloseInv

LEMMA NoFailure == ASSUME TypeOK, MaxFaults = 0 PROVE ~Fails
BY DEF TypeOK, BoundsOK

LEMMA CloseTick == ASSUME TypeOK, CloseInv, Prompt, Tick PROVE CloseInv'
<1>1. queue' = <<>> /\ pc' = "idle" /\ UNCHANGED batch
  BY DEF Tick
<1>2. \A s \in Symbol : ClosesInFlight(s)' = {}
  BY <1>1 DEF ClosesInFlight
<1> QED BY <1>1, <1>2 DEF CloseInv

LEMMA CloseExecuteNext == ASSUME TypeOK, CloseInv, ExecuteNext PROVE CloseInv'
<1>1. queue # <<>> /\ queue' = Tail(queue) /\ UNCHANGED <<loopVars, auditVars>>
  BY DEF ExecuteNext
<1>2. \A s \in Symbol : \A i \in ClosesInFlight(s)' : i \in Nat /\ i + 1 \in ClosesInFlight(s)
  BY <1>1, InFlightTail
<1>3. \A s \in Symbol : \A i, j \in ClosesInFlight(s)' : i = j
  <2> TAKE s \in Symbol
  <2> TAKE i, j \in ClosesInFlight(s)'
  <2>1. i \in Nat /\ j \in Nat /\ i + 1 = j + 1
    BY <1>2 DEF CloseInv
  <2> QED BY <2>1
<1>4. ASSUME pc \in {"audit", "publish"}, hand[1].close, NEW s, s = hand[1].symbol
      PROVE  ClosesInFlight(s)' = {}
  <2>1. s \in Symbol
    BY <1>4, InHand
  <2>2. ClosesInFlight(s) = {}
    BY <1>4 DEF CloseInv
  <2> QED BY <1>2, <2>1, <2>2
<1>5. pc' = pc /\ hand' = hand /\ batch' = batch /\ sinceClose' = sinceClose
  BY <1>1
<1>6. \A s \in Symbol : ClosesInFlight(s)' # {} => sinceClose'[s] = 0
  BY <1>2, <1>5 DEF CloseInv
<1>7. (pc \in {"audit", "publish"} /\ hand[1].close => ClosesInFlight(hand[1].symbol) = {})'
  BY <1>4, <1>5
<1> QED BY <1>3, <1>5, <1>6, <1>7 DEF CloseInv

LEMMA CloseCheckRecent ==
  ASSUME TypeOK, CloseInv, MaxFaults = 0, CheckRecentClose PROVE CloseInv'
<1>1. UNCHANGED <<queue, sinceClose, batch>>
  BY DEF CheckRecentClose
<1>2. CASE pc' = "idle"
  BY <1>1, <1>2, CloseQuiet DEF CloseInv
<1>3. CASE ~RecentClose(hand[1].symbol) /\ pc' = "audit" /\ UNCHANGED hand
  <2>1. hand[1].symbol \in Symbol
    BY InHand DEF CheckRecentClose
  <2>2. sinceClose[hand[1].symbol] # 0
    BY <1>3, ConstantsAssumption DEF RecentClose
  <2>3. ClosesInFlight(hand[1].symbol) = {}
    BY <2>1, <2>2 DEF CloseInv
  <2>4. \A s : ClosesInFlight(s)' = ClosesInFlight(s)
    BY <1>1 DEF ClosesInFlight
  <2> QED BY <1>1, <1>3, <2>3, <2>4 DEF CloseInv
<1> QED BY <1>2, <1>3, NoFailure DEF CheckRecentClose

LEMMA ClosePersistAuditLog ==
  ASSUME TypeOK, CloseInv, MaxFaults = 0, PersistAuditLog PROVE CloseInv'
<1>1. /\ UNCHANGED <<queue, batch, hand>> /\ pc = "audit" /\ pc' = "publish"
      /\ Audited(hand[1])
  BY NoFailure DEF PersistAuditLog
<1>2. \A s : ClosesInFlight(s)' = ClosesInFlight(s)
  BY <1>1 DEF ClosesInFlight
<1>3. hand[1].symbol \in Symbol /\ sinceClose \in [Symbol -> 0..SuppressFor]
  BY <1>1, InHand DEF TypeOK, StoreOK
<1>4. CASE hand[1].close
  <2>1. sinceClose' = [sinceClose EXCEPT ![hand[1].symbol] = 0]
    BY <1>1, <1>4 DEF Audited
  <2> QED BY <1>1, <1>2, <1>3, <2>1 DEF CloseInv
<1>5. CASE ~hand[1].close
  BY <1>1, <1>2, <1>5 DEF CloseInv, Audited
<1> QED BY <1>4, <1>5

LEMMA ClosePublish ==
  ASSUME TypeOK, CloseInv, MaxFaults = 0, PublishDecisionEvent PROVE CloseInv'
<1>1. /\ pc = "publish" /\ queue' = Append(queue, hand[1]) /\ Proceed(batch)
      /\ UNCHANGED sinceClose
  BY NoFailure DEF PublishDecisionEvent
<1>2. hand[1] \in Decision /\ hand[1].symbol \in Symbol
  BY <1>1, InHand
<1>3. batch \in Seq(Decision)
  BY DEF TypeOK, LoopOK
<1>4. /\ \A i \in 1..Len(batch') : ~batch'[i].close
      /\ pc' \in {"audit", "publish"} => ~hand'[1].close
  <2>1. CASE batch # <<>>
    <3>1. hand' = <<Head(batch)>> /\ batch' = Tail(batch)
      BY <1>1, <2>1 DEF Proceed
    <3>2. Len(batch) \in Nat /\ Len(batch) > 0 /\ Head(batch) = batch[1]
      BY <1>3, <2>1
    <3>3. /\ Len(Tail(batch)) = Len(batch) - 1
          /\ \A i \in 1..Len(Tail(batch)) : Tail(batch)[i] = batch[i + 1]
      BY <1>3, <2>1, HeadTailProperties
    <3>4. \A i \in 1..Len(batch) : ~batch[i].close
      BY DEF CloseInv
    <3>5. ~hand'[1].close
      BY <3>1, <3>2, <3>4
    <3>6. \A i \in 1..Len(Tail(batch)) : i + 1 \in 1..Len(batch)
      BY <3>2, <3>3
    <3> QED BY <3>1, <3>3, <3>4, <3>5, <3>6
  <2>2. CASE batch = <<>>
    <3>1. pc' = "idle" /\ batch' = <<>>
      BY <1>1, <2>2 DEF Proceed, Gone
    <3> QED BY <3>1
  <2> QED BY <2>1, <2>2
<1>5. ASSUME NEW s \in Symbol
      PROVE  /\ \A i, j \in ClosesInFlight(s)' : i = j
             /\ ClosesInFlight(s)' # {} => sinceClose[s] = 0
  <2> PICK d : d = hand[1]
    OBVIOUS
  <2>1. \A i \in ClosesInFlight(s)' :
          i \in ClosesInFlight(s) \/ (i = Len(queue) + 1 /\ d.close /\ d.symbol = s)
    <3>1. d \in Decision /\ queue' = Append(queue, d)
      BY <1>1, <1>2
    <3> QED BY <3>1, InFlightAppend
  <2>2. CASE hand[1].close /\ hand[1].symbol = s
    <3>1. ClosesInFlight(s) = {} /\ sinceClose[s] = 0
      BY <1>1, <2>2 DEF CloseInv
    <3> QED BY <2>1, <3>1
  <2>3. CASE ~(hand[1].close /\ hand[1].symbol = s)
    <3>1. \A i \in ClosesInFlight(s)' : i \in ClosesInFlight(s)
      BY <2>1, <2>3
    <3> QED BY <3>1 DEF CloseInv
  <2> QED BY <2>2, <2>3
<1> QED BY <1>1, <1>4, <1>5 DEF CloseInv

\* What a flush selects are entries.
LEMMA FlushTakesEntries ==
  ASSUME TypeOK, FlushPendingEntryCandidates
  PROVE  /\ \A i \in 1..Len(batch') : ~batch'[i].close
         /\ pc' \in {"audit", "publish"} => ~hand'[1].close
<1>1. PICK n \in Nat, r \in Rankings(Waiting) :
        LET k == Lower(FreeSlots(n), Cardinality(Waiting))
            chosen == Selected(r, k)
        IN IF k > 0
           THEN hand' = <<chosen[1]>> /\ batch' = Tail(chosen)
           ELSE hand' = <<>> /\ batch' = <<>> /\ pc' = "idle"
  BY FiniteOpenTrades DEF FlushPendingEntryCandidates, Selected
<1> DEFINE k == Lower(FreeSlots(n), Cardinality(Waiting))
<1> DEFINE sel == Selected(r, k)
<1>2. /\ k \in Nat /\ sel \in Seq(Decision) /\ Len(sel) = k
      /\ \A i \in 1..k : ~sel[i].close
  BY SelectedType
<1>3. IF k > 0 THEN hand' = <<sel[1]>> /\ batch' = Tail(sel)
      ELSE hand' = <<>> /\ batch' = <<>> /\ pc' = "idle"
  BY <1>1
<1> HIDE DEF sel, k
<1>4. CASE k > 0
  <2>1. sel # <<>>
    BY <1>2, <1>4
  <2>2. /\ Len(Tail(sel)) = k - 1
        /\ \A i \in 1..Len(Tail(sel)) : Tail(sel)[i] = sel[i + 1]
    BY <1>2, <2>1, HeadTailProperties
  <2>3. \A i \in 1..Len(Tail(sel)) : i + 1 \in 1..k
    BY <1>2, <2>2
  <2>4. \A i \in 1..Len(batch') : ~batch'[i].close
    BY <1>2, <1>3, <1>4, <2>2, <2>3
  <2>5. ~hand'[1].close
    BY <1>2, <1>3, <1>4
  <2> QED BY <2>4, <2>5
<1>5. CASE ~(k > 0)
  BY <1>3, <1>5
<1> QED BY <1>4, <1>5

LEMMA CloseFlush ==
  ASSUME TypeOK, CloseInv, FlushPendingEntryCandidates PROVE CloseInv'
BY FlushTakesEntries, CloseQuiet DEF FlushPendingEntryCandidates

LEMMA CloseNext ==
  ASSUME TypeOK, CloseInv, Prompt, MaxFaults = 0, [Next]_vars PROVE CloseInv'
<1>1. CASE UNCHANGED vars
  BY <1>1 DEF CloseInv, ClosesInFlight, vars, stepVars
<1>2. CASE Crash
  BY <1>2, CloseQuiet DEF Crash, Gone
<1>3. CASE Restart \/ Shutdown \/ SelectionTick
  <2>1. UNCHANGED <<queue, sinceClose, batch>>
    BY <1>3 DEF Restart, Shutdown, SelectionTick
  <2>2. pc' \in {"audit", "publish"} => pc' = pc /\ hand' = hand
    BY <1>3 DEF Restart, Shutdown, SelectionTick
  <2>3. \A s : ClosesInFlight(s)' = ClosesInFlight(s)
    BY <2>1 DEF ClosesInFlight
  <2> QED BY <2>1, <2>2, <2>3 DEF CloseInv
<1>4. CASE EvaluatePipeline
  BY <1>4, CloseQuiet DEF EvaluatePipeline, CloseInv
<1>5. ASSUME NEW s \in Symbol, FetchOpenTrade(s) PROVE CloseInv'
  BY <1>5, CloseQuiet DEF FetchOpenTrade, CloseInv
<1> QED BY <1>1, <1>2, <1>3, <1>4, <1>5, CloseTick, CloseExecuteNext, CloseCheckRecent,
        ClosePersistAuditLog, ClosePublish, CloseFlush DEF Next, Step, LoopStep

LEMMA CloseInit == Init => CloseInv
BY DEF Init, CloseInv, ClosesInFlight

\* At most one close of a symbol is on its way, whatever the number of
\* symbols, the crashes and the shutdowns, if statements and publications
\* succeed and decisions are handled before the window of a close ends.
THEOREM OneCloseInFlight ==
  ASSUME Prompt, MaxFaults = 0 PROVE Spec => []NoDuplicateExit
<1>1. TypeOK /\ CloseInv => NoDuplicateExit
  <2> SUFFICES ASSUME TypeOK, CloseInv, NEW s \in Symbol
               PROVE  Cardinality(ClosesInFlight(s)) <= 1
    BY DEF NoDuplicateExit
  <2>1. CASE ClosesInFlight(s) = {}
    BY <2>1, FS_EmptySet
  <2>2. ASSUME NEW i \in ClosesInFlight(s) PROVE Cardinality(ClosesInFlight(s)) <= 1
    <3>1. ClosesInFlight(s) = {i}
      BY <2>2 DEF CloseInv
    <3>2. Cardinality({i}) = 1
      BY FS_Singleton, Zenon
    <3> QED BY <3>1, <3>2
  <2> QED BY <2>1, <2>2
<1>2. TypeOK /\ CloseInv /\ [Next]_vars => (TypeOK /\ CloseInv)'
  BY CloseNext, TypeNext
<1> QED BY <1>1, <1>2, TypeInit, CloseInit, PTL DEF Spec
-----------------------------------------------------------------------------
(* What a close closes, in paper mode.                                     *)

\* A step that leaves the stream and the book alone.
LEMMA TradeQuiet ==
  ASSUME TradeInv, UNCHANGED <<queue, book>>,
         pc' \in {"audit", "publish"} => ~hand'[1].close,
         pc' # "recent"
  PROVE  TradeInv'
BY DEF TradeInv

LEMMA TradeTick == ASSUME TypeOK, TradeInv, Prompt, Tick PROVE TradeInv'
BY TradeQuiet DEF Tick

LEMMA TradeFetch ==
  ASSUME TypeOK, TradeInv, NEW s \in Symbol, FetchOpenTrade(s) PROVE TradeInv'
<1>1. UNCHANGED <<queue, book>>
  BY DEF FetchOpenTrade
<1>2. CASE pc' = "pipeline"
  BY <1>1, <1>2, TradeQuiet
<1>3. ASSUME NEW i \in book[s], hand' = <<Close(s, i)>>, pc' = "recent"
      PROVE  TradeInv'
  <2>1. book[s] = {i}
    BY DEF TradeInv
  <2>2. hand'[1].close /\ hand'[1].symbol = s /\ hand'[1].trade = i
    BY <1>3 DEF Close
  <2> QED BY <1>1, <1>3, <2>1, <2>2 DEF TradeInv
<1> QED BY <1>2, <1>3 DEF FetchOpenTrade

LEMMA TradeCheckRecent ==
  ASSUME TypeOK, TradeInv, MaxFaults = 0, CheckRecentClose PROVE TradeInv'
<1>1. UNCHANGED <<queue, book>> /\ pc = "recent"
  BY DEF CheckRecentClose
<1>2. CASE pc' = "idle"
  BY <1>1, <1>2, TradeQuiet
<1>3. CASE ~RecentClose(hand[1].symbol) /\ pc' = "audit" /\ UNCHANGED hand
  BY <1>1, <1>3 DEF TradeInv
<1> QED BY <1>2, <1>3, NoFailure DEF CheckRecentClose

LEMMA TradePublish ==
  ASSUME TypeOK, CloseInv, TradeInv, MaxFaults = 0, PublishDecisionEvent PROVE TradeInv'
<1>1. /\ pc = "publish" /\ queue' = Append(queue, hand[1]) /\ Proceed(batch)
      /\ UNCHANGED book
  BY NoFailure DEF PublishDecisionEvent
<1>2. queue \in Seq(Decision) /\ Len(queue) \in Nat
  BY DEF TypeOK, StoreOK
<1>3. pc' \in {"audit", "publish"} => ~hand'[1].close
  <2>1. CASE batch # <<>>
    <3>1. batch \in Seq(Decision)
      BY DEF TypeOK, LoopOK
    <3>2. hand' = <<batch[1]>> /\ 1 \in 1..Len(batch)
      BY <1>1, <2>1, <3>1 DEF Proceed
    <3> QED BY <3>2 DEF CloseInv
  <2>2. CASE batch = <<>>
    BY <1>1, <2>2 DEF Proceed, Gone
  <2> QED BY <2>1, <2>2
<1>4. pc' # "recent"
  BY <1>1 DEF Proceed, Gone
<1>5. ASSUME NEW i \in 1..Len(queue'), queue'[i].close
      PROVE  book[queue'[i].symbol] = {queue'[i].trade}
  <2>1. CASE i \in 1..Len(queue)
    <3>1. queue'[i] = queue[i]
      BY <1>1, <1>2, <2>1
    <3> QED BY <1>5, <2>1, <3>1 DEF TradeInv
  <2>2. CASE i = Len(queue) + 1
    <3>1. queue'[i] = hand[1]
      BY <1>1, <1>2, <2>2
    <3> QED BY <1>1, <1>5, <3>1 DEF TradeInv
  <2>3. Len(queue') = Len(queue) + 1
    BY <1>1, <1>2
  <2>4. i \in 1..Len(queue) \/ i = Len(queue) + 1
    BY <1>2, <1>5, <2>3
  <2> QED BY <2>1, <2>2, <2>4
<1> QED BY <1>1, <1>3, <1>4, <1>5 DEF TradeInv

\* The first decision of the stream, if a close, finds the trade it names.
LEMMA HeadClose ==
  ASSUME TypeOK, CloseInv, TradeInv, queue # <<>>, Head(queue).close
  PROVE  /\ Head(queue).symbol \in Symbol
         /\ book[Head(queue).symbol] = {Head(queue).trade}
         /\ 1 \in ClosesInFlight(Head(queue).symbol)
         /\ sinceClose[Head(queue).symbol] = 0
<1>1. queue \in Seq(Decision) /\ 1 \in 1..Len(queue) /\ Head(queue) = queue[1]
  BY DEF TypeOK, StoreOK
<1>2. queue[1] \in Decision
  BY <1>1, ElementOfSeq
<1>3. queue[1].symbol \in Symbol
  BY <1>2 DEF Decision
<1>4. 1 \in ClosesInFlight(queue[1].symbol)
  BY <1>1 DEF ClosesInFlight
<1> QED BY <1>1, <1>3, <1>4 DEF CloseInv, TradeInv

LEMMA TradeExecuteNext ==
  ASSUME TypeOK, CloseInv, TradeInv, ~live, ExecuteNext PROVE TradeInv'
<1>1. queue # <<>> /\ queue' = Tail(queue) /\ pc' = pc /\ hand' = hand /\ UNCHANGED sinceClose
  BY DEF ExecuteNext
<1> DEFINE s == Head(queue).symbol
<1>2. /\ queue \in Seq(Decision) /\ book \in [Symbol -> SUBSET Trade]
      /\ Head(queue) = queue[1] /\ s \in Symbol
  <2>1. queue \in Seq(Decision) /\ book \in [Symbol -> SUBSET Trade]
    BY DEF TypeOK, StoreOK
  <2>2. Head(queue) \in Decision /\ Head(queue) = queue[1]
    BY <1>1, <2>1
  <2> QED BY <2>1, <2>2 DEF Decision
<1>3. \A i \in 1..Len(queue') : /\ i \in Nat /\ i + 1 \in 1..Len(queue)
                                /\ queue'[i] = queue[i + 1]
  BY <1>1, InFlightTail
<1>4. RecentClose(hand[1].symbol) \in BOOLEAN /\ UNCHANGED RecentClose(hand[1].symbol)
  BY <1>1 DEF RecentClose
<1>5. CASE UNCHANGED book
  <2>1. ASSUME NEW i \in 1..Len(queue'), queue'[i].close
        PROVE  book[queue'[i].symbol] = {queue'[i].trade}
    <3>1. i + 1 \in 1..Len(queue) /\ queue'[i] = queue[i + 1]
      BY <1>3
    <3> QED BY <2>1, <3>1 DEF TradeInv
  <2> QED BY <1>1, <1>4, <1>5, <2>1 DEF TradeInv
<1>6. CASE /\ ~Head(queue).close /\ Admitted(s)
           /\ book' = [book EXCEPT ![s] = @ \cup {Head(queue).trade}]
  <2>1. book[s] = {} /\ book'[s] = {Head(queue).trade}
    BY <1>2, <1>6 DEF Admitted
  <2>2. \A x \in Symbol : x # s => book'[x] = book[x]
    BY <1>2, <1>6
  <2>3. \A x, i : book[x] = {i} => x # s
    BY <2>1
  <2>5. ASSUME NEW i \in 1..Len(queue'), queue'[i].close
        PROVE  book'[queue'[i].symbol] = {queue'[i].trade}
    <3>1. i + 1 \in 1..Len(queue) /\ queue'[i] = queue[i + 1]
      BY <1>3
    <3>2. queue[i + 1].symbol \in Symbol
      BY <3>1, Queued
    <3>3. book[queue[i + 1].symbol] = {queue[i + 1].trade}
      BY <2>5, <3>1 DEF TradeInv
    <3> QED BY <2>2, <2>3, <3>1, <3>2, <3>3
  <2>6. pc \in {"recent", "audit", "publish"} => hand[1].symbol \in Symbol
    BY InHand
  <2>7. \A x \in Symbol : \A i, j \in book'[x] : i = j
    BY <2>1, <2>2 DEF TradeInv
  <2>8. pc \in {"audit", "publish"} /\ hand[1].close => book'[hand[1].symbol] = {hand[1].trade}
    BY <2>2, <2>3, <2>6 DEF TradeInv
  <2>9. pc = "recent" => /\ hand[1].close
                         /\ ~RecentClose(hand[1].symbol) => book'[hand[1].symbol] = {hand[1].trade}
    BY <2>2, <2>3, <2>6 DEF TradeInv
  <2> QED BY <1>1, <1>4, <2>5, <2>7, <2>8, <2>9 DEF TradeInv
<1>7. ASSUME NEW t \in book[s], Head(queue).close, book' = [book EXCEPT ![s] = @ \ {t}]
      PROVE  TradeInv'
  <2>1. 1 \in ClosesInFlight(s) /\ sinceClose[s] = 0
    BY <1>1, <1>7, HeadClose
  <2>2. \A x \in Symbol : x # s => book'[x] = book[x]
    BY <1>2, <1>7
  <2>3. \A x \in Symbol : \A i, j \in book'[x] : i = j
    BY <1>2, <1>7 DEF TradeInv
  <2>4. ASSUME NEW i \in 1..Len(queue'), queue'[i].close
        PROVE  queue'[i].symbol \in Symbol /\ queue'[i].symbol # s
    <3>1. i \in Nat /\ i + 1 \in 1..Len(queue) /\ queue'[i] = queue[i + 1]
      BY <1>3
    <3>2. queue[i + 1].symbol \in Symbol
      BY <3>1, Queued
    <3>3. i + 1 \in ClosesInFlight(queue[i + 1].symbol) /\ i + 1 # 1
      BY <2>4, <3>1 DEF ClosesInFlight
    <3> QED BY <2>1, <3>1, <3>2, <3>3 DEF CloseInv
  <2>5. ASSUME NEW i \in 1..Len(queue'), queue'[i].close
        PROVE  book'[queue'[i].symbol] = {queue'[i].trade}
    <3>1. i + 1 \in 1..Len(queue) /\ queue'[i] = queue[i + 1]
      BY <1>3
    <3>2. book[queue[i + 1].symbol] = {queue[i + 1].trade}
      BY <2>5, <3>1 DEF TradeInv
    <3> QED BY <2>2, <2>4, <2>5, <3>1, <3>2
  <2>6. pc \in {"recent", "audit", "publish"} => hand[1].symbol \in Symbol
    BY InHand
  <2>7. pc \in {"audit", "publish"} /\ hand[1].close => hand[1].symbol # s
    BY <2>1 DEF CloseInv
  <2>8. ~RecentClose(hand[1].symbol) => hand[1].symbol # s
    BY <2>1, ConstantsAssumption DEF RecentClose
  <2>9. pc \in {"audit", "publish"} /\ hand[1].close => book'[hand[1].symbol] = {hand[1].trade}
    BY <2>2, <2>6, <2>7 DEF TradeInv
  <2>10. pc = "recent" => /\ hand[1].close
                          /\ ~RecentClose(hand[1].symbol) => book'[hand[1].symbol] = {hand[1].trade}
    BY <2>2, <2>6, <2>8 DEF TradeInv
  <2> QED BY <1>1, <1>4, <2>3, <2>5, <2>9, <2>10 DEF TradeInv
<1> QED BY <1>5, <1>6, <1>7 DEF ExecuteNext

LEMMA TradeNext ==
  ASSUME TypeOK, CloseInv, TradeInv, ~live, Prompt, MaxFaults = 0, [Next]_vars PROVE TradeInv'
<1>1. CASE UNCHANGED vars
  BY <1>1 DEF TradeInv, RecentClose, vars, stepVars
<1>2. CASE Crash
  BY <1>2, TradeQuiet DEF Crash, Gone
<1>3. CASE Restart
  BY <1>3 DEF Restart, TradeInv, RecentClose
<1>4. CASE Shutdown \/ SelectionTick
  BY <1>4, TradeQuiet DEF Shutdown, SelectionTick
<1>5. CASE EvaluatePipeline
  BY <1>5, TradeQuiet DEF EvaluatePipeline
<1>6. CASE PersistAuditLog
  BY <1>6 DEF PersistAuditLog, TradeInv
<1>7. CASE FlushPendingEntryCandidates
  <2>1. UNCHANGED <<queue, book>>
    BY <1>7 DEF FlushPendingEntryCandidates
  <2>2. pc' # "recent"
    BY <1>7 DEF FlushPendingEntryCandidates
  <2>3. pc' \in {"audit", "publish"} => ~hand'[1].close
    BY <1>7, FlushTakesEntries
  <2> QED BY <2>1, <2>2, <2>3, TradeQuiet
<1> QED BY <1>1, <1>2, <1>3, <1>4, <1>5, <1>6, <1>7, TradeTick, TradeFetch, TradeCheckRecent,
        TradePublish, TradeExecuteNext DEF Next, Step, LoopStep

LEMMA TradeInit == Init => TradeInv
BY DEF Init, TradeInv

\* In paper mode, under the assumptions of OneCloseInFlight, no step of the
\* executor removes a trade from the book other than the one its close names.
THEOREM ClosesHitTheirTrade ==
  ASSUME Prompt, MaxFaults = 0 PROVE Spec => CloseHitsItsTrade
<1> DEFINE IInv == TypeOK /\ CloseInv /\ (~live => TradeInv)
<1> DEFINE Hits == ~live => \A s \in Symbol : \A i \in book[s] \ book'[s] : i = Head(queue).trade
<1>1. Init => IInv
  BY TypeInit, CloseInit, TradeInit
<1>2. IInv /\ [Next]_vars => IInv'
  <2>1. [Next]_vars => UNCHANGED live
    BY DEF Next, vars
  <2> QED BY <2>1, TypeNext, CloseNext, TradeNext
<1>3. IInv /\ [Next]_vars => [Hits]_<<live, book>>
  <2> SUFFICES ASSUME IInv, [Next]_vars, ~live, book' # book PROVE Hits
    BY DEF TypeOK, StoreOK
  <2>1. ExecuteNext
    BY DEF Next, Step, LoopStep, vars, stepVars, Tick, Crash, Restart, Shutdown,
      SelectionTick, EvaluatePipeline,
       CheckRecentClose, PersistAuditLog, PublishDecisionEvent, FlushPendingEntryCandidates,
       FetchOpenTrade
  <2>2. book \in [Symbol -> SUBSET Trade]
    BY DEF TypeOK, StoreOK
  <2>3. CASE ~Head(queue).close
    BY <2>1, <2>2, <2>3 DEF ExecuteNext
  <2>4. CASE Head(queue).close
    <3>1. book[Head(queue).symbol] = {Head(queue).trade}
      BY <2>1, <2>4, HeadClose DEF ExecuteNext
    <3> QED BY <2>1, <2>2, <2>4, <3>1 DEF ExecuteNext
  <2> QED BY <2>3, <2>4
<1> QED BY <1>1, <1>2, <1>3, PTL DEF Spec, CloseHitsItsTrade

-----------------------------------------------------------------------------
(* The limit on the book.  The open trades and the entries under way are   *)
(* never more than MaxOpen together, until a shutdown; and when a candidate *)
(* has waited for long enough, or its flush is about to count, no entry is  *)
(* under way that the count would miss.                                     *)

EntriesOf(q) == {q[i].trade : i \in {j \in DOMAIN q : ~q[j].close}}
UnderWay == EntriesOf(queue) \cup EntriesOf(hand) \cup EntriesOf(batch)
Committed == OpenTrades \cup UnderWay
Ripe == \E s \in Waiting : pending[s].age >= SelectionWindow

LimitInv ==
  /\ pc \notin {"audit", "publish"} => batch = <<>>
  /\ stops = 0 => /\ Cardinality(Committed) <= MaxOpen
                  /\ pc = "count" \/ Ripe => UnderWay = {}

LEMMA EntriesShort ==
  /\ EntriesOf(<<>>) = {}
  /\ \A d : EntriesOf(<<d>>) = IF d.close THEN {} ELSE {d.trade}
BY DEF EntriesOf

LEMMA EntriesAppend ==
  ASSUME NEW q \in Seq(Decision), NEW d \in Decision
  PROVE  EntriesOf(Append(q, d)) = EntriesOf(q) \cup EntriesOf(<<d>>)
<1>1. PICK t : t = Append(q, d)
  OBVIOUS
<1>2. PICK n \in Nat : n = Len(q) /\ DOMAIN q = 1..n
  OBVIOUS
<1>3. DOMAIN t = 1..n + 1 /\ (\A i \in 1..n : t[i] = q[i]) /\ t[n + 1] = d
  BY <1>1, <1>2, AppendFacts
<1>4. \A i \in 1..n + 1 : i \in 1..n \/ i = n + 1
  OBVIOUS
<1>5. EntriesOf(t) = EntriesOf(q) \cup (IF d.close THEN {} ELSE {d.trade})
  <2>1. \A i \in 1..n : i \in 1..n + 1
    OBVIOUS
  <2>2. n + 1 \in 1..n + 1
    OBVIOUS
  <2> QED BY <1>2, <1>3, <1>4, <2>1, <2>2 DEF EntriesOf
<1> QED BY <1>1, <1>5, EntriesShort

LEMMA EntriesSplit ==
  ASSUME NEW q \in Seq(Decision), q # <<>>
  PROVE  EntriesOf(q) = EntriesOf(<<Head(q)>>) \cup EntriesOf(Tail(q))
<1>1. PICK t, d : t = Tail(q) /\ d = Head(q)
  OBVIOUS
<1>2. PICK n \in Nat : n + 1 = Len(q) /\ DOMAIN q = 1..n + 1
  <2>1. Len(q) \in Nat \ {0} /\ DOMAIN q = 1..Len(q)
    BY EmptySeq
  <2>2. Len(q) - 1 \in Nat /\ Len(q) - 1 + 1 = Len(q)
    BY <2>1
  <2> QED BY <2>1, <2>2
<1>3. d = q[1] /\ DOMAIN t = 1..n /\ \A i \in 1..n : t[i] = q[i + 1]
  <2>1. /\ Tail(q) \in Seq(Decision) /\ Len(Tail(q)) = Len(q) - 1
        /\ \A i \in 1..Len(Tail(q)) : Tail(q)[i] = q[i + 1]
    BY HeadTailProperties
  <2>2. Len(t) = n /\ t \in Seq(Decision)
    BY <1>1, <1>2, <2>1
  <2>3. DOMAIN t = 1..n
    BY <2>2
  <2>4. \A i \in 1..n : t[i] = q[i + 1]
    BY <1>1, <2>1, <2>2
  <2>5. d = q[1]
    BY <1>1
  <2> QED BY <2>3, <2>4, <2>5
<1>4. \A x : x \in EntriesOf(q) <=> \E i \in 1..n + 1 : ~q[i].close /\ x = q[i].trade
  BY <1>2 DEF EntriesOf
<1>5. \A x : x \in EntriesOf(t) <=> \E i \in 1..n : ~q[i + 1].close /\ x = q[i + 1].trade
  BY <1>3 DEF EntriesOf
<1>6. \A x : x \in EntriesOf(<<d>>) <=> ~q[1].close /\ x = q[1].trade
  BY <1>3, EntriesShort
<1>7. \A i \in 1..n + 1 : i = 1 \/ (i - 1 \in 1..n /\ i - 1 + 1 = i)
  OBVIOUS
<1>8. \A i \in 1..n : i + 1 \in 1..n + 1
  OBVIOUS
<1>9. 1 \in 1..n + 1
  OBVIOUS
<1>10. \A x : x \in EntriesOf(q) <=> x \in EntriesOf(<<d>>) \/ x \in EntriesOf(t)
  <2> TAKE x
  <2>1. ASSUME x \in EntriesOf(q) PROVE x \in EntriesOf(<<d>>) \/ x \in EntriesOf(t)
    <3>1. PICK i \in 1..n + 1 : ~q[i].close /\ x = q[i].trade
      BY <1>4, <2>1
    <3>2. CASE i = 1
      BY <1>6, <3>1, <3>2
    <3>3. CASE i # 1
      <4>1. PICK j \in 1..n : i = j + 1
        BY <1>7, <3>3
      <4> QED BY <1>5, <3>1, <4>1
    <3> QED BY <3>2, <3>3
  <2>2. ASSUME x \in EntriesOf(<<d>>) PROVE x \in EntriesOf(q)
    BY <1>4, <1>6, <1>9, <2>2
  <2>3. ASSUME x \in EntriesOf(t) PROVE x \in EntriesOf(q)
    <3>1. PICK i \in 1..n : ~q[i + 1].close /\ x = q[i + 1].trade
      BY <1>5, <2>3
    <3> QED BY <1>4, <1>8, <3>1
  <2> QED BY <2>1, <2>2, <2>3
<1> QED BY <1>1, <1>10

LEMMA CommittedFinite ==
  ASSUME TypeOK
  PROVE  IsFiniteSet(Committed) /\ Cardinality(Committed) \in Nat
<1>1. ASSUME NEW q \in Seq(Decision) PROVE EntriesOf(q) \subseteq Trade
  <2>1. \A i \in DOMAIN q : q[i] \in Decision
    OBVIOUS
  <2> QED BY <2>1 DEF EntriesOf, Decision
<1>2. Committed \subseteq 1..MaxOffers
  BY <1>1 DEF TypeOK, LoopOK, StoreOK, Committed, UnderWay, OpenTrades, Trade
<1>3. IsFiniteSet(1..MaxOffers)
  BY FS_Interval, ConstantsAssumption
<1> QED BY <1>2, <1>3, FS_Subset, FS_CardinalityType

\* A step that commits to no more, and after which no candidate is riper.
LEMMA LimitQuiet ==
  ASSUME TypeOK, LimitInv, UNCHANGED stops, UnderWay' \subseteq UnderWay,
         Committed' \subseteq Committed,
         pc' = "count" \/ Ripe' => pc = "count" \/ Ripe,
         pc' \notin {"audit", "publish"} => batch' = <<>>
  PROVE  LimitInv'
<1>1. stops = 0 => Cardinality(Committed') <= MaxOpen
  <2>1. Cardinality(Committed') <= Cardinality(Committed) /\ Cardinality(Committed') \in Nat
    BY CommittedFinite, FS_Subset, FS_CardinalityType
  <2>2. stops = 0 => Cardinality(Committed) <= MaxOpen
    BY DEF LimitInv
  <2> QED BY <2>1, <2>2, CommittedFinite, ConstantsAssumption
<1> QED BY <1>1 DEF LimitInv

\* What the loop holds outside of a batch of entries.
LEMMA HandFacts ==
  ASSUME TypeOK
  PROVE  /\ pc \in {"recent", "audit", "publish"} => hand = <<hand[1]>> /\ hand[1] \in Decision
         /\ pc \notin {"recent", "audit", "publish"} => hand = <<>>
<1>1. PICK h : h = hand
  OBVIOUS
<1>2. h \in Seq(Decision) /\ Len(h) = (IF pc \in {"recent", "audit", "publish"} THEN 1 ELSE 0)
  BY <1>1 DEF TypeOK, LoopOK
<1>3. Len(h) = 1 => h = <<h[1]>> /\ h[1] \in Decision
  BY <1>2
<1>4. Len(h) = 0 => h = <<>>
  BY <1>2, EmptySeq
<1> QED BY <1>1, <1>2, <1>3, <1>4

LEMMA LimitInit == Init => LimitInv
<1> SUFFICES ASSUME Init PROVE LimitInv
  OBVIOUS
<1>1. UnderWay = {}
  BY EntriesShort DEF Init, UnderWay
<1>2. Committed = {}
  BY <1>1 DEF Init, Committed, OpenTrades
<1>3. Cardinality(Committed) = 0
  BY <1>2, FS_EmptySet
<1> QED BY <1>1, <1>3, ConstantsAssumption DEF Init, LimitInv

LEMMA LimitTick == ASSUME TypeOK, LimitInv, Prompt, Tick PROVE LimitInv'
<1>1. pc = "idle" /\ queue = <<>> /\ UNCHANGED <<pc, queue, hand, batch, book, stops>>
  BY DEF Tick
<1>2. hand = <<>> /\ batch = <<>>
  BY <1>1, HandFacts DEF LimitInv
<1>3. UnderWay = {} /\ UnderWay' = {}
  BY <1>1, <1>2, EntriesShort DEF UnderWay
<1>4. Committed' = Committed
  BY <1>1, <1>3 DEF Committed, OpenTrades
<1> QED BY <1>1, <1>2, <1>3, <1>4 DEF LimitInv

LEMMA LimitExecuteNext == ASSUME TypeOK, LimitInv, ExecuteNext PROVE LimitInv'
<1>1. /\ queue # <<>> /\ queue' = Tail(queue)
      /\ UNCHANGED <<pc, hand, batch, pending, stops>>
  BY DEF ExecuteNext
<1>2. PICK d : d = Head(queue)
  OBVIOUS
<1>3. EntriesOf(queue) = EntriesOf(<<d>>) \cup EntriesOf(Tail(queue))
  BY <1>1, <1>2, EntriesSplit DEF TypeOK, StoreOK
<1>4. UnderWay' \subseteq UnderWay /\ EntriesOf(<<d>>) \subseteq UnderWay
  BY <1>1, <1>3 DEF UnderWay
<1>5. OpenTrades' \subseteq OpenTrades \cup EntriesOf(<<d>>)
  <2>1. book \in [Symbol -> SUBSET Trade]
    BY DEF TypeOK, StoreOK
  <2>2. CASE ~d.close /\ book' = [book EXCEPT ![d.symbol] = @ \cup {d.trade}]
    <3>1. \A s \in Symbol : book'[s] \subseteq book[s] \cup {d.trade}
      BY <2>1, <2>2
    <3>2. EntriesOf(<<d>>) = {d.trade}
      BY <2>2, EntriesShort
    <3> QED BY <3>1, <3>2 DEF OpenTrades
  <2>3. ASSUME \A s \in Symbol : book'[s] \subseteq book[s]
        PROVE  OpenTrades' \subseteq OpenTrades \cup EntriesOf(<<d>>)
    BY <2>3 DEF OpenTrades
  <2>4. ASSUME NEW i, book' = [book EXCEPT ![d.symbol] = @ \ {i}]
        PROVE  \A s \in Symbol : book'[s] \subseteq book[s]
    BY <2>1, <2>4
  <2> QED BY <1>2, <2>2, <2>3, <2>4 DEF ExecuteNext
<1>6. Committed' \subseteq Committed
  BY <1>4, <1>5 DEF Committed
<1>7. Ripe' = Ripe
  BY <1>1 DEF Ripe, Waiting
<1> QED BY <1>1, <1>4, <1>6, <1>7, LimitQuiet DEF LimitInv

\* The loop forgets what it holds, or lets go of some of it.
LEMMA LimitLetsGo ==
  ASSUME TypeOK, LimitInv, UNCHANGED <<queue, book, stops>>,
         EntriesOf(hand') \subseteq EntriesOf(hand), EntriesOf(batch') \subseteq EntriesOf(batch),
         pc' = "count" \/ Ripe' => pc = "count" \/ Ripe,
         pc' \notin {"audit", "publish"} => batch' = <<>>
  PROVE  LimitInv'
<1>1. UnderWay' \subseteq UnderWay
  BY DEF UnderWay
<1>2. Committed' \subseteq Committed
  BY <1>1 DEF Committed, OpenTrades
<1> QED BY <1>1, <1>2, LimitQuiet

LEMMA LimitGone ==
  ASSUME TypeOK, LimitInv, Gone, UNCHANGED <<queue, book, stops>>
  PROVE  LimitInv'
<1>1. EntriesOf(hand') = {} /\ EntriesOf(batch') = {}
  BY EntriesShort DEF Gone
<1>2. ~Ripe' /\ pc' = "idle" /\ batch' = <<>>
  BY DEF Gone, Ripe, Waiting
<1> QED BY <1>1, <1>2, LimitLetsGo

LEMMA LimitFetch ==
  ASSUME TypeOK, LimitInv, NEW s \in Symbol, FetchOpenTrade(s)
  PROVE  LimitInv'
<1>1. /\ pc = "idle" /\ UNCHANGED <<queue, book, stops, batch, pending>>
      /\ pc' \in {"recent", "pipeline"}
  BY DEF FetchOpenTrade
<1>2. batch = <<>>
  BY <1>1 DEF LimitInv
<1>3. EntriesOf(hand') \subseteq EntriesOf(hand)
  <2>1. ASSUME NEW i PROVE EntriesOf(<<Close(s, i)>>) = {}
    BY EntriesShort DEF Close
  <2> QED BY <2>1 DEF FetchOpenTrade
<1>4. Ripe' = Ripe
  BY <1>1 DEF Ripe, Waiting
<1> QED BY <1>1, <1>2, <1>3, <1>4, LimitLetsGo

LEMMA LimitEvaluate ==
  ASSUME TypeOK, LimitInv, EvaluatePipeline
  PROVE  LimitInv'
<1>1. pc = "pipeline" /\ pc' = "idle" /\ UNCHANGED <<queue, book, stops, batch, hand>>
  BY DEF EvaluatePipeline
<1>2. batch = <<>>
  BY <1>1 DEF LimitInv
<1>3. Ripe' => Ripe
  <2> SUFFICES ASSUME NEW s \in Symbol, pending'[s] # NoCandidate,
                      pending'[s].age >= SelectionWindow
               PROVE  Ripe
    BY DEF Ripe, Waiting
  <2>1. \/ pending' = pending
        \/ \E t, r : pending' = [pending EXCEPT ![t] = [trade |-> offers', rank |-> r, age |-> 0]]
    BY DEF EvaluatePipeline
  <2>2. CASE pending'[s] = pending[s]
    BY <2>2 DEF Ripe, Waiting
  <2>3. CASE pending'[s] # pending[s]
    <3>1. PICK t, r : pending' = [pending EXCEPT ![t] = [trade |-> offers', rank |-> r, age |-> 0]]
      BY <2>1, <2>3
    <3>2. pending \in [Symbol -> Candidate \cup {NoCandidate}]
      BY DEF TypeOK, LoopOK
    <3>3. pending'[s].age = 0
      BY <2>3, <3>1, <3>2
    <3> QED BY <3>3 DEF SelectionWindow
  <2> QED BY <2>2, <2>3
<1> QED BY <1>1, <1>2, <1>3, LimitLetsGo

LEMMA LimitCheckRecent ==
  ASSUME TypeOK, LimitInv, CheckRecentClose
  PROVE  LimitInv'
<1>1. /\ pc = "recent" /\ pc' \in {"idle", "audit"} /\ hand' \in {<<>>, hand}
      /\ UNCHANGED <<queue, book, stops, batch, pending>>
  BY DEF CheckRecentClose
<1>2. batch = <<>>
  BY <1>1 DEF LimitInv
<1>3. EntriesOf(hand') \subseteq EntriesOf(hand)
  BY <1>1, EntriesShort
<1>4. Ripe' = Ripe
  BY <1>1 DEF Ripe, Waiting
<1> QED BY <1>1, <1>2, <1>3, <1>4, LimitLetsGo

LEMMA LimitPublish ==
  ASSUME TypeOK, LimitInv, MaxFaults = 0, PublishDecisionEvent
  PROVE  LimitInv'
<1>1. /\ pc = "publish" /\ queue' = Append(queue, hand[1]) /\ Proceed(batch)
      /\ UNCHANGED <<book, stops>>
  BY NoFailure DEF PublishDecisionEvent
<1>2. PICK d \in Decision : d = hand[1] /\ hand = <<d>>
  BY <1>1, HandFacts
<1>3. EntriesOf(queue') = EntriesOf(queue) \cup EntriesOf(hand)
  <2>1. queue \in Seq(Decision)
    BY DEF TypeOK, StoreOK
  <2> QED BY <1>1, <1>2, <2>1, EntriesAppend
<1>4. /\ EntriesOf(hand') \cup EntriesOf(batch') \subseteq EntriesOf(batch)
      /\ pc' \in {"idle", "audit"}
      /\ Ripe' => Ripe
      /\ pc' = "idle" => batch' = <<>>
  <2>1. CASE batch # <<>>
    <3>1. /\ hand' = <<Head(batch)>> /\ batch' = Tail(batch) /\ pc' = "audit"
          /\ UNCHANGED pending
      BY <1>1, <2>1 DEF Proceed
    <3>2. EntriesOf(batch) = EntriesOf(hand') \cup EntriesOf(batch')
      BY <2>1, <3>1, EntriesSplit DEF TypeOK, LoopOK
    <3>3. Ripe' = Ripe
      BY <3>1 DEF Ripe, Waiting
    <3> QED BY <3>1, <3>2, <3>3
  <2>2. CASE batch = <<>>
    <3>1. hand' = <<>> /\ batch' = <<>> /\ pc' = "idle"
      BY <1>1, <2>2 DEF Proceed, Gone
    <3>2. Ripe' => Ripe
      <4>1. CASE stopping
        BY <1>1, <2>2, <4>1 DEF Proceed, Gone, Ripe, Waiting
      <4>2. CASE ~stopping
        BY <1>1, <2>2, <4>2 DEF Proceed, Ripe, Waiting
      <4> QED BY <4>1, <4>2
    <3>3. EntriesOf(hand') = {} /\ EntriesOf(batch') = {}
      BY <3>1, EntriesShort
    <3> QED BY <3>1, <3>2, <3>3
  <2> QED BY <2>1, <2>2
<1>5. UnderWay' \subseteq UnderWay
  BY <1>3, <1>4 DEF UnderWay
<1>6. Committed' \subseteq Committed
  BY <1>1, <1>5 DEF Committed, OpenTrades
<1> QED BY <1>1, <1>4, <1>5, <1>6, LimitQuiet

LEMMA EntriesCount ==
  ASSUME NEW q \in Seq(Decision), \A i \in 1..Len(q) : ~q[i].close
  PROVE  IsFiniteSet(EntriesOf(q)) /\ Cardinality(EntriesOf(q)) <= Len(q)
<1>1. PICK n \in Nat : n = Len(q) /\ DOMAIN q = 1..n
  OBVIOUS
<1>2. PICK f : f = [i \in 1..n |-> q[i].trade]
  OBVIOUS
<1>3. PICK T : T = EntriesOf(q)
  OBVIOUS
<1>4. \A x : x \in T <=> \E i \in 1..n : x = f[i]
  BY <1>1, <1>2, <1>3 DEF EntriesOf
<1>5. f \in [1..n -> T] /\ \A x \in T : \E i \in 1..n : f[i] = x
  BY <1>2, <1>4
<1>6. f \in Surjection(1..n, T)
  BY <1>5 DEF Surjection
<1>7. IsFiniteSet(1..n) /\ Cardinality(1..n) = n
  <2>1. IsFiniteSet(1..n) /\ Cardinality(1..n) = IF 1 > n THEN 0 ELSE n - 1 + 1
    BY FS_Interval
  <2>2. (IF 1 > n THEN 0 ELSE n - 1 + 1) = n
    OBVIOUS
  <2> QED BY <2>1, <2>2
<1>8. IsFiniteSet(T) /\ Cardinality(T) <= Cardinality(1..n)
  BY <1>6, <1>7, FS_Surjection
<1> QED BY <1>1, <1>3, <1>7, <1>8

\* The flush: what it takes fits into the slots it counts, and it counts all
\* there is, since nothing is under way.
LEMMA LimitFlush ==
  ASSUME TypeOK, LimitInv, MaxFaults = 0, FlushPendingEntryCandidates
  PROVE  LimitInv'
<1>1. /\ pc = "count" /\ UNCHANGED <<queue, book, stops>>
  BY DEF FlushPendingEntryCandidates
<1>2. PICK n \in Nat : n = Cardinality(OpenTrades)
  BY FiniteOpenTrades
<1>3. PICK r \in Rankings(Waiting) :
        LET k == Lower(FreeSlots(n), Cardinality(Waiting))
            chosen == Selected(r, k)
        IN /\ pending' = [s \in Symbol |-> NoCandidate]
           /\ IF k > 0
              THEN hand' = <<chosen[1]>> /\ batch' = Tail(chosen) /\ pc' = "audit"
              ELSE hand' = <<>> /\ batch' = <<>> /\ pc' = "idle"
  BY <1>2, NoFailure DEF FlushPendingEntryCandidates, Selected, Drained
<1> DEFINE k == Lower(FreeSlots(n), Cardinality(Waiting))
<1> DEFINE sel == Selected(r, k)
<1>4. /\ k \in Nat /\ sel \in Seq(Decision) /\ Len(sel) = k
      /\ \A i \in 1..k : ~sel[i].close
  BY SelectedType
<1>5. IF k > 0 THEN hand' = <<sel[1]>> /\ batch' = Tail(sel) /\ pc' = "audit"
      ELSE hand' = <<>> /\ batch' = <<>> /\ pc' = "idle"
  BY <1>3
<1>6. k <= FreeSlots(n)
  BY <1>2, FiniteWaiting, ConstantsAssumption DEF Lower, FreeSlots
<1>7. ~Ripe'
  BY <1>3 DEF Ripe, Waiting
<1> HIDE DEF sel, k
<1>8. CASE k > 0
  <2>1. sel # <<>> /\ Head(sel) = sel[1]
    BY <1>4, <1>8
  <2>2. EntriesOf(hand') \cup EntriesOf(batch') = EntriesOf(sel)
    BY <1>4, <1>5, <1>8, <2>1, EntriesSplit
  <2>3. IsFiniteSet(EntriesOf(sel)) /\ Cardinality(EntriesOf(sel)) <= k
    BY <1>4, EntriesCount
  <2>4. ASSUME stops = 0 PROVE Cardinality(Committed') <= MaxOpen
    <3>1. EntriesOf(queue) = {} /\ OpenTrades' = OpenTrades
      BY <1>1, <2>4 DEF LimitInv, UnderWay, OpenTrades
    <3>2. Committed' = OpenTrades \cup EntriesOf(sel)
      BY <1>1, <2>2, <3>1 DEF Committed, UnderWay
    <3>3. IsFiniteSet(OpenTrades)
      BY CommittedFinite, FS_Subset DEF Committed
    <3>4. /\ Cardinality(Committed') =
               n + Cardinality(EntriesOf(sel)) - Cardinality(OpenTrades \cap EntriesOf(sel))
          /\ Cardinality(EntriesOf(sel)) \in Nat
          /\ Cardinality(OpenTrades \cap EntriesOf(sel)) \in Nat
      <4>1. IsFiniteSet(OpenTrades \cap EntriesOf(sel))
        BY <3>3, FS_Subset
      <4> QED BY <1>2, <2>3, <3>2, <3>3, <4>1, FS_Union, FS_CardinalityType
    <3>5. Cardinality(Committed') <= n + k
      BY <1>4, <2>3, <3>4
    <3>6. n < MaxOpen /\ k <= MaxOpen - n
      BY <1>4, <1>6, <1>8, ConstantsAssumption DEF FreeSlots
    <3>7. Cardinality(Committed') \in Int
      BY <1>2, <3>4
    <3> QED BY <1>4, <3>5, <3>6, <3>7, ConstantsAssumption
  <2> QED BY <1>1, <1>5, <1>7, <1>8, <2>4 DEF LimitInv
<1>9. CASE ~(k > 0)
  <2>1. EntriesOf(hand') = {} /\ EntriesOf(batch') = {}
    BY <1>5, <1>9, EntriesShort
  <2>2. pc' = "idle" /\ batch' = <<>>
    BY <1>5, <1>9
  <2> QED BY <1>1, <1>7, <2>1, <2>2, LimitLetsGo
<1> QED BY <1>8, <1>9

LEMMA LimitNext ==
  ASSUME TypeOK, LimitInv, Prompt, MaxFaults = 0, [Next]_vars PROVE LimitInv'
<1>1. CASE UNCHANGED vars
  BY <1>1 DEF LimitInv, Committed, UnderWay, OpenTrades, Ripe, Waiting, vars, stepVars
<1>2. CASE Crash
  BY <1>2, LimitGone DEF Crash
<1>3. CASE Restart
  <2>1. UNCHANGED <<queue, book, stops, hand, batch, pending, pc>>
    BY <1>3 DEF Restart
  <2> QED BY <2>1 DEF LimitInv, Committed, UnderWay, OpenTrades, Ripe, Waiting
<1>4. CASE SelectionTick
  <2>1. UNCHANGED <<queue, book, stops, hand, batch, pending>> /\ pc = "idle" /\ Ripe
    BY <1>4 DEF SelectionTick, Ripe
  <2>2. batch = <<>>
    BY <2>1 DEF LimitInv
  <2> QED BY <2>1, <2>2, LimitLetsGo
<1>5. CASE Shutdown
  <2>1. stops' = stops + 1 /\ stops \in Nat /\ pc = "idle" /\ UNCHANGED batch
    BY <1>5 DEF Shutdown, TypeOK, BoundsOK
  <2>2. stops' # 0 /\ batch' = <<>>
    BY <2>1 DEF LimitInv
  <2> QED BY <2>2 DEF LimitInv
<1>6. CASE PersistAuditLog
  <2>1. /\ UNCHANGED <<queue, book, stops, hand, batch, pending>>
        /\ pc' = "publish"
    BY <1>6 DEF PersistAuditLog
  <2>2. Ripe' = Ripe
    BY <2>1 DEF Ripe, Waiting
  <2> QED BY <2>1, <2>2, LimitLetsGo
<1> QED BY <1>1, <1>2, <1>3, <1>4, <1>5, <1>6, LimitTick, LimitExecuteNext, LimitFetch,
        LimitEvaluate, LimitCheckRecent, LimitPublish, LimitFlush DEF Next, Step, LoopStep

\* BookWithinLimit: whatever the mode of the executor, the number of symbols
\* and the crashes, the entries that flush_pending_entry_candidates lets
\* through never open more than MaxOpen trades before a shutdown, if
\* statements and publications succeed and decisions are handled before the
\* next selection.
THEOREM BookStaysWithinLimit ==
  ASSUME Prompt, MaxFaults = 0 PROVE Spec => []BookWithinLimit
<1>1. TypeOK /\ LimitInv => BookWithinLimit
  <2> SUFFICES ASSUME TypeOK, LimitInv, stops = 0
               PROVE  Cardinality(OpenTrades) <= MaxOpen
    BY DEF BookWithinLimit
  <2>1. OpenTrades \subseteq Committed
    BY DEF Committed
  <2>2. Cardinality(OpenTrades) <= Cardinality(Committed)
    BY <2>1, CommittedFinite, FS_Subset
  <2>3. Cardinality(Committed) <= MaxOpen
    BY DEF LimitInv
  <2> QED BY <2>2, <2>3, CommittedFinite, FiniteOpenTrades, ConstantsAssumption
<1>2. TypeOK /\ LimitInv /\ [Next]_vars => (TypeOK /\ LimitInv)'
  BY LimitNext, TypeNext
<1> QED BY <1>1, <1>2, TypeInit, LimitInit, PTL DEF Spec
==============================================================================
