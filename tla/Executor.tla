------------------------------ MODULE Executor ------------------------------
(***************************************************************************)
(* The executor service: one Redis consumer that feeds one main loop, the  *)
(* decision handler of that loop with every database statement and every   *)
(* exchange call as a step of its own, and what surrounds it: the strategy *)
(* publishing decisions, the operator's control flags, crashes, restarts,  *)
(* failing database statements and calls that never return.                *)
(*                                                                         *)
(* A decision event is named by its position in the decisions stream, which*)
(* stands for its event_id: fresh for every event.  The stream is FIFO and *)
(* has one reader, so the same order is the order in which trades open.    *)
(***************************************************************************)
EXTENDS Integers, Sequences, FiniteSets

CONSTANTS
  Key,            \* source_event_id values, never blank: validate() rejects a blank one
  Symbol,
  Decisions,      \* the decisions the strategy may publish
  Live,           \* live_orders_enabled: TRUE for testnet and mainnet, FALSE for paper
  LivePool,       \* outcomes of connect_executor_db at a live boot (TRUE: connected)
  LiveAllowlist,  \* symbols is_symbol_allowed_live accepts
  PaperMaxOpen,   \* paper_max_open_positions
  DefaultEnabled, \* executor_default_enabled
  MaxDecisions,   \* bound: decisions published
  MaxFaults,      \* bound: database statements that fail
  MaxCrashes,     \* bound: crashes of the executor process
  MaxFlips,       \* bound: operator changes of a control flag
  MayHang         \* tasks of which an awaited call may never return

Enter  == {"ENTER_LONG", "ENTER_SHORT"}
Close  == {"CLOSE_LONG", "CLOSE_SHORT"}
Action == Enter \cup Close \cup {"HOLD", "OTHER"}
Side   == {"Long", "Short"}
Qty    == Nat \ {0}

Decision == [key : Key, action : Action, symbol : Symbol, qty : Qty]

Tasks    == {"reader", "handler"}

ASSUME ConstantsAssumption ==
  /\ Decisions \subseteq Decision
  /\ Live \in BOOLEAN
  /\ LivePool \subseteq BOOLEAN /\ LivePool # {}
  /\ DefaultEnabled \in BOOLEAN
  /\ PaperMaxOpen \in Qty
  /\ MaxDecisions \in Nat /\ MaxFaults \in Nat
  /\ MaxCrashes \in Nat /\ MaxFlips \in Nat
  /\ MayHang \subseteq Tasks

Id == 1..MaxDecisions

BlockedStatus == {"blocked_executor_disabled", "blocked_kill_switch",
                  "blocked_symbol_allowlist"}
PaperRefused  == {"paper_not_filled", "paper_open_blocked_existing_open",
                  "paper_open_blocked_opposite_open", "paper_open_guard_error",
                  "paper_open_blocked_max_open_positions"}
PaperOpened   == {"paper_open"}
PaperClosed   == {"paper_close", "paper_close_partial", "paper_close_qty_exceeds_open"}
PaperOther    == {"paper_open_no_persist", "paper_close_no_local_open",
                  "paper_close_no_persist"}
LiveOpened    == {"submitted", "submitted_trailing_not_set"}
LiveClosed    == {"submitted_close", "submitted_close_partial",
                  "submitted_close_qty_exceeds_open"}
LiveOther     == {"submitted_no_persist", "submitted_close_no_local_open",
                  "submitted_close_no_persist"}

Entered   == PaperOpened \cup LiveOpened
Effective == Entered \cup PaperClosed \cup LiveClosed
Refused   == BlockedStatus \cup PaperRefused \cup {"ignored_hold"}
Vague     == PaperOther \cup LiveOther \cup {"error"}
Final  == Effective \cup Refused \cup Vague
Status == Final \cup {"none", "claimed"}

HandlerSteps == {"claim", "claim_audit", "read_executor", "read_kill", "fill",
                 "guard_side", "guard_count", "submit", "fills", "persist", "trailing",
                 "close_read", "close_write", "mark", "mark_audit", "echo"}

VARIABLES
  log,         \* viper:decisions, the events published so far
  delivered,   \* last-delivered-id of the consumer group "executor"
  echoed,      \* events republished on viper:executor_events
  up, pool,    \* the process runs; db_pool is Some
  hung,        \* tasks that await a call which does not return
  seen,        \* processed_in_memory
  taken,       \* last event handed to the main loop; the mpsc holds taken+1..delivered
  pc,          \* where handle_decision_event stands in the event "taken"
  enabled,     \* executor_enabled as fetch_runtime_controls read it
  verdict,     \* the status about to be recorded
  fillQty,     \* quantity the order executed, as the handler believes it
  reported,    \* quantity of the fills the exchange reported (0: none yet)
  target, openQty,  \* trade and quantity close_open_trade selected
  row,         \* system_events rows of type executor_event_processed, by key
  audit,       \* strategy_decision_audit rows, by event
  trade,       \* trades rows, by order_link_id = event
  fills,       \* bybit_fills rows: quantity recorded, by event
  placed,      \* history: times an event took effect (order accepted, paper trade written)
  pos,         \* net position on the exchange, by symbol
  executorOn, killOn,  \* latest api_executor_state_set and api_kill_switch_set events
  slipped,     \* history: entries that took effect since the kill switch was last set
  faults, crashes, flips

redisVars   == <<log, delivered, echoed>>
localVars   == <<enabled, verdict, fillQty, reported, target, openQty>>
dbVars      == <<row, audit, trade, fills>>
effectVars  == <<placed, pos, slipped>>
controlVars == <<executorOn, killOn, flips>>
processVars == <<up, pool, crashes, hung>>

vars == <<redisVars, localVars, dbVars, effectVars, controlVars, processVars,
          seen, taken, pc, faults>>
-----------------------------------------------------------------------------
(* The decision in hand and pure helpers.                                  *)

Cur    == log[taken]
IsClose(d)  == d.action \in Close
SideOf(d) == IF d.action \in {"ENTER_LONG", "CLOSE_LONG"} THEN "Long" ELSE "Short"

IsOpen(i)  == trade[i].status = "open"
OpenIds    == {i \in Id : IsOpen(i)}
OpenOn(s)  == {i \in OpenIds : log[i].symbol = s}
OpenOnSide(s, side) == {i \in OpenOn(s) : SideOf(log[i]) = side}

Oldest(S) == CHOOSE i \in S : \A j \in S : i <= j
IsNewest(i, S) == \A j \in S : j <= i
Least(a, b) == IF a <= b THEN a ELSE b

NoRow   == [status |-> "none", by |-> 0]
NoTrade == [status |-> "none", qty |-> 0]

(* A position is net per symbol; reduce-only orders never cross zero.      *)
Held(s, side)   == IF side = "Long" THEN IF pos[s] > 0 THEN pos[s] ELSE 0
                                    ELSE IF pos[s] < 0 THEN -pos[s] ELSE 0
Executed(d)     == IF IsClose(d) THEN Least(d.qty, Held(d.symbol, SideOf(d))) ELSE d.qty
Direction(d)    == IF d.action \in {"ENTER_LONG", "CLOSE_SHORT"} THEN 1 ELSE -1

(* Does the handler's view of the open trades keep an entry out?           *)
SameSideBlocks(d) == OpenOnSide(d.symbol, SideOf(d))      \* mutation: hedges pass
Blocking(d)       == OpenOn(d.symbol)
AboveCapacity(n)  == n > PaperMaxOpen                      \* mutation: off by one
AtCapacity(n)     == n >= PaperMaxOpen

(* Is the key free to be claimed: INSERT ... ON CONFLICT DO NOTHING, or the
   in-memory set when there is no pool.                                    *)
StaleClaimFree(k) == row[k].status \in {"none", "claimed"}  \* mutation: retry a claim
AlwaysFree(k)     == TRUE                                  \* mutation: DO UPDATE
Free(k)           == row[k].status = "none"
UnansweredFree(k) == TRUE                                  \* mutation: insert's answer unused
FreeInMemory(k)   == k \notin seen

(* What fetch_runtime_controls and the allowlist refuse, in that order.    *)
GateIgnoresKill(d, execOn, kill) == IF ~execOn /\ ~IsClose(d) THEN "blocked_executor_disabled"
                                    ELSE "pass"            \* mutation
GateStopsCloses(d, execOn, kill) == IF kill THEN "blocked_kill_switch"
                                    ELSE "pass"            \* mutation
Gate(d, execOn, kill) ==
  IF ~execOn /\ ~IsClose(d) THEN "blocked_executor_disabled"
  ELSE IF kill /\ ~IsClose(d) THEN "blocked_kill_switch"
  ELSE IF Live /\ d.symbol \notin LiveAllowlist THEN "blocked_symbol_allowlist"
  ELSE "pass"
-----------------------------------------------------------------------------
Init ==
  /\ log = <<>> /\ delivered = 0 /\ echoed = {}
  /\ up = TRUE /\ pool \in (IF Live THEN LivePool ELSE {TRUE}) /\ hung = {}
  /\ seen = {} /\ taken = 0 /\ pc = "idle"
  /\ enabled = FALSE /\ verdict = "none" /\ fillQty = 0 /\ reported = 0 /\ target = 0 /\ openQty = 0
  /\ row = [k \in Key |-> NoRow]
  /\ audit = [i \in Id |-> "none"]
  /\ trade = [i \in Id |-> NoTrade]
  /\ fills = [i \in Id |-> 0]
  /\ placed = [i \in Id |-> 0]
  /\ pos = [s \in Symbol |-> 0]
  /\ executorOn = DefaultEnabled /\ killOn = FALSE /\ slipped = 0
  /\ faults = 0 /\ crashes = 0 /\ flips = 0
-----------------------------------------------------------------------------
(* The world around the executor.                                          *)

\* The strategy appends a decision (publish_decision_event).
PublishDecision(d) ==
  /\ Len(log) < MaxDecisions
  /\ log' = Append(log, d)
  /\ UNCHANGED <<delivered, echoed, localVars, dbVars, effectVars, controlVars,
                 processVars, seen, taken, pc, faults>>

\* The operator inserts a control event; readers take the latest of its type.
SetKillSwitch(b) ==
  /\ flips < MaxFlips
  /\ killOn' = b /\ flips' = flips + 1
  /\ slipped' = IF b /\ ~killOn THEN 0 ELSE slipped
  /\ UNCHANGED <<executorOn, placed, pos, redisVars, localVars, dbVars,
                 processVars, seen, taken, pc, faults>>

SetExecutorEnabled(b) ==
  /\ flips < MaxFlips
  /\ executorOn' = b /\ flips' = flips + 1
  /\ UNCHANGED <<killOn, redisVars, localVars, dbVars, effectVars, processVars,
                 seen, taken, pc, faults>>

\* The process dies: the channel, the handler and the in-memory set are gone.
Crash ==
  /\ up /\ crashes < MaxCrashes
  /\ up' = FALSE /\ crashes' = crashes + 1 /\ hung' = {}
  /\ seen' = {} /\ taken' = delivered /\ pc' = "idle"
  /\ enabled' = FALSE /\ verdict' = "none" /\ fillQty' = 0 /\ reported' = 0
  /\ target' = 0 /\ openQty' = 0
  /\ UNCHANGED <<pool, redisVars, dbVars, effectVars, controlVars, faults>>

\* Boot: paper insists on Postgres, live modes go on without it.  The group
\* exists already, so delivery resumes after last-delivered-id.
Restart ==
  /\ ~up /\ up' = TRUE
  /\ pool' \in (IF Live THEN LivePool ELSE {TRUE})
  /\ UNCHANGED <<crashes, hung, redisVars, localVars, dbVars, effectVars, controlVars,
                 seen, taken, pc, faults>>

\* No call of the two tasks has a timeout: not the exchange's (the client is
\* reqwest::Client::new()), not a statement, not a Redis command.  One that has
\* done its work without answering hangs at the step after it.
CallHangs(t) ==
  /\ up /\ t \in MayHang \ hung
  /\ t = "handler" => pc \in HandlerSteps \ {"fill"}
  /\ hung' = hung \cup {t}
  /\ UNCHANGED <<up, pool, crashes, redisVars, localVars, dbVars, effectVars, controlVars,
                 seen, taken, pc, faults>>
-----------------------------------------------------------------------------
(* The reader task and the main loop.                                      *)

\* XREADGROUP ">" hands over one event, send() queues it, XACK drops it.
DeliverNext ==
  /\ up /\ "reader" \notin hung /\ delivered < Len(log)
  /\ delivered' = delivered + 1
  /\ UNCHANGED <<log, echoed, localVars, dbVars, effectVars, controlVars,
                 processVars, seen, taken, pc, faults>>

NeverEmpty == TRUE                                        \* mutation: reads past the end
Waiting    == taken < delivered

ReceiveDecision ==
  /\ up /\ pc = "idle" /\ Waiting
  /\ taken' = taken + 1 /\ pc' = "claim"
  /\ UNCHANGED <<redisVars, localVars, dbVars, effectVars, controlVars,
                 processVars, seen, faults>>

At(l) == up /\ pc = l /\ "handler" \notin hung
Statement    == UNCHANGED faults
StatementErr == pool /\ faults < MaxFaults /\ faults' = faults + 1
Conclude(v)  == verdict' = v /\ pc' = "mark"
Abandon      == pc' = "echo" /\ UNCHANGED verdict    \* "?" leaves the handler
Goto(l)      == pc' = l /\ UNCHANGED verdict

OnRefusalGoOn   == Goto("persist")                        \* mutation: error ignored
OnRefusal       == Conclude("error")
OnMarkErrGoOn   == "mark_audit"                           \* mutation: error ignored
OnMarkErr       == "echo"

DispatchDropsHold ==                                      \* mutation: HOLD not marked
  CASE Cur.action = "HOLD"  -> Goto("echo")
    [] Cur.action = "OTHER" -> Conclude("error")
    [] OTHER                -> Goto("read_executor")
Dispatch ==
  CASE Cur.action = "HOLD"  -> Conclude("ignored_hold")
    [] Cur.action = "OTHER" -> Conclude("error")
    [] OTHER                -> Goto("read_executor")

ClaimProcessedEvent ==
  LET k == Cur.key
      claimed == [row EXCEPT ![k] = [status |-> "claimed", by |-> taken]]
  IN
  /\ At("claim")
  /\ \/ /\ pool /\ Free(k) /\ Statement
        /\ row' = claimed /\ Goto("claim_audit") /\ UNCHANGED seen
     \/ /\ pool /\ ~Free(k) /\ Statement
        /\ Goto("echo") /\ UNCHANGED <<row, seen>>
     \/ /\ StatementErr           \* the INSERT may have committed all the same
        /\ row' \in {row, IF Free(k) THEN claimed ELSE row}
        /\ Abandon /\ UNCHANGED seen
     \/ /\ ~pool /\ Statement /\ FreeInMemory(k)
        /\ seen' = seen \cup {k} /\ Dispatch /\ UNCHANGED row
     \/ /\ ~pool /\ Statement /\ ~FreeInMemory(k)
        /\ Goto("echo") /\ UNCHANGED <<row, seen>>
  /\ UNCHANGED <<audit, trade, fills, redisVars, enabled, fillQty, reported, target, openQty,
                 effectVars, controlVars, processVars, taken>>

\* The second statement of the claim; when it fails the claim stays.
UpsertClaimAudit ==
  /\ At("claim_audit")
  /\ \/ /\ Statement /\ audit' = [audit EXCEPT ![taken] = "claimed"]
        /\ seen' = seen \cup {Cur.key} /\ Dispatch
     \/ /\ StatementErr /\ Abandon /\ UNCHANGED seen
        /\ audit' \in {audit, [audit EXCEPT ![taken] = "claimed"]}
  /\ UNCHANGED <<row, trade, fills, redisVars, enabled, fillQty, reported, target, openQty,
                 effectVars, controlVars, processVars, taken>>

ReadExecutorFlag ==
  /\ At("read_executor")
  /\ \/ Statement /\ enabled' = (pool => executorOn) /\ Goto("read_kill")
     \/ StatementErr /\ Abandon /\ UNCHANGED enabled
  /\ UNCHANGED <<redisVars, dbVars, fillQty, reported, target, openQty, effectVars,
                 controlVars, processVars, seen, taken>>

ReadKillSwitchAndGate ==
  LET refusal == Gate(Cur, enabled, pool /\ killOn) IN
  /\ At("read_kill")
  /\ \/ /\ Statement
        /\ IF refusal # "pass" THEN Conclude(refusal)
           ELSE Goto(IF Live THEN "submit" ELSE "fill")
     \/ StatementErr /\ Abandon
  /\ UNCHANGED <<redisVars, dbVars, enabled, fillQty, reported, target, openQty, effectVars,
                 controlVars, processVars, seen, taken>>
-----------------------------------------------------------------------------
(* Paper mode.                                                             *)

TakeEffect(i) ==
  /\ placed' = [placed EXCEPT ![i] = @ + 1]
  /\ slipped' = IF killOn /\ ~IsClose(log[i]) THEN slipped + 1 ELSE slipped

\* paper_fill_check is a coin toss, for entries and closes alike.
PaperFill ==
  /\ At("fill") /\ Statement
  /\ \/ Conclude("paper_not_filled") /\ UNCHANGED fillQty
     \/ fillQty' = Cur.qty /\ Goto(IF IsClose(Cur) THEN "close_read" ELSE "guard_side")
  /\ UNCHANGED <<redisVars, dbVars, enabled, reported, target, openQty, effectVars,
                 controlVars, processVars, seen, taken>>

\* open_trade_side_for_symbol: the oldest open trade of the symbol decides.
GuardSide ==
  LET open == Blocking(Cur) IN
  /\ At("guard_side")
  /\ \/ /\ Statement /\ open = {} /\ Goto("guard_count")
     \/ /\ Statement /\ open # {}
        /\ Conclude(IF SideOf(log[Oldest(open)]) = SideOf(Cur)
                    THEN "paper_open_blocked_existing_open"
                    ELSE "paper_open_blocked_opposite_open")
     \/ StatementErr /\ Conclude("paper_open_guard_error")
  /\ UNCHANGED <<redisVars, dbVars, enabled, fillQty, reported, target, openQty, effectVars,
                 controlVars, processVars, seen, taken>>

GuardCount ==
  /\ At("guard_count")
  /\ \/ /\ Statement
        /\ IF AtCapacity(Cardinality(OpenIds))
           THEN Conclude("paper_open_blocked_max_open_positions")
           ELSE Goto("persist")
     \/ StatementErr /\ Conclude("paper_open_guard_error")
  /\ UNCHANGED <<redisVars, dbVars, enabled, fillQty, reported, target, openQty, effectVars,
                 controlVars, processVars, seen, taken>>
-----------------------------------------------------------------------------
(* Live mode.                                                              *)

\* normalize_order_quantity or ensure_min_notional fail, or the exchange says
\* no: nothing is placed.  Closes are exempt from the notional check only.
NothingPlaced == OnRefusal /\ UNCHANGED <<effectVars, fillQty, reported>>

\* fetch_order_execution_meta: the quantity of the fills, if there are any.
FillReport(filled, qty) == IF filled > 0 THEN filled ELSE qty

\* submit_market_order and fetch_order_execution_meta.  The exchange refuses
\* (as the checks before the call may), accepts and answers, or accepts and
\* the answer is lost.  Fills are asked for once, right away: some or none may
\* be reported, and without any the decision's own quantity is used.
SubmitOrder ==
  LET d == Cur
      q == Executed(d)
      accept == /\ q > 0
                /\ TakeEffect(taken)
                /\ pos' = [pos EXCEPT ![d.symbol] = @ + Direction(d) * q]
  IN
  /\ At("submit") /\ Statement
  /\ \/ NothingPlaced
     \/ accept /\ Conclude("error") /\ UNCHANGED <<fillQty, reported>>
     \/ /\ accept /\ reported' \in 0..q
        /\ fillQty' = FillReport(reported', d.qty)
        /\ Goto("fills")
  /\ UNCHANGED <<redisVars, dbVars, enabled, target, openQty, controlVars,
                 processVars, seen, taken>>

\* persist_bybit_fills inserts fill by fill; an error is logged and ignored.
PersistFills ==
  /\ At("fills") /\ Goto(IF IsClose(Cur) THEN "close_read" ELSE "persist")
  /\ \/ Statement /\ fills' = [fills EXCEPT ![taken] = IF pool THEN reported ELSE 0]
     \/ StatementErr /\ \E q \in 0..reported : fills' = [fills EXCEPT ![taken] = q]
  /\ UNCHANGED <<row, audit, trade, redisVars, enabled, fillQty, reported, target,
                 openQty, effectVars, controlVars, processVars, seen, taken>>

\* set_bybit_trailing_stop, after the trade has been written.
ConfigureTrailing ==
  /\ At("trailing") /\ Statement
  /\ \/ Goto("mark")
     \/ Conclude(IF verdict = "submitted" THEN "submitted_trailing_not_set" ELSE verdict)
  /\ UNCHANGED <<redisVars, dbVars, enabled, fillQty, reported, target, openQty, effectVars,
                 controlVars, processVars, seen, taken>>
-----------------------------------------------------------------------------
(* Writing the trade, in both modes.                                       *)

PersistedAnyway == IF Live THEN "submitted" ELSE "paper_open"   \* mutation: error swallowed
NotPersisted    == IF Live THEN "submitted_no_persist" ELSE "paper_open_no_persist"
Opened(v) == verdict' = v /\ pc' = IF Live THEN "trailing" ELSE "mark"

\* persist_trade: ON CONFLICT (order_link_id) DO NOTHING, nothing without a pool.
PersistTrade ==
  LET fresh == trade[taken].status = "none"
      insert == /\ trade' = [trade EXCEPT ![taken] = [status |-> "open", qty |-> fillQty]]
                /\ IF Live THEN UNCHANGED <<placed, slipped>> ELSE TakeEffect(taken)
      ok    == Opened(IF Live THEN "submitted" ELSE "paper_open")
      notOk == Opened(NotPersisted)
  IN
  /\ At("persist")
  /\ \/ pool /\ fresh /\ Statement /\ insert /\ ok
     \/ ~(pool /\ fresh) /\ Statement /\ ok /\ UNCHANGED <<trade, placed, slipped>>
     \/ StatementErr /\ notOk /\ UNCHANGED <<trade, placed, slipped>>
     \/ StatementErr /\ notOk /\ fresh /\ insert
  /\ UNCHANGED <<row, audit, fills, redisVars, enabled, fillQty, reported, target, openQty, pos,
                 controlVars, processVars, seen, taken>>

CloseVerdict(paper, submitted) == Conclude(IF Live THEN submitted ELSE paper)

\* close_open_trade selects the newest open trade of the symbol and side.
SelectTradeToClose ==
  LET open == OpenOnSide(Cur.symbol, SideOf(Cur))
      none == CloseVerdict("paper_close_no_local_open", "submitted_close_no_local_open")
      err  == CloseVerdict("paper_close_no_persist", "submitted_close_no_persist")
  IN
  /\ At("close_read")
  /\ \/ \E i \in open :
          /\ pool /\ Statement /\ IsNewest(i, open)
          /\ target' = i /\ openQty' = trade[i].qty
          /\ Goto("close_write")
     \/ (pool => open = {}) /\ Statement /\ none /\ UNCHANGED <<target, openQty>>
     \/ StatementErr /\ err /\ UNCHANGED <<target, openQty>>
  /\ UNCHANGED <<redisVars, dbVars, enabled, fillQty, reported, effectVars,
                 controlVars, processVars, seen, taken>>

\* The UPDATE names the trade only; a quantity may not drop to zero (CHECK).
WriteClose ==
  LET partial == fillQty < openQty
      left    == trade[target].qty - fillQty
      update  == /\ trade' = [trade EXCEPT ![target] =
                       IF partial THEN [@ EXCEPT !.qty = left] ELSE [@ EXCEPT !.status = "closed"]]
                 /\ IF Live THEN UNCHANGED <<placed, slipped>> ELSE TakeEffect(taken)
      legal   == partial => left > 0
      done    == IF partial THEN CloseVerdict("paper_close_partial", "submitted_close_partial")
                 ELSE IF fillQty > openQty
                 THEN CloseVerdict("paper_close_qty_exceeds_open",
                                    "submitted_close_qty_exceeds_open")
                 ELSE CloseVerdict("paper_close", "submitted_close")
      err     == CloseVerdict("paper_close_no_persist", "submitted_close_no_persist")
  IN
  /\ At("close_write")
  /\ \/ legal /\ Statement /\ update /\ done
     \/ ~legal /\ Statement /\ err /\ UNCHANGED <<trade, placed, slipped>>
     \/ StatementErr /\ err /\ UNCHANGED <<trade, placed, slipped>>
     \/ StatementErr /\ err /\ legal /\ update
  /\ UNCHANGED <<row, audit, fills, redisVars, enabled, fillQty, reported, target, openQty, pos,
                 controlVars, processVars, seen, taken>>
-----------------------------------------------------------------------------
(* mark_processed and the end of the handler.                              *)

MarkRow ==
  LET marked == [row EXCEPT ![Cur.key] = [status |-> verdict, by |-> taken]] IN
  /\ At("mark")
  /\ \/ pool /\ Statement /\ row' = marked /\ pc' = "mark_audit" /\ UNCHANGED seen
     \/ StatementErr /\ row' \in {row, marked} /\ pc' = OnMarkErr /\ UNCHANGED seen
     \/ ~pool /\ Statement /\ seen' = seen \cup {Cur.key} /\ pc' = "echo" /\ UNCHANGED row
  /\ UNCHANGED <<audit, trade, fills, redisVars, localVars, effectVars, controlVars,
                 processVars, taken>>

MarkAudit ==
  LET marked == [audit EXCEPT ![taken] = verdict] IN
  /\ At("mark_audit") /\ pc' = "echo"
  /\ \/ Statement /\ audit' = marked /\ seen' = seen \cup {Cur.key}
     \/ StatementErr /\ audit' \in {audit, marked} /\ UNCHANGED seen
  /\ UNCHANGED <<row, trade, fills, redisVars, localVars, effectVars, controlVars,
                 processVars, taken>>

\* Whatever the handler returned, the main loop republishes the event.
EchoEvent ==
  /\ At("echo") /\ pc' = "idle" /\ echoed' = echoed \cup {taken}
  /\ enabled' = FALSE /\ verdict' = "none" /\ fillQty' = 0 /\ reported' = 0
  /\ target' = 0 /\ openQty' = 0
  /\ UNCHANGED <<log, delivered, dbVars, effectVars, controlVars, processVars,
                 seen, taken, faults>>
-----------------------------------------------------------------------------
HandlerStep ==
  \/ ClaimProcessedEvent \/ UpsertClaimAudit \/ ReadExecutorFlag \/ ReadKillSwitchAndGate
  \/ PaperFill \/ GuardSide \/ GuardCount
  \/ SubmitOrder \/ PersistFills \/ ConfigureTrailing
  \/ PersistTrade \/ SelectTradeToClose \/ WriteClose
  \/ MarkRow \/ MarkAudit \/ EchoEvent

Environment ==
  \/ \E d \in Decisions : PublishDecision(d)
  \/ \E b \in BOOLEAN : SetKillSwitch(b) \/ SetExecutorEnabled(b)
  \/ Crash \/ Restart
  \/ \E t \in Tasks : CallHangs(t)

Next == Environment \/ DeliverNext \/ ReceiveDecision \/ HandlerStep

Spec == Init /\ [][Next]_vars

(* The tokio runtime keeps polling both tasks, and the container restarts. *)
(* A call that hangs disables its task's steps: no fairness makes it return. *)
FairSpec == Spec /\ WF_vars(DeliverNext) /\ WF_vars(ReceiveDecision)
                 /\ WF_vars(HandlerStep) /\ WF_vars(Restart)
-----------------------------------------------------------------------------
(* Properties.                                                             *)

StreamOK  == /\ log \in Seq(Decisions) /\ Len(log) <= MaxDecisions
             /\ delivered \in 0..Len(log) /\ taken \in 0..delivered /\ echoed \subseteq Id
ProcessOK == /\ up \in BOOLEAN /\ pool \in BOOLEAN /\ seen \subseteq Key
             /\ pc \in HandlerSteps \cup {"idle"} /\ (pc # "idle" => up /\ taken > 0)
             /\ faults \in Nat /\ crashes \in Nat /\ hung \subseteq Tasks
LocalOK   == /\ enabled \in BOOLEAN /\ verdict \in Final \cup {"none"}
             /\ fillQty \in Nat /\ reported \in Nat /\ openQty \in Nat
             /\ target \in Id \cup {0} /\ (pc = "close_write" => target \in Id)
DbOK      == /\ row \in [Key -> [status : Status, by : Id \cup {0}]]
             /\ audit \in [Id -> Status]
             /\ trade \in [Id -> [status : {"none", "open", "closed"}, qty : Nat]]
             /\ fills \in [Id -> Nat]
EffectOK  == placed \in [Id -> Nat] /\ pos \in [Symbol -> Int] /\ slipped \in Nat
ControlOK == executorOn \in BOOLEAN /\ killOn \in BOOLEAN /\ flips \in Nat

\* Types of all variables: the cursors never pass one another, and a handler
\* runs only in a living process that has taken an event.
TypeOK == StreamOK /\ ProcessOK /\ LocalOK /\ DbOK /\ EffectOK /\ ControlOK

EffectsOf(k) == {i \in Id : i <= Len(log) /\ log[i].key = k /\ placed[i] > 0}

\* ARCHITECTURE_V2.md: "executor: enforces idempotency".  However often a
\* source event is published, and across crashes and failing statements, at
\* most one event of it takes effect, and it does so once.
AtMostOneEffectPerKey ==
  /\ \A k \in Key : Cardinality(EffectsOf(k)) <= 1
  /\ \A i \in Id : placed[i] <= 1

\* The paper guards: one open trade per symbol, whichever side, and never more
\* than paper_max_open_positions.
PaperOneOpenPerSymbol == ~Live => \A s \in Symbol : Cardinality(OpenOn(s)) <= 1
PaperOpenLimit        == ~Live => Cardinality(OpenIds) <= PaperMaxOpen

\* The two together: what the paper guards keep of the book, whatever queues up,
\* crashes or fails between a guard's query and the INSERT it is made for.
PaperBookIsGuarded == PaperOneOpenPerSymbol /\ PaperOpenLimit

\* A queue of entries does not outrun the kill switch: once it is on, at most
\* the entry whose handler had already read the flag still takes effect.
AtMostOneEntrySlips == slipped <= 1

\* What a row says happened, happened, whatever crashed or failed meanwhile:
\* an opened verdict has its trade, a refused one has had no effect.
RowTellsTheTruth ==
  \A k \in Key :
    LET s == row[k].status
        i == row[k].by
    IN /\ s \in Entered   => trade[i].status # "none"
       /\ s \in Effective => placed[i] = 1
       /\ s \in Refused   => placed[i] = 0

\* Operators trust the audit table: its verdict for an event is never ahead of
\* the idempotency row it was derived from.
AuditNeverAhead ==
  \A i \in Id : audit[i] \in Final => /\ row[log[i].key].by = i
                                      /\ row[log[i].key].status = audit[i]

\* A closing decision is never refused on account of an operator control.
ControlsNeverHoldBackAClose ==
  \A i \in Id : audit[i] \in {"blocked_executor_disabled", "blocked_kill_switch"}
                  => ~IsClose(log[i])

\* The event that claimed a key keeps it, and its verdict is written once.
VerdictIsFinal ==
  [][\A k \in Key :
       /\ row[k].status # "none" => row'[k].by = row[k].by
       /\ row[k].status \in Final => row'[k] = row[k]]_row

\* Every local trade stands for an order that was placed: no phantom trades.
NoPhantomTrade == \A i \in Id : trade[i].status # "none" => placed[i] = 1

Concluded(i) == /\ i <= Len(log)
                /\ IF pool THEN row[log[i].key].status \in Final ELSE i \in echoed

\* Without crashes and failures every published decision is handed to the main
\* loop and gets its verdict there (its echo, when there is no database to put a
\* verdict in), unless a call hangs: of the reader the one, of the handler of
\* this or an earlier event the other.
EveryDecisionConcludes ==
  \A i \in Id : /\ (i <= Len(log)) ~> (i <= delivered \/ "reader" \in hung)
                /\ (i <= delivered) ~> (Concluded(i) \/ "handler" \in hung)

\* The same whatever the calls do, which the code does not keep (TLC refutes it):
\* a decision whose call hangs holds up all the decisions behind it.
DecisionsConcludeAnyway == \A i \in Id : (i <= Len(log)) ~> Concluded(i)
=============================================================================
