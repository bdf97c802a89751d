---------------------------- MODULE ExecutorProofs ----------------------------
(* Proofs about the executor, for every value of its constants: what       *)
(* happens to an event, that it implements IdempotentExecution, what holds *)
(* of a paper book, and, in the second half, what an operator relies on.   *)
EXTENDS ExecutorRefines, FiniteSetTheorems, TLAPS

(* Where the handler stands, as far as the proofs tell it apart.           *)
HoldsClaim   == HandlerSteps \ {"claim", "mark_audit", "echo"}
BeforeOrder  == {"claim", "claim_audit", "read_executor", "read_kill", "fill",
                 "guard_side", "guard_count", "submit"}
TradeSteps   == {"persist", "close_read", "close_write"}
BeforeTrade  == BeforeOrder \cup {"fills", "persist"}

HasPool == Live => LivePool = {TRUE}

(* Keys and claims.                                                        *)
ClaimInv ==
  /\ pool = TRUE
  /\ \A k \in Key : row[k].by = 0 <=> row[k].status = "none"
  /\ \A k \in Key : row[k].by # 0 => row[k].by <= taken /\ log[row[k].by].key = k
  /\ pc \in HoldsClaim => row[Cur.key] = [status |-> "claimed", by |-> taken]

(* An event takes effect once, after it has the claim.                     *)
EffectInv ==
  /\ \A i \in Id : placed[i] \in {0, 1}
  /\ \A i \in Id : i > taken => placed[i] = 0
  /\ \A i \in Id : placed[i] = 1 => row[log[i].key].by = i
  /\ pc \in BeforeOrder => placed[taken] = 0
  /\ pc \in TradeSteps => placed[taken] = IF Live THEN 1 ELSE 0
  /\ pc \in {"fills", "trailing"} => placed[taken] = 1
  /\ pc \in {"submit", "fills", "trailing"} => Live
  /\ pc \in {"fill", "guard_side", "guard_count"} => ~Live

(* A trade is written by the event it is named after.                      *)
TradeInv ==
  /\ \A i \in Id : trade[i].status # "none" => placed[i] = 1
  /\ pc \in BeforeTrade => trade[taken].status = "none"
  /\ pc = "trailing" /\ verdict \in LiveOpened => trade[taken].status # "none"
  /\ pc = "close_write" => trade[target].status = "open"
  /\ pc = "trailing" => verdict \in {"submitted", "submitted_no_persist"}

(* What a status says of the event that owns the row.                      *)
True(s, i) ==
  /\ s \in Entered   => trade[i].status # "none"
  /\ s \in Effective => placed[i] = 1
  /\ s \in Refused   => placed[i] = 0

VerdictInv ==
  /\ pc = "mark" => verdict \in Final /\ True(verdict, taken)
  /\ pc = "mark_audit" => verdict \in Final
                          /\ row[Cur.key] = [status |-> verdict, by |-> taken]
  /\ \A k \in Key : True(row[k].status, row[k].by)

IInv == TypeOK /\ ClaimInv /\ EffectInv /\ TradeInv /\ VerdictInv
-----------------------------------------------------------------------------
(* Type correctness.                                                       *)

(* The groups of variables and the shapes of a handler step are expanded   *)
(* everywhere; what an action does is cited where it matters.              *)
USE DEF redisVars, localVars, dbVars, effectVars, controlVars, processVars,
        At, Statement, StatementErr, Goto, Conclude, HandlerSteps

LEMMA DecisionInHand ==
  ASSUME TypeOK, pc # "idle"
  PROVE  /\ taken \in 1..Len(log) /\ taken \in Id /\ Cur \in Decision
         /\ Cur.key \in Key /\ Cur.symbol \in Symbol /\ Cur.qty \in Nat
<1>1. Len(log) \in Nat /\ taken \in 1..Len(log) BY DEF TypeOK, StreamOK, ProcessOK
<1>2. taken \in Id BY <1>1, ConstantsAssumption DEF TypeOK, StreamOK, Id
<1>3. log[taken] \in Decisions BY <1>1 DEF TypeOK, StreamOK
<1>4. Cur \in Decision BY <1>3, ConstantsAssumption DEF Cur
<1> QED BY <1>1, <1>2, <1>4 DEF Decision, Qty

LEMMA StatusTypes ==
  /\ Final \subseteq Status /\ "none" \in Status /\ "claimed" \in Status
  /\ PaperRefused \subseteq Refused /\ BlockedStatus \subseteq Refused
  /\ PaperOpened \cup LiveOpened = Entered /\ Entered \subseteq Effective
  /\ PaperClosed \cup LiveClosed \subseteq Effective
  /\ PaperOther \cup LiveOther \subseteq Vague /\ "error" \in Vague
  /\ Effective \cup Refused \cup Vague = Final
  /\ "error" \in Final /\ "ignored_hold" \in Final
BY DEF Final, Status, Effective, Entered, Refused, Vague

LEMMA VagueStatus ==
  \A s \in Vague \cup {"none", "claimed"} : s \notin Effective /\ s \notin Refused /\ s \notin Entered
BY DEF Effective, Entered, Refused, Vague, PaperOpened, LiveOpened, PaperClosed,
   LiveClosed, PaperOther, LiveOther, BlockedStatus, PaperRefused

LEMMA LogEntry ==
  ASSUME TypeOK, NEW i \in Id, i <= Len(log)
  PROVE  log[i] \in Decision /\ log[i].key \in Key
<1>1. i \in 1..Len(log) BY DEF Id, TypeOK, StreamOK
<1>2. log[i] \in Decisions BY <1>1 DEF TypeOK, StreamOK
<1> QED BY <1>2, ConstantsAssumption DEF Decision

LEMMA ExecutedType ==
  ASSUME TypeOK, pc # "idle"
  PROVE  Executed(Cur) \in Nat /\ Direction(Cur) * Executed(Cur) \in Int
<1>1. Held(Cur.symbol, SideOf(Cur)) \in Nat
  BY DecisionInHand DEF TypeOK, EffectOK, Held
<1>2. Executed(Cur) \in Nat BY <1>1, DecisionInHand DEF Executed, Least
<1> QED BY <1>2 DEF Direction

LEMMA TypeClaimProcessedEvent == ASSUME TypeOK, ClaimProcessedEvent PROVE TypeOK'
<1>1. StreamOK' /\ EffectOK' /\ ControlOK'
  BY DEF TypeOK, ClaimProcessedEvent, StreamOK, EffectOK, ControlOK
<1>2. ProcessOK'
  BY DecisionInHand DEF TypeOK, ClaimProcessedEvent, ProcessOK, Abandon, Dispatch
<1>3. LocalOK'
  BY DecisionInHand, StatusTypes DEF TypeOK, ClaimProcessedEvent, ProcessOK, LocalOK,
    Abandon, Dispatch
<1>4. DbOK'
  <2>1. row' \in {row, [row EXCEPT ![Cur.key] = [status |-> "claimed", by |-> taken]]}
    BY DEF ClaimProcessedEvent
  <2>2. [status |-> "claimed", by |-> taken] \in [status : Status, by : Id \cup {0}]
    BY DecisionInHand, StatusTypes DEF ClaimProcessedEvent
  <2> QED BY <2>1, <2>2 DEF TypeOK, DbOK, ClaimProcessedEvent
<1> QED BY <1>1, <1>2, <1>3, <1>4 DEF TypeOK

LEMMA TypeUpsertClaimAudit == ASSUME TypeOK, UpsertClaimAudit PROVE TypeOK'
<1>1. StreamOK' /\ EffectOK' /\ ControlOK'
  BY DEF TypeOK, UpsertClaimAudit, StreamOK, EffectOK, ControlOK
<1>2. ProcessOK'
  BY DecisionInHand DEF TypeOK, UpsertClaimAudit, ProcessOK, Abandon, Dispatch
<1>3. LocalOK'
  BY DecisionInHand, StatusTypes DEF TypeOK, UpsertClaimAudit, ProcessOK, LocalOK,
    Abandon, Dispatch
<1>4. DbOK'
  BY DecisionInHand, StatusTypes DEF TypeOK, UpsertClaimAudit, ProcessOK, DbOK, Abandon,
    Dispatch
<1> QED BY <1>1, <1>2, <1>3, <1>4 DEF TypeOK

LEMMA TypeReadExecutorFlag == ASSUME TypeOK, ReadExecutorFlag PROVE TypeOK'
<1>1. StreamOK' /\ DbOK' /\ EffectOK' /\ ControlOK'
  BY DEF TypeOK, ReadExecutorFlag, StreamOK, DbOK, EffectOK, ControlOK
<1>2. ProcessOK'
  BY DecisionInHand DEF TypeOK, ReadExecutorFlag, ProcessOK, Abandon
<1>3. LocalOK'
  BY DecisionInHand, StatusTypes DEF TypeOK, ReadExecutorFlag, ProcessOK, LocalOK, Abandon
<1> QED BY <1>1, <1>2, <1>3 DEF TypeOK

LEMMA TypeReadKillSwitchAndGate == ASSUME TypeOK, ReadKillSwitchAndGate PROVE TypeOK'
<1>1. StreamOK' /\ DbOK' /\ EffectOK' /\ ControlOK'
  BY DEF TypeOK, ReadKillSwitchAndGate, StreamOK, DbOK, EffectOK, ControlOK
<1>2. ProcessOK'
  BY DecisionInHand DEF TypeOK, ReadKillSwitchAndGate, ProcessOK, Abandon, Gate
<1>3. LocalOK'
  BY DecisionInHand, StatusTypes DEF TypeOK, ReadKillSwitchAndGate, ProcessOK, LocalOK,
    Abandon, Gate, BlockedStatus
<1> QED BY <1>1, <1>2, <1>3 DEF TypeOK

LEMMA TypePaperFill == ASSUME TypeOK, PaperFill PROVE TypeOK'
<1>1. StreamOK' /\ DbOK' /\ EffectOK' /\ ControlOK'
  BY DEF TypeOK, PaperFill, StreamOK, DbOK, EffectOK, ControlOK
<1>2. ProcessOK'
  BY DecisionInHand DEF TypeOK, PaperFill, ProcessOK
<1>3. LocalOK'
  BY DecisionInHand, StatusTypes DEF TypeOK, PaperFill, ProcessOK, LocalOK, PaperRefused
<1> QED BY <1>1, <1>2, <1>3 DEF TypeOK

LEMMA TypeGuardSide == ASSUME TypeOK, GuardSide PROVE TypeOK'
<1>1. StreamOK' /\ DbOK' /\ EffectOK' /\ ControlOK'
  BY DEF TypeOK, GuardSide, StreamOK, DbOK, EffectOK, ControlOK
<1>2. ProcessOK'
  BY DecisionInHand DEF TypeOK, GuardSide, ProcessOK
<1>3. LocalOK'
  BY DecisionInHand, StatusTypes DEF TypeOK, GuardSide, ProcessOK, LocalOK, PaperRefused
<1> QED BY <1>1, <1>2, <1>3 DEF TypeOK

LEMMA TypeGuardCount == ASSUME TypeOK, GuardCount PROVE TypeOK'
<1>1. StreamOK' /\ DbOK' /\ EffectOK' /\ ControlOK'
  BY DEF TypeOK, GuardCount, StreamOK, DbOK, EffectOK, ControlOK
<1>2. ProcessOK'
  BY DecisionInHand DEF TypeOK, GuardCount, ProcessOK
<1>3. LocalOK'
  BY DecisionInHand, StatusTypes DEF TypeOK, GuardCount, ProcessOK, LocalOK, PaperRefused
<1> QED BY <1>1, <1>2, <1>3 DEF TypeOK

LEMMA TypeSubmitOrder == ASSUME TypeOK, SubmitOrder PROVE TypeOK'
<1>1. StreamOK' /\ DbOK' /\ ControlOK'
  BY DEF TypeOK, SubmitOrder, NothingPlaced, FillReport, StreamOK, DbOK, ControlOK
<1>2. ProcessOK'
  BY DecisionInHand, ExecutedType DEF TypeOK, SubmitOrder, NothingPlaced, FillReport,
    ProcessOK, OnRefusal, TakeEffect
<1>3. LocalOK'
  BY DecisionInHand, ExecutedType, StatusTypes DEF TypeOK, SubmitOrder, NothingPlaced,
    FillReport, ProcessOK, LocalOK, OnRefusal, TakeEffect
<1>4. EffectOK'
  <2>1. pos' = pos \/ pos' = [pos EXCEPT ![Cur.symbol] = @ + Direction(Cur) * Executed(Cur)]
    BY DEF SubmitOrder, NothingPlaced, FillReport, OnRefusal
  <2>2. /\ placed' = placed \/ placed' = [placed EXCEPT ![taken] = @ + 1]
        /\ slipped' \in {slipped, slipped + 1}
    BY DEF SubmitOrder, NothingPlaced, FillReport, OnRefusal, TakeEffect
  <2>3. pos' \in [Symbol -> Int]
    BY <2>1, ExecutedType, DecisionInHand DEF TypeOK, EffectOK, SubmitOrder,
      NothingPlaced, FillReport
  <2> QED BY <2>2, <2>3, DecisionInHand DEF TypeOK, EffectOK, SubmitOrder, NothingPlaced,
        FillReport
<1> QED BY <1>1, <1>2, <1>3, <1>4 DEF TypeOK

LEMMA TypePersistFills == ASSUME TypeOK, PersistFills PROVE TypeOK'
<1>1. StreamOK' /\ EffectOK' /\ ControlOK'
  BY DEF TypeOK, PersistFills, StreamOK, EffectOK, ControlOK
<1>2. ProcessOK'
  BY DecisionInHand DEF TypeOK, PersistFills, ProcessOK
<1>3. LocalOK'
  BY DecisionInHand, StatusTypes DEF TypeOK, PersistFills, ProcessOK, LocalOK
<1>4. DbOK'
  <2>1. PICK q \in Nat : fills' = [fills EXCEPT ![taken] = q]
    BY DEF PersistFills, TypeOK, LocalOK
  <2> QED BY <2>1 DEF TypeOK, DbOK, PersistFills
<1> QED BY <1>1, <1>2, <1>3, <1>4 DEF TypeOK

LEMMA TypeConfigureTrailing == ASSUME TypeOK, ConfigureTrailing PROVE TypeOK'
<1>1. StreamOK' /\ DbOK' /\ EffectOK' /\ ControlOK'
  BY DEF TypeOK, ConfigureTrailing, StreamOK, DbOK, EffectOK, ControlOK
<1>2. ProcessOK'
  BY DecisionInHand DEF TypeOK, ConfigureTrailing, ProcessOK
<1>3. LocalOK'
  BY DecisionInHand, StatusTypes DEF TypeOK, ConfigureTrailing, ProcessOK, LocalOK, LiveOpened
<1> QED BY <1>1, <1>2, <1>3 DEF TypeOK

LEMMA TypePersistTrade == ASSUME TypeOK, PersistTrade PROVE TypeOK'
<1>1. StreamOK' /\ ControlOK'
  BY DEF TypeOK, PersistTrade, StreamOK, ControlOK
<1>2. ProcessOK'
  BY DecisionInHand DEF TypeOK, PersistTrade, ProcessOK, Opened, NotPersisted, TakeEffect
<1>3. LocalOK'
  BY DecisionInHand, StatusTypes DEF TypeOK, PersistTrade, ProcessOK, LocalOK, Opened,
    NotPersisted, TakeEffect, PaperOpened, PaperOther, LiveOpened, LiveOther
<1>4. DbOK'
  <2>1. trade' \in {trade, [trade EXCEPT ![taken] = [status |-> "open", qty |-> fillQty]]}
    BY DEF PersistTrade
  <2>2. fillQty \in Nat BY DEF TypeOK, LocalOK
  <2> QED BY <2>1, <2>2 DEF TypeOK, DbOK, PersistTrade
<1>5. EffectOK'
  BY DecisionInHand DEF TypeOK, PersistTrade, ProcessOK, EffectOK, Opened, NotPersisted,
    TakeEffect
<1> QED BY <1>1, <1>2, <1>3, <1>4, <1>5 DEF TypeOK

LEMMA TypeSelectTradeToClose == ASSUME TypeOK, SelectTradeToClose PROVE TypeOK'
<1>1. StreamOK' /\ DbOK' /\ EffectOK' /\ ControlOK'
  BY DEF TypeOK, SelectTradeToClose, StreamOK, DbOK, EffectOK, ControlOK
<1>2. ProcessOK'
  BY DEF TypeOK, SelectTradeToClose, CloseVerdict, ProcessOK
<1>3. LocalOK'
  <2>1. OpenOnSide(Cur.symbol, SideOf(Cur)) \subseteq Id
    BY DEF OpenOnSide, OpenOn, OpenIds
  <2>2. CASE pc' = "close_write"
    <3>1. PICK i \in Id : target' = i /\ openQty' = trade[i].qty /\ verdict' = verdict
      BY <2>1, <2>2 DEF SelectTradeToClose, CloseVerdict
    <3> QED BY <2>2, <3>1 DEF TypeOK, LocalOK, DbOK, SelectTradeToClose
  <2>3. CASE pc' # "close_write"
    <3>1. target' = target /\ openQty' = openQty
          /\ verdict' \in PaperOther \cup LiveOther
      BY <2>3 DEF SelectTradeToClose, CloseVerdict, PaperOther, LiveOther
    <3> QED BY <2>3, <3>1, StatusTypes DEF TypeOK, LocalOK, SelectTradeToClose
  <2> QED BY <2>2, <2>3
<1> QED BY <1>1, <1>2, <1>3 DEF TypeOK

LEMMA TypeWriteClose == ASSUME TypeOK, WriteClose PROVE TypeOK'
<1>1. StreamOK' /\ ControlOK'
  BY DEF TypeOK, WriteClose, StreamOK, ControlOK
<1>2. ProcessOK'
  BY DecisionInHand DEF TypeOK, WriteClose, ProcessOK, CloseVerdict, TakeEffect
<1>3. LocalOK'
  BY DecisionInHand, StatusTypes DEF TypeOK, WriteClose, ProcessOK, LocalOK,
    CloseVerdict, TakeEffect, PaperClosed, PaperOther, LiveClosed, LiveOther
<1>4. DbOK'
  <2> DEFINE left == trade[target].qty - fillQty
  <2>1. target \in Id /\ fillQty \in Nat /\ left \in Int
    BY DEF TypeOK, LocalOK, DbOK, WriteClose
  <2>2. \/ trade' = trade
        \/ left > 0 /\ trade' = [trade EXCEPT ![target] = [@ EXCEPT !.qty = left]]
        \/ trade' = [trade EXCEPT ![target] = [@ EXCEPT !.status = "closed"]]
    BY DEF WriteClose
  <2> HIDE DEF left
  <2>3. trade' \in [Id -> [status : {"none", "open", "closed"}, qty : Nat]]
    BY <2>1, <2>2 DEF TypeOK, DbOK
  <2> QED BY <2>3 DEF TypeOK, DbOK, WriteClose
<1>5. EffectOK'
  BY DecisionInHand DEF TypeOK, WriteClose, ProcessOK, EffectOK, CloseVerdict, TakeEffect
<1> QED BY <1>1, <1>2, <1>3, <1>4, <1>5 DEF TypeOK

LEMMA TypeMarkRow == ASSUME TypeOK, MarkRow PROVE TypeOK'
<1>1. StreamOK' /\ EffectOK' /\ ControlOK'
  BY DEF TypeOK, MarkRow, StreamOK, EffectOK, ControlOK
<1>2. ProcessOK'
  BY DecisionInHand DEF TypeOK, MarkRow, ProcessOK, OnMarkErr
<1>3. LocalOK'
  BY DecisionInHand, StatusTypes DEF TypeOK, MarkRow, ProcessOK, LocalOK, OnMarkErr
<1>4. DbOK'
  <2>1. row' \in {row, [row EXCEPT ![Cur.key] = [status |-> verdict, by |-> taken]]}
    BY DEF MarkRow
  <2>2. [status |-> verdict, by |-> taken] \in [status : Status, by : Id \cup {0}]
    BY DecisionInHand, StatusTypes DEF TypeOK, LocalOK, MarkRow
  <2> QED BY <2>1, <2>2 DEF TypeOK, DbOK, MarkRow
<1> QED BY <1>1, <1>2, <1>3, <1>4 DEF TypeOK

LEMMA TypeMarkAudit == ASSUME TypeOK, MarkAudit PROVE TypeOK'
<1>1. StreamOK' /\ EffectOK' /\ ControlOK'
  BY DEF TypeOK, MarkAudit, StreamOK, EffectOK, ControlOK
<1>2. ProcessOK'
  BY DecisionInHand DEF TypeOK, MarkAudit, ProcessOK
<1>3. LocalOK'
  BY DecisionInHand, StatusTypes DEF TypeOK, MarkAudit, ProcessOK, LocalOK
<1>4. DbOK'
  BY DecisionInHand, StatusTypes DEF TypeOK, MarkAudit, ProcessOK, DbOK, LocalOK, Status
<1> QED BY <1>1, <1>2, <1>3, <1>4 DEF TypeOK

LEMMA TypeEchoEvent == ASSUME TypeOK, EchoEvent PROVE TypeOK'
<1>1. DbOK' /\ EffectOK' /\ ControlOK'
  BY DEF TypeOK, EchoEvent, DbOK, EffectOK, ControlOK
<1>2. ProcessOK'
  BY DecisionInHand DEF TypeOK, EchoEvent, ProcessOK
<1>3. LocalOK'
  BY DecisionInHand, StatusTypes DEF TypeOK, EchoEvent, ProcessOK, LocalOK
<1>4. StreamOK'
  BY DecisionInHand DEF TypeOK, EchoEvent, ProcessOK, StreamOK
<1> QED BY <1>1, <1>2, <1>3, <1>4 DEF TypeOK

LEMMA TypeReceiveDecision == ASSUME TypeOK, ReceiveDecision PROVE TypeOK'
<1>1. LocalOK' /\ DbOK' /\ EffectOK' /\ ControlOK'
  BY DEF TypeOK, ReceiveDecision, LocalOK, DbOK, EffectOK, ControlOK
<1>2. StreamOK' BY DEF TypeOK, ReceiveDecision, StreamOK, Waiting
<1>3. ProcessOK' BY DEF TypeOK, ReceiveDecision, StreamOK, ProcessOK
<1> QED BY <1>1, <1>2, <1>3 DEF TypeOK

LEMMA TypeDeliverNext == ASSUME TypeOK, DeliverNext PROVE TypeOK'
<1>1. ProcessOK' /\ LocalOK' /\ DbOK' /\ EffectOK' /\ ControlOK'
  BY DEF TypeOK, DeliverNext, ProcessOK, LocalOK, DbOK, EffectOK, ControlOK
<1>2. StreamOK' BY DEF TypeOK, DeliverNext, StreamOK
<1> QED BY <1>1, <1>2 DEF TypeOK

LEMMA TypePublishDecision ==
  ASSUME TypeOK, NEW d \in Decisions, PublishDecision(d) PROVE TypeOK'
<1>1. ProcessOK' /\ LocalOK' /\ DbOK' /\ EffectOK' /\ ControlOK'
  BY DEF TypeOK, PublishDecision, ProcessOK, LocalOK, DbOK, EffectOK, ControlOK
<1>2. StreamOK' BY ConstantsAssumption DEF TypeOK, PublishDecision, StreamOK
<1> QED BY <1>1, <1>2 DEF TypeOK

LEMMA TypeControl ==
  ASSUME TypeOK, NEW b \in BOOLEAN, SetKillSwitch(b) \/ SetExecutorEnabled(b) PROVE TypeOK'
<1>1. StreamOK' /\ ProcessOK' /\ LocalOK' /\ DbOK'
  BY DEF TypeOK, SetKillSwitch, SetExecutorEnabled, StreamOK, ProcessOK, LocalOK, DbOK
<1>2. EffectOK' /\ ControlOK'
  BY DEF TypeOK, SetKillSwitch, SetExecutorEnabled, EffectOK, ControlOK
<1> QED BY <1>1, <1>2 DEF TypeOK

LEMMA TypeCrash == ASSUME TypeOK, Crash PROVE TypeOK'
<1>1. DbOK' /\ EffectOK' /\ ControlOK'
  BY DEF TypeOK, Crash, DbOK, EffectOK, ControlOK
<1>2. StreamOK' BY DEF TypeOK, Crash, StreamOK
<1>3. ProcessOK'
  <2>1. up' \in BOOLEAN /\ pool' = pool BY DEF Crash
  <2>2. seen' = {} /\ hung' = {} /\ faults' = faults /\ crashes' = crashes + 1 BY DEF Crash
  <2>3. pc' = "idle" BY DEF Crash
  <2>4. seen' \subseteq Key /\ hung' \subseteq Tasks /\ faults' \in Nat /\ crashes' \in Nat
    BY <2>2 DEF TypeOK, ProcessOK
  <2>5. pc' \in HandlerSteps \cup {"idle"} /\ (pc' # "idle" => up' /\ taken' > 0)
    BY <2>3
  <2> QED BY <2>1, <2>4, <2>5 DEF TypeOK, ProcessOK
<1>4. LocalOK' BY DEF TypeOK, Crash, LocalOK
<1> QED BY <1>1, <1>2, <1>3, <1>4 DEF TypeOK

LEMMA TypeRestart == ASSUME TypeOK, Restart PROVE TypeOK'
<1>1. StreamOK' /\ LocalOK' /\ DbOK' /\ EffectOK' /\ ControlOK'
  BY DEF TypeOK, Restart, StreamOK, LocalOK, DbOK, EffectOK, ControlOK
<1>2. ProcessOK' BY ConstantsAssumption DEF TypeOK, Restart, ProcessOK
<1> QED BY <1>1, <1>2 DEF TypeOK

LEMMA TypeCallHangs == ASSUME TypeOK, NEW t \in Tasks, CallHangs(t) PROVE TypeOK'
<1>1. StreamOK' /\ LocalOK' /\ DbOK' /\ EffectOK' /\ ControlOK'
  BY DEF TypeOK, CallHangs, StreamOK, LocalOK, DbOK, EffectOK, ControlOK
<1>2. ProcessOK' BY DEF TypeOK, CallHangs, ProcessOK
<1> QED BY <1>1, <1>2 DEF TypeOK

LEMMA TypeInit == Init => TypeOK
<1> SUFFICES ASSUME Init PROVE TypeOK OBVIOUS
<1>1. StreamOK
  <2>1. <<>> \in Seq(Decisions) /\ Len(<<>>) = 0 OBVIOUS
  <2> QED BY <2>1, ConstantsAssumption DEF Init, StreamOK
<1>2. ProcessOK /\ LocalOK /\ ControlOK
  BY ConstantsAssumption DEF Init, ProcessOK, LocalOK, ControlOK
<1>3. DbOK BY StatusTypes DEF Init, DbOK, NoRow, NoTrade
<1>4. EffectOK BY DEF Init, EffectOK
<1> QED BY <1>1, <1>2, <1>3, <1>4 DEF TypeOK

LEMMA TypeStutter == ASSUME TypeOK, UNCHANGED vars PROVE TypeOK'
BY DEF vars, TypeOK, StreamOK, ProcessOK, LocalOK, DbOK, EffectOK, ControlOK

LEMMA TypeNext == ASSUME TypeOK, [Next]_vars PROVE TypeOK'
<1>1. CASE Environment
  BY <1>1, TypePublishDecision, TypeControl, TypeCrash, TypeRestart, TypeCallHangs
     DEF Environment
<1>2. CASE DeliverNext \/ ReceiveDecision
  BY <1>2, TypeDeliverNext, TypeReceiveDecision
<1>3. CASE HandlerStep
  BY <1>3, TypeClaimProcessedEvent, TypeUpsertClaimAudit, TypeReadExecutorFlag,
     TypeReadKillSwitchAndGate, TypePaperFill, TypeGuardSide, TypeGuardCount,
     TypeSubmitOrder, TypePersistFills, TypeConfigureTrailing, TypePersistTrade,
     TypeSelectTradeToClose, TypeWriteClose, TypeMarkRow, TypeMarkAudit, TypeEchoEvent
     DEF HandlerStep
<1>4. CASE UNCHANGED vars BY <1>4, TypeStutter
<1> QED BY <1>1, <1>2, <1>3, <1>4 DEF Next

\* The cursors of the stream, the handler's place and every table keep their
\* types, in every mode, whatever fails.
THEOREM TypeCorrect == Spec => []TypeOK
<1>1. Init => TypeOK BY TypeInit
<1>2. TypeOK /\ [Next]_vars => TypeOK' BY TypeNext
<1> QED BY <1>1, <1>2, PTL DEF Spec
-----------------------------------------------------------------------------
(* The inductive invariant.                                                *)

(* While the handler holds the claim, every other row belongs to an earlier *)
(* event.                                                                   *)
LEMMA OtherRows ==
  ASSUME IInv, pc \in HoldsClaim
  PROVE  \A k \in Key : \/ row[k].by = 0 /\ row[k].status = "none"
                        \/ row[k].by \in Id /\ row[k].by # taken
                        \/ k = Cur.key /\ row[k].by = taken /\ row[k].status = "claimed"
<1>1. \A k \in Key : row[k].by \in Id \cup {0} BY DEF IInv, TypeOK, DbOK
<1>2. \A k \in Key : row[k].by = taken /\ taken # 0 => k = Cur.key
  BY DEF IInv, ClaimInv, Cur
<1>3. taken # 0 BY DEF IInv, TypeOK, ProcessOK, StreamOK, HoldsClaim
<1> QED BY <1>1, <1>2, <1>3 DEF IInv, ClaimInv

(* What an effect of the event in hand does to the invariant: the order it  *)
(* placed or the trade it wrote leaves the claims of other events alone.    *)
LEMMA EffectStep ==
  ASSUME IInv, pc \in HoldsClaim, placed[taken] = 0 \/ placed' = placed,
         UNCHANGED <<log, taken, row, pool>>,
         placed' \in {placed, [placed EXCEPT ![taken] = @ + 1]},
         \A i \in Id : i # taken /\ trade[i].status # "none" => trade'[i].status # "none"
  PROVE  /\ \A i \in Id : placed'[i] \in {0, 1} /\ (i > taken => placed'[i] = 0)
         /\ \A i \in Id : placed'[i] = 1 => row'[log'[i].key].by = i
         /\ \A i \in Id : i # taken => placed'[i] = placed[i]
         /\ \A k \in Key : True(row[k].status, row[k].by)'
<1>1. taken \in Id /\ pc # "idle" BY DecisionInHand DEF IInv, HoldsClaim
<1>2. placed \in [Id -> Nat] /\ row[Cur.key].by = taken
  BY DEF IInv, TypeOK, EffectOK, ClaimInv
<1>3. \A i \in Id : i # taken => placed'[i] = placed[i] BY <1>2
<1>4. placed'[taken] \in {0, 1} BY <1>1, <1>2 DEF IInv, EffectInv
<1>5. \A i \in Id : placed'[i] \in {0, 1} /\ (i > taken => placed'[i] = 0)
  BY <1>1, <1>3, <1>4 DEF IInv, EffectInv, Id
<1>6. \A i \in Id : placed'[i] = 1 => row'[log'[i].key].by = i
  BY <1>2, <1>3 DEF IInv, EffectInv, Cur
<1>7. \A k \in Key : True(row[k].status, row[k].by)'
  <2> SUFFICES ASSUME NEW k \in Key PROVE True(row[k].status, row[k].by)'
    OBVIOUS
  <2>1. CASE row[k].status \in {"none", "claimed"}
    BY <2>1, VagueStatus DEF True
  <2>2. CASE row[k].by \in Id /\ row[k].by # taken
    <3>1. True(row[k].status, row[k].by) BY DEF IInv, VerdictInv
    <3> QED BY <2>2, <3>1, <1>3, StatusTypes DEF True
  <2> QED BY <2>1, <2>2, OtherRows
<1> QED BY <1>3, <1>5, <1>6, <1>7

LEMMA InvClaimProcessedEvent ==
  ASSUME IInv, ClaimProcessedEvent PROVE ClaimInv' /\ EffectInv' /\ TradeInv' /\ VerdictInv'
<1> DEFINE k == Cur.key
           R == [status |-> "claimed", by |-> taken]
<1>1. /\ taken \in Id /\ taken # 0 /\ log[taken].key = k /\ k \in Key /\ pc = "claim"
      /\ taken' = taken /\ log' = log /\ pool' = pool
       /\ verdict' \in {verdict, "ignored_hold", "error"}
      /\ UNCHANGED <<placed, trade>>
  BY DecisionInHand DEF IInv, Cur, ClaimProcessedEvent, Abandon, Dispatch, TypeOK, StreamOK, Id
<1>2. pool = TRUE BY DEF IInv, ClaimInv
<1>3. \/ row' = row /\ pc' = "echo"
      \/ row[k].status = "none" /\ row' = [row EXCEPT ![k] = R] /\ pc' \in {"claim_audit", "echo"}
  BY <1>2 DEF ClaimProcessedEvent, Abandon, Free
<1>4. row \in [Key -> [status : Status, by : Id \cup {0}]] /\ placed \in [Id -> Nat]
  BY DEF IInv, TypeOK, DbOK, EffectOK
<1>5. row[k].status = "none" => \A i \in Id : placed[i] = 1 => log[i].key # k
  BY <1>1 DEF IInv, ClaimInv, EffectInv, Id
<1> HIDE DEF k, R
<1>6. row' = row \/ (row'[k] = R /\ row[k].status = "none")
  BY <1>1, <1>3, <1>4
<1>7. \A x \in Key : x # k => row'[x] = row[x]
  BY <1>3, <1>4
<1>8. R.status = "claimed" /\ R.by = taken BY DEF R
<1>9. Cur' = Cur BY <1>1 DEF Cur
<1>10. ClaimInv'
  <2>1. \A x \in Key : row'[x].by = 0 <=> row'[x].status = "none"
    BY <1>1, <1>6, <1>7, <1>8 DEF IInv, ClaimInv
  <2>2. \A x \in Key : row'[x].by # 0 => row'[x].by <= taken' /\ log'[row'[x].by].key = x
    BY <1>1, <1>6, <1>7, <1>8 DEF IInv, ClaimInv, Id
  <2>3. pc' \in HoldsClaim => row'[k] = R
    BY <1>1, <1>3, <1>4 DEF HoldsClaim
  <2> QED BY <1>1, <1>2, <1>9, <2>1, <2>2, <2>3 DEF ClaimInv, k, R
<1>11. EffectInv'
  <2>1. \A i \in Id : placed[i] = 1 => i <= Len(log) /\ log[i].key \in Key
    <3>1. taken <= Len(log) /\ Len(log) \in Nat /\ taken \in Nat
      BY <1>1 DEF IInv, TypeOK, StreamOK, Id
    <3> QED BY <3>1, LogEntry DEF IInv, EffectInv, Id
  <2>2. \A i \in Id : placed[i] = 1 => row'[log[i].key].by = i
    BY <1>5, <1>6, <1>7, <2>1 DEF IInv, EffectInv
  <2> QED BY <1>1, <1>3, <2>2 DEF IInv, EffectInv, BeforeOrder, TradeSteps
<1>12. TradeInv'
  BY <1>1, <1>3 DEF IInv, TradeInv, BeforeOrder, BeforeTrade
<1>13. VerdictInv'
  <2>1. \A x \in Key : True(row[x].status, row[x].by)'
    <3> SUFFICES ASSUME NEW x \in Key PROVE True(row[x].status, row[x].by)'
      OBVIOUS
    <3>1. CASE row'[x].status = "claimed"
      BY <3>1, VagueStatus DEF True
    <3>2. CASE row'[x] = row[x]
      BY <1>1, <3>2 DEF IInv, VerdictInv, True
    <3> QED BY <1>6, <1>7, <1>8, <3>1, <3>2
  <2> QED BY <1>3, <2>1 DEF VerdictInv
<1> QED BY <1>10, <1>11, <1>12, <1>13

LEMMA InvUpsertClaimAudit ==
  ASSUME IInv, UpsertClaimAudit PROVE ClaimInv' /\ EffectInv' /\ TradeInv' /\ VerdictInv'
<1> USE DecisionInHand DEF IInv, UpsertClaimAudit, Abandon, Dispatch, Cur
<1>1. ClaimInv' BY DEF ClaimInv, HoldsClaim, TypeOK, DbOK
<1>2. EffectInv' BY DEF EffectInv, ClaimInv, HoldsClaim, BeforeOrder, TradeSteps, TypeOK,
        DbOK, EffectOK
<1>3. TradeInv' BY DEF TradeInv, EffectInv, BeforeOrder, BeforeTrade, TradeSteps, TypeOK,
        DbOK, EffectOK, LiveOpened
<1>4. VerdictInv' BY DEF VerdictInv, True, ClaimInv, EffectInv, TradeInv, HoldsClaim,
        BeforeOrder, BeforeTrade, TradeSteps, TypeOK, DbOK, EffectOK, LocalOK, Final,
        Effective, Entered, Refused, Vague, PaperRefused, BlockedStatus, PaperOpened,
        PaperClosed, PaperOther, LiveOpened, LiveClosed, LiveOther
<1> QED BY <1>1, <1>2, <1>3, <1>4

LEMMA InvReadExecutorFlag ==
  ASSUME IInv, ReadExecutorFlag PROVE ClaimInv' /\ EffectInv' /\ TradeInv' /\ VerdictInv'
<1> USE DecisionInHand DEF IInv, ReadExecutorFlag, Abandon, Cur
<1>1. ClaimInv' BY DEF ClaimInv, HoldsClaim, TypeOK, DbOK
<1>2. EffectInv' BY DEF EffectInv, ClaimInv, HoldsClaim, BeforeOrder, TradeSteps, TypeOK,
        DbOK, EffectOK
<1>3. TradeInv' BY DEF TradeInv, EffectInv, BeforeOrder, BeforeTrade, TradeSteps, TypeOK,
        DbOK, EffectOK, LiveOpened
<1>4. VerdictInv' BY DEF VerdictInv, True, ClaimInv, EffectInv, TradeInv, HoldsClaim,
        BeforeOrder, BeforeTrade, TradeSteps, TypeOK, DbOK, EffectOK, LocalOK, Final,
        Effective, Entered, Refused, Vague, PaperRefused, BlockedStatus, PaperOpened,
        PaperClosed, PaperOther, LiveOpened, LiveClosed, LiveOther
<1> QED BY <1>1, <1>2, <1>3, <1>4

LEMMA InvReadKillSwitchAndGate ==
  ASSUME IInv, ReadKillSwitchAndGate PROVE ClaimInv' /\ EffectInv' /\ TradeInv' /\ VerdictInv'
<1> USE DecisionInHand DEF IInv, ReadKillSwitchAndGate, Abandon, Gate, Cur
<1>1. ClaimInv' BY DEF ClaimInv, HoldsClaim, TypeOK, DbOK
<1>2. EffectInv' BY DEF EffectInv, ClaimInv, HoldsClaim, BeforeOrder, TradeSteps, TypeOK,
        DbOK, EffectOK
<1>3. TradeInv' BY DEF TradeInv, EffectInv, BeforeOrder, BeforeTrade, TradeSteps, TypeOK,
        DbOK, EffectOK, LiveOpened
<1>4. VerdictInv' BY DEF VerdictInv, True, ClaimInv, EffectInv, TradeInv, HoldsClaim,
        BeforeOrder, BeforeTrade, TradeSteps, TypeOK, DbOK, EffectOK, LocalOK, Final,
        Effective, Entered, Refused, Vague, PaperRefused, BlockedStatus, PaperOpened,
        PaperClosed, PaperOther, LiveOpened, LiveClosed, LiveOther
<1> QED BY <1>1, <1>2, <1>3, <1>4

LEMMA InvPaperFill ==
  ASSUME IInv, PaperFill PROVE ClaimInv' /\ EffectInv' /\ TradeInv' /\ VerdictInv'
<1> USE DecisionInHand DEF IInv, PaperFill, Cur
<1>1. ClaimInv' BY DEF ClaimInv, HoldsClaim, TypeOK, DbOK
<1>2. EffectInv' BY DEF EffectInv, ClaimInv, HoldsClaim, BeforeOrder, TradeSteps, TypeOK,
        DbOK, EffectOK
<1>3. TradeInv' BY DEF TradeInv, EffectInv, BeforeOrder, BeforeTrade, TradeSteps, TypeOK,
        DbOK, EffectOK, LiveOpened
<1>4. VerdictInv' BY DEF VerdictInv, True, ClaimInv, EffectInv, TradeInv, HoldsClaim,
        BeforeOrder, BeforeTrade, TradeSteps, TypeOK, DbOK, EffectOK, LocalOK, Final,
        Effective, Entered, Refused, Vague, PaperRefused, BlockedStatus, PaperOpened,
        PaperClosed, PaperOther, LiveOpened, LiveClosed, LiveOther
<1> QED BY <1>1, <1>2, <1>3, <1>4

LEMMA InvGuardSide ==
  ASSUME IInv, GuardSide PROVE ClaimInv' /\ EffectInv' /\ TradeInv' /\ VerdictInv'
<1> USE DecisionInHand DEF IInv, GuardSide, Cur
<1>1. ClaimInv' BY DEF ClaimInv, HoldsClaim, TypeOK, DbOK
<1>2. EffectInv' BY DEF EffectInv, ClaimInv, HoldsClaim, BeforeOrder, TradeSteps, TypeOK,
        DbOK, EffectOK
<1>3. TradeInv' BY DEF TradeInv, EffectInv, BeforeOrder, BeforeTrade, TradeSteps, TypeOK,
        DbOK, EffectOK, LiveOpened
<1>4. VerdictInv' BY DEF VerdictInv, True, ClaimInv, EffectInv, TradeInv, HoldsClaim,
        BeforeOrder, BeforeTrade, TradeSteps, TypeOK, DbOK, EffectOK, LocalOK, Final,
        Effective, Entered, Refused, Vague, PaperRefused, BlockedStatus, PaperOpened,
        PaperClosed, PaperOther, LiveOpened, LiveClosed, LiveOther
<1> QED BY <1>1, <1>2, <1>3, <1>4

LEMMA InvGuardCount ==
  ASSUME IInv, GuardCount PROVE ClaimInv' /\ EffectInv' /\ TradeInv' /\ VerdictInv'
<1> USE DecisionInHand DEF IInv, GuardCount, Cur
<1>1. ClaimInv' BY DEF ClaimInv, HoldsClaim, TypeOK, DbOK
<1>2. EffectInv' BY DEF EffectInv, ClaimInv, HoldsClaim, BeforeOrder, TradeSteps, TypeOK,
        DbOK, EffectOK
<1>3. TradeInv' BY DEF TradeInv, EffectInv, BeforeOrder, BeforeTrade, TradeSteps, TypeOK,
        DbOK, EffectOK, LiveOpened
<1>4. VerdictInv' BY DEF VerdictInv, True, ClaimInv, EffectInv, TradeInv, HoldsClaim,
        BeforeOrder, BeforeTrade, TradeSteps, TypeOK, DbOK, EffectOK, LocalOK, Final,
        Effective, Entered, Refused, Vague, PaperRefused, BlockedStatus, PaperOpened,
        PaperClosed, PaperOther, LiveOpened, LiveClosed, LiveOther
<1> QED BY <1>1, <1>2, <1>3, <1>4

LEMMA InvSubmitOrder ==
  ASSUME IInv, SubmitOrder PROVE ClaimInv' /\ EffectInv' /\ TradeInv' /\ VerdictInv'
<1>1. /\ taken \in Id /\ pc = "submit" /\ Live
      /\ row[Cur.key] = [status |-> "claimed", by |-> taken]
      /\ placed[taken] = 0 /\ trade[taken].status = "none"
  BY DecisionInHand DEF IInv, SubmitOrder, NothingPlaced, FillReport, EffectInv,
    ClaimInv, TradeInv,
     HoldsClaim, BeforeOrder, BeforeTrade
<1>2. /\ taken' = taken /\ log' = log /\ pool' = pool /\ row' = row /\ trade' = trade
      /\ Cur' = Cur
  BY DEF SubmitOrder, NothingPlaced, FillReport, Cur
<1>3. \/ placed' = [placed EXCEPT ![taken] = @ + 1] /\ pc' = "fills" /\ verdict' = verdict
      \/ placed' = [placed EXCEPT ![taken] = @ + 1] /\ pc' = "mark" /\ verdict' = "error"
      \/ placed' = placed /\ pc' = "mark" /\ verdict' = "error"
  BY DEF SubmitOrder, NothingPlaced, FillReport, OnRefusal, TakeEffect
<1>4. placed \in [Id -> Nat] BY DEF IInv, TypeOK, EffectOK
<1>5. /\ \A i \in Id : placed'[i] \in {0, 1} /\ (i > taken => placed'[i] = 0)
      /\ \A i \in Id : placed'[i] = 1 => row'[log'[i].key].by = i
      /\ \A i \in Id : i # taken => placed'[i] = placed[i]
      /\ \A k \in Key : True(row[k].status, row[k].by)'
  BY <1>1, <1>2, <1>3, EffectStep DEF HoldsClaim
<1>6. ClaimInv' BY <1>1, <1>2, <1>3 DEF IInv, ClaimInv, HoldsClaim
<1>7. pc' = "fills" => placed'[taken] = 1 BY <1>1, <1>3, <1>4
<1>8. EffectInv'
  BY <1>1, <1>2, <1>3, <1>5, <1>7 DEF EffectInv, BeforeOrder, TradeSteps
<1>9. TradeInv'
  BY <1>1, <1>2, <1>3, <1>5 DEF IInv, TradeInv, BeforeOrder, BeforeTrade
<1>10. VerdictInv'
  BY <1>2, <1>3, <1>5, StatusTypes, VagueStatus DEF VerdictInv, True
<1> QED BY <1>6, <1>8, <1>9, <1>10

LEMMA InvPersistFills ==
  ASSUME IInv, PersistFills PROVE ClaimInv' /\ EffectInv' /\ TradeInv' /\ VerdictInv'
<1> USE DecisionInHand DEF IInv, PersistFills, Cur
<1>1. ClaimInv' BY DEF ClaimInv, HoldsClaim, TypeOK, DbOK
<1>2. EffectInv' BY DEF EffectInv, ClaimInv, HoldsClaim, BeforeOrder, TradeSteps, TypeOK,
        DbOK, EffectOK
<1>3. TradeInv' BY DEF TradeInv, EffectInv, BeforeOrder, BeforeTrade, TradeSteps, TypeOK,
        DbOK, EffectOK, LiveOpened
<1>4. VerdictInv' BY DEF VerdictInv, True, ClaimInv, EffectInv, TradeInv, HoldsClaim,
        BeforeOrder, BeforeTrade, TradeSteps, TypeOK, DbOK, EffectOK, LocalOK, Final,
        Effective, Entered, Refused, Vague, PaperRefused, BlockedStatus, PaperOpened,
        PaperClosed, PaperOther, LiveOpened, LiveClosed, LiveOther
<1> QED BY <1>1, <1>2, <1>3, <1>4

LEMMA InvConfigureTrailing ==
  ASSUME IInv, ConfigureTrailing PROVE ClaimInv' /\ EffectInv' /\ TradeInv' /\ VerdictInv'
<1> USE DecisionInHand DEF IInv, ConfigureTrailing, Cur
<1>1. ClaimInv' BY DEF ClaimInv, HoldsClaim, TypeOK, DbOK
<1>2. EffectInv' BY DEF EffectInv, ClaimInv, HoldsClaim, BeforeOrder, TradeSteps, TypeOK,
        DbOK, EffectOK
<1>3. TradeInv' BY DEF TradeInv, EffectInv, BeforeOrder, BeforeTrade, TradeSteps, TypeOK,
        DbOK, EffectOK, LiveOpened
<1>4. VerdictInv' BY DEF VerdictInv, True, ClaimInv, EffectInv, TradeInv, HoldsClaim,
        BeforeOrder, BeforeTrade, TradeSteps, TypeOK, DbOK, EffectOK, LocalOK, Final,
        Effective, Entered, Refused, Vague, PaperRefused, BlockedStatus, PaperOpened,
        PaperClosed, PaperOther, LiveOpened, LiveClosed, LiveOther
<1> QED BY <1>1, <1>2, <1>3, <1>4

LEMMA InvPersistTrade ==
  ASSUME IInv, PersistTrade PROVE ClaimInv' /\ EffectInv' /\ TradeInv' /\ VerdictInv'
<1> DEFINE T == [status |-> "open", qty |-> fillQty]
<1>1. /\ taken \in Id /\ pc = "persist" /\ pool = TRUE
      /\ row[Cur.key] = [status |-> "claimed", by |-> taken]
      /\ placed[taken] = (IF Live THEN 1 ELSE 0) /\ trade[taken].status = "none"
  BY DecisionInHand DEF IInv, PersistTrade, EffectInv, ClaimInv, TradeInv,
     HoldsClaim, BeforeOrder, BeforeTrade, TradeSteps
<1>2. /\ taken' = taken /\ log' = log /\ pool' = pool /\ row' = row /\ Cur' = Cur
      /\ pc' = (IF Live THEN "trailing" ELSE "mark")
  BY DEF PersistTrade, Cur, Opened
<1>3. \/ /\ trade' = [trade EXCEPT ![taken] = T]
         /\ placed' = (IF Live THEN placed ELSE [placed EXCEPT ![taken] = @ + 1])
         /\ verdict' \in (IF Live THEN {"submitted", "submitted_no_persist"}
                                  ELSE {"paper_open", "paper_open_no_persist"})
      \/ /\ trade' = trade /\ placed' = placed
         /\ verdict' = (IF Live THEN "submitted_no_persist" ELSE "paper_open_no_persist")
  BY <1>1 DEF PersistTrade, Opened, NotPersisted, TakeEffect
<1>4. /\ placed \in [Id -> Nat]
      /\ trade \in [Id -> [status : {"none", "open", "closed"}, qty : Nat]]
      /\ T.status = "open"
  BY DEF IInv, TypeOK, EffectOK, DbOK
<1> HIDE DEF T
<1>5. /\ \A i \in Id : placed'[i] = 1 => row'[log'[i].key].by = i
      /\ \A i \in Id : placed'[i] \in {0, 1} /\ (i > taken => placed'[i] = 0)
      /\ \A i \in Id : i # taken => placed'[i] = placed[i]
      /\ \A k \in Key : True(row[k].status, row[k].by)'
  BY <1>1, <1>2, <1>3, <1>4, EffectStep DEF HoldsClaim
<1>6. ClaimInv' BY <1>1, <1>2 DEF IInv, ClaimInv, HoldsClaim
<1>7. EffectInv'
  BY <1>1, <1>2, <1>3, <1>5 DEF EffectInv, BeforeOrder, TradeSteps
<1>8. TradeInv'
  <2>1. placed'[taken] = 1 \/ (trade' = trade /\ placed' = placed)
    BY <1>1, <1>3, <1>4
  <2>2. trade' = trade \/ trade' = [trade EXCEPT ![taken] = T] BY <1>3
  <2>3. \A i \in Id : trade'[i].status # "none" => placed'[i] = 1
    BY <1>4, <1>5, <2>1, <2>2 DEF IInv, TradeInv
  <2>4. verdict' \in LiveOpened => trade'[taken].status # "none" \/ ~Live
    BY <1>1, <1>3, <1>4 DEF LiveOpened
  <2>5. pc' = "trailing" => verdict' \in {"submitted", "submitted_no_persist"}
    BY <1>2, <1>3
  <2> QED BY <1>2, <2>3, <2>4, <2>5 DEF TradeInv, BeforeTrade, BeforeOrder
<1>9. VerdictInv'
  <2>1. CASE Live BY <1>2, <1>5, <2>1 DEF VerdictInv
  <2>2. CASE ~Live
    <3>1. verdict' = "paper_open" => trade'[taken].status # "none" /\ placed'[taken] = 1
      BY <1>1, <1>3, <1>4, <2>2
    <3>2. /\ verdict' \in {"paper_open", "paper_open_no_persist"}
          /\ "paper_open" \in Entered /\ "paper_open" \notin Refused
          /\ "paper_open_no_persist" \in Vague
      BY <1>3, <2>2 DEF Entered, PaperOpened, Vague, PaperOther, Refused, BlockedStatus,
        PaperRefused
    <3>3. verdict' \in Final /\ True(verdict, taken)'
      BY <1>2, <3>1, <3>2, StatusTypes, VagueStatus DEF True
    <3> QED BY <1>2, <1>5, <2>2, <3>3 DEF VerdictInv
  <2> QED BY <2>1, <2>2
<1> QED BY <1>6, <1>7, <1>8, <1>9

LEMMA InvSelectTradeToClose ==
  ASSUME IInv, SelectTradeToClose PROVE ClaimInv' /\ EffectInv' /\ TradeInv' /\ VerdictInv'
<1> USE DecisionInHand DEF IInv, SelectTradeToClose, CloseVerdict, OpenOnSide, OpenOn,
      OpenIds, IsOpen, Cur
<1>1. ClaimInv' BY DEF ClaimInv, HoldsClaim, TypeOK, DbOK
<1>2. EffectInv' BY DEF EffectInv, ClaimInv, HoldsClaim, BeforeOrder, TradeSteps, TypeOK,
        DbOK, EffectOK
<1>3. TradeInv' BY DEF TradeInv, EffectInv, BeforeOrder, BeforeTrade, TradeSteps, TypeOK,
        DbOK, EffectOK, LiveOpened
<1>4. VerdictInv' BY DEF VerdictInv, True, ClaimInv, EffectInv, TradeInv, HoldsClaim,
        BeforeOrder, BeforeTrade, TradeSteps, TypeOK, DbOK, EffectOK, LocalOK, Final,
        Effective, Entered, Refused, Vague, PaperRefused, BlockedStatus, PaperOpened,
        PaperClosed, PaperOther, LiveOpened, LiveClosed, LiveOther
<1> QED BY <1>1, <1>2, <1>3, <1>4

LEMMA InvWriteClose ==
  ASSUME IInv, WriteClose PROVE ClaimInv' /\ EffectInv' /\ TradeInv' /\ VerdictInv'
<1>1. /\ taken \in Id /\ pc = "close_write" /\ target \in Id /\ placed \in [Id -> Nat]
      /\ row[Cur.key] = [status |-> "claimed", by |-> taken]
      /\ placed[taken] = IF Live THEN 1 ELSE 0
      /\ trade[target].status = "open"
  BY DecisionInHand DEF IInv, WriteClose, EffectInv, ClaimInv, TradeInv, HoldsClaim,
     TradeSteps, TypeOK, LocalOK, EffectOK
<1>2. /\ taken' = taken /\ log' = log /\ pool' = pool /\ row' = row /\ Cur' = Cur
      /\ pc' = "mark"
  BY DEF WriteClose, Cur, CloseVerdict
<1>3. \/ /\ placed' = (IF Live THEN placed ELSE [placed EXCEPT ![taken] = @ + 1])
         /\ verdict' \in PaperClosed \cup LiveClosed \cup PaperOther \cup LiveOther
      \/ placed' = placed /\ verdict' \in PaperOther \cup LiveOther
  BY DEF WriteClose, CloseVerdict, TakeEffect, PaperClosed, LiveClosed, PaperOther, LiveOther
<1>4. \A i \in Id : trade'[i].status = "none" <=> trade[i].status = "none"
  <2> DEFINE left == trade[target].qty - fillQty
  <2>1. \/ trade' = trade
        \/ trade' = [trade EXCEPT ![target] = [@ EXCEPT !.qty = left]]
        \/ trade' = [trade EXCEPT ![target] = [@ EXCEPT !.status = "closed"]]
    BY DEF WriteClose
  <2> HIDE DEF left
  <2> QED BY <1>1, <2>1 DEF IInv, TypeOK, DbOK
<1>5. /\ \A i \in Id : placed'[i] \in {0, 1} /\ (i > taken => placed'[i] = 0)
      /\ \A i \in Id : placed'[i] = 1 => row'[log'[i].key].by = i
      /\ \A i \in Id : i # taken => placed'[i] = placed[i]
      /\ \A k \in Key : True(row[k].status, row[k].by)'
  BY <1>1, <1>2, <1>3, <1>4, EffectStep DEF HoldsClaim
<1>6. ClaimInv' BY <1>1, <1>2 DEF IInv, ClaimInv, HoldsClaim
<1>7. EffectInv'
  BY <1>1, <1>2, <1>5 DEF EffectInv, BeforeOrder, TradeSteps
<1>8. placed'[taken] = 1 \/ (placed' = placed /\ verdict' \in PaperOther \cup LiveOther)
  BY <1>1, <1>3
<1>9. TradeInv'
  <2>1. \A i \in Id : trade'[i].status # "none" => placed'[i] = 1
    BY <1>4, <1>5, <1>8 DEF IInv, TradeInv
  <2> QED BY <1>2, <2>1 DEF TradeInv, BeforeTrade, BeforeOrder
<1>10. VerdictInv'
  <2>1. \A s \in PaperClosed \cup LiveClosed : s \notin Entered /\ s \notin Refused
    BY DEF PaperClosed, LiveClosed, Entered, Refused, PaperOpened, LiveOpened,
       BlockedStatus, PaperRefused
  <2>2. verdict' \in Final /\ True(verdict, taken)'
    BY <1>2, <1>3, <1>8, <2>1, StatusTypes, VagueStatus DEF True
  <2> QED BY <1>2, <1>5, <2>2 DEF VerdictInv
<1> QED BY <1>6, <1>7, <1>9, <1>10

LEMMA InvMarkRow ==
  ASSUME IInv, MarkRow PROVE ClaimInv' /\ EffectInv' /\ TradeInv' /\ VerdictInv'
<1> DEFINE R == [status |-> verdict, by |-> taken]
<1>1. /\ taken \in Id /\ taken # 0 /\ Cur.key \in Key /\ pc = "mark"
      /\ row[Cur.key] = [status |-> "claimed", by |-> taken]
      /\ row \in [Key -> [status : Status, by : Id \cup {0}]]
      /\ verdict \in Final /\ True(verdict, taken) /\ log[taken].key = Cur.key
  BY DecisionInHand DEF IInv, MarkRow, ClaimInv, VerdictInv, HoldsClaim, TypeOK, DbOK, Cur, Id
<1>2. /\ taken' = taken /\ log' = log /\ pool' = pool /\ placed' = placed
      /\ trade' = trade /\ Cur' = Cur /\ verdict' = verdict
  BY DEF MarkRow, Cur
<1>3. \/ row' = [row EXCEPT ![Cur.key] = R] /\ pc' \in {"mark_audit", "echo"}
      \/ row' = row /\ pc' = "echo"
  BY DEF IInv, ClaimInv, MarkRow, OnMarkErr
<1>4. R.status = verdict /\ R.by = taken OBVIOUS
<1> HIDE DEF R
<1>5. /\ \A k \in Key : row'[k].by = row[k].by
      /\ \A k \in Key : row'[k] = row[k] \/ (k = Cur.key /\ row'[k] = R)
      /\ pc' = "mark_audit" => row'[Cur.key] = R
  BY <1>1, <1>3, <1>4
<1>6. verdict # "none" BY <1>1, VagueStatus, StatusTypes DEF Vague, PaperOther, LiveOther
<1>7. ClaimInv'
  <2>1. \A k \in Key : row'[k].by = 0 <=> row'[k].status = "none"
    BY <1>1, <1>4, <1>5, <1>6 DEF IInv, ClaimInv
  <2>2. \A k \in Key : row'[k].by # 0 => row'[k].by <= taken' /\ log'[row'[k].by].key = k
    BY <1>2, <1>5 DEF IInv, ClaimInv
  <2> QED BY <1>2, <1>3, <2>1, <2>2 DEF IInv, ClaimInv, HoldsClaim
<1>8. EffectInv'
  <2>1. \A i \in Id : placed[i] = 1 => log[i].key \in Key
    <3>1. taken <= Len(log) /\ Len(log) \in Nat /\ taken \in Nat
      BY <1>1 DEF IInv, TypeOK, StreamOK, Id
    <3> QED BY <3>1, LogEntry DEF IInv, EffectInv, Id
  <2>2. \A i \in Id : placed[i] = 1 => row'[log[i].key].by = i
    BY <1>5, <2>1 DEF IInv, EffectInv
  <2> QED BY <1>2, <1>3, <2>2 DEF IInv, EffectInv, BeforeOrder, TradeSteps
<1>9. TradeInv'
  BY <1>2, <1>3 DEF IInv, TradeInv, BeforeTrade, BeforeOrder
<1>10. VerdictInv'
  <2>1. \A k \in Key : True(row'[k].status, row'[k].by)
    BY <1>1, <1>4, <1>5 DEF IInv, VerdictInv
  <2>2. \A k \in Key : True(row[k].status, row[k].by)'
    BY <1>2, <2>1 DEF True
  <2>3. pc' = "mark_audit" => row'[Cur.key] = [status |-> verdict, by |-> taken]
    BY <1>5 DEF R
  <2> QED BY <1>1, <1>2, <1>3, <2>2, <2>3 DEF VerdictInv
<1> QED BY <1>7, <1>8, <1>9, <1>10

LEMMA InvMarkAudit ==
  ASSUME IInv, MarkAudit PROVE ClaimInv' /\ EffectInv' /\ TradeInv' /\ VerdictInv'
<1> USE DecisionInHand DEF IInv, MarkAudit, Cur
<1>1. ClaimInv' BY DEF ClaimInv, HoldsClaim, TypeOK, DbOK
<1>2. EffectInv' BY DEF EffectInv, ClaimInv, HoldsClaim, BeforeOrder, TradeSteps, TypeOK,
        DbOK, EffectOK
<1>3. TradeInv' BY DEF TradeInv, EffectInv, BeforeOrder, BeforeTrade, TradeSteps, TypeOK,
        DbOK, EffectOK, LiveOpened
<1>4. VerdictInv' BY DEF VerdictInv, True, ClaimInv, EffectInv, TradeInv, HoldsClaim,
        BeforeOrder, BeforeTrade, TradeSteps, TypeOK, DbOK, EffectOK, LocalOK, Final,
        Effective, Entered, Refused, Vague, PaperRefused, BlockedStatus, PaperOpened,
        PaperClosed, PaperOther, LiveOpened, LiveClosed, LiveOther
<1> QED BY <1>1, <1>2, <1>3, <1>4

LEMMA InvEchoEvent ==
  ASSUME IInv, EchoEvent PROVE ClaimInv' /\ EffectInv' /\ TradeInv' /\ VerdictInv'
<1> USE DecisionInHand DEF IInv, EchoEvent, Cur
<1>1. ClaimInv' BY DEF ClaimInv, HoldsClaim, TypeOK, DbOK
<1>2. EffectInv' BY DEF EffectInv, ClaimInv, HoldsClaim, BeforeOrder, TradeSteps, TypeOK,
        DbOK, EffectOK
<1>3. TradeInv' BY DEF TradeInv, EffectInv, BeforeOrder, BeforeTrade, TradeSteps, TypeOK,
        DbOK, EffectOK, LiveOpened
<1>4. VerdictInv' BY DEF VerdictInv, True, ClaimInv, EffectInv, TradeInv, HoldsClaim,
        BeforeOrder, BeforeTrade, TradeSteps, TypeOK, DbOK, EffectOK, LocalOK, Final,
        Effective, Entered, Refused, Vague, PaperRefused, BlockedStatus, PaperOpened,
        PaperClosed, PaperOther, LiveOpened, LiveClosed, LiveOther
<1> QED BY <1>1, <1>2, <1>3, <1>4

LEMMA InvReceiveDecision ==
  ASSUME IInv, ReceiveDecision PROVE ClaimInv' /\ EffectInv' /\ TradeInv' /\ VerdictInv'
<1>1. /\ taken \in Nat /\ taken' = taken + 1 /\ taken' \in Id /\ pc' = "claim"
      /\ UNCHANGED <<log, pool, row, placed, trade, verdict>>
  BY ConstantsAssumption DEF IInv, ReceiveDecision, Waiting, TypeOK, StreamOK, Id
<1>2. ClaimInv'
  <2>1. \A k \in Key : row[k].by # 0 => row[k].by \in Nat /\ row[k].by <= taken
    BY DEF IInv, ClaimInv, TypeOK, DbOK, Id
  <2> QED BY <1>1, <2>1 DEF IInv, ClaimInv, HoldsClaim
<1>3. EffectInv'
  BY <1>1 DEF IInv, EffectInv, BeforeOrder, TradeSteps, Id
<1>4. TradeInv'
  BY <1>1 DEF IInv, TradeInv, EffectInv, BeforeTrade, BeforeOrder, Id
<1>5. VerdictInv' BY <1>1 DEF IInv, VerdictInv, True
<1> QED BY <1>2, <1>3, <1>4, <1>5

LEMMA InvCrash ==
  ASSUME IInv, Crash PROVE ClaimInv' /\ EffectInv' /\ TradeInv' /\ VerdictInv'
<1>1. /\ taken \in Nat /\ delivered \in Nat /\ taken <= delivered /\ taken' = delivered
      /\ pc' = "idle" /\ UNCHANGED <<log, pool, row, placed, trade>>
  BY DEF IInv, Crash, TypeOK, StreamOK
<1>2. ClaimInv'
  <2>1. \A k \in Key : row[k].by # 0 => row[k].by \in Nat /\ row[k].by <= taken
    BY DEF IInv, ClaimInv, TypeOK, DbOK, Id
  <2> QED BY <1>1, <2>1 DEF IInv, ClaimInv, HoldsClaim
<1>3. EffectInv'
  BY <1>1 DEF IInv, EffectInv, BeforeOrder, TradeSteps, Id
<1>4. TradeInv' BY <1>1 DEF IInv, TradeInv, BeforeTrade, BeforeOrder
<1>5. VerdictInv' BY <1>1 DEF IInv, VerdictInv, True
<1> QED BY <1>2, <1>3, <1>4, <1>5

LEMMA InvPublishDecision ==
  ASSUME IInv, NEW d \in Decisions, PublishDecision(d)
  PROVE  ClaimInv' /\ EffectInv' /\ TradeInv' /\ VerdictInv'
<1>1. /\ UNCHANGED <<taken, pc, pool, row, placed, trade, verdict, target>>
      /\ \A i \in 1..Len(log) : log'[i] = log[i]
  BY DEF IInv, PublishDecision, TypeOK, StreamOK
<1>2. /\ taken \in Nat /\ Len(log) \in Nat /\ taken <= Len(log)
      /\ (taken # 0 => Cur' = Cur) /\ (pc # "idle" => taken # 0)
  BY <1>1 DEF IInv, TypeOK, StreamOK, ProcessOK, Cur
<1>3. \A i \in Id : i <= taken => log'[i] = log[i]
  BY <1>1, <1>2 DEF Id
<1>4. \A k \in Key : row[k].by # 0 => row[k].by \in Id /\ row[k].by <= taken
  BY DEF IInv, ClaimInv, TypeOK, DbOK
<1>5. ClaimInv' BY <1>1, <1>2, <1>3, <1>4 DEF IInv, ClaimInv, HoldsClaim
<1>6. EffectInv'
  <2>1. \A i \in Id : placed[i] = 1 => log'[i] = log[i]
    BY <1>2, <1>3 DEF IInv, EffectInv, Id
  <2> QED BY <1>1, <2>1 DEF IInv, EffectInv
<1>7. TradeInv' BY <1>1 DEF IInv, TradeInv
<1>8. VerdictInv' BY <1>1, <1>2 DEF IInv, VerdictInv, True
<1> QED BY <1>5, <1>6, <1>7, <1>8

LEMMA InvRestart ==
  ASSUME HasPool, IInv, Restart PROVE ClaimInv' /\ EffectInv' /\ TradeInv' /\ VerdictInv'
<1>1. pool' = TRUE BY ConstantsAssumption DEF Restart, HasPool
<1>2. UNCHANGED <<log, taken, pc, row, placed, trade, verdict, target>> BY DEF Restart
<1> QED
  BY <1>1, <1>2 DEF IInv, ClaimInv, EffectInv, TradeInv, VerdictInv, True, Cur

(* Steps that touch nothing the invariant speaks of.                       *)
LEMMA InvElsewhere ==
  ASSUME IInv, UNCHANGED <<log, taken, pc, pool, row, placed, trade, verdict, target>>
  PROVE  ClaimInv' /\ EffectInv' /\ TradeInv' /\ VerdictInv'
BY DEF IInv, ClaimInv, EffectInv, TradeInv, VerdictInv, True, Cur

LEMMA InvInit == ASSUME HasPool, Init PROVE IInv
<1>1. TypeOK BY TypeInit
<1>2. /\ pool = TRUE /\ pc = "idle" /\ taken = 0 /\ row = [k \in Key |-> NoRow]
      /\ placed = [i \in Id |-> 0] /\ trade = [i \in Id |-> NoTrade]
  BY ConstantsAssumption DEF HasPool, Init
<1>3. ClaimInv BY <1>2 DEF ClaimInv, NoRow, HoldsClaim
<1>4. EffectInv BY <1>2 DEF EffectInv, BeforeOrder, TradeSteps
<1>5. TradeInv BY <1>2 DEF TradeInv, NoTrade, BeforeTrade, BeforeOrder
<1>6. VerdictInv BY <1>2, VagueStatus DEF VerdictInv, True, NoRow
<1> QED BY <1>1, <1>3, <1>4, <1>5, <1>6 DEF IInv

LEMMA InvNext == ASSUME HasPool, IInv, [Next]_vars PROVE IInv'
<1>1. TypeOK' BY TypeNext DEF IInv
<1>2. ClaimInv' /\ EffectInv' /\ TradeInv' /\ VerdictInv'
  <2>1. CASE \E d \in Decisions : PublishDecision(d) BY <2>1, InvPublishDecision
  <2>2. CASE \E b \in BOOLEAN : SetKillSwitch(b) \/ SetExecutorEnabled(b)
    BY <2>2, InvElsewhere DEF SetKillSwitch, SetExecutorEnabled
  <2>3. CASE Crash BY <2>3, InvCrash
  <2>4. CASE Restart BY <2>4, InvRestart
  <2>5. CASE DeliverNext BY <2>5, InvElsewhere DEF DeliverNext
  <2>6. CASE ReceiveDecision BY <2>6, InvReceiveDecision
  <2>7. CASE HandlerStep
    BY <2>7, InvClaimProcessedEvent, InvUpsertClaimAudit, InvReadExecutorFlag,
       InvReadKillSwitchAndGate, InvPaperFill, InvGuardSide, InvGuardCount,
       InvSubmitOrder, InvPersistFills, InvConfigureTrailing, InvPersistTrade,
       InvSelectTradeToClose, InvWriteClose, InvMarkRow, InvMarkAudit, InvEchoEvent
       DEF HandlerStep
  <2>8. CASE UNCHANGED vars BY <2>8, InvElsewhere DEF vars
  <2>9. CASE \E t \in Tasks : CallHangs(t) BY <2>9, InvElsewhere DEF CallHangs
  <2> QED BY <2>1, <2>2, <2>3, <2>4, <2>5, <2>6, <2>7, <2>8, <2>9 DEF Next, Environment
<1> QED BY <1>1, <1>2 DEF IInv

\* The invariant behind the theorems below holds in every state.
THEOREM Invariance == HasPool => (Spec => []IInv)
<1> SUFFICES ASSUME HasPool PROVE Spec => []IInv OBVIOUS
<1>1. Init => IInv BY InvInit
<1>2. IInv /\ [Next]_vars => IInv' BY InvNext
<1> QED BY <1>1, <1>2, PTL DEF Spec
-----------------------------------------------------------------------------
(* What follows from it.                                                   *)

LEMMA EffectsBelongToOwner ==
  ASSUME IInv, NEW k \in Key PROVE EffectsOf(k) \subseteq {row[k].by}
BY DEF IInv, EffectInv, EffectsOf

LEMMA OneEffect == IInv => AtMostOneEffectPerKey
<1> SUFFICES ASSUME IInv PROVE AtMostOneEffectPerKey OBVIOUS
<1>1. \A i \in Id : placed[i] <= 1 BY DEF IInv, EffectInv
<1>2. ASSUME NEW k \in Key PROVE Cardinality(EffectsOf(k)) <= 1
  <2>1. EffectsOf(k) = {} \/ EffectsOf(k) = {row[k].by} BY EffectsBelongToOwner
  <2> QED BY <2>1, FS_EmptySet, FS_Singleton
<1> QED BY <1>1, <1>2 DEF AtMostOneEffectPerKey

\* However often a source event is published, and whatever crashes or fails in
\* between, an executor with Postgres carries it out at most once.
THEOREM AtMostOnce == HasPool => (Spec => []AtMostOneEffectPerKey)
<1> SUFFICES ASSUME HasPool PROVE Spec => []AtMostOneEffectPerKey OBVIOUS
<1>1. Spec => []IInv BY Invariance
<1> QED BY <1>1, OneEffect, PTL

\* A row that says an event was opened, carried out or refused says the truth.
THEOREM Truthful == HasPool => (Spec => []RowTellsTheTruth)
<1> SUFFICES ASSUME HasPool PROVE Spec => []RowTellsTheTruth OBVIOUS
<1>1. IInv => RowTellsTheTruth BY DEF IInv, VerdictInv, True, RowTellsTheTruth
<1>2. Spec => []IInv BY Invariance
<1> QED BY <1>1, <1>2, PTL

\* No local trade without its order (or, on paper, without its fill).
THEOREM NoPhantoms == HasPool => (Spec => []NoPhantomTrade)
<1> SUFFICES ASSUME HasPool PROVE Spec => []NoPhantomTrade OBVIOUS
<1>1. IInv => NoPhantomTrade BY DEF IInv, TradeInv, NoPhantomTrade
<1>2. Spec => []IInv BY Invariance
<1> QED BY <1>1, <1>2, PTL
-----------------------------------------------------------------------------
(* The refinement: which steps write a row, and which take effect.         *)

Claiming(k) ==
  /\ row[k].status = "none" /\ row'[k] = [status |-> "claimed", by |-> taken]
  /\ taken \in Id

Recording(k) ==
  /\ row[k].status = "claimed" /\ row[k].by \in Id
  /\ row'[k].by = row[k].by /\ row'[k].status \in Final
  /\ True(row'[k].status, row[k].by)

LEMMA RowStep ==
  ASSUME IInv, [Next]_vars
  PROVE  \/ row' = row
         \/ /\ placed' = placed /\ log' = log
            /\ \E k \in Key : /\ Claiming(k) \/ Recording(k)
                              /\ \A x \in Key : x # k => row'[x] = row[x]
<1>1. CASE ClaimProcessedEvent
  <2> DEFINE R == [status |-> "claimed", by |-> taken]
  <2>1. Cur.key \in Key /\ taken \in Id
    BY <1>1, DecisionInHand DEF IInv, ClaimProcessedEvent
  <2>2. placed' = placed /\ log' = log BY <1>1 DEF ClaimProcessedEvent
  <2>3. \/ row' = row
        \/ row[Cur.key].status = "none" /\ row' = [row EXCEPT ![Cur.key] = R]
    BY <1>1 DEF ClaimProcessedEvent, Free
  <2>4. row \in [Key -> [status : Status, by : Id \cup {0}]] BY DEF IInv, TypeOK, DbOK
  <2> QED BY <2>1, <2>2, <2>3, <2>4 DEF Claiming
<1>2. CASE MarkRow
  <2> DEFINE R == [status |-> verdict, by |-> taken]
  <2>1. /\ Cur.key \in Key /\ taken \in Id /\ verdict \in Final /\ True(verdict, taken)
        /\ row[Cur.key] = [status |-> "claimed", by |-> taken]
    BY <1>2, DecisionInHand DEF IInv, ClaimInv, VerdictInv, HoldsClaim, MarkRow
  <2>2. placed' = placed /\ log' = log BY <1>2 DEF MarkRow
  <2>3. row' = row \/ row' = [row EXCEPT ![Cur.key] = R]
    BY <1>2 DEF MarkRow
  <2>4. row \in [Key -> [status : Status, by : Id \cup {0}]] BY DEF IInv, TypeOK, DbOK
  <2> QED BY <2>1, <2>2, <2>3, <2>4 DEF Recording
<1>3. CASE Environment \/ DeliverNext \/ ReceiveDecision \/ UNCHANGED vars
  BY <1>3 DEF Environment, PublishDecision, SetKillSwitch, SetExecutorEnabled, Crash,
     Restart, CallHangs, DeliverNext, ReceiveDecision, vars
<1>4. CASE UpsertClaimAudit \/ ReadExecutorFlag \/ ReadKillSwitchAndGate \/ PaperFill
           \/ GuardSide \/ GuardCount \/ SubmitOrder
  BY <1>4 DEF UpsertClaimAudit, ReadExecutorFlag, ReadKillSwitchAndGate, PaperFill,
     GuardSide, GuardCount, SubmitOrder
<1>5. CASE PersistFills \/ ConfigureTrailing \/ PersistTrade \/ SelectTradeToClose
           \/ WriteClose \/ MarkAudit \/ EchoEvent
  BY <1>5 DEF PersistFills, ConfigureTrailing, PersistTrade, SelectTradeToClose,
     WriteClose, MarkAudit, EchoEvent
<1> QED BY <1>1, <1>2, <1>3, <1>4, <1>5 DEF Next, HandlerStep

LEMMA EffectsStep ==
  ASSUME IInv, [Next]_vars
  PROVE  \/ placed' = placed
         \/ /\ row' = row /\ log' = log /\ taken \in Id /\ placed[taken] = 0
            /\ row[Cur.key] = [status |-> "claimed", by |-> taken]
            /\ placed' = [placed EXCEPT ![taken] = @ + 1]
<1>1. ASSUME pc \in HoldsClaim
      PROVE  taken \in Id /\ row[Cur.key] = [status |-> "claimed", by |-> taken]
  BY <1>1, DecisionInHand DEF IInv, ClaimInv, HoldsClaim
<1>2. CASE SubmitOrder
  BY <1>1, <1>2 DEF SubmitOrder, NothingPlaced, FillReport, OnRefusal, TakeEffect,
    HoldsClaim, IInv, EffectInv, BeforeOrder
<1>3. CASE PersistTrade
  BY <1>1, <1>3 DEF PersistTrade, TakeEffect, HoldsClaim, IInv, EffectInv, TradeSteps
<1>4. CASE WriteClose
  BY <1>1, <1>4 DEF WriteClose, TakeEffect, HoldsClaim, IInv, EffectInv, TradeSteps
<1>5. CASE Environment \/ DeliverNext \/ ReceiveDecision \/ UNCHANGED vars
  BY <1>5 DEF Environment, PublishDecision, SetKillSwitch, SetExecutorEnabled, Crash,
     Restart, CallHangs, DeliverNext, ReceiveDecision, vars
<1>6. CASE ClaimProcessedEvent \/ UpsertClaimAudit \/ ReadExecutorFlag
           \/ ReadKillSwitchAndGate \/ PaperFill \/ GuardSide \/ GuardCount
  BY <1>6 DEF ClaimProcessedEvent, UpsertClaimAudit, ReadExecutorFlag,
     ReadKillSwitchAndGate, PaperFill, GuardSide, GuardCount
<1>7. CASE PersistFills \/ ConfigureTrailing \/ SelectTradeToClose
           \/ MarkRow \/ MarkAudit \/ EchoEvent
  BY <1>7 DEF PersistFills, ConfigureTrailing, SelectTradeToClose, MarkRow, MarkAudit, EchoEvent
<1> QED BY <1>2, <1>3, <1>4, <1>5, <1>6, <1>7 DEF Next, HandlerStep

\* The event that claimed a key keeps it, and its verdict is written once.
THEOREM VerdictsAreFinal == HasPool => (Spec => VerdictIsFinal)
<1> SUFFICES ASSUME HasPool PROVE Spec => VerdictIsFinal OBVIOUS
<1> DEFINE Step == \A k \in Key :
                     /\ row[k].status # "none" => row'[k].by = row[k].by
                     /\ row[k].status \in Final => row'[k] = row[k]
<1>1. IInv /\ [Next]_vars => [Step]_row
  <2> SUFFICES ASSUME IInv, [Next]_vars, row' # row PROVE Step
    OBVIOUS
  <2>1. PICK k \in Key : /\ Claiming(k) \/ Recording(k)
                         /\ \A x \in Key : x # k => row'[x] = row[x]
    BY RowStep
  <2>2. "claimed" \notin Final /\ "none" \notin Final
    BY VagueStatus DEF Final, Vague, PaperOther, LiveOther
  <2> QED BY <2>1, <2>2 DEF Claiming, Recording
<1>2. Spec => []IInv BY Invariance
<1> QED BY <1>1, <1>2, PTL DEF Spec, VerdictIsFinal

LEMMA LogGrows ==
  ASSUME IInv, [Next]_vars
  PROVE  \A i \in Id : placed[i] = 1 => i <= Len(log) /\ i <= Len(log') /\ log'[i] = log[i]
<1>1. \A i \in Id : placed[i] = 1 => i \in 1..Len(log)
  BY DEF IInv, EffectInv, TypeOK, StreamOK, Id
<1>2. CASE log' = log BY <1>1, <1>2 DEF IInv, TypeOK, StreamOK
<1>3. CASE \E d \in Decisions : PublishDecision(d)
  BY <1>1, <1>3 DEF PublishDecision, IInv, TypeOK, StreamOK
<1>4. log' = log \/ \E d \in Decisions : PublishDecision(d)
  <2>1. CASE Environment BY <2>1 DEF Environment, SetKillSwitch, SetExecutorEnabled,
          Crash, Restart, CallHangs
  <2>2. CASE DeliverNext \/ ReceiveDecision \/ UNCHANGED vars
    BY <2>2 DEF DeliverNext, ReceiveDecision, vars
  <2>3. CASE ClaimProcessedEvent \/ UpsertClaimAudit \/ ReadExecutorFlag
             \/ ReadKillSwitchAndGate \/ PaperFill \/ GuardSide \/ GuardCount \/ SubmitOrder
    BY <2>3 DEF ClaimProcessedEvent, UpsertClaimAudit, ReadExecutorFlag,
       ReadKillSwitchAndGate, PaperFill, GuardSide, GuardCount, SubmitOrder
  <2>4. CASE PersistFills \/ ConfigureTrailing \/ PersistTrade \/ SelectTradeToClose
             \/ WriteClose \/ MarkRow \/ MarkAudit \/ EchoEvent
    BY <2>4 DEF PersistFills, ConfigureTrailing, PersistTrade, SelectTradeToClose,
       WriteClose, MarkRow, MarkAudit, EchoEvent
  <2> QED BY <2>1, <2>2, <2>3, <2>4 DEF Next, HandlerStep
<1> QED BY <1>2, <1>3, <1>4

LEMMA SameEffects ==
  ASSUME IInv, [Next]_vars, placed' = placed
  PROVE  effectBar' = effectBar
<1>1. \A i \in Id : placed[i] > 0 <=> placed[i] = 1 BY DEF IInv, EffectInv
<1>2. \A k \in Key : EffectsOf(k)' = EffectsOf(k)
  BY <1>1, LogGrows DEF EffectsOf
<1> QED BY <1>2 DEF effectBar

LEMMA OutcomeTypes ==
  /\ \A s \in Final : OutcomeOf(s) \in Idem!Outcome \ {"none"}
  /\ OutcomeOf("none") = "none" /\ OutcomeOf("claimed") = "none"
  /\ \A s \in Final : OutcomeOf(s) = "effective" => s \in Effective
  /\ \A s \in Final : OutcomeOf(s) = "refused" => s \in Refused
<1>1. "claimed" \notin Vague /\ "none" \notin Vague
  BY DEF Vague, PaperOther, LiveOther
<1> QED BY <1>1, VagueStatus, StatusTypes DEF OutcomeOf, Idem!Outcome

LEMMA RefinesInit == Init => Idem!Init
<1> SUFFICES ASSUME Init PROVE Idem!Init OBVIOUS
<1>1. row = [k \in Key |-> NoRow] /\ placed = [i \in Id |-> 0] BY DEF Init
<1>2. \A k \in Key : EffectsOf(k) = {} BY <1>1 DEF EffectsOf
<1> QED BY <1>1, <1>2, OutcomeTypes DEF Idem!Init, ownerBar, effectBar, outcomeBar, NoRow

LEMMA RefinesNext ==
  ASSUME IInv, [Next]_vars
  PROVE  [Idem!Next]_(Idem!vars)
<1>1. row \in [Key -> [status : Status, by : Id \cup {0}]] BY DEF IInv, TypeOK, DbOK
<1>2. CASE row' = row /\ placed' = placed
  BY <1>2, SameEffects DEF Idem!vars, ownerBar, outcomeBar
<1>3. CASE row' # row
  <2>1. placed' = placed BY <1>3, RowStep
  <2>2. effectBar' = effectBar BY <2>1, SameEffects
  <2>3. PICK k \in Key : /\ Claiming(k) \/ Recording(k)
                         /\ \A x \in Key : x # k => row'[x] = row[x]
    BY <1>3, RowStep
  <2>4. CASE Claiming(k)
    <3>1. ownerBar[k] = 0 /\ outcomeBar[k] = "none" /\ taken \in Id
      BY <2>4, OutcomeTypes DEF Claiming, IInv, ClaimInv, ownerBar, outcomeBar
    <3>2. ownerBar' = [ownerBar EXCEPT ![k] = taken]
      <4>1. \A x \in Key : row'[x].by = IF x = k THEN taken ELSE row[x].by
        BY <2>3, <2>4 DEF Claiming
      <4> QED BY <4>1 DEF ownerBar
    <3>3. outcomeBar' = outcomeBar
      BY <2>3, <2>4, OutcomeTypes DEF outcomeBar, Claiming
    <3>4. Idem!Claim(k, taken) BY <2>2, <3>1, <3>2, <3>3 DEF Idem!Claim
    <3> QED BY <3>1, <3>4 DEF Idem!Next
  <2>5. CASE Recording(k)
    <3> DEFINE s == row'[k].status
               o == OutcomeOf(s)
    <3>1. /\ ownerBar[k] = row[k].by /\ row[k].by \in Id /\ outcomeBar[k] = "none"
          /\ s \in Final /\ True(s, row[k].by)
      BY <2>5, OutcomeTypes DEF Recording, ownerBar, outcomeBar
    <3>2. ownerBar' = ownerBar
      BY <2>3, <2>5 DEF ownerBar, Recording
    <3>3. outcomeBar' = [outcomeBar EXCEPT ![k] = o]
      BY <2>3 DEF outcomeBar
    <3>4. row[k].by <= Len(log) /\ log[row[k].by].key = k
      BY <3>1 DEF IInv, ClaimInv, TypeOK, StreamOK, Id
    <3>5. EffectsOf(k) \subseteq {row[k].by} BY EffectsBelongToOwner
    <3>6. s \in Effective => EffectsOf(k) = {row[k].by}
      BY <3>1, <3>4, <3>5 DEF True, EffectsOf
    <3>7. s \in Refused => EffectsOf(k) = {}
      BY <3>1, <3>5 DEF True, EffectsOf
    <3>8. effectBar[k] = EffectsOf(k) BY DEF effectBar
    <3>9. 0 \notin Id BY DEF Id
    <3> HIDE DEF s, o
    <3>10. /\ o \in Idem!Outcome \ {"none"}
           /\ o = "effective" => s \in Effective
           /\ o = "refused" => s \in Refused
      BY <3>1, OutcomeTypes DEF o
    <3>11. Idem!Conclude(k, o)
      BY <2>2, <3>1, <3>2, <3>3, <3>6, <3>7, <3>8, <3>9, <3>10 DEF Idem!Conclude
    <3> QED BY <3>10, <3>11 DEF Idem!Next
  <2> QED BY <2>3, <2>4, <2>5
<1>4. CASE placed' # placed
  <2>1. /\ row' = row /\ log' = log /\ taken \in Id /\ placed[taken] = 0
        /\ row[Cur.key] = [status |-> "claimed", by |-> taken]
        /\ placed' = [placed EXCEPT ![taken] = @ + 1]
    BY <1>4, EffectsStep
  <2>2. Cur.key \in Key /\ taken <= Len(log)
    <3>1. taken <= Len(log) /\ taken # 0 BY <2>1 DEF IInv, TypeOK, StreamOK, Id
    <3> QED BY <2>1, <3>1, LogEntry DEF IInv, Cur
  <2>3. PICK k \in Key : k = log[taken].key BY <2>2 DEF Cur
  <2>4. row[k] = [status |-> "claimed", by |-> taken] BY <2>1, <2>3 DEF Cur
  <2>5. EffectsOf(k) = {}
    BY <2>1, <2>4, EffectsBelongToOwner DEF EffectsOf
  <2>6. placed \in [Id -> Nat] BY DEF IInv, TypeOK, EffectOK
  <2>7. \A i \in Id : placed'[i] = IF i = taken THEN 1 ELSE placed[i] BY <2>1, <2>6
  <2>8. EffectsOf(k)' = {taken}
    <3>1. \A i \in Id : i <= Len(log) /\ log[i].key = k /\ placed[i] > 0 => FALSE
      BY <2>5 DEF EffectsOf
    <3>2. \A i \in Id : (i <= Len(log') /\ log'[i].key = k /\ placed'[i] > 0) <=> i = taken
      BY <2>1, <2>2, <2>3, <2>7, <3>1
    <3> QED BY <2>1, <3>2 DEF EffectsOf
  <2>9. \A x \in Key : x # k => EffectsOf(x)' = EffectsOf(x)
    BY <2>1, <2>3, <2>7 DEF EffectsOf
  <2>10. ownerBar' = ownerBar /\ outcomeBar' = outcomeBar
    BY <2>1 DEF ownerBar, outcomeBar
  <2>11. ownerBar[k] = taken /\ outcomeBar[k] = "none" /\ effectBar[k] = {} /\ taken # 0
    BY <2>1, <2>4, <2>5, OutcomeTypes DEF ownerBar, outcomeBar, effectBar, Id
  <2>12. effectBar' = [effectBar EXCEPT ![k] = {taken}]
    <3>1. \A x \in Key : EffectsOf(x)' = IF x = k THEN {taken} ELSE EffectsOf(x)
      BY <2>8, <2>9
    <3> QED BY <3>1 DEF effectBar
  <2>13. Idem!Perform(k) BY <2>10, <2>11, <2>12 DEF Idem!Perform
  <2> QED BY <2>13 DEF Idem!Next
<1> QED BY <1>2, <1>3, <1>4

\* Every behaviour of an executor with Postgres is one the abstract
\* specification of idempotent execution allows.
THEOREM Refinement == HasPool => (Spec => ImplementsIdempotentExecution)
<1> SUFFICES ASSUME HasPool PROVE Spec => ImplementsIdempotentExecution OBVIOUS
<1>1. Init => Idem!Init BY RefinesInit
<1>2. IInv /\ [Next]_vars => [Idem!Next]_(Idem!vars) BY RefinesNext
<1>3. Spec => []IInv BY Invariance
<1> QED BY <1>1, <1>2, <1>3, PTL DEF Spec, Idem!Spec, ImplementsIdempotentExecution
-----------------------------------------------------------------------------
(* The paper guards.                                                       *)

(* Between a guard's query and the INSERT nothing opens a trade: the one    *)
(* main loop is the only writer.                                            *)
PaperInv ==
  /\ \A i, j \in OpenIds : log[i].symbol = log[j].symbol => i = j
  /\ Cardinality(OpenIds) <= PaperMaxOpen
  /\ pc \in {"guard_count", "persist"} => OpenOn(Cur.symbol) = {}
  /\ pc = "persist" => Cardinality(OpenIds) < PaperMaxOpen

LEMMA OpenTypes ==
  ASSUME IInv
  PROVE  /\ OpenIds \subseteq Id /\ IsFiniteSet(OpenIds) /\ Cardinality(OpenIds) \in Nat
         /\ \A i \in OpenIds : placed[i] = 1
<1>1. IsFiniteSet(Id) BY FS_Interval, ConstantsAssumption DEF Id
<1>2. OpenIds \subseteq Id BY DEF OpenIds
<1>3. IsFiniteSet(OpenIds) BY <1>1, <1>2, FS_Subset
<1> QED BY <1>2, <1>3, FS_CardinalityType DEF IInv, TradeInv, OpenIds, IsOpen

LEMMA OpenStep ==
  ASSUME IInv, [Next]_vars, trade' = trade
  PROVE  /\ OpenIds' = OpenIds
         /\ \A i \in OpenIds : log'[i] = log[i]
BY OpenTypes, LogGrows DEF OpenIds, IsOpen

LEMMA PaperNext ==
  ASSUME ~Live, IInv, PaperInv, [Next]_vars
  PROVE  PaperInv'
<1>1. CASE PersistTrade
  <2>1. /\ taken \in Id /\ OpenOn(Cur.symbol) = {} /\ Cardinality(OpenIds) < PaperMaxOpen
        /\ pc' = "mark" /\ log' = log
    BY <1>1, DecisionInHand DEF IInv, PersistTrade, PaperInv, Opened
  <2>2. trade' = trade \/ trade' = [trade EXCEPT ![taken] = [status |-> "open", qty |-> fillQty]]
    BY <1>1 DEF PersistTrade
  <2>3. OpenIds' = OpenIds \/ OpenIds' = OpenIds \cup {taken}
    BY <2>1, <2>2 DEF OpenIds, IsOpen, IInv, TypeOK, DbOK
  <2>4. CASE OpenIds' = OpenIds BY <2>1, <2>4 DEF PaperInv
  <2>5. CASE OpenIds' = OpenIds \cup {taken}
    <3>1. \A i \in OpenIds : log[i].symbol # log[taken].symbol
      BY <2>1 DEF OpenOn, Cur
    <3>2. taken \notin OpenIds BY <3>1
    <3>3. Cardinality(OpenIds') = Cardinality(OpenIds) + 1
      BY <2>5, <3>2, OpenTypes, FS_AddElement
    <3>4. Cardinality(OpenIds') <= PaperMaxOpen
      BY <2>1, <3>3, OpenTypes, ConstantsAssumption DEF Qty
    <3> QED BY <2>1, <2>5, <3>1, <3>4 DEF PaperInv
  <2> QED BY <2>3, <2>4, <2>5
<1>2. CASE WriteClose
  <2> DEFINE left == trade[target].qty - fillQty
  <2>1. pc' = "mark" /\ log' = log BY <1>2 DEF WriteClose, CloseVerdict
  <2>2. \/ trade' = trade
        \/ trade' = [trade EXCEPT ![target] = [@ EXCEPT !.qty = left]]
        \/ trade' = [trade EXCEPT ![target] = [@ EXCEPT !.status = "closed"]]
    BY <1>2 DEF WriteClose
  <2> HIDE DEF left
  <2>3. OpenIds' \subseteq OpenIds
    BY <2>2 DEF OpenIds, IsOpen, IInv, TypeOK, DbOK
  <2>4. Cardinality(OpenIds') <= Cardinality(OpenIds) /\ Cardinality(OpenIds') \in Nat
    BY <2>3, OpenTypes, FS_Subset, FS_CardinalityType
  <2>5. Cardinality(OpenIds') <= PaperMaxOpen
    BY <2>4, OpenTypes, ConstantsAssumption DEF PaperInv, Qty
  <2> QED BY <2>1, <2>3, <2>5 DEF PaperInv
<1>3. CASE GuardSide
  <2>1. trade' = trade /\ log' = log /\ Cur' = Cur /\ pc' # "persist"
    BY <1>3 DEF GuardSide, Cur
  <2>2. pc' = "guard_count" => OpenOn(Cur.symbol) = {} BY <1>3 DEF GuardSide, Blocking
  <2> QED BY <2>1, <2>2, OpenStep DEF PaperInv, OpenOn
<1>4. CASE GuardCount
  <2>1. trade' = trade /\ log' = log /\ Cur' = Cur /\ pc' # "guard_count"
    BY <1>4 DEF GuardCount, Cur
  <2>2. pc = "guard_count" BY <1>4 DEF GuardCount
  <2>3. pc' = "persist" => Cardinality(OpenIds) < PaperMaxOpen
    BY <1>4, OpenTypes, ConstantsAssumption DEF GuardCount, AtCapacity, Qty
  <2> QED BY <2>1, <2>2, <2>3, OpenStep DEF PaperInv, OpenOn
<1>5. CASE \E d \in Decisions : PublishDecision(d)
  <2>1. trade' = trade /\ pc' = pc /\ taken' = taken /\ (pc # "idle" => Cur' = Cur)
    BY <1>5, DecisionInHand DEF PublishDecision, IInv, TypeOK, StreamOK, Cur
  <2> QED BY <2>1, OpenStep DEF PaperInv, OpenOn
<1>6. CASE \/ UNCHANGED vars \/ DeliverNext \/ Restart
           \/ \E b \in BOOLEAN : SetKillSwitch(b) \/ SetExecutorEnabled(b)
           \/ \E t \in Tasks : CallHangs(t)
  <2>1. UNCHANGED <<trade, log, taken, pc>>
    BY <1>6 DEF vars, DeliverNext, Restart, SetKillSwitch, SetExecutorEnabled, CallHangs
  <2> QED BY <2>1, OpenStep DEF PaperInv, OpenOn, Cur
<1>7. CASE ReceiveDecision \/ Crash \/ ClaimProcessedEvent \/ UpsertClaimAudit
           \/ ReadExecutorFlag \/ ReadKillSwitchAndGate \/ PaperFill
  <2>1. trade' = trade /\ log' = log /\ pc' \notin {"guard_count", "persist"}
    BY <1>7 DEF ReceiveDecision, Crash, ClaimProcessedEvent, UpsertClaimAudit, Abandon,
       Dispatch, ReadExecutorFlag, ReadKillSwitchAndGate, PaperFill
  <2> QED BY <2>1, OpenStep DEF PaperInv
<1>8. CASE SubmitOrder \/ PersistFills \/ ConfigureTrailing
  BY <1>8 DEF IInv, EffectInv, SubmitOrder, NothingPlaced, FillReport, PersistFills,
    ConfigureTrailing
<1>9. CASE SelectTradeToClose \/ MarkRow \/ MarkAudit \/ EchoEvent
  <2>1. trade' = trade /\ log' = log /\ pc' \notin {"guard_count", "persist"}
    BY <1>9 DEF SelectTradeToClose, CloseVerdict, MarkRow, OnMarkErr, MarkAudit, EchoEvent
  <2> QED BY <2>1, OpenStep DEF PaperInv
<1> QED
  BY <1>1, <1>2, <1>3, <1>4, <1>5, <1>6, <1>7, <1>8, <1>9 DEF Next, Environment, HandlerStep

\* The paper account never holds two open trades of one symbol, on either side,
\* and never more than paper_max_open_positions.
THEOREM PaperGuards == ~Live => (Spec => []PaperBookIsGuarded)
<1> SUFFICES ASSUME ~Live PROVE Spec => []PaperBookIsGuarded
  OBVIOUS
<1>1. Spec => []IInv BY Invariance DEF HasPool
<1>2. Init => PaperInv
  <2> SUFFICES ASSUME Init PROVE PaperInv OBVIOUS
  <2>1. OpenIds = {} /\ pc = "idle" BY DEF Init, OpenIds, IsOpen, NoTrade
  <2> QED BY <2>1, FS_EmptySet, ConstantsAssumption DEF PaperInv, Qty
<1>3. IInv /\ PaperInv /\ [Next]_vars => PaperInv' BY PaperNext
<1>4. IInv /\ PaperInv => PaperBookIsGuarded
  <2> SUFFICES ASSUME IInv, PaperInv, NEW s \in Symbol PROVE Cardinality(OpenOn(s)) <= 1
    BY DEF PaperBookIsGuarded, PaperOneOpenPerSymbol, PaperOpenLimit, PaperInv
  <2>1. OpenOn(s) = {} \/ \E i \in OpenOn(s) : OpenOn(s) = {i}
    BY DEF PaperInv, OpenOn
  <2> QED BY <2>1, FS_EmptySet, FS_Singleton
<1> QED BY <1>1, <1>2, <1>3, <1>4, PTL DEF Spec

----------------------------------------------------------------------------
(* What an operator relies on: that the audit table never runs ahead of the *)
(* idempotency rows, that a control never holds back a close, and that the  *)
(* kill switch lets at most the entry in hand through.  The first two hold  *)
(* with and without Postgres, the last one needs it.                        *)
ControlVerdict == {"blocked_executor_disabled", "blocked_kill_switch"}
Claimed(i)     == [status |-> "claimed", by |-> i]

(* What the handler knows of the row it will write the audit after.        *)
HandlerInv ==
  /\ pc \in HoldsClaim /\ pool => row[Cur.key] = Claimed(taken)
  /\ pc \in {"mark", "trailing"} => verdict \in Final
  /\ pc = "mark_audit" => verdict \in Final
                          /\ row[Cur.key] = [status |-> verdict, by |-> taken]
  /\ pc = "idle" => verdict = "none"
  /\ pc # "idle" /\ verdict \in ControlVerdict => ~IsClose(Cur)

AuditInv ==
  /\ \A i \in Id : audit[i] # "none" => i <= taken
  /\ AuditNeverAhead
  /\ ControlsNeverHoldBackAClose

OInv == TypeOK /\ HandlerInv /\ AuditInv

LEMMA VerdictKinds ==
  /\ "claimed" \notin Final /\ "none" \notin Final /\ ControlVerdict \subseteq Final
  /\ ControlVerdict \cap (Vague \cup Effective \cup PaperRefused \cup {"ignored_hold"}) = {}
BY DEF ControlVerdict, Final, Effective, Entered, Refused, Vague, PaperOpened, LiveOpened,
   PaperClosed, LiveClosed, PaperOther, LiveOther, BlockedStatus, PaperRefused

LEMMA OpenVerdicts ==
  ASSUME NEW v \in Effective \cup Vague \cup PaperRefused \cup {"ignored_hold"}
  PROVE  v \in Final /\ v \notin ControlVerdict
BY VerdictKinds, StatusTypes

(* A step of the handler that writes neither table.                        *)
LEMMA QuietStep ==
  ASSUME OInv, pc # "idle", UNCHANGED <<row, audit, log, taken, pool>>,
         pc' \in HoldsClaim /\ pool => pc \in HoldsClaim,
         pc' \in {"mark", "trailing"} => verdict' \in Final,
         pc' # "mark_audit", pc' # "idle",
         verdict' \in ControlVerdict => verdict' = verdict \/ ~IsClose(Cur)
  PROVE  HandlerInv' /\ AuditInv'
<1>1. Cur' = Cur /\ IsClose(Cur') = IsClose(Cur) BY DEF Cur, IsClose
<1>2. HandlerInv' BY <1>1 DEF OInv, HandlerInv, IsClose
<1>3. AuditInv'
  BY DEF OInv, AuditInv, AuditNeverAhead, ControlsNeverHoldBackAClose, IsClose
<1> QED BY <1>2, <1>3

LEMMA QuietHandler ==
  ASSUME OInv,
         \/ ReadExecutorFlag \/ ReadKillSwitchAndGate \/ PaperFill \/ GuardSide
         \/ GuardCount \/ SubmitOrder \/ PersistFills \/ ConfigureTrailing
         \/ PersistTrade \/ SelectTradeToClose \/ WriteClose
  PROVE  HandlerInv' /\ AuditInv'
<1>1. CASE ReadExecutorFlag
  BY <1>1, QuietStep DEF ReadExecutorFlag, Abandon, HoldsClaim
<1>2. CASE ReadKillSwitchAndGate
  <2>1. Gate(Cur, enabled, pool /\ killOn) # "pass" =>
          /\ Gate(Cur, enabled, pool /\ killOn) \in BlockedStatus
          /\ Gate(Cur, enabled, pool /\ killOn) \in ControlVerdict => ~IsClose(Cur)
    BY DEF Gate, BlockedStatus, ControlVerdict
  <2>2. /\ pc = "read_kill" /\ UNCHANGED <<row, audit, log, taken, pool>>
        /\ \/ /\ pc' = "mark" /\ verdict' \in BlockedStatus
              /\ verdict' \in ControlVerdict => ~IsClose(Cur)
           \/ pc' \in {"submit", "fill", "echo"} /\ verdict' = verdict
    BY <1>2, <2>1 DEF ReadKillSwitchAndGate, Abandon
  <2>3. BlockedStatus \subseteq Final BY StatusTypes
  <2> QED BY <2>2, <2>3, QuietStep DEF HoldsClaim
<1>3. CASE PaperFill
  <2>1. "paper_not_filled" \in PaperRefused BY DEF PaperRefused
  <2> QED BY <1>3, <2>1, OpenVerdicts, QuietStep DEF PaperFill, HoldsClaim
<1>4. CASE GuardSide \/ GuardCount
  <2>1. /\ pc \in {"guard_side", "guard_count"} /\ UNCHANGED <<row, audit, log, taken, pool>>
        /\ \/ pc' = "mark" /\ verdict' \in PaperRefused
           \/ pc' \in {"guard_count", "persist"} /\ verdict' = verdict
    BY <1>4 DEF GuardSide, GuardCount, PaperRefused
  <2> QED BY <2>1, OpenVerdicts, QuietStep DEF HoldsClaim
<1>5. CASE SubmitOrder
  <2>1. /\ pc = "submit" /\ UNCHANGED <<row, audit, log, taken, pool>>
        /\ \/ pc' = "mark" /\ verdict' = "error"
           \/ pc' = "fills" /\ verdict' = verdict
    BY <1>5 DEF SubmitOrder, NothingPlaced, OnRefusal
  <2>2. "error" \in Vague BY StatusTypes
  <2> QED BY <2>1, <2>2, OpenVerdicts, QuietStep DEF HoldsClaim
<1>6. CASE PersistFills
  BY <1>6, QuietStep DEF PersistFills, HoldsClaim
<1>7. CASE ConfigureTrailing
  <2>1. /\ pc = "trailing" /\ pc' = "mark" /\ UNCHANGED <<row, audit, log, taken, pool>>
        /\ verdict' \in {verdict, "submitted_trailing_not_set"}
    BY <1>7 DEF ConfigureTrailing
  <2>2. "submitted_trailing_not_set" \in Effective BY StatusTypes DEF LiveOpened
  <2> QED BY <2>1, <2>2, OpenVerdicts, QuietStep DEF HoldsClaim, OInv, HandlerInv
<1>8. CASE PersistTrade
  <2>1. /\ pc = "persist" /\ pc' \in {"trailing", "mark"}
        /\ UNCHANGED <<row, audit, log, taken, pool>>
        /\ verdict' \in {"submitted", "paper_open", "submitted_no_persist",
                         "paper_open_no_persist"}
    BY <1>8 DEF PersistTrade, Opened, NotPersisted
  <2>2. verdict' \in Effective \cup Vague
    BY <2>1, StatusTypes DEF LiveOpened, PaperOpened, LiveOther, PaperOther
  <2> QED BY <2>1, <2>2, OpenVerdicts, QuietStep DEF HoldsClaim
<1>9. CASE SelectTradeToClose
  <2>1. /\ pc = "close_read" /\ UNCHANGED <<row, audit, log, taken, pool>>
        /\ \/ pc' = "close_write" /\ verdict' = verdict
           \/ pc' = "mark" /\ verdict' \in PaperOther \cup LiveOther
    BY <1>9 DEF SelectTradeToClose, CloseVerdict, PaperOther, LiveOther
  <2> QED BY <2>1, StatusTypes, OpenVerdicts, QuietStep DEF HoldsClaim
<1>10. CASE WriteClose
  <2>1. /\ pc = "close_write" /\ pc' = "mark" /\ UNCHANGED <<row, audit, log, taken, pool>>
        /\ verdict' \in PaperClosed \cup LiveClosed \cup PaperOther \cup LiveOther
    BY <1>10 DEF WriteClose, CloseVerdict, PaperClosed, LiveClosed, PaperOther, LiveOther
  <2> QED BY <2>1, StatusTypes, OpenVerdicts, QuietStep DEF HoldsClaim
<1> QED BY <1>1, <1>2, <1>3, <1>4, <1>5, <1>6, <1>7, <1>8, <1>9, <1>10

(* The audit of event i quotes row log[i].key: a row that has not been given *)
(* its verdict yet is quoted by nobody.                                      *)
LEMMA RowRewritten ==
  ASSUME OInv, NEW k \in Key, row[k].status \notin Final, NEW r,
         row' = [row EXCEPT ![k] = r], UNCHANGED <<audit, log, taken>>
  PROVE  AuditInv'
<1>1. row \in [Key -> [status : Status, by : Id \cup {0}]] BY DEF OInv, TypeOK, DbOK
<1>2. \A i \in Id : audit[i] \in Final => log[i].key # k
  BY DEF OInv, AuditInv, AuditNeverAhead
<1>3. \A i \in Id : audit[i] \in Final => log[i].key \in Key
  <2>1. taken <= Len(log) /\ Len(log) \in Nat /\ taken \in Nat
    BY DEF OInv, TypeOK, StreamOK
  <2>2. \A i \in Id : audit[i] \in Final => i <= taken
    BY VerdictKinds DEF OInv, AuditInv
  <2> QED BY <2>1, <2>2, LogEntry DEF OInv, Id
<1>4. AuditNeverAhead'
  BY <1>1, <1>2, <1>3 DEF OInv, AuditInv, AuditNeverAhead
<1> QED BY <1>4 DEF OInv, AuditInv, ControlsNeverHoldBackAClose, IsClose

LEMMA OperatorClaim ==
  ASSUME OInv, ClaimProcessedEvent PROVE HandlerInv' /\ AuditInv'
<1> DEFINE k == Cur.key
<1>1. /\ k \in Key /\ pc = "claim" /\ UNCHANGED <<audit, log, taken, pool>>
  BY DecisionInHand DEF OInv, ClaimProcessedEvent
<1>2. "error" \in Vague BY StatusTypes
<1>3. CASE row' = row /\ (pc' = "echo" \/ ~pool)
  <2>1. /\ pc' \in {"echo", "mark", "read_executor"} /\ (pc' \in HoldsClaim => ~pool)
        /\ pc' = "mark" => verdict' \in {"error", "ignored_hold"}
        /\ verdict' \in {verdict, "error", "ignored_hold"}
    BY <1>3 DEF ClaimProcessedEvent, Abandon, Dispatch, HoldsClaim
  <2> QED BY <1>1, <1>2, <1>3, <2>1, OpenVerdicts, QuietStep
<1>4. CASE /\ row[k].status = "none" /\ row' = [row EXCEPT ![k] = Claimed(taken)]
           /\ pc' \in {"claim_audit", "echo"} /\ verdict' = verdict
  <2>1. row[k].status \notin Final BY <1>4, VerdictKinds
  <2>2. AuditInv' BY <1>1, <1>4, <2>1, RowRewritten
  <2>3. row'[k] = Claimed(taken) BY <1>1, <1>4 DEF OInv, TypeOK, DbOK
  <2>4. Cur' = Cur BY <1>1 DEF Cur
  <2> QED BY <1>1, <1>4, <2>2, <2>3, <2>4 DEF OInv, HandlerInv, IsClose, HoldsClaim
<1> QED
  <2>1. \/ row' = row /\ (pc' = "echo" \/ ~pool)
        \/ /\ row[k].status = "none" /\ row' = [row EXCEPT ![k] = Claimed(taken)]
           /\ pc' \in {"claim_audit", "echo"} /\ verdict' = verdict
    BY DEF ClaimProcessedEvent, Abandon, Free, Claimed
  <2> QED BY <1>3, <1>4, <2>1

(* A row of the audit written for the event in hand.                       *)
LEMMA AuditWritten ==
  ASSUME OInv, pc # "idle", NEW s,
         audit' = audit \/ audit' = [audit EXCEPT ![taken] = s],
         UNCHANGED <<row, log, taken>>,
         s # "none",
         s \in Final => row[Cur.key] = [status |-> s, by |-> taken],
         s \in ControlVerdict => ~IsClose(Cur)
  PROVE  AuditInv'
<1>1. taken \in Id /\ audit \in [Id -> Status] /\ taken <= taken
  BY DecisionInHand DEF OInv, TypeOK, DbOK, Id
<1>2. \A i \in Id : audit'[i] = audit[i] \/ (i = taken /\ audit'[i] = s)
  BY <1>1
<1>3. \A i \in Id : audit'[i] # "none" => i <= taken' BY <1>1, <1>2 DEF OInv, AuditInv
<1>4. AuditNeverAhead' BY <1>2 DEF OInv, AuditInv, AuditNeverAhead, Cur
<1>5. ControlsNeverHoldBackAClose'
  BY <1>2 DEF OInv, AuditInv, ControlsNeverHoldBackAClose, Cur, IsClose, ControlVerdict
<1> QED BY <1>3, <1>4, <1>5 DEF AuditInv

LEMMA OperatorClaimAudit ==
  ASSUME OInv, UpsertClaimAudit PROVE HandlerInv' /\ AuditInv'
<1>1. /\ pc = "claim_audit" /\ UNCHANGED <<row, log, taken, pool>>
      /\ audit' = audit \/ audit' = [audit EXCEPT ![taken] = "claimed"]
      /\ pc' \in {"echo", "mark", "read_executor"}
      /\ pc' = "mark" => verdict' \in {"error", "ignored_hold"}
      /\ verdict' \in {verdict, "error", "ignored_hold"}
  BY DEF UpsertClaimAudit, Abandon, Dispatch
<1>2. AuditInv' BY <1>1, AuditWritten, VerdictKinds
<1>3. "error" \in Vague /\ Cur' = Cur BY <1>1, StatusTypes DEF Cur
<1> QED BY <1>1, <1>2, <1>3, OpenVerdicts DEF OInv, HandlerInv, IsClose, HoldsClaim

LEMMA OperatorMarkRow ==
  ASSUME OInv, MarkRow PROVE HandlerInv' /\ AuditInv'
<1> DEFINE k == Cur.key
           R == [status |-> verdict, by |-> taken]
<1>1. /\ k \in Key /\ pc = "mark" /\ UNCHANGED <<audit, log, taken, pool, verdict>>
      /\ pc' \in {"mark_audit", "echo"} /\ verdict \in Final
  BY DecisionInHand DEF OInv, HandlerInv, MarkRow, OnMarkErr
<1>2. Cur' = Cur BY <1>1 DEF Cur
<1>3. \/ row' = row /\ pc' = "echo"
      \/ pool /\ row' = [row EXCEPT ![k] = R]
  BY DEF MarkRow, OnMarkErr
<1>4. CASE row' = row /\ pc' = "echo" BY <1>1, <1>4, QuietStep DEF HoldsClaim
<1>5. CASE pool /\ row' = [row EXCEPT ![k] = R]
  <2>1. row[k].status \notin Final
    BY <1>1, <1>5, VerdictKinds DEF OInv, HandlerInv, HoldsClaim, Claimed
  <2>2. AuditInv' BY <1>1, <1>5, <2>1, RowRewritten
  <2>3. row'[k] = R BY <1>1, <1>5 DEF OInv, TypeOK, DbOK
  <2> QED BY <1>1, <1>2, <2>2, <2>3 DEF OInv, HandlerInv, IsClose, HoldsClaim
<1> QED BY <1>3, <1>4, <1>5

LEMMA OperatorMarkAudit ==
  ASSUME OInv, MarkAudit PROVE HandlerInv' /\ AuditInv'
<1>1. /\ pc = "mark_audit" /\ UNCHANGED <<row, log, taken, pool, verdict>> /\ pc' = "echo"
      /\ audit' = audit \/ audit' = [audit EXCEPT ![taken] = verdict]
  BY DEF MarkAudit
<1>2. /\ verdict # "none" /\ row[Cur.key] = [status |-> verdict, by |-> taken]
      /\ verdict \in ControlVerdict => ~IsClose(Cur)
  BY <1>1, VerdictKinds DEF OInv, HandlerInv
<1>3. AuditInv' BY <1>1, <1>2, AuditWritten
<1>4. Cur' = Cur BY <1>1 DEF Cur
<1> QED BY <1>1, <1>2, <1>3, <1>4 DEF HandlerInv, IsClose, HoldsClaim

LEMMA OperatorElsewhere ==
  ASSUME OInv, UNCHANGED <<row, audit>>,
         \/ UNCHANGED <<log, taken, pc, pool, verdict>>
         \/ Crash \/ Restart \/ ReceiveDecision \/ EchoEvent
         \/ \E d \in Decisions : PublishDecision(d)
  PROVE  HandlerInv' /\ AuditInv'
<1>1. Len(log) \in Nat /\ taken \in Nat /\ delivered \in Nat /\ taken <= delivered
      /\ taken <= Len(log)
  BY DEF OInv, TypeOK, StreamOK
<1>2. taken' \in Nat /\ taken <= taken' /\ \A i \in Id : i <= taken => log'[i] = log[i]
  <2>1. CASE log' = log
    <3>1. taken' \in {taken, taken + 1, delivered}
      BY <2>1 DEF Crash, Restart, ReceiveDecision, EchoEvent, PublishDecision
    <3> QED BY <1>1, <2>1, <3>1
  <2>2. ASSUME NEW d \in Decisions, PublishDecision(d)
        PROVE  taken' = taken /\ \A i \in Id : i <= taken => log'[i] = log[i]
    <3>1. taken' = taken /\ log' = Append(log, d) /\ log \in Seq(Decisions)
      BY <2>2 DEF PublishDecision, OInv, TypeOK, StreamOK
    <3>2. \A i \in 1..Len(log) : log'[i] = log[i] BY <3>1
    <3>3. \A i \in Id : i <= taken => i \in 1..Len(log) BY <1>1, ConstantsAssumption DEF Id
    <3>4. taken' = taken BY <3>1
    <3> QED BY <3>2, <3>3, <3>4
  <2>3. CASE \E d \in Decisions : PublishDecision(d) BY <1>1, <2>2, <2>3
  <2>4. log' = log \/ \E d \in Decisions : PublishDecision(d)
    BY DEF Crash, Restart, ReceiveDecision, EchoEvent
  <2> QED BY <2>1, <2>3, <2>4
<1>3. AuditInv'
  <2>1. \A i \in Id : audit[i] # "none" => i <= taken' /\ log'[i] = log[i]
    BY <1>1, <1>2 DEF OInv, AuditInv, Id
  <2> QED BY <2>1, VerdictKinds DEF OInv, AuditInv, AuditNeverAhead,
        ControlsNeverHoldBackAClose, ControlVerdict, IsClose
<1>4. HandlerInv'
  <2>1. CASE UNCHANGED <<log, taken, pc, pool, verdict>>
    BY <2>1 DEF OInv, HandlerInv, Cur, IsClose
  <2>2. CASE Crash \/ EchoEvent
    BY <2>2 DEF Crash, EchoEvent, HandlerInv, HoldsClaim
  <2>3. CASE Restart
    <3>1. pc = "idle" /\ UNCHANGED <<pc, verdict>>
      BY <2>3 DEF Restart, OInv, TypeOK, ProcessOK
    <3> QED BY <3>1 DEF OInv, HandlerInv, HoldsClaim
  <2>4. CASE ReceiveDecision
    BY <2>4, VerdictKinds DEF ReceiveDecision, OInv, HandlerInv, HoldsClaim
  <2>5. ASSUME NEW d \in Decisions, PublishDecision(d) PROVE HandlerInv'
    <3>1. pc # "idle" => Cur' = Cur
      BY <2>5, <1>2, DecisionInHand DEF PublishDecision, OInv, Cur, Id
    <3> QED BY <2>5, <3>1 DEF PublishDecision, OInv, HandlerInv, IsClose, HoldsClaim
  <2> QED BY <2>1, <2>2, <2>3, <2>4, <2>5
<1> QED BY <1>3, <1>4

LEMMA OperatorNext == ASSUME OInv, [Next]_vars PROVE OInv'
<1>1. TypeOK' BY TypeNext DEF OInv
<1>2. HandlerInv' /\ AuditInv'
  <2>1. CASE Environment
    <3>1. UNCHANGED <<row, audit>>
      BY <2>1 DEF Environment, PublishDecision, SetKillSwitch, SetExecutorEnabled, Crash,
         Restart, CallHangs
    <3>2. \/ UNCHANGED <<log, taken, pc, pool, verdict>> \/ Crash \/ Restart
          \/ \E d \in Decisions : PublishDecision(d)
      BY <2>1 DEF Environment, SetKillSwitch, SetExecutorEnabled, CallHangs
    <3> QED BY <3>1, <3>2, OperatorElsewhere
  <2>2. CASE DeliverNext \/ ReceiveDecision \/ EchoEvent \/ UNCHANGED vars
    BY <2>2, OperatorElsewhere DEF DeliverNext, ReceiveDecision, EchoEvent, vars
  <2>3. CASE HandlerStep /\ ~EchoEvent
    BY <2>3, QuietHandler, OperatorClaim, OperatorClaimAudit, OperatorMarkRow,
       OperatorMarkAudit DEF HandlerStep
  <2> QED BY <2>1, <2>2, <2>3 DEF Next, HandlerStep
<1> QED BY <1>1, <1>2 DEF OInv

LEMMA OperatorInvariance == Spec => []OInv
<1>1. Init => OInv
  <2> SUFFICES ASSUME Init PROVE OInv OBVIOUS
  <2>1. pc = "idle" /\ verdict = "none" /\ audit = [i \in Id |-> "none"] BY DEF Init
  <2>2. HandlerInv BY <2>1 DEF HandlerInv, HoldsClaim
  <2>3. AuditInv
    BY <2>1, VerdictKinds DEF AuditInv, AuditNeverAhead, ControlsNeverHoldBackAClose, ControlVerdict
  <2> QED BY <2>2, <2>3, TypeInit DEF OInv
<1>2. OInv /\ [Next]_vars => OInv' BY OperatorNext
<1> QED BY <1>1, <1>2, PTL DEF Spec

\* The audit table's verdict for an event is the one its idempotency row holds,
\* in every mode, with and without a pool, whatever crashes or fails.
THEOREM AuditFollowsRow == Spec => []AuditNeverAhead
<1>1. OInv => AuditNeverAhead BY DEF OInv, AuditInv
<1> QED BY <1>1, OperatorInvariance, PTL

\* A closing decision is never recorded as refused by an operator control.
THEOREM ClosesPassTheControls == Spec => []ControlsNeverHoldBackAClose
<1>1. OInv => ControlsNeverHoldBackAClose BY DEF OInv, AuditInv
<1> QED BY <1>1, OperatorInvariance, PTL
-----------------------------------------------------------------------------
(* The kill switch.  Once it is on, the gate refuses every entry it sees: the *)
(* one that may still take effect is the one whose handler has passed it.     *)
MayStillSlip == \/ pc \in {"fill", "guard_side", "guard_count", "submit"}
                \/ pc = "persist" /\ ~Live

SlipInv ==
  /\ pool = TRUE
  /\ slipped <= 1
  /\ pc \in {"close_read", "close_write"} => IsClose(Cur)
  /\ pc \in {"submit", "fills"} => Live
  /\ killOn /\ MayStillSlip /\ ~IsClose(Cur) => slipped = 0

KInv == TypeOK /\ SlipInv

(* A step after which the entry in hand can slip only if it could before.  *)
LEMMA NothingSlips ==
  ASSUME KInv, slipped' = slipped, pool' = pool, killOn' = killOn,
         MayStillSlip' => MayStillSlip /\ Cur' = Cur,
         pc' \in {"close_read", "close_write"} => IsClose(Cur'),
         pc' \in {"submit", "fills"} => Live
  PROVE  SlipInv'
BY DEF KInv, SlipInv, IsClose

(* The step in which the event takes effect is the last one it may slip in. *)
LEMMA EffectSlips ==
  ASSUME KInv, TakeEffect(taken), MayStillSlip \/ IsClose(Cur), pool' = pool,
         killOn' = killOn, ~MayStillSlip', pc' \notin {"close_read", "close_write"},
         pc' \in {"submit", "fills"} => Live
  PROVE  SlipInv'
<1>1. slipped' = slipped \/ (slipped = 0 /\ slipped' = 1)
  BY DEF KInv, SlipInv, TakeEffect, Cur
<1> QED BY <1>1 DEF KInv, SlipInv

LEMMA SlipPaper ==
  ASSUME KInv, PaperFill \/ GuardSide \/ GuardCount PROVE SlipInv'
<1>1. /\ UNCHANGED <<slipped, pool, killOn, log, taken>>
      /\ pc \in {"fill", "guard_side", "guard_count"}
      /\ pc' \in {"mark", "close_read", "guard_side", "guard_count", "persist"}
      /\ pc' = "close_read" => IsClose(Cur)
  BY DEF PaperFill, GuardSide, GuardCount
<1>2. Cur' = Cur /\ MayStillSlip BY <1>1 DEF Cur, MayStillSlip
<1> QED BY <1>1, <1>2, NothingSlips DEF IsClose

LEMMA SlipGate ==
  ASSUME KInv, ReadKillSwitchAndGate PROVE SlipInv'
<1>1. /\ UNCHANGED <<slipped, pool, killOn, log, taken>> /\ pool = TRUE
      /\ \/ pc' \in {"mark", "echo"}
         \/ /\ pc' = IF Live THEN "submit" ELSE "fill"
            /\ Gate(Cur, enabled, pool /\ killOn) = "pass"
  BY DEF KInv, SlipInv, ReadKillSwitchAndGate, Abandon
<1>2. CASE pc' \in {"mark", "echo"} BY <1>1, <1>2, NothingSlips DEF MayStillSlip
<1>3. CASE /\ pc' = IF Live THEN "submit" ELSE "fill"
           /\ Gate(Cur, enabled, pool /\ killOn) = "pass"
  <2>1. killOn => IsClose(Cur) BY <1>1, <1>3 DEF Gate
  <2>2. Cur' = Cur BY <1>1 DEF Cur
  <2> QED BY <1>1, <1>3, <2>1, <2>2 DEF KInv, SlipInv, IsClose
<1> QED BY <1>1, <1>2, <1>3

LEMMA SlipSubmit ==
  ASSUME KInv, SubmitOrder PROVE SlipInv'
<1>1. /\ pc = "submit" /\ UNCHANGED <<pool, killOn>> /\ Live
      /\ \/ pc' = "mark" /\ slipped' = slipped
         \/ pc' \in {"mark", "fills"} /\ TakeEffect(taken)
  BY DEF KInv, SlipInv, SubmitOrder, NothingPlaced, OnRefusal
<1>2. MayStillSlip /\ ~MayStillSlip' BY <1>1 DEF MayStillSlip
<1> QED BY <1>1, <1>2, NothingSlips, EffectSlips

LEMMA SlipPersist ==
  ASSUME KInv, PersistTrade PROVE SlipInv'
<1>1. /\ pc = "persist" /\ UNCHANGED <<pool, killOn>> /\ pc' \in {"trailing", "mark"}
      /\ slipped' = slipped \/ (~Live /\ TakeEffect(taken))
  BY DEF PersistTrade, Opened
<1>2. ~MayStillSlip' /\ (~Live => MayStillSlip) BY <1>1 DEF MayStillSlip
<1> QED BY <1>1, <1>2, NothingSlips, EffectSlips

LEMMA SlipClose ==
  ASSUME KInv, PersistFills \/ SelectTradeToClose \/ WriteClose PROVE SlipInv'
<1>1. CASE PersistFills
  <2>1. /\ UNCHANGED <<slipped, pool, killOn, log, taken>>
        /\ pc' \in {"close_read", "persist"} /\ (pc' = "close_read" => IsClose(Cur))
        /\ Live
    BY <1>1 DEF PersistFills, KInv, SlipInv
  <2>2. Cur' = Cur BY <2>1 DEF Cur
  <2> QED BY <2>1, <2>2, NothingSlips DEF MayStillSlip, IsClose
<1>2. CASE SelectTradeToClose
  <2>1. /\ UNCHANGED <<slipped, pool, killOn, log, taken>> /\ IsClose(Cur)
        /\ pc' \in {"close_write", "mark"}
    BY <1>2 DEF SelectTradeToClose, CloseVerdict, KInv, SlipInv
  <2>2. Cur' = Cur BY <2>1 DEF Cur
  <2> QED BY <2>1, <2>2, NothingSlips DEF MayStillSlip, IsClose
<1>3. CASE WriteClose
  <2>1. /\ pc' = "mark" /\ IsClose(Cur) /\ UNCHANGED <<pool, killOn>>
        /\ slipped' = slipped \/ TakeEffect(taken)
    BY <1>3 DEF WriteClose, CloseVerdict, KInv, SlipInv
  <2> QED BY <2>1, NothingSlips, EffectSlips DEF MayStillSlip
<1> QED BY <1>1, <1>2, <1>3

LEMMA SlipElsewhere ==
  ASSUME KInv,
         \/ ClaimProcessedEvent \/ UpsertClaimAudit \/ ReadExecutorFlag
         \/ ConfigureTrailing \/ MarkRow \/ MarkAudit \/ EchoEvent
         \/ Crash \/ ReceiveDecision
  PROVE  SlipInv'
<1>1. /\ UNCHANGED <<slipped, pool, killOn>>
      /\ pc' \in {"idle", "claim", "claim_audit", "mark", "mark_audit", "read_executor",
                  "read_kill", "echo"}
  BY DEF ClaimProcessedEvent, UpsertClaimAudit, Abandon, Dispatch, ReadExecutorFlag,
     ConfigureTrailing, MarkRow, OnMarkErr, MarkAudit, EchoEvent, Crash, ReceiveDecision
<1> QED BY <1>1, NothingSlips DEF MayStillSlip

LEMMA SlipWorld ==
  ASSUME HasPool, KInv,
         \/ \E d \in Decisions : PublishDecision(d)
         \/ \E b \in BOOLEAN : SetKillSwitch(b) \/ SetExecutorEnabled(b)
         \/ Restart \/ \E t \in Tasks : CallHangs(t)
         \/ DeliverNext \/ UNCHANGED vars
  PROVE  SlipInv'
<1>1. CASE \E d \in Decisions : PublishDecision(d)
  <2>1. UNCHANGED <<slipped, pool, killOn, pc, taken>> BY <1>1 DEF PublishDecision
  <2>2. pc # "idle" => Cur' = Cur
    BY <1>1, DecisionInHand DEF PublishDecision, KInv, TypeOK, StreamOK, Cur
  <2> QED BY <2>1, <2>2, NothingSlips DEF MayStillSlip, KInv, SlipInv, IsClose
<1>2. ASSUME NEW b \in BOOLEAN, SetKillSwitch(b) PROVE SlipInv'
  <2>1. UNCHANGED <<pool, pc, taken, log>> /\ killOn' = b
        /\ slipped' = IF b /\ ~killOn THEN 0 ELSE slipped
    BY <1>2 DEF SetKillSwitch
  <2>2. Cur' = Cur BY <2>1 DEF Cur
  <2> QED BY <2>1, <2>2 DEF KInv, SlipInv, MayStillSlip, IsClose
<1>3. CASE \/ \E b \in BOOLEAN : SetExecutorEnabled(b)
           \/ Restart \/ (\E t \in Tasks : CallHangs(t))
           \/ DeliverNext \/ UNCHANGED vars
  <2>1. UNCHANGED <<slipped, killOn, pc, taken, log>>
    BY <1>3 DEF SetExecutorEnabled, Restart, CallHangs, DeliverNext, vars
  <2>2. Cur' = Cur BY <2>1 DEF Cur
  <2>3. pool' = pool
    BY <1>3 DEF SetExecutorEnabled, Restart, CallHangs, DeliverNext, vars, KInv, SlipInv, HasPool
  <2> QED BY <2>1, <2>2, <2>3, NothingSlips DEF MayStillSlip, KInv, SlipInv, IsClose
<1> QED BY <1>1, <1>2, <1>3

\* Once the kill switch is on, at most one entry still takes effect until it is
\* set again: the one whose handler had read the flag before.
THEOREM KillSwitchHolds == HasPool => (Spec => []AtMostOneEntrySlips)
<1> SUFFICES ASSUME HasPool PROVE Spec => []AtMostOneEntrySlips OBVIOUS
<1>1. Init => KInv
  <2> SUFFICES ASSUME Init PROVE KInv OBVIOUS
  <2>1. pool = TRUE /\ pc = "idle" /\ slipped = 0
    BY ConstantsAssumption DEF HasPool, Init
  <2> QED BY <2>1, TypeInit DEF KInv, SlipInv, MayStillSlip
<1>2. KInv /\ [Next]_vars => KInv'
  <2> SUFFICES ASSUME KInv, [Next]_vars PROVE KInv' OBVIOUS
  <2>1. TypeOK' BY TypeNext DEF KInv
  <2>2. CASE HandlerStep
    BY <2>1, <2>2, SlipPaper, SlipGate, SlipSubmit, SlipPersist, SlipClose, SlipElsewhere
       DEF HandlerStep, KInv
  <2>3. CASE Environment \/ DeliverNext \/ ReceiveDecision \/ UNCHANGED vars
    BY <2>1, <2>3, SlipWorld, SlipElsewhere DEF Environment, KInv
  <2> QED BY <2>2, <2>3 DEF Next
<1>3. KInv => AtMostOneEntrySlips BY DEF KInv, SlipInv, AtMostOneEntrySlips
<1> QED BY <1>1, <1>2, <1>3, PTL DEF Spec
=============================================================================
