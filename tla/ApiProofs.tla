------------------------------ MODULE ApiProofs ------------------------------
(* Proofs about the three stateful parts of the API, each for every value   *)
(* of its constants.                                                        *)
EXTENDS ControlPlane, RateLimiter, WsBridge, DataLemmas, SequenceTheorems, FiniteSetTheorems

(***************************************************************************)
(* The control plane.  A command is a row before anything else is done for *)
(* it, and the row stays the operator's newest until the command is over.  *)
(***************************************************************************)
Late == {"arm", "wait"}

\* The handler has inserted its row and still works on it, or has answered.
Kept(o)    == op[o].pc \in {"fetch", "publish"} \union Late
              \/ op[o].told \in {"ok", "acknowledged"}
\* Its request is in the control stream, and the answer matters.
Awaited(o) == op[o].pc \in Late \/ op[o].told = "acknowledged"

NewestOf(o, i) == /\ i \in DOMAIN rows /\ rows[i].op = o /\ rows[i].n = op[o].n
                  /\ \A j \in DOMAIN rows : rows[j].op = o => j <= i

RowsInv(o) ==
  /\ op[o].pc # "idle" => op[o].told = "nothing"
  /\ \A i \in DOMAIN rows : rows[i].op = o => rows[i].n <= op[o].n
  /\ Kept(o) => NewestOf(o, op[o].row) /\ rows[op[o].row].kind = op[o].kind
  /\ op[o].pc = "publish" \/ Awaited(o) => op[o].kind = "kill-switch"

RowsInOrder ==
  \A i, j \in DOMAIN rows : i < j /\ rows[i].op = rows[j].op => rows[i].n <= rows[j].n

\* A request id is used once: what is in the stream is of an earlier attempt,
\* or of this one once it has been published.
Earlier(o, id) == \/ id.n < op[o].n
                  \/ id.n = op[o].n /\ id.url < op[o].url
                  \/ id.n = op[o].n /\ id.url = op[o].url
                     /\ op[o].pc \notin {"insert", "fetch", "publish"}

\* What the control task found, if it was asked on behalf of o's command.
Covers(o, seen, defaulted) == seen >= op[o].row \/ defaulted

IdsInv(o) ==
  /\ \A x \in DOMAIN control : control[x].op = o => Earlier(o, control[x])
  /\ Awaited(o) =>
       /\ \A i \in DOMAIN acks : acks[i].id = RequestId(o)
                                   => Covers(o, acks[i].seen, acks[i].defaulted)
       /\ ctl.pc = "ack" /\ ctl.id = RequestId(o) => Covers(o, ctl.seen, ctl.defaulted)
  /\ op[o].told = "acknowledged" => \E i \in DOMAIN acks : acks[i].id = RequestId(o)

\* The task acknowledges only what it was given.
Asked(id) == \E x \in DOMAIN control : control[x] = id

TaskInv ==
  /\ \A i \in DOMAIN acks : Asked(acks[i].id)
  /\ ctl.pc \in {"fetch", "ack"} => Asked(ctl.id)
  /\ ctl.pc = "ack" => ctl.seen \in Nat /\ ctl.defaulted \in BOOLEAN

ControlInv ==
  /\ ControlTypeOK /\ RowsInOrder /\ TaskInv
  /\ \A o \in Operators : RowsInv(o) /\ IdsInv(o)

LEMMA OpTypes ==
  ASSUME ControlTypeOK, NEW o \in Operators
  PROVE  /\ op[o].n \in Nat /\ op[o].kind \in Kinds /\ op[o].url \in 1 .. Urls
         /\ op[o].url \in Nat /\ op[o].row \in Nat /\ op[o].pos \in Nat
         /\ op[o].pc \in Handling \union {"idle"}
         /\ op[o].told \in {"nothing", "ok", "acknowledged", "failed"}
         /\ RequestId(o) \in RequestType
BY UrlsAssumption DEF ControlTypeOK, OpType, RequestId, RequestType

LEMMA SequencesOfControl ==
  ASSUME ControlTypeOK
  PROVE  /\ rows \in Seq(RowType) /\ Len(rows) \in Nat /\ DOMAIN rows = 1 .. Len(rows)
         /\ acks \in Seq(AckType) /\ Len(acks) \in Nat /\ DOMAIN acks = 1 .. Len(acks)
         /\ control \in Seq(RequestType) /\ Len(control) \in Nat
         /\ DOMAIN control = 1 .. Len(control)
         /\ \A i \in DOMAIN rows : rows[i] \in RowType /\ rows[i].n \in Nat
         /\ \A i \in DOMAIN acks : acks[i] \in AckType
         /\ \A x \in DOMAIN control : control[x] \in RequestType
                                      /\ control[x].n \in Nat /\ control[x].url \in Nat
<1>1. rows \in Seq(RowType) /\ acks \in Seq(AckType) /\ control \in Seq(RequestType)
  BY DEF ControlTypeOK
<1>2. /\ \A r \in RowType : r.n \in Nat
      /\ \A r \in RequestType : r.n \in Nat /\ r.url \in Nat
  BY DEF RowType, RequestType
<1> QED BY <1>1, <1>2

LEMMA NewestKillRowCovers ==
  ASSUME ControlTypeOK
  PROVE  /\ NewestKillRow \in Nat
         /\ \A i \in DOMAIN rows : rows[i].kind = "kill-switch" => i <= NewestKillRow
<1> DEFINE kills == {i \in DOMAIN rows : rows[i].kind = "kill-switch"}
<1>1. Len(rows) \in Nat /\ kills \subseteq 0 .. Len(rows) BY SequencesOfControl
<1>2. CASE kills = {} BY <1>2 DEF NewestKillRow
<1>3. CASE kills # {}
  <2>1. \E i \in kills : \A j \in kills : j <= i BY <1>1, <1>3, GreatestElement
  <2>2. NewestKillRow = CHOOSE i \in kills : \A j \in kills : j <= i
    BY <1>3 DEF NewestKillRow
  <2>3. NewestKillRow \in kills /\ \A j \in kills : j <= NewestKillRow
    BY <2>1, <2>2
  <2> QED BY <1>1, <2>3
<1> QED BY <1>2, <1>3

(* The rows of the operator who takes the step.                            *)
LEMMA RowsKept ==
  ASSUME ControlInv, NEW o \in Operators, rows' = rows,
         op'[o].n = op[o].n, op'[o].kind = op[o].kind,
         Kept(o)' => Kept(o) /\ op'[o].row = op[o].row,
         op'[o].pc # "idle" => op'[o].told = "nothing",
         op'[o].pc = "publish" \/ Awaited(o)' => op[o].kind = "kill-switch"
  PROVE  RowsInv(o)'
BY DEF ControlInv, RowsInv, NewestOf

LEMMA RowAdded ==
  ASSUME ControlInv, NEW o \in Operators, op[o].pc = "insert", AddRow(o),
         op'[o].n = op[o].n, op'[o].kind = op[o].kind,
         op'[o].pc # "idle" => op'[o].told = "nothing",
         \/ op'[o].pc = "fetch" /\ op'[o].row = Len(rows) + 1
         \/ op'[o].pc \in {"insert", "idle"} /\ op'[o].told \in {"nothing", "failed"}
  PROVE  /\ RowsInv(o)' /\ RowsInOrder' /\ rows' \in Seq(RowType)
         /\ \A i \in DOMAIN rows : i \in DOMAIN rows' /\ rows'[i] = rows[i]
         /\ \A i \in DOMAIN rows' : i \in DOMAIN rows \/ rows'[i].op = o
<1> DEFINE R == [op |-> o, n |-> op[o].n, kind |-> op[o].kind]
<1>0. PICK last : last = Len(rows) + 1 OBVIOUS
<1>1. ControlTypeOK BY DEF ControlInv
<1>2. R \in RowType /\ R.op = o /\ R.n = op[o].n /\ R.kind = op[o].kind
  BY <1>1, OpTypes DEF RowType
<1>3. rows' = Append(rows, R) BY DEF AddRow
<1> HIDE DEF R
<1>4. /\ rows' \in Seq(RowType) /\ DOMAIN rows = 1 .. Len(rows) /\ Len(rows) \in Nat
      /\ last = Len(rows) + 1 /\ DOMAIN rows' = 1 .. last /\ rows'[last] = R
      /\ \A i \in 1 .. Len(rows) : rows'[i] = rows[i]
  BY <1>0, <1>1, <1>2, <1>3, SequencesOfControl, AppendFacts
<1>5. /\ \A i \in DOMAIN rows : rows[i].op = o => rows[i].n <= op[o].n
      /\ RowsInOrder /\ op[o].n \in Nat
  BY <1>1, OpTypes DEF ControlInv, RowsInv
<1>6. \A i \in DOMAIN rows' : rows'[i].op = o => rows'[i].n <= op'[o].n
  BY <1>2, <1>4, <1>5
<1>7. RowsInOrder'
  <2> SUFFICES ASSUME NEW i \in DOMAIN rows', NEW j \in DOMAIN rows',
                      i < j, rows'[i].op = rows'[j].op
               PROVE  rows'[i].n <= rows'[j].n
    BY DEF RowsInOrder
  <2>1. i \in 1 .. Len(rows) /\ (j \in 1 .. Len(rows) \/ j = last) BY <1>4
  <2>2. CASE j = last BY <1>2, <1>4, <1>5, <2>1, <2>2
  <2>3. CASE j \in 1 .. Len(rows) BY <1>4, <1>5, <2>1, <2>3 DEF RowsInOrder
  <2> QED BY <2>1, <2>2, <2>3
<1>8. op'[o].pc = "fetch" => NewestOf(o, last)'
  BY <1>2, <1>4 DEF NewestOf
<1>9. RowsInv(o)'
  BY <1>0, <1>2, <1>4, <1>6, <1>8 DEF RowsInv, Kept, Awaited, Late
<1>10. \A i \in DOMAIN rows' : i \in DOMAIN rows \/ rows'[i].op = o BY <1>2, <1>4
<1> QED BY <1>4, <1>7, <1>9, <1>10

(* The request ids of the operator who takes the step.                     *)
LEMMA IdsQuiet ==
  ASSUME ControlInv, NEW o \in Operators, UNCHANGED <<control, acks, ctl>>,
         op'[o].n = op[o].n,
         \/ /\ op'[o].url = op[o].url
            /\ op'[o].pc \in {"insert", "fetch", "publish"}
                 => op[o].pc \in {"insert", "fetch", "publish"}
         \/ op'[o].url = op[o].url + 1,
         Awaited(o)' => Awaited(o) /\ op'[o].url = op[o].url /\ op'[o].row = op[o].row,
         op'[o].told = "acknowledged" =>
           \E i \in DOMAIN acks : acks[i].id = RequestId(o)
  PROVE  IdsInv(o)'
<1>1. ControlTypeOK /\ IdsInv(o) BY DEF ControlInv
<1>2. \A x \in DOMAIN control : control[x].op = o => Earlier(o, control[x])'
  BY <1>1, OpTypes, SequencesOfControl DEF IdsInv, Earlier
<1>3. op'[o].told = "acknowledged" => Awaited(o)' BY DEF Awaited
<1>4. Awaited(o)' => RequestId(o)' = RequestId(o) BY DEF RequestId
<1> QED BY <1>1, <1>2, <1>3, <1>4 DEF IdsInv, Covers

(* A step of o does not disturb what is known of another operator.         *)
LEMMA OtherOperator ==
  ASSUME ControlInv, NEW o \in Operators, NEW p \in Operators, p # o, op'[p] = op[p],
         UNCHANGED <<acks, ctl>>,
         \A i \in DOMAIN rows : i \in DOMAIN rows' /\ rows'[i] = rows[i],
         \A i \in DOMAIN rows' : i \in DOMAIN rows \/ rows'[i].op = o,
         control' = control \/ control' = Append(control, RequestId(o))
  PROVE  RowsInv(p)' /\ IdsInv(p)'
<1>1. ControlTypeOK /\ RowsInv(p) /\ IdsInv(p) BY DEF ControlInv
<1>2. Kept(p)' = Kept(p) /\ Awaited(p)' = Awaited(p) /\ RequestId(p)' = RequestId(p)
  BY DEF Kept, Awaited, RequestId
<1>3. RowsInv(p)' BY <1>1, <1>2 DEF RowsInv, NewestOf, Kept
<1>4. \A x \in DOMAIN control' : control'[x].op = p => x \in DOMAIN control /\ control'[x] = control[x]
  <2>1. RequestId(o).op = o /\ RequestId(o) \in RequestType BY <1>1, OpTypes DEF RequestId
  <2>2. CASE control' = Append(control, RequestId(o))
    BY <1>1, <2>1, <2>2, SequencesOfControl, AppendFacts
  <2> QED BY <2>2
<1>5. IdsInv(p)' BY <1>1, <1>2, <1>4 DEF IdsInv, Earlier, Covers
<1> QED BY <1>3, <1>5

OthersSame(o) == \A p \in Operators : p # o => op'[p] = op[p]
Counts == issued' \in 0 .. MaxCommands /\ faulted' \in 0 .. MaxFaults

LEMMA QuietStepOf ==
  ASSUME ControlInv, NEW o \in Operators, UNCHANGED <<rows, control, acks, ctl, cursor>>,
         Counts, op' \in [Operators -> OpType], OthersSame(o),
         op'[o].n = op[o].n, op'[o].kind = op[o].kind,
         Kept(o)' => Kept(o) /\ op'[o].row = op[o].row,
         op'[o].pc # "idle" => op'[o].told = "nothing",
         op'[o].pc = "publish" \/ Awaited(o)' => op[o].kind = "kill-switch",
         \/ /\ op'[o].url = op[o].url
            /\ op'[o].pc \in {"insert", "fetch", "publish"}
                 => op[o].pc \in {"insert", "fetch", "publish"}
         \/ op'[o].url = op[o].url + 1,
         Awaited(o)' => Awaited(o) /\ op'[o].url = op[o].url,
         op'[o].told = "acknowledged" =>
           \E i \in DOMAIN acks : acks[i].id = RequestId(o)
  PROVE  ControlInv'
<1>1. ControlTypeOK' BY DEF ControlInv, ControlTypeOK, Counts
<1>2. Awaited(o)' => Kept(o)' BY DEF Kept, Awaited
<1>3. RowsInv(o)' BY RowsKept
<1>4. IdsInv(o)' BY <1>2, IdsQuiet
<1>5. \A p \in Operators : p # o => RowsInv(p)' /\ IdsInv(p)'
  BY OtherOperator DEF OthersSame
<1>6. RowsInOrder' /\ TaskInv' BY DEF ControlInv, RowsInOrder, TaskInv, Asked
<1> QED BY <1>1, <1>3, <1>4, <1>5, <1>6 DEF ControlInv

LEMMA RowStepOf ==
  ASSUME ControlInv, NEW o \in Operators, AddRow(o), UNCHANGED <<control, acks, ctl, cursor>>,
         Counts, op' \in [Operators -> OpType], OthersSame(o), op[o].pc = "insert",
         op'[o].n = op[o].n, op'[o].kind = op[o].kind,
         op'[o].url \in {op[o].url, op[o].url + 1},
         op'[o].pc # "idle" => op'[o].told = "nothing",
         \/ op'[o].pc = "fetch" /\ op'[o].row = Len(rows) + 1
         \/ op'[o].pc \in {"insert", "idle"} /\ op'[o].told \in {"nothing", "failed"}
  PROVE  ControlInv'
<1>1. /\ RowsInv(o)' /\ RowsInOrder' /\ rows' \in Seq(RowType)
      /\ \A i \in DOMAIN rows : i \in DOMAIN rows' /\ rows'[i] = rows[i]
      /\ \A i \in DOMAIN rows' : i \in DOMAIN rows \/ rows'[i].op = o
  BY RowAdded
<1>2. ControlTypeOK' BY <1>1 DEF ControlInv, ControlTypeOK, Counts
<1>3. IdsInv(o)'
  <2>1. ~Awaited(o)' /\ op'[o].told # "acknowledged" BY DEF Awaited, Late
  <2> QED BY <2>1, IdsQuiet
<1>4. \A p \in Operators : p # o => RowsInv(p)' /\ IdsInv(p)'
  BY <1>1, OtherOperator DEF OthersSame
<1>5. TaskInv' BY DEF ControlInv, TaskInv, Asked
<1> QED BY <1>1, <1>2, <1>3, <1>4, <1>5 DEF ControlInv

(* An attempt that is lost: the next URL, or the end.                      *)
LEMMA Attempt ==
  ASSUME ControlInv, NEW o \in Operators, AttemptFailed(o), op[o].pc # "idle"
  PROVE  /\ op' \in [Operators -> OpType] /\ OthersSame(o)
         /\ op'[o].n = op[o].n /\ op'[o].kind = op[o].kind
         /\ \/ op'[o].pc = "insert" /\ op'[o].told = "nothing" /\ op'[o].url = op[o].url + 1
            \/ op'[o].pc = "idle" /\ op'[o].told = "failed" /\ op'[o].url = op[o].url
<1>1. /\ op \in [Operators -> OpType] /\ op[o] \in OpType /\ op[o].told = "nothing"
      /\ op[o].url \in Nat /\ Urls \in Nat /\ op[o].url \in 1 .. Urls
  BY OpTypes, UrlsAssumption DEF ControlInv, ControlTypeOK, RowsInv
<1>2. CASE op' = [op EXCEPT ![o].url = @ + 1, ![o].pc = "insert", ![o].row = 0]
           /\ op[o].url < Urls
  <2>1. op[o].url + 1 \in 1 .. Urls BY <1>1, <1>2
  <2>2. op' \in [Operators -> OpType] BY <1>1, <1>2, <2>1 DEF OpType, Handling
  <2> QED BY <1>1, <1>2, <2>2 DEF OpType, OthersSame
<1>3. CASE op' = [op EXCEPT ![o].pc = "idle", ![o].told = "failed"]
  BY <1>1, <1>3 DEF OpType, OthersSame
<1> QED BY <1>2, <1>3 DEF AttemptFailed, Answer

LEMMA Answered ==
  ASSUME ControlInv, NEW o \in Operators,
         NEW what \in {"ok", "acknowledged", "failed"}, Answer(o, what)
  PROVE  /\ op' \in [Operators -> OpType] /\ OthersSame(o)
         /\ op'[o].n = op[o].n /\ op'[o].kind = op[o].kind /\ op'[o].url = op[o].url
         /\ op'[o].row = op[o].row /\ op'[o].pc = "idle" /\ op'[o].told = what
<1>1. op \in [Operators -> OpType] BY DEF ControlInv, ControlTypeOK
<1> QED BY <1>1 DEF Answer, OpType, OthersSame

(* The handler goes on to another of its steps.                            *)
LEMMA MovedOn ==
  ASSUME ControlInv, NEW o \in Operators, NEW l \in Handling, NEW r \in Nat,
         op' = [op EXCEPT ![o].pc = l, ![o].row = r]
  PROVE  /\ op' \in [Operators -> OpType] /\ OthersSame(o)
         /\ op'[o].n = op[o].n /\ op'[o].kind = op[o].kind /\ op'[o].url = op[o].url
         /\ op'[o].row = r /\ op'[o].pc = l /\ op'[o].told = op[o].told
<1>1. op \in [Operators -> OpType] BY DEF ControlInv, ControlTypeOK
<1> QED BY <1>1 DEF OpType, OthersSame

LEMMA FaultCount ==
  ASSUME ControlInv
  PROVE  /\ UNCHANGED <<issued, faulted>> => Counts
         /\ UNCHANGED issued /\ Fault => Counts
BY ControlBounds DEF ControlInv, ControlTypeOK, Counts, Fault

LEMMA ControlIssue ==
  ASSUME ControlInv, NEW o \in Operators, Issue(o) PROVE ControlInv'
<1>1. PICK k \in Kinds :
        op' = [op EXCEPT ![o] = [n |-> @.n + 1, kind |-> k, url |-> 1,
                                 pc |-> "insert", row |-> 0, pos |-> 0, told |-> "nothing"]]
  BY DEF Issue
<1>2. /\ op \in [Operators -> OpType] /\ op[o].n \in Nat /\ 1 \in 1 .. Urls
      /\ UNCHANGED <<rows, control, acks, ctl, cursor, faulted>>
  BY OpTypes, UrlsAssumption DEF ControlInv, ControlTypeOK, Issue
<1>3. /\ op' \in [Operators -> OpType] /\ OthersSame(o) /\ op'[o].n = op[o].n + 1
      /\ op'[o].pc = "insert" /\ op'[o].told = "nothing"
  BY <1>1, <1>2 DEF OpType, Handling, OthersSame
<1>4. ControlTypeOK'
  BY <1>2, <1>3, ControlBounds DEF ControlInv, ControlTypeOK, Issue
<1>5. ~Kept(o)' /\ ~Awaited(o)' BY <1>3 DEF Kept, Awaited, Late
<1>6. RowsInv(o)'
  <2>1. \A i \in DOMAIN rows : rows[i].op = o => rows[i].n <= op[o].n + 1
    BY <1>2, SequencesOfControl DEF ControlInv, RowsInv
  <2> QED BY <1>2, <1>3, <1>5, <2>1 DEF RowsInv
<1>7. IdsInv(o)'
  <2>1. \A x \in DOMAIN control : control[x].op = o => control[x].n < op[o].n + 1
    <3>1. IdsInv(o) /\ ControlTypeOK BY DEF ControlInv
    <3>2. \A x \in DOMAIN control : control[x].op = o => Earlier(o, control[x])
      BY <3>1 DEF IdsInv
    <3>3. \A x \in DOMAIN control : control[x].n \in Nat BY <3>1, SequencesOfControl
    <3> QED BY <1>2, <3>2, <3>3 DEF Earlier
  <2>2. \A x \in DOMAIN control : control[x].op = o => Earlier(o, control[x])'
    BY <1>2, <1>3, <2>1 DEF Earlier
  <2> QED BY <1>2, <1>3, <1>5, <2>2 DEF IdsInv
<1>8. \A p \in Operators : p # o => RowsInv(p)' /\ IdsInv(p)'
  BY <1>2, <1>3, OtherOperator DEF OthersSame
<1>9. RowsInOrder' /\ TaskInv' BY <1>2 DEF ControlInv, RowsInOrder, TaskInv, Asked
<1> QED BY <1>4, <1>6, <1>7, <1>8, <1>9 DEF ControlInv

LEMMA ControlAttempts ==
  ASSUME ControlInv, NEW o \in Operators, Refuse(o) \/ AbortRequest(o) PROVE ControlInv'
<1>1. /\ AttemptFailed(o) /\ op[o].pc # "idle" /\ Counts
      /\ UNCHANGED <<control, acks, ctl, cursor>>
      /\ UNCHANGED rows \/ (op[o].pc = "insert" /\ AddRow(o))
  BY FaultCount DEF Refuse, AbortRequest, Handling
<1>2. CASE UNCHANGED rows
  <2>1. ~Kept(o)' /\ ~Awaited(o)' BY <1>1, Attempt DEF Kept, Awaited, Late
  <2> QED BY <1>1, <1>2, <2>1, Attempt, QuietStepOf
<1>3. CASE op[o].pc = "insert" /\ AddRow(o)
  BY <1>1, <1>3, Attempt, RowStepOf
<1> QED BY <1>1, <1>2, <1>3

LEMMA ControlInsert ==
  ASSUME ControlInv, NEW o \in Operators, InsertEvent(o) PROVE ControlInv'
<1>1. /\ op[o].pc = "insert" /\ op[o].told = "nothing" /\ Counts
      /\ UNCHANGED <<control, acks, ctl, cursor>>
  BY FaultCount DEF InsertEvent, ControlInv, RowsInv
<1>2. CASE AddRow(o) /\ op' = [op EXCEPT ![o].pc = "fetch", ![o].row = Len(rows) + 1]
  <2>1. Len(rows) + 1 \in Nat /\ "fetch" \in Handling
    BY SequencesOfControl DEF ControlInv, Handling
  <2> QED BY <1>1, <1>2, <2>1, MovedOn, RowStepOf
<1>3. CASE AttemptFailed(o) /\ AddRow(o) BY <1>1, <1>3, Attempt, RowStepOf
<1>4. CASE AttemptFailed(o) /\ UNCHANGED rows
  <2>1. ~Kept(o)' /\ ~Awaited(o)' BY <1>1, <1>4, Attempt DEF Kept, Awaited, Late
  <2> QED BY <1>1, <1>4, <2>1, Attempt, QuietStepOf
<1> QED BY <1>2, <1>3, <1>4 DEF InsertEvent

(* The step of a handler that has its row: nothing but its place changes.  *)
LEMMA ControlHandler ==
  ASSUME ControlInv, NEW o \in Operators,
         \/ FetchKillSwitchStatus(o) \/ FetchExecutorStatus(o) \/ ArmRead(o)
         \/ BlockExpires(o) \/ ReadAcks(o) \/ AckTimeout(o)
         \/ PublishSync(o) /\ control' = control
  PROVE  ControlInv'
<1>1. /\ Counts /\ UNCHANGED <<rows, control, acks, ctl, cursor>>
      /\ op[o].pc \in {"fetch", "publish"} \union Late
  BY FaultCount DEF FetchKillSwitchStatus, FetchExecutorStatus, ArmRead, BlockExpires,
     ReadAcks, AckTimeout, PublishSync, Late
<1>2. /\ op[o].told = "nothing" /\ op \in [Operators -> OpType]
      /\ op[o].pc = "publish" \/ Awaited(o) => op[o].kind = "kill-switch"
      /\ Len(acks) \in Nat
  BY <1>1, SequencesOfControl DEF ControlInv, ControlTypeOK, RowsInv, Late
<1>3. CASE Answer(o, "ok")
  <2>1. ~Awaited(o)' /\ Kept(o) BY <1>1, <1>3, Answered DEF Awaited, Kept, Late
  <2> QED BY <1>1, <1>3, <2>1, Answered, QuietStepOf
<1>4. CASE /\ Answer(o, "acknowledged") /\ op[o].pc = "wait"
           /\ \E i \in DOMAIN acks : acks[i].id = RequestId(o)
  <2>1. Kept(o) /\ Awaited(o) BY <1>4 DEF Awaited, Kept, Late
  <2> QED BY <1>1, <1>2, <1>4, <2>1, Answered, QuietStepOf
<1>5. CASE op' = [op EXCEPT ![o].pc = "publish"] /\ op[o].kind = "kill-switch"
           /\ op[o].pc = "fetch"
  <2>1. /\ op' \in [Operators -> OpType] /\ OthersSame(o)
        /\ op'[o] = [op[o] EXCEPT !.pc = "publish"]
    BY <1>2, <1>5 DEF OpType, Handling, OthersSame
  <2>2. Kept(o) /\ ~Awaited(o)' BY <1>2, <1>5, <2>1 DEF Kept, Awaited, Late, OpType
  <2>3. /\ op'[o].pc = "publish"
        /\ \A f \in {"n", "kind", "url", "row", "told"} : op'[o][f] = op[o][f]
    BY <1>2, <2>1 DEF OpType
  <2> QED BY <1>1, <1>2, <1>5, <2>1, <2>2, <2>3, QuietStepOf
<1>6. ASSUME op[o].pc \in Late,
             \/ op' = [op EXCEPT ![o].pc = "wait", ![o].pos = Len(acks)]
             \/ op' = [op EXCEPT ![o].pc = "arm"]
      PROVE  ControlInv'
  <2>1. PICK l \in Late, q \in Nat : op' = [op EXCEPT ![o] = [@ EXCEPT !.pc = l, !.pos = q]]
    <3>1. op[o] = [op[o] EXCEPT !.pos = op[o].pos] /\ op[o].pos \in Nat
      BY <1>2 DEF OpType
    <3>2. CASE op' = [op EXCEPT ![o].pc = "arm"]
      <4>1. op' = [op EXCEPT ![o] = [@ EXCEPT !.pc = "arm", !.pos = op[o].pos]]
        BY <1>2, <3>1, <3>2 DEF OpType
      <4> QED BY <3>1, <4>1 DEF Late
    <3> QED BY <1>2, <1>6, <3>2 DEF Late
  <2>2. /\ op' \in [Operators -> OpType] /\ OthersSame(o) /\ op'[o].pc = l
        /\ op'[o].n = op[o].n /\ op'[o].kind = op[o].kind /\ op'[o].url = op[o].url
        /\ op'[o].row = op[o].row /\ op'[o].told = op[o].told
    BY <1>2, <2>1 DEF OpType, Handling, Late, OthersSame
  <2>3. Kept(o) /\ Awaited(o) BY <1>6 DEF Kept, Awaited
  <2> QED BY <1>1, <1>2, <2>2, <2>3, QuietStepOf DEF Late
<1> QED
  <2>1. CASE FetchKillSwitchStatus(o) BY <1>5, <2>1 DEF FetchKillSwitchStatus
  <2>2. CASE FetchExecutorStatus(o) BY <1>3, <2>2 DEF FetchExecutorStatus
  <2>3. CASE ArmRead(o) \/ BlockExpires(o) BY <1>6, <2>3 DEF ArmRead, BlockExpires, Late
  <2>4. CASE ReadAcks(o)
    <3>1. CASE \E i \in op[o].pos + 1 .. Len(acks) : acks[i].id = RequestId(o)
      <4>1. op[o].pos \in Nat BY OpTypes DEF ControlInv
      <4>2. \E i \in DOMAIN acks : acks[i].id = RequestId(o)
        BY <3>1, <4>1, SequencesOfControl DEF ControlInv
      <4> QED BY <1>4, <2>4, <3>1, <4>2 DEF ReadAcks
    <3>2. CASE ~\E i \in op[o].pos + 1 .. Len(acks) : acks[i].id = RequestId(o)
      BY <1>6, <2>4, <3>2 DEF ReadAcks, Late
    <3> QED BY <3>1, <3>2
  <2>5. CASE AckTimeout(o) BY <1>3, <2>5 DEF AckTimeout
  <2>6. CASE PublishSync(o) /\ control' = control
    <3>1. control # Append(control, RequestId(o))
      <4>1. control \in Seq(RequestType) /\ RequestId(o) \in RequestType
        BY SequencesOfControl, OpTypes DEF ControlInv
      <4> QED BY <4>1
    <3> QED BY <1>3, <2>6, <3>1 DEF PublishSync
  <2> QED BY <2>1, <2>2, <2>3, <2>4, <2>5, <2>6

(* The request goes into the stream: its id has not been there before.     *)
LEMMA ControlPublish ==
  ASSUME ControlInv, NEW o \in Operators, PublishSync(o), control' # control
  PROVE  ControlInv'
<1>1. /\ op[o].pc = "publish" /\ control' = Append(control, RequestId(o))
      /\ op' = [op EXCEPT ![o].pc = "arm"] /\ UNCHANGED <<rows, cursor, ctl, acks>> /\ Counts
  BY FaultCount DEF PublishSync
<1>2. ControlTypeOK /\ RowsInv(o) /\ IdsInv(o) BY DEF ControlInv
<1>3. /\ op' \in [Operators -> OpType] /\ OthersSame(o) /\ op'[o].pc = "arm"
      /\ op'[o].n = op[o].n /\ op'[o].kind = op[o].kind /\ op'[o].url = op[o].url
      /\ op'[o].row = op[o].row /\ op'[o].told = op[o].told
  BY <1>1, <1>2 DEF ControlTypeOK, OpType, Handling, OthersSame
<1>4. RequestId(o) \in RequestType /\ RequestId(o)' = RequestId(o)
      /\ RequestId(o) = [op |-> o, n |-> op[o].n, url |-> op[o].url]
  BY <1>2, <1>3, OpTypes DEF RequestId
<1>5. /\ control' \in Seq(RequestType) /\ DOMAIN control \subseteq DOMAIN control'
      /\ \A x \in DOMAIN control' : x \in DOMAIN control \/ control'[x] = RequestId(o)
      /\ \A x \in DOMAIN control : control'[x] = control[x]
      /\ cursor' \in 0 .. Len(control')
  BY <1>1, <1>2, <1>4, SequencesOfControl, AppendFacts DEF ControlTypeOK
<1>6. ControlTypeOK' BY <1>1, <1>3, <1>5 DEF ControlInv, ControlTypeOK, Counts
<1>7. RowsInv(o)'
  <2>1. Kept(o) BY <1>1 DEF Kept
  <2> QED BY <1>1, <1>2, <1>3, <2>1 DEF RowsInv, NewestOf
<1>8. \A id \in RequestType : id.n \in Nat /\ id.url \in Nat BY DEF RequestType
<1>9. \A id : Asked(id) => Asked(id)' BY <1>5 DEF Asked
<1>10. \A id : Asked(id) => id # RequestId(o)
  <2>1. \A x \in DOMAIN control : control[x].op = o => Earlier(o, control[x])
    BY <1>2 DEF IdsInv
  <2>2. op[o].n \in Nat /\ op[o].url \in Nat BY <1>2, OpTypes
  <2>3. RequestId(o).op = o /\ RequestId(o).n = op[o].n /\ RequestId(o).url = op[o].url
    BY <1>4
  <2>4. ~Earlier(o, RequestId(o)) BY <1>1, <2>2, <2>3 DEF Earlier
  <2> QED BY <2>1, <2>3, <2>4 DEF Asked
<1>11. IdsInv(o)'
  <2>1. \A x \in DOMAIN control' : (control[x].op = o => Earlier(o, control[x]))'
    <3>1. \A x \in DOMAIN control : control[x].op = o => Earlier(o, control[x])'
      BY <1>1, <1>2, <1>3 DEF IdsInv, Earlier
    <3>2. Earlier(o, RequestId(o))' BY <1>3, <1>4 DEF Earlier
    <3> QED BY <1>4, <1>5, <3>1, <3>2 DEF Earlier
  <2>2. \A i \in DOMAIN acks : acks[i].id # RequestId(o)
    BY <1>10 DEF ControlInv, TaskInv
  <2>3. ctl.pc = "ack" => ctl.id # RequestId(o) BY <1>10 DEF ControlInv, TaskInv
  <2>4. op'[o].told # "acknowledged" BY <1>1, <1>2, <1>3 DEF RowsInv
  <2> QED BY <1>1, <1>4, <2>1, <2>2, <2>3, <2>4 DEF IdsInv
<1>12. \A p \in Operators : p # o => RowsInv(p)' /\ IdsInv(p)'
  BY <1>1, <1>3, OtherOperator DEF OthersSame
<1>13. RowsInOrder' /\ TaskInv' BY <1>1, <1>9 DEF ControlInv, RowsInOrder, TaskInv
<1> QED BY <1>6, <1>7, <1>11, <1>12, <1>13 DEF ControlInv

(* The executor's control task leaves the rows and the operators alone.    *)
LEMMA ControlTask ==
  ASSUME ControlInv, UNCHANGED <<rows, control, op>>, ControlTypeOK', TaskInv',
         \A i \in DOMAIN acks : i \in DOMAIN acks' /\ acks'[i] = acks[i],
         \A o \in Operators : Awaited(o) =>
           /\ \A i \in DOMAIN acks' : acks'[i].id = RequestId(o)
                => Covers(o, acks'[i].seen, acks'[i].defaulted)
           /\ ctl'.pc = "ack" /\ ctl'.id = RequestId(o)
                => Covers(o, ctl'.seen, ctl'.defaulted)
  PROVE  ControlInv'
<1>1. RowsInOrder' BY DEF ControlInv, RowsInOrder
<1>2. ASSUME NEW o \in Operators PROVE RowsInv(o)' /\ IdsInv(o)'
  <2>1. RowsInv(o) /\ IdsInv(o) BY DEF ControlInv
  <2>2. Awaited(o)' = Awaited(o) /\ RequestId(o)' = RequestId(o) BY DEF Awaited, RequestId
  <2>3. RowsInv(o)' BY <2>1, <2>2 DEF RowsInv, Kept, NewestOf
  <2>4. IdsInv(o)' BY <2>1, <2>2 DEF IdsInv, Earlier, Covers
  <2> QED BY <2>3, <2>4
<1> QED BY <1>1, <1>2 DEF ControlInv

\* What the invariant says of the task and of the acknowledgements it wrote.
LEMMA TaskFacts ==
  ASSUME ControlInv
  PROVE  /\ ControlTypeOK /\ TaskInv
         /\ \A o \in Operators : Awaited(o) =>
              /\ \A i \in DOMAIN acks : acks[i].id = RequestId(o)
                   => Covers(o, acks[i].seen, acks[i].defaulted)
              /\ ctl.pc = "ack" /\ ctl.id = RequestId(o)
                   => Covers(o, ctl.seen, ctl.defaulted)
              /\ op[o].row <= NewestKillRow
<1>1. ControlTypeOK /\ TaskInv BY DEF ControlInv
<1>2. ASSUME NEW o \in Operators, Awaited(o)
      PROVE  /\ \A i \in DOMAIN acks : acks[i].id = RequestId(o)
                  => Covers(o, acks[i].seen, acks[i].defaulted)
             /\ ctl.pc = "ack" /\ ctl.id = RequestId(o)
                  => Covers(o, ctl.seen, ctl.defaulted)
             /\ op[o].row <= NewestKillRow
  <2>1. RowsInv(o) /\ IdsInv(o) BY DEF ControlInv
  <2>2. Kept(o) BY <1>2 DEF Awaited, Kept
  <2>3. op[o].row \in DOMAIN rows /\ rows[op[o].row].kind = "kill-switch"
    BY <1>2, <2>1, <2>2 DEF RowsInv, NewestOf
  <2> QED BY <1>1, <1>2, <2>1, <2>3, NewestKillRowCovers DEF IdsInv
<1> QED BY <1>1, <1>2

LEMMA ControlRead == ASSUME ControlInv, ReadControl PROVE ControlInv'
<1>1. /\ cursor + 1 \in DOMAIN control /\ cursor' = cursor + 1
      /\ ctl' = [pc |-> "fetch", id |-> control[cursor + 1]]
      /\ UNCHANGED <<rows, control, acks, op, issued, faulted>>
  BY SequencesOfControl DEF ReadControl, ControlInv, ControlTypeOK
<1>2. ControlTypeOK'
  BY <1>1, SequencesOfControl DEF ControlInv, ControlTypeOK
<1>3. TaskInv' BY <1>1, TaskFacts DEF TaskInv, Asked
<1>4. ctl'.pc # "ack" BY <1>1
<1> QED BY <1>1, <1>2, <1>3, <1>4, TaskFacts, ControlTask

LEMMA ControlFetch == ASSUME ControlInv, FetchFlag PROVE ControlInv'
<1>1. PICK seen \in Nat, defaulted \in BOOLEAN :
        /\ ctl' = [pc |-> "ack", id |-> ctl.id, seen |-> seen, defaulted |-> defaulted]
        /\ seen = NewestKillRow \/ defaulted
  BY NewestKillRowCovers, TaskFacts DEF FetchFlag
<1>2. /\ ctl.pc = "fetch" /\ UNCHANGED <<rows, control, cursor, acks, op>> /\ Counts
  BY FaultCount DEF FetchFlag
<1>3. ControlTypeOK' BY <1>1, <1>2, TaskFacts DEF ControlTypeOK, Counts
<1>4. TaskInv' BY <1>1, <1>2, TaskFacts DEF TaskInv, Asked
<1>5. \A o \in Operators : Awaited(o) => Covers(o, ctl'.seen, ctl'.defaulted)
  BY <1>1, TaskFacts, OpTypes, NewestKillRowCovers DEF Covers
<1> QED BY <1>1, <1>2, <1>3, <1>4, <1>5, TaskFacts, ControlTask

LEMMA ControlAcknowledge == ASSUME ControlInv, PublishAck PROVE ControlInv'
<1> DEFINE A == [id |-> ctl.id, seen |-> ctl.seen, defaulted |-> ctl.defaulted]
<1>1. /\ ctl.pc = "ack" /\ ctl' = [pc |-> "reading"] /\ Counts
      /\ UNCHANGED <<rows, control, cursor, op>>
  BY FaultCount DEF PublishAck
<1>2. A \in AckType /\ Asked(ctl.id)
  BY <1>1, TaskFacts, SequencesOfControl DEF TaskInv, Asked, AckType
<1>3. A.id = ctl.id /\ A.seen = ctl.seen /\ A.defaulted = ctl.defaulted OBVIOUS
<1> HIDE DEF A
<1>4. CASE acks' = Append(acks, A)
  <2>1. /\ acks' \in Seq(AckType) /\ DOMAIN acks \subseteq DOMAIN acks'
        /\ \A i \in DOMAIN acks : acks'[i] = acks[i]
        /\ \A i \in DOMAIN acks' : i \in DOMAIN acks \/ acks'[i] = A
    BY <1>2, <1>4, TaskFacts, SequencesOfControl, AppendFacts
  <2>2. ControlTypeOK' BY <1>1, <2>1, TaskFacts DEF ControlTypeOK, Counts
  <2>3. TaskInv' BY <1>1, <1>2, <1>3, <2>1, TaskFacts DEF TaskInv, Asked
  <2>4. ASSUME NEW o \in Operators, Awaited(o)
        PROVE  \A i \in DOMAIN acks' : acks'[i].id = RequestId(o)
                 => Covers(o, acks'[i].seen, acks'[i].defaulted)
    BY <1>1, <1>3, <2>1, <2>4, TaskFacts
  <2>5. ctl'.pc # "ack" BY <1>1
  <2> QED BY <1>1, <2>1, <2>2, <2>3, <2>4, <2>5, ControlTask
<1>5. CASE acks' = acks
  <2>1. ControlTypeOK' /\ TaskInv' /\ ctl'.pc # "ack"
    BY <1>1, <1>5, TaskFacts DEF ControlTypeOK, Counts, TaskInv, Asked
  <2> QED BY <1>1, <1>5, <2>1, TaskFacts, ControlTask
<1> QED BY <1>4, <1>5 DEF PublishAck, A

LEMMA ControlDies ==
  ASSUME ControlInv, CrashExecutor \/ RestartExecutor PROVE ControlInv'
<1>1. /\ ctl' \in {[pc |-> "down"], [pc |-> "reading"]} /\ Counts
      /\ UNCHANGED <<rows, control, cursor, acks, op>>
  BY FaultCount DEF CrashExecutor, RestartExecutor
<1>2. ctl'.pc \in {"down", "reading"} BY <1>1
<1>3. ControlTypeOK' /\ TaskInv'
  BY <1>1, <1>2, TaskFacts DEF ControlTypeOK, Counts, TaskInv, Asked
<1> QED BY <1>1, <1>2, <1>3, TaskFacts, ControlTask

LEMMA ControlStart == ControlInit => ControlInv
<1> SUFFICES ASSUME ControlInit PROVE ControlInv OBVIOUS
<1>1. /\ rows = <<>> /\ control = <<>> /\ cursor = 0 /\ acks = <<>> /\ ctl.pc = "reading"
      /\ issued = 0 /\ faulted = 0
  BY DEF ControlInit
<1>2. \A o \in Operators : /\ op[o].n = 0 /\ op[o].pc = "idle" /\ op[o].told = "nothing"
                           /\ op[o].kind = "executor"
  BY DEF ControlInit
<1>3. ControlTypeOK
  <2>1. op \in [Operators -> OpType]
    BY UrlsAssumption DEF ControlInit, OpType, Kinds, Handling
  <2> QED BY <1>1, <2>1, ControlBounds DEF ControlTypeOK
<1>4. RowsInOrder /\ TaskInv BY <1>1 DEF RowsInOrder, TaskInv
<1>5. ASSUME NEW o \in Operators PROVE RowsInv(o) /\ IdsInv(o)
  BY <1>1, <1>2 DEF RowsInv, IdsInv, Kept, Awaited, Late
<1> QED BY <1>3, <1>4, <1>5 DEF ControlInv

LEMMA ControlStep == ControlInv /\ [ControlNext]_controlVars => ControlInv'
<1> SUFFICES ASSUME ControlInv, [ControlNext]_controlVars PROVE ControlInv' OBVIOUS
<1>1. CASE UNCHANGED controlVars
  BY <1>1 DEF controlVars, ControlInv, ControlTypeOK, RowsInOrder, TaskInv, Asked, RowsInv,
     IdsInv, Kept, Awaited, NewestOf, Earlier, Covers, RequestId
<1>2. ASSUME NEW o \in Operators,
             Issue(o) \/ Refuse(o) \/ Handle(o) \/ BlockExpires(o) \/ AbortRequest(o)
      PROVE  ControlInv'
  <2>1. CASE PublishSync(o) BY <2>1, ControlHandler, ControlPublish
  <2> QED BY <1>2, <2>1, ControlIssue, ControlAttempts, ControlInsert, ControlHandler DEF Handle
<1>3. CASE ReadControl \/ FetchFlag \/ PublishAck \/ CrashExecutor \/ RestartExecutor
  BY <1>3, ControlRead, ControlFetch, ControlAcknowledge, ControlDies
<1> QED BY <1>1, <1>2, <1>3 DEF ControlNext

LEMMA ControlInvariance == ControlSpec => []ControlInv
BY ControlStart, ControlStep, PTL DEF ControlSpec

\* An operator who is told that the kill switch was acknowledged can rely on it:
\* the executor read the switch after the command's row was there, or it says
\* that it could not read it, however requests are repeated and whatever fails.
THEOREM AcknowledgedIsRead == ControlSpec => []AckedSwitchWasRead
<1>1. ControlInv => AckedSwitchWasRead
  <2> SUFFICES ASSUME ControlInv, NEW o \in Operators, op[o].told = "acknowledged"
               PROVE  \E i \in DOMAIN acks :
                        /\ acks[i].id = RequestId(o)
                        /\ acks[i].seen >= op[o].row \/ acks[i].defaulted
                        /\ rows[op[o].row].op = o /\ rows[op[o].row].n = op[o].n
    BY DEF AckedSwitchWasRead
  <2>1. RowsInv(o) /\ IdsInv(o) BY DEF ControlInv
  <2>2. Kept(o) /\ Awaited(o) BY DEF Kept, Awaited
  <2> QED BY <2>1, <2>2 DEF RowsInv, IdsInv, NewestOf, Covers
<1> QED BY <1>1, ControlInvariance, PTL

\* An operator's commands reach the control rows in the order in which they
\* were given, and one that was confirmed is the operator's last word there.
THEOREM CommandsInOrder == ControlSpec => []LastWordWins
<1>1. ControlInv => LastWordWins
  <2> SUFFICES ASSUME ControlInv PROVE LastWordWins OBVIOUS
  <2>1. \A o \in Operators : op[o].told \in {"ok", "acknowledged"} => NewestOf(o, op[o].row)
    BY DEF ControlInv, RowsInv, Kept
  <2> QED BY <2>1 DEF ControlInv, RowsInOrder, LastWordWins, NewestOf
<1> QED BY <1>1, ControlInvariance, PTL

(***************************************************************************)
(* The limiters.  In memory the requests served are covered one by one, the *)
(* newest first, by the times the bucket holds; in Redis the times at which *)
(* an answer admitted any are members of the sorted set.                    *)
(***************************************************************************)
InOrder(s) == /\ \A i, j \in 1 .. Len(s) : i <= j => s[i] <= s[j]
              /\ \A i \in 1 .. Len(s) : s[i] <= now

FromEnd(s, j) == s[Len(s) - j]

Covered(s, b) ==
  \A j \in Nat : j < Len(s) /\ LiveAt(now, FromEnd(s, j))
    => j < Len(b) /\ FromEnd(s, j) <= FromEnd(b, j)

LiveTimes(s) == {s[i] : i \in {k \in 1 .. Len(s) : LiveAt(now, s[k])}}

MemoryInv(t) == Len(bucket[t]) <= Limit(t) /\ Covered(served[t], bucket[t])
RedisInv(t)  == LiveTimes(served[t]) \subseteq zset
                /\ Cardinality(LiveTimes(served[t])) <= Limit(t)

LimiterInv ==
  /\ backend \in {"memory", "redis"} /\ now \in Nat
  /\ bucket \in [Tiers -> Seq(Nat)] /\ served \in [Routes -> Seq(Nat)]
  /\ zset \subseteq Nat /\ IsFiniteSet(zset)
  /\ waved \in [Tiers -> Seq(Nat)] /\ (backend = "memory" => \A t \in Tiers : waved[t] = <<>>)
  /\ \A t \in Tiers : InOrder(bucket[t]) /\ InOrder(served[t])
  /\ \A t \in Tiers : IF backend = "memory" THEN MemoryInv(t) ELSE RedisInv(t)

(* What draining leaves: the end of the sequence, from a live time on.     *)
LEMMA SinceFacts ==
  ASSUME NEW t \in Nat, NEW s \in Seq(Nat)
  PROVE  /\ Since(t, s) \in Seq(Nat) /\ Len(Since(t, s)) <= Len(s)
         /\ \A j \in Nat : j < Len(Since(t, s)) => FromEnd(Since(t, s), j) = FromEnd(s, j)
         /\ \A j \in Nat : j < Len(s) /\ LiveAt(t, FromEnd(s, j)) => j < Len(Since(t, s))
         /\ Len(Since(t, s)) > 0 => LiveAt(t, Since(t, s)[1])
<1> DEFINE n == Len(s)
           First(k) == /\ \A i \in 1 .. k - 1 : ~LiveAt(t, s[i])
                       /\ k <= n => LiveAt(t, s[k])
           S == {k \in 1 .. n + 1 : k <= n => LiveAt(t, s[k])}
<1>1. n \in Nat /\ \A i \in 1 .. n : s[i] \in Nat OBVIOUS
<1>2. \E k \in 1 .. n + 1 : First(k)
  <2>1. S \subseteq Nat /\ n + 1 \in S
    <3>1. n + 1 \in 1 .. n + 1 /\ ~(n + 1 <= n) /\ 1 .. n + 1 \subseteq Nat BY <1>1
    <3> QED BY <3>1
  <2>2. PICK k \in S : \A m \in S : k <= m
    <3>1. S \subseteq Nat /\ S # {} BY <2>1
    <3> HIDE DEF S
    <3> QED BY <3>1, LeastElement
  <2>3. k \in 1 .. n + 1 /\ (k <= n => LiveAt(t, s[k])) OBVIOUS
  <2>4. \A i \in 1 .. k - 1 : ~LiveAt(t, s[i])
    <3> SUFFICES ASSUME NEW i \in 1 .. k - 1, LiveAt(t, s[i]) PROVE FALSE OBVIOUS
    <3>1. i \in S BY <1>1, <2>3
    <3> QED BY <1>1, <2>2, <2>3, <3>1
  <2> QED BY <2>3, <2>4
<1>3. FirstLive(t, s) = CHOOSE k \in 1 .. n + 1 : First(k) BY DEF FirstLive
<1>4. PICK k \in 1 .. n + 1 : k = FirstLive(t, s) /\ First(k) BY <1>2, <1>3
<1>5. Since(t, s) = SubSeq(s, k, n) BY <1>4 DEF Since
<1>6. /\ Since(t, s) \in Seq(Nat) /\ Len(Since(t, s)) = n - k + 1
      /\ \A i \in 1 .. n - k + 1 : Since(t, s)[i] = s[k + i - 1]
  <2>1. k \in Int /\ k >= 1 /\ k <= n + 1 BY <1>1
  <2>2. \A i \in k .. n : s[i] \in Nat BY <1>1, <2>1
  <2> QED BY <1>1, <1>5, <2>1, <2>2, SubSeqProperties
<1>7. \A j \in Nat : j < n - k + 1 => FromEnd(Since(t, s), j) = FromEnd(s, j)
  BY <1>1, <1>6 DEF FromEnd
<1>8. \A j \in Nat : j < n /\ LiveAt(t, FromEnd(s, j)) => j < n - k + 1
  BY <1>1, <1>4 DEF FromEnd
<1>9. n - k + 1 > 0 => LiveAt(t, Since(t, s)[1])
  BY <1>1, <1>4, <1>6
<1> QED BY <1>1, <1>6, <1>7, <1>8, <1>9

LEMMA SinceInOrder ==
  ASSUME NEW t \in Nat, NEW s \in Seq(Nat), InOrder(s)
  PROVE  InOrder(Since(t, s))
<1> DEFINE r == Since(t, s)
<1>1. r \in Seq(Nat) /\ Len(r) \in Nat /\ Len(s) \in Nat /\ Len(r) <= Len(s)
  BY SinceFacts
<1>2. \A i \in 1 .. Len(r) : r[i] = s[Len(s) - Len(r) + i]
  <2> SUFFICES ASSUME NEW i \in 1 .. Len(r) PROVE r[i] = s[Len(s) - Len(r) + i] OBVIOUS
  <2>1. Len(r) - i \in Nat /\ Len(r) - i < Len(r) BY <1>1
  <2>2. FromEnd(r, Len(r) - i) = FromEnd(s, Len(r) - i) BY <2>1, SinceFacts
  <2>3. Len(r) - (Len(r) - i) = i /\ Len(s) - (Len(r) - i) = Len(s) - Len(r) + i BY <1>1
  <2> QED BY <2>2, <2>3 DEF FromEnd
<1> HIDE DEF r
<1>3. \A i \in 1 .. Len(r) : Len(s) - Len(r) + i \in 1 .. Len(s) BY <1>1
<1>4. \A i, j \in 1 .. Len(r) :
        i <= j => Len(s) - Len(r) + i <= Len(s) - Len(r) + j BY <1>1
<1>5. InOrder(r) BY <1>2, <1>3, <1>4 DEF InOrder
<1> QED BY <1>5 DEF r

LEMMA AppendInOrder ==
  ASSUME now \in Nat, NEW s \in Seq(Nat), InOrder(s)
  PROVE  InOrder(Append(s, now))
<1>1. /\ Len(Append(s, now)) = Len(s) + 1 /\ Len(s) \in Nat
      /\ \A i \in 1 .. Len(s) : Append(s, now)[i] = s[i]
      /\ Append(s, now)[Len(s) + 1] = now
  BY AppendFacts
<1>2. \A i \in 1 .. Len(s) + 1 : i \in 1 .. Len(s) \/ i = Len(s) + 1 BY <1>1
<1> QED BY <1>1, <1>2 DEF InOrder

LEMMA AppendFromEnd ==
  ASSUME NEW b \in Seq(Nat), NEW x \in Nat
  PROVE  /\ FromEnd(Append(b, x), 0) = x
         /\ \A j \in 1 .. Len(b) : FromEnd(Append(b, x), j) = FromEnd(b, j - 1)
<1>1. /\ Len(b) \in Nat /\ Len(Append(b, x)) = Len(b) + 1
      /\ \A i \in 1 .. Len(b) : Append(b, x)[i] = b[i]
      /\ Append(b, x)[Len(b) + 1] = x
  BY AppendFacts
<1>2. Len(b) + 1 - 0 = Len(b) + 1 BY <1>1
<1>3. FromEnd(Append(b, x), 0) = x BY <1>1, <1>2 DEF FromEnd
<1>4. ASSUME NEW j \in 1 .. Len(b) PROVE FromEnd(Append(b, x), j) = FromEnd(b, j - 1)
  <2>1. PICK i : i = Len(b) + 1 - j OBVIOUS
  <2>2. i \in 1 .. Len(b) /\ Len(b) - (j - 1) = i BY <1>1, <2>1
  <2>3. FromEnd(Append(b, x), j) = Append(b, x)[i] BY <1>1, <2>1 DEF FromEnd
  <2>4. FromEnd(b, j - 1) = b[i] BY <2>2 DEF FromEnd
  <2> QED BY <1>1, <2>2, <2>3, <2>4
<1> QED BY <1>3, <1>4

(* A tier's bucket covers what was served, and goes on to: when it is       *)
(* drained, when one more is admitted and served, and when one more is      *)
(* counted that another limiter or route has the last word on.              *)
LEMMA DrainedCovers ==
  ASSUME now \in Nat, NEW s \in Seq(Nat), NEW b \in Seq(Nat), Covered(s, b),
         InOrder(s), InOrder(b)
  PROVE  Covered(s, Recent(b))
<1> SUFFICES ASSUME NEW j \in Nat, j < Len(s), LiveAt(now, FromEnd(s, j))
             PROVE  j < Len(Recent(b)) /\ FromEnd(s, j) <= FromEnd(Recent(b), j)
  BY DEF Covered
<1>1. j < Len(b) /\ FromEnd(s, j) <= FromEnd(b, j) BY DEF Covered
<1>2. FromEnd(s, j) \in Nat /\ FromEnd(b, j) \in Nat BY <1>1 DEF FromEnd
<1>3. LiveAt(now, FromEnd(b, j)) BY <1>1, <1>2, LimiterAssumption DEF LiveAt
<1> QED BY <1>1, <1>3, SinceFacts DEF Recent

LEMMA ServedCovers ==
  ASSUME now \in Nat, NEW s \in Seq(Nat), NEW b \in Seq(Nat), Covered(s, b)
  PROVE  Covered(Append(s, now), Append(b, now))
<1>1. /\ Len(s) \in Nat /\ Len(b) \in Nat
      /\ Len(Append(s, now)) = Len(s) + 1 /\ Len(Append(b, now)) = Len(b) + 1
  BY AppendFacts
<1> SUFFICES ASSUME NEW j \in Nat, j < Len(s) + 1, LiveAt(now, FromEnd(Append(s, now), j))
             PROVE  /\ j < Len(b) + 1
                    /\ FromEnd(Append(s, now), j) <= FromEnd(Append(b, now), j)
  BY <1>1 DEF Covered
<1>2. CASE j = 0 BY <1>1, <1>2, AppendFromEnd
<1>3. CASE j # 0
  <2>1. j - 1 \in Nat /\ j - 1 < Len(s) /\ j \in 1 .. Len(s) BY <1>1, <1>3
  <2>2. FromEnd(Append(s, now), j) = FromEnd(s, j - 1) BY <2>1, AppendFromEnd
  <2>3. j - 1 < Len(b) /\ FromEnd(s, j - 1) <= FromEnd(b, j - 1)
    BY <2>1, <2>2 DEF Covered
  <2>4. j \in 1 .. Len(b) BY <1>1, <1>3, <2>3
  <2>5. FromEnd(Append(b, now), j) = FromEnd(b, j - 1) BY <2>4, AppendFromEnd
  <2>6. j < Len(b) + 1 BY <1>1, <2>4
  <2> QED BY <2>2, <2>3, <2>5, <2>6
<1> QED BY <1>2, <1>3

LEMMA CountedCovers ==
  ASSUME now \in Nat, NEW s \in Seq(Nat), NEW b \in Seq(Nat), Covered(s, b), InOrder(s),
         InOrder(b)
  PROVE  Covered(s, Append(b, now))
<1>1. Len(s) \in Nat /\ Len(b) \in Nat /\ Len(Append(b, now)) = Len(b) + 1 BY AppendFacts
<1> SUFFICES ASSUME NEW j \in Nat, j < Len(s), LiveAt(now, FromEnd(s, j))
             PROVE  j < Len(b) + 1 /\ FromEnd(s, j) <= FromEnd(Append(b, now), j)
  BY <1>1 DEF Covered
<1>2. j < Len(b) /\ FromEnd(s, j) <= FromEnd(b, j) BY DEF Covered
<1>3. j < Len(b) + 1 BY <1>1, <1>2
<1>4. CASE j = 0
  <2>1. Len(s) - 0 \in 1 .. Len(s) BY <1>1, <1>4
  <2>2. FromEnd(s, 0) <= now BY <2>1 DEF FromEnd, InOrder
  <2> QED BY <1>3, <1>4, <2>2, AppendFromEnd
<1>5. CASE j # 0
  <2>1. PICK k, l : k = Len(b) - j /\ l = Len(b) - (j - 1) OBVIOUS
  <2>2. k \in 1 .. Len(b) /\ l \in 1 .. Len(b) /\ k <= l /\ j \in 1 .. Len(b)
    BY <1>1, <1>2, <1>5, <2>1
  <2>3. b[k] <= b[l] BY <2>2 DEF InOrder
  <2>4. FromEnd(b, j) = b[k] /\ FromEnd(b, j - 1) = b[l] BY <2>1 DEF FromEnd
  <2>5. FromEnd(Append(b, now), j) = b[l] BY <2>2, <2>4, AppendFromEnd
  <2>6. PICK m \in 1 .. Len(s) : m = Len(s) - j
    <3>1. Len(s) - j \in 1 .. Len(s) BY <1>1
    <3> QED BY <3>1
  <2>7. FromEnd(s, j) \in Nat /\ b[k] \in Nat /\ b[l] \in Nat
    <3>1. s[m] \in Nat /\ b[k] \in Nat /\ b[l] \in Nat BY <2>2
    <3> QED BY <2>6, <3>1 DEF FromEnd
  <2>8. FromEnd(s, j) <= b[k] BY <1>2, <2>4
  <2>9. FromEnd(s, j) <= b[l] BY <2>3, <2>7, <2>8
  <2> QED BY <1>3, <2>5, <2>9
<1> QED BY <1>4, <1>5

(* What one request does to one tier.                                      *)
TierStep(t) ==
  \/ /\ served'[t] = served[t] /\ bucket'[t] \in {bucket[t], Recent(bucket[t])}
  \/ /\ bucket'[t] = Append(Recent(bucket[t]), now) /\ Len(Recent(bucket[t])) < Limit(t)
     /\ served'[t] \in {served[t], Append(served[t], now)}

LEMMA RequestInMemory ==
  ASSUME LimiterInv, backend = "memory", NEW r \in Routes, Request(r)
  PROVE  /\ bucket' \in [Tiers -> Seq(Nat)] /\ UNCHANGED <<backend, now, zset, waved>>
         /\ \A t \in Tiers : TierStep(t)
<1> DEFINE first  == Checked("general", [b |-> bucket, z |-> zset])
           second == Checked("control", first.left)
<1>0. Pass(r, first, second) BY DEF Request, Checks
<1> DEFINE G == Recent(bucket["general"])
           C == Recent(bucket["control"])
<1>1. /\ bucket \in [Tiers -> Seq(Nat)] /\ served \in [Routes -> Seq(Nat)] /\ now \in Nat
      /\ "general" \in Tiers /\ "control" \in Tiers /\ Tiers = {"general", "control"}
      /\ Tiers \subseteq Routes
  BY DEF LimiterInv, Tiers, Routes
<1>2. G \in Seq(Nat) /\ C \in Seq(Nat) BY <1>1, SinceFacts DEF Recent
<1>3. Append(G, now) \in Seq(Nat) /\ Append(C, now) \in Seq(Nat) BY <1>1, <1>2
<1>6. /\ first.admits = (Len(G) < Limit("general")) /\ first.failed = 0
      /\ first.left.b = [bucket EXCEPT !["general"] =
                           IF Len(G) < Limit("general") THEN Append(G, now) ELSE G]
      /\ first.left.z = zset
  BY DEF Checked, Admits, Consumed
<1>7. first.left.b["control"] = bucket["control"] BY <1>1, <1>6
<1>8. /\ second.admits = (Len(C) < Limit("control")) /\ second.failed = 0
      /\ second.left.b = [first.left.b EXCEPT !["control"] =
                            IF Len(C) < Limit("control") THEN Append(C, now) ELSE C]
      /\ second.left.z = zset
  <2> HIDE DEF first
  <2> QED BY <1>6, <1>7 DEF Checked, Admits, Consumed
<1> HIDE DEF G, C, first, second
<1>4. CASE r = "general" /\ Len(G) < Limit("general")
  <2>1. /\ bucket' = [bucket EXCEPT !["general"] = Append(G, now)]
        /\ served' = [served EXCEPT !["general"] = Append(@, now)]
        /\ UNCHANGED <<backend, now, zset, waved>>
    <3>1. bucket' = first.left.b /\ zset' = first.left.z BY <1>0, <1>4, <1>6 DEF Pass
    <3>2. served' = [served EXCEPT ![r] = Append(@, now)]
      BY <1>0, <1>1, <1>4, <1>6 DEF Pass
    <3>4. waved' = waved BY <1>0, <1>1, <1>4, <1>6 DEF Pass
    <3>3. backend' = backend /\ now' = now BY <1>0 DEF Pass
    <3> QED BY <1>4, <1>6, <3>1, <3>2, <3>3, <3>4
  <2> QED BY <1>1, <1>3, <1>4, <2>1 DEF TierStep, G
<1>5. CASE ~(r = "general" /\ Len(G) < Limit("general"))
  <2>1. PICK g \in Seq(Nat) :
          /\ g = IF Len(G) < Limit("general") THEN Append(G, now) ELSE G
    BY <1>2, <1>3
  <2>2. PICK c \in Seq(Nat) :
          /\ c = IF Len(C) < Limit("control") THEN Append(C, now) ELSE C
    BY <1>2, <1>3
  <2> DEFINE b1 == [bucket EXCEPT !["general"] = g]
  <2>3. b1["control"] = bucket["control"] BY <1>1
  <2>4. /\ bucket' = [b1 EXCEPT !["control"] = c]
        /\ served' = IF (r = "control" /\ Len(C) < Limit("control")) \/ r = "exempt"
                     THEN [served EXCEPT ![r] = Append(@, now)] ELSE served
        /\ UNCHANGED <<backend, now, zset, waved>>
    <3>1. bucket' = second.left.b /\ zset' = second.left.z BY <1>0, <1>5, <1>6 DEF Pass
    <3>2. second.left.b = [b1 EXCEPT !["control"] = c] BY <1>6, <1>8, <2>1, <2>2
    <3>3. served' = IF (r = "control" /\ Len(C) < Limit("control")) \/ r = "exempt"
                    THEN [served EXCEPT ![r] = Append(@, now)] ELSE served
      BY <1>0, <1>1, <1>5, <1>6, <1>8 DEF Pass
    <3>4. waved' = waved BY <1>0, <1>1, <1>5, <1>6, <1>8 DEF Pass
    <3>5. backend' = backend /\ now' = now BY <1>0 DEF Pass
    <3> QED BY <1>8, <3>1, <3>2, <3>3, <3>4, <3>5
  <2>5. bucket'["general"] = g /\ bucket'["control"] = c /\ bucket' \in [Tiers -> Seq(Nat)]
    BY <1>1, <2>4
  <2>6. /\ served'["general"] = served["general"]
        /\ served'["control"] = served["control"]
           \/ /\ Len(C) < Limit("control")
              /\ served'["control"] = Append(served["control"], now)
    BY <1>1, <2>4 DEF Routes
  <2>7. TierStep("general") BY <2>1, <2>5, <2>6 DEF TierStep, G
  <2>8. TierStep("control") BY <2>2, <2>5, <2>6 DEF TierStep, C
  <2> QED BY <1>1, <2>4, <2>5, <2>7, <2>8
<1> QED BY <1>4, <1>5

LEMMA MemoryStep ==
  ASSUME LimiterInv, backend = "memory", NEW t \in Tiers, TierStep(t), UNCHANGED now
  PROVE  MemoryInv(t)' /\ InOrder(bucket[t])' /\ InOrder(served[t])'
<1> DEFINE s == served[t]
           b == bucket[t]
           d == Recent(b)
<1>1. /\ now \in Nat /\ s \in Seq(Nat) /\ b \in Seq(Nat) /\ InOrder(s) /\ InOrder(b)
      /\ Len(b) <= Limit(t) /\ Covered(s, b) /\ Limit(t) \in Nat
  BY LimiterAssumption DEF LimiterInv, MemoryInv, Tiers, Routes, Limit
<1>2. /\ d \in Seq(Nat) /\ InOrder(d) /\ Covered(s, d) /\ Len(d) <= Len(b)
      /\ Len(d) \in Nat /\ Len(b) \in Nat
  <2>1. d \in Seq(Nat) /\ Len(d) <= Len(b) BY <1>1, SinceFacts DEF Recent
  <2>2. InOrder(d) BY <1>1, SinceInOrder DEF Recent
  <2>3. Covered(s, d) BY <1>1, DrainedCovers
  <2> QED BY <1>1, <2>1, <2>2, <2>3
<1> HIDE DEF s, b, d
<1>3. /\ InOrder(Append(d, now)) /\ InOrder(Append(s, now)) /\ Len(Append(d, now)) = Len(d) + 1
      /\ Covered(s, Append(d, now)) /\ Covered(Append(s, now), Append(d, now))
  <2>1. InOrder(Append(d, now)) /\ InOrder(Append(s, now)) BY <1>1, <1>2, AppendInOrder
  <2>2. Covered(s, Append(d, now)) BY <1>1, <1>2, CountedCovers
  <2>3. Covered(Append(s, now), Append(d, now)) BY <1>1, <1>2, ServedCovers
  <2>4. Len(Append(d, now)) = Len(d) + 1 BY <1>1, <1>2, AppendFacts
  <2> QED BY <2>1, <2>2, <2>3, <2>4
<1>4. PICK s1, b1 : s1 = served'[t] /\ b1 = bucket'[t] OBVIOUS
<1>5. /\ Len(b1) <= Limit(t) /\ Covered(s1, b1) /\ InOrder(b1) /\ InOrder(s1)
  <2>1. CASE s1 = s /\ b1 \in {b, d} BY <1>1, <1>2, <2>1
  <2>2. CASE b1 = Append(d, now) /\ Len(d) < Limit(t) /\ s1 \in {s, Append(s, now)}
    <3>1. Len(d) + 1 <= Limit(t) BY <1>1, <1>2, <2>2
    <3>2. Len(b1) <= Limit(t) /\ InOrder(b1) BY <1>3, <2>2, <3>1
    <3>3. CASE s1 = s BY <1>1, <1>3, <2>2, <3>2, <3>3
    <3>4. CASE s1 = Append(s, now) BY <1>3, <2>2, <3>2, <3>4
    <3> QED BY <2>2, <3>3, <3>4
  <2> QED BY <1>4, <2>1, <2>2 DEF TierStep, s, b, d
<1> QED BY <1>4, <1>5 DEF MemoryInv, Covered, InOrder, LiveAt, FromEnd, Limit

LEMMA ServedType ==
  ASSUME LimiterInv, NEW r \in Routes, served' \in {served, [served EXCEPT ![r] = Append(@, now)]}
  PROVE  served' \in [Routes -> Seq(Nat)]
<1>1. served \in [Routes -> Seq(Nat)] /\ now \in Nat BY DEF LimiterInv
<1>2. Append(served[r], now) \in Seq(Nat) BY <1>1, AppendFacts
<1>3. PICK a \in Seq(Nat) : a = Append(served[r], now) BY <1>2
<1>4. [served EXCEPT ![r] = a] \in [Routes -> Seq(Nat)] BY <1>1
<1> QED BY <1>1, <1>3, <1>4

LEMMA MemoryRequest ==
  ASSUME LimiterInv, backend = "memory", NEW r \in Routes, Request(r)
  PROVE  LimiterInv'
<1>1. /\ bucket' \in [Tiers -> Seq(Nat)] /\ UNCHANGED <<backend, now, zset, waved>>
      /\ \A t \in Tiers : TierStep(t)
  BY RequestInMemory
<1>2. served' \in [Routes -> Seq(Nat)]
  <2>1. served' \in {served, [served EXCEPT ![r] = Append(@, now)]} BY DEF Request, Pass
  <2> QED BY <2>1, ServedType
<1>3. \A t \in Tiers : MemoryInv(t)' /\ InOrder(bucket[t])' /\ InOrder(served[t])'
  BY <1>1, MemoryStep
<1> QED BY <1>1, <1>2, <1>3 DEF LimiterInv

(* In Redis one set counts for both tiers.                                 *)
LEMMA LiveTimesGrow ==
  ASSUME now \in Nat, NEW s \in Seq(Nat)
  PROVE  /\ LiveTimes(Append(s, now)) \subseteq LiveTimes(s) \union {now}
         /\ \A x \in LiveTimes(s) : LiveAt(now, x)
<1>1. /\ Len(s) \in Nat /\ Len(Append(s, now)) = Len(s) + 1
      /\ \A i \in 1 .. Len(s) : Append(s, now)[i] = s[i]
      /\ Append(s, now)[Len(s) + 1] = now
  BY AppendFacts
<1>2. \A i \in 1 .. Len(s) + 1 : i \in 1 .. Len(s) \/ i = Len(s) + 1 BY <1>1
<1> QED BY <1>1, <1>2 DEF LiveTimes

(* Whatever the checks answer or fail to, the set stays or counts the request, *)
(* and a request that an answer admitted found it small enough.              *)
LEMMA RequestInRedis ==
  ASSUME LimiterInv, backend = "redis", NEW r \in Routes, Request(r)
  PROVE  LET Z == {x \in zset : LiveAt(now, x)} \union {now}
         IN /\ zset' \in {zset, Z} /\ UNCHANGED <<backend, now, bucket>>
            /\ \E t \in Tiers : waved' \in {waved, [waved EXCEPT ![t] = Append(@, now)]}
            /\ served' \in {served, [served EXCEPT ![r] = Append(@, now)]}
            /\ served' # served /\ r \in Tiers => zset' = Z /\ Cardinality(Z) <= Limit(r)
<1> DEFINE Z == {x \in zset : LiveAt(now, x)} \union {now}
           before == [b |-> bucket, z |-> zset]
           after  == [b |-> bucket, z |-> Z]
           Fair(t, c) == /\ c.left \in {before, after} /\ c.failed \in {0, 1}
                         /\ c.failed = 0 => /\ c.left = after
                                            /\ c.admits <=> Cardinality(Z) <= Limit(t)
<1>1. now \in Nat /\ zset \subseteq Nat BY DEF LimiterInv
<1>2. LiveAt(now, now) BY <1>1, LimiterAssumption DEF LiveAt
<1>3. {x \in Z : LiveAt(now, x)} \union {now} = Z BY <1>2
<1> HIDE DEF Z
<1>4. \A z \in {zset, Z} : Purged(bucket, z).z \union {now} = Z
  BY <1>3 DEF Purged, InWindow, Z
<1>5. ASSUME NEW t \in Tiers, NEW h \in {before, after}, NEW c \in Checks(t, h)
      PROVE  Fair(t, c)
  <2>1. h.b = bucket /\ h.z \in {zset, Z} OBVIOUS
  <2>2. Consumed(t, h.b, h.z) = after BY <1>4, <2>1 DEF Consumed
  <2>3. Admits(t, h.b, h.z) <=> Cardinality(Z) <= Limit(t) BY <1>4, <2>1 DEF Admits
  <2>4. CASE c = Checked(t, h) BY <2>2, <2>3, <2>4 DEF Checked
  <2>5. CASE c \in Unanswered(t, h) BY <2>2, <2>5 DEF Unanswered
  <2> QED BY <2>4, <2>5 DEF Checks
<1>6. PICK first \in Checks("general", before) :
        \E second \in Checks("control", first.left) : Pass(r, first, second)
  BY DEF Request
<1>7. PICK second \in Checks("control", first.left) : Pass(r, first, second) BY <1>6
<1>8. Fair("general", first) BY <1>5 DEF Tiers
<1>9. Fair("control", second) BY <1>5, <1>8 DEF Tiers
<1> HIDE DEF before, after
<1>10. \E left \in {before, after} : bucket' = left.b /\ zset' = left.z
  BY <1>7, <1>8, <1>9 DEF Pass
<1>11. zset' \in {zset, Z} /\ bucket' = bucket BY <1>10 DEF before, after
<1>12. /\ UNCHANGED <<backend, now>>
       /\ served' \in {served, [served EXCEPT ![r] = Append(@, now)]}
  BY <1>7 DEF Pass
<1>13. \E t \in Tiers : waved' \in {waved, [waved EXCEPT ![t] = Append(@, now)]}
  BY <1>7 DEF Pass, Tiers
<1>14. ASSUME served' # served, r \in Tiers PROVE zset' = Z /\ Cardinality(Z) <= Limit(r)
  <2>1. r # "exempt" BY <1>14 DEF Tiers
  <2>2. CASE r = "general"
    <3>1. first.admits /\ first.failed = 0 /\ zset' = first.left.z
      BY <1>7, <1>14, <2>1, <2>2 DEF Pass
    <3> QED BY <1>8, <2>2, <3>1 DEF after
  <2>3. CASE r = "control"
    <3>1. second.admits /\ second.failed = 0 /\ zset' = second.left.z
      BY <1>7, <1>14, <2>1, <2>3 DEF Pass
    <3> QED BY <1>9, <2>3, <3>1 DEF after
  <2> QED BY <1>14, <2>2, <2>3 DEF Tiers
<1> QED BY <1>11, <1>12, <1>13, <1>14 DEF Z

LEMMA RedisRequest ==
  ASSUME LimiterInv, backend = "redis", NEW r \in Routes, Request(r)
  PROVE  LimiterInv'
<1> DEFINE Z == {x \in zset : LiveAt(now, x)} \union {now}
<1>1. /\ zset' \in {zset, Z} /\ UNCHANGED <<backend, now, bucket>>
      /\ \E t \in Tiers : waved' \in {waved, [waved EXCEPT ![t] = Append(@, now)]}
      /\ served' \in {served, [served EXCEPT ![r] = Append(@, now)]}
      /\ served' # served /\ r \in Tiers => zset' = Z /\ Cardinality(Z) <= Limit(r)
  BY RequestInRedis
<1>2. /\ now \in Nat /\ served \in [Routes -> Seq(Nat)] /\ zset \subseteq Nat /\ IsFiniteSet(zset)
      /\ Tiers \subseteq Routes
  BY DEF LimiterInv, Routes
<1>3. Z \subseteq Nat /\ IsFiniteSet(Z)
  <2>1. IsFiniteSet({x \in zset : LiveAt(now, x)}) BY <1>2, FS_Subset
  <2>2. IsFiniteSet({x \in zset : LiveAt(now, x)} \union {now}) BY <2>1, FS_AddElement
  <2> QED BY <1>2, <2>2
<1>4. served' \in [Routes -> Seq(Nat)] BY <1>1, ServedType
<1>5. ASSUME NEW t \in Tiers PROVE RedisInv(t)' /\ InOrder(served[t])'
  <2> DEFINE s == served[t]
  <2>1. /\ s \in Seq(Nat) /\ InOrder(s) /\ LiveTimes(s) \subseteq zset
        /\ Cardinality(LiveTimes(s)) <= Limit(t)
    BY <1>2 DEF LimiterInv, RedisInv
  <2>2. LiveTimes(s) \subseteq Z
    BY <1>2, <2>1, LiveTimesGrow
  <2> HIDE DEF s
  <2>3. PICK s1 : s1 = served'[t] OBVIOUS
  <2>4. \/ s1 = s
        \/ s1 = Append(s, now) /\ zset' = Z /\ Cardinality(Z) <= Limit(t)
    <3>1. CASE served' = served BY <2>3, <3>1 DEF s
    <3>2. CASE served' # served /\ r = t BY <1>1, <1>2, <2>3, <3>2 DEF s
    <3>3. CASE served' # served /\ r # t BY <1>1, <1>2, <2>3, <3>3 DEF s
    <3> QED BY <3>1, <3>2, <3>3
  <2>5. LiveTimes(s1) \subseteq zset' /\ Cardinality(LiveTimes(s1)) <= Limit(t) /\ InOrder(s1)
    <3>1. CASE s1 = s BY <1>1, <2>1, <2>2, <3>1
    <3>2. CASE s1 = Append(s, now) /\ zset' = Z /\ Cardinality(Z) <= Limit(t)
      <4>1. LiveTimes(s1) \subseteq Z BY <1>2, <2>1, <2>2, <3>2, LiveTimesGrow
      <4>2. /\ Cardinality(LiveTimes(s1)) <= Cardinality(Z)
            /\ Cardinality(LiveTimes(s1)) \in Nat /\ Cardinality(Z) \in Nat
        BY <1>3, <4>1, FS_Subset, FS_CardinalityType
      <4>3. Limit(t) \in Nat BY LimiterAssumption DEF Limit
      <4>4. Cardinality(LiveTimes(s1)) <= Limit(t) BY <3>2, <4>2, <4>3
      <4>5. InOrder(s1) BY <1>2, <2>1, <3>2, AppendInOrder
      <4> QED BY <3>2, <4>1, <4>4, <4>5
    <3> QED BY <2>4, <3>1, <3>2
  <2>6. /\ LiveTimes(s1)' = LiveTimes(s1) /\ (InOrder(s1)' <=> InOrder(s1))
    BY <1>1 DEF LiveTimes, LiveAt, InOrder
  <2> QED BY <1>1, <2>3, <2>5, <2>6 DEF RedisInv, Limit, LiveTimes, LiveAt, InOrder
<1>6. \A t \in Tiers : InOrder(bucket[t])' BY <1>1 DEF LimiterInv, InOrder
<1>7. waved' \in [Tiers -> Seq(Nat)]
  <2>1. PICK t \in Tiers : waved' \in {waved, [waved EXCEPT ![t] = Append(@, now)]} BY <1>1
  <2>2. waved \in [Tiers -> Seq(Nat)] BY DEF LimiterInv
  <2>3. PICK a \in Seq(Nat) : a = Append(waved[t], now) BY <1>2, <2>2, AppendFacts
  <2>4. [waved EXCEPT ![t] = a] \in [Tiers -> Seq(Nat)] BY <2>2
  <2> QED BY <2>1, <2>2, <2>3, <2>4
<1> HIDE DEF Z
<1> QED BY <1>1, <1>2, <1>3, <1>4, <1>5, <1>6, <1>7 DEF LimiterInv

LEMMA LimiterWait ==
  ASSUME LimiterInv, Wait PROVE LimiterInv'
<1>1. /\ now \in Nat /\ now' = now + 1 /\ UNCHANGED <<backend, bucket, zset>>
      /\ served' = [r \in Routes |-> Since(now + 1, served[r])]
      /\ Tiers \subseteq Routes
  BY DEF LimiterInv, Wait, Routes
<1>2. served' \in [Routes -> Seq(Nat)]
  <2>1. \A r \in Routes : Since(now + 1, served[r]) \in Seq(Nat)
    BY <1>1, SinceFacts DEF LimiterInv
  <2> QED BY <1>1, <2>1
<1>3. \A x \in Nat : (LiveAt(now + 1, x) => LiveAt(now, x)) /\ (x <= now => x <= now + 1)
  BY <1>1, LimiterAssumption DEF LiveAt
<1>4. ASSUME NEW t \in Tiers
      PROVE  /\ InOrder(bucket[t])' /\ InOrder(served[t])'
             /\ backend = "memory" => MemoryInv(t)'
             /\ backend = "redis" => RedisInv(t)'
  <2> DEFINE s == served[t]
             b == bucket[t]
  <2>1. s \in Seq(Nat) /\ b \in Seq(Nat) /\ InOrder(s) /\ InOrder(b) BY <1>1 DEF LimiterInv
  <2>2. PICK s1 \in Seq(Nat) : s1 = served'[t] /\ s1 = Since(now + 1, s) BY <1>1, <1>2
  <2>3. /\ Len(s1) \in Nat /\ Len(s) \in Nat /\ Len(s1) <= Len(s)
        /\ \A j \in Nat : j < Len(s1) => FromEnd(s1, j) = FromEnd(s, j)
    BY <1>1, <2>1, <2>2, SinceFacts
  <2>4. InOrder(s1) BY <1>1, <2>1, <2>2, SinceInOrder
  <2> HIDE DEF s
  <2>5. PICK b1 \in Seq(Nat) : b1 = bucket[t] /\ b1 = bucket'[t] BY <1>1, <2>1
  <2>6. InOrder(b1)' /\ InOrder(s1)'
    <3>1. ASSUME NEW x \in Seq(Nat), InOrder(x) PROVE InOrder(x)'
      <4>1. \A i \in 1 .. Len(x) : x[i] \in Nat /\ x[i] <= now + 1
        BY <1>3, <3>1 DEF InOrder
      <4> QED BY <1>1, <3>1, <4>1 DEF InOrder
    <3> QED BY <2>1, <2>4, <2>5, <3>1
  <2>7. \A j \in Nat : j < Len(s1) => /\ j < Len(s) /\ FromEnd(s1, j) = FromEnd(s, j)
                                       /\ FromEnd(s1, j) \in Nat
    <3> SUFFICES ASSUME NEW j \in Nat, j < Len(s1)
                 PROVE  j < Len(s) /\ FromEnd(s1, j) = FromEnd(s, j) /\ FromEnd(s1, j) \in Nat
      OBVIOUS
    <3>1. PICK m \in 1 .. Len(s1) : m = Len(s1) - j
      <4>1. Len(s1) - j \in 1 .. Len(s1) BY <2>3
      <4> QED BY <4>1
    <3>2. s1[m] \in Nat OBVIOUS
    <3> QED BY <2>3, <3>1, <3>2 DEF FromEnd
  <2>8. CASE backend = "memory"
    <3>1. Covered(s, b1) /\ Len(b1) <= Limit(t) BY <2>5, <2>8 DEF LimiterInv, MemoryInv, s
    <3>2. ASSUME NEW j \in Nat, j < Len(s1), LiveAt(now + 1, FromEnd(s1, j))
          PROVE  j < Len(b1) /\ FromEnd(s1, j) <= FromEnd(b1, j)
      BY <1>3, <2>7, <3>1, <3>2 DEF Covered
    <3>3. Covered(s1, b1)' BY <1>1, <3>2 DEF Covered, LiveAt, FromEnd
    <3> QED BY <2>2, <2>5, <2>6, <2>8, <3>1, <3>3 DEF MemoryInv, Covered, InOrder, FromEnd, LiveAt, Limit
  <2>9. CASE backend = "redis"
    <3>1. /\ LiveTimes(s) \subseteq zset /\ Cardinality(LiveTimes(s)) <= Limit(t)
          /\ IsFiniteSet(zset)
      BY <2>9 DEF LimiterInv, RedisInv, s
    <3> DEFINE L == {s1[i] : i \in {k \in 1 .. Len(s1) : LiveAt(now + 1, s1[k])}}
    <3>2. L \subseteq LiveTimes(s)
      <4> SUFFICES ASSUME NEW i \in 1 .. Len(s1), LiveAt(now + 1, s1[i])
                   PROVE  s1[i] \in LiveTimes(s)
        OBVIOUS
      <4>1. PICK j \in Nat : j = Len(s1) - i /\ j < Len(s1)
        <5>1. Len(s1) - i \in Nat /\ Len(s1) - i < Len(s1) BY <2>3
        <5> QED BY <5>1
      <4>2. Len(s1) - j = i BY <2>3, <4>1
      <4>3. FromEnd(s1, j) = s1[i] BY <4>2 DEF FromEnd
      <4>4. PICK m \in 1 .. Len(s) : m = Len(s) - j
        <5>1. Len(s) - j \in 1 .. Len(s) BY <2>3, <4>1
        <5> QED BY <5>1
      <4>5. s1[i] = s[m] /\ s[m] \in Nat BY <2>7, <4>1, <4>3, <4>4 DEF FromEnd
      <4>6. LiveAt(now, s[m]) BY <1>3, <4>5
      <4> QED BY <4>5, <4>6 DEF LiveTimes
    <3>3. IsFiniteSet(LiveTimes(s)) BY <3>1, FS_Subset
    <3>4. /\ Cardinality(L) <= Cardinality(LiveTimes(s))
          /\ Cardinality(L) \in Nat /\ Cardinality(LiveTimes(s)) \in Nat
      <4> HIDE DEF L
      <4> QED BY <3>2, <3>3, FS_Subset, FS_CardinalityType
    <3>5. L \subseteq zset /\ Cardinality(L) <= Limit(t)
      <4>1. Limit(t) \in Nat BY LimiterAssumption DEF Limit
      <4> HIDE DEF L
      <4> QED BY <3>1, <3>2, <3>4, <4>1
    <3>6. LiveTimes(s1)' = L BY <1>1 DEF LiveTimes, LiveAt
    <3> HIDE DEF L
    <3>7. LiveTimes(served[t])' = L BY <2>2, <3>6 DEF LiveTimes, LiveAt
    <3> QED BY <1>1, <2>2, <2>5, <2>6, <2>9, <3>5, <3>7 DEF RedisInv, InOrder, Limit
  <2> QED BY <2>2, <2>5, <2>6, <2>8, <2>9 DEF InOrder
<1>5. /\ backend' \in {"memory", "redis"} /\ now' \in Nat /\ zset' \subseteq Nat
      /\ IsFiniteSet(zset') /\ bucket' \in [Tiers -> Seq(Nat)]
  BY <1>1 DEF LimiterInv
<1>6. \A t \in Tiers : IF backend' = "memory" THEN MemoryInv(t)' ELSE RedisInv(t)'
  BY <1>1, <1>4, <1>5
<1>7. /\ waved' = [t \in Tiers |-> Since(now + 1, waved[t])]
      /\ waved \in [Tiers -> Seq(Nat)] /\ now + 1 \in Nat
  BY <1>1 DEF LimiterInv, Wait
<1>8. \A t \in Tiers : Since(now + 1, waved[t]) \in Seq(Nat)
  BY <1>7, SinceFacts
<1>9. waved' \in [Tiers -> Seq(Nat)] BY <1>7, <1>8
<1>10. backend' = "memory" => \A t \in Tiers : waved'[t] = <<>>
  <2> SUFFICES ASSUME backend = "memory", NEW t \in Tiers PROVE Since(now + 1, waved[t]) = <<>>
    BY <1>1, <1>7
  <2>1. waved[t] = <<>> /\ Len(<<>>) = 0 /\ <<>> \in Seq(Nat) BY DEF LimiterInv
  <2>2. Since(now + 1, <<>>) \in Seq(Nat) /\ Len(Since(now + 1, <<>>)) <= 0
    BY <1>7, <2>1, SinceFacts
  <2> QED BY <2>1, <2>2, EmptySeq
<1> QED BY <1>2, <1>4, <1>5, <1>6, <1>9, <1>10 DEF LimiterInv

LEMMA LimiterStart == LimiterInit => LimiterInv
<1> SUFFICES ASSUME LimiterInit PROVE LimiterInv OBVIOUS
<1>1. /\ backend \in {"memory", "redis"} /\ now = 0 /\ zset = {}
      /\ bucket = [t \in Tiers |-> <<>>] /\ served = [r \in Routes |-> <<>>]
      /\ waved = [t \in Tiers |-> <<>>]
  BY DEF LimiterInit
<1>2. waved \in [Tiers -> Seq(Nat)] /\ \A t \in Tiers : waved[t] = <<>> BY <1>1
<1>9. bucket \in [Tiers -> Seq(Nat)] /\ served \in [Routes -> Seq(Nat)] BY <1>1
<1>3. IsFiniteSet(zset) /\ zset \subseteq Nat BY <1>1, FS_EmptySet
<1>4. \A t \in Tiers : bucket[t] = <<>> /\ served[t] = <<>> BY <1>1 DEF Routes
<1>5. InOrder(<<>>) /\ Covered(<<>>, <<>>) /\ LiveTimes(<<>>) = {}
  BY DEF InOrder, Covered, LiveTimes
<1>6. Cardinality({}) = 0 BY FS_EmptySet
<1>7. \A t \in Tiers : Limit(t) \in Nat BY LimiterAssumption DEF Limit
<1>8. ASSUME NEW t \in Tiers PROVE MemoryInv(t) /\ RedisInv(t)
  <2>1. Limit(t) \in Nat /\ Len(<<>>) = 0 BY <1>7
  <2>2. MemoryInv(t) BY <1>4, <1>5, <2>1 DEF MemoryInv
  <2>3. Cardinality(LiveTimes(served[t])) = 0 /\ LiveTimes(served[t]) = {}
    BY <1>4, <1>5, <1>6
  <2>4. RedisInv(t) BY <2>1, <2>3 DEF RedisInv
  <2> QED BY <2>2, <2>4
<1> QED BY <1>1, <1>2, <1>3, <1>4, <1>5, <1>8, <1>9 DEF LimiterInv

LEMMA LimiterStep == LimiterInv /\ [LimiterNext]_limiterVars => LimiterInv'
<1> SUFFICES ASSUME LimiterInv, [LimiterNext]_limiterVars PROVE LimiterInv' OBVIOUS
<1>1. CASE UNCHANGED limiterVars
  BY <1>1 DEF limiterVars, LimiterInv, InOrder, MemoryInv, RedisInv, Covered, LiveTimes,
     LiveAt, FromEnd, Limit
<1>2. CASE Wait BY <1>2, LimiterWait
<1>3. ASSUME NEW r \in Routes, Request(r) PROVE LimiterInv'
  <2>1. backend \in {"memory", "redis"} BY DEF LimiterInv
  <2> QED BY <1>3, <2>1, MemoryRequest, RedisRequest
<1> QED BY <1>1, <1>2, <1>3 DEF LimiterNext

(* The times of a tier's requests in the window are live ones.             *)
LEMMA RecentAreLive ==
  ASSUME now \in Nat, NEW s \in Seq(Nat), InOrder(s)
  PROVE  {Recent(s)[i] : i \in DOMAIN Recent(s)} \subseteq LiveTimes(s)
<1> DEFINE r == Since(now, s)
<1>1. /\ r \in Seq(Nat) /\ Len(r) <= Len(s) /\ Len(r) \in Nat /\ Len(s) \in Nat
      /\ \A j \in Nat : j < Len(r) => FromEnd(r, j) = FromEnd(s, j)
      /\ Len(r) > 0 => LiveAt(now, r[1])
  BY SinceFacts
<1>2. InOrder(r) BY SinceInOrder
<1> HIDE DEF r
<1>3. DOMAIN r = 1 .. Len(r) BY <1>1
<1> SUFFICES ASSUME NEW i \in 1 .. Len(r) PROVE r[i] \in LiveTimes(s)
  BY <1>3 DEF Recent, r
<1>4. r[1] <= r[i] /\ r[1] \in Nat /\ r[i] \in Nat
  <2>1. 1 \in 1 .. Len(r) /\ 1 <= i BY <1>1
  <2> QED BY <1>1, <1>2, <2>1 DEF InOrder
<1>5. LiveAt(now, r[1]) BY <1>1
<1>6. LiveAt(now, r[i]) BY <1>4, <1>5, LimiterAssumption DEF LiveAt
<1>7. PICK j \in Nat : j = Len(r) - i /\ j < Len(r)
  <2>1. Len(r) - i \in Nat /\ Len(r) - i < Len(r) BY <1>1
  <2> QED BY <2>1
<1>8. PICK m \in 1 .. Len(s) : m = Len(s) - j
  <2>1. Len(s) - j \in 1 .. Len(s) BY <1>1, <1>7
  <2> QED BY <2>1
<1>9. Len(r) - j = i BY <1>1, <1>7
<1>10. r[i] = s[m] BY <1>1, <1>7, <1>8, <1>9 DEF FromEnd
<1> QED BY <1>6, <1>10 DEF LiveTimes

\* TierRespected: however a client's requests are spread over the routes and the
\* time, and whatever is refused in between, in memory a tier lets no more
\* requests through in a window than it allows; in Redis the excess is at most
\* what check_and_consume does not count: requests of a millisecond that has one
\* already, and those it lets through because Redis has not answered.
THEOREM TiersHold == LimiterSpec => []TierRespected
<1>1. LimiterInv => TierRespected
  <2> SUFFICES ASSUME LimiterInv, NEW t \in Tiers
               PROVE  Through(t) <= Limit(t) + Uncounted(t)
    BY DEF TierRespected
  <2> DEFINE s == served[t]
             r == Recent(s)
             b == bucket[t]
  <2>1. /\ now \in Nat /\ s \in Seq(Nat) /\ b \in Seq(Nat) /\ InOrder(s) /\ Limit(t) \in Nat
        /\ backend \in {"memory", "redis"}
    BY LimiterAssumption DEF LimiterInv, Limit, Routes
  <2>2. CASE backend = "memory"
    <3>1. Covered(s, b) /\ Len(b) <= Limit(t) /\ Len(b) \in Nat
      BY <2>1, <2>2 DEF LimiterInv, MemoryInv
    <3>2. /\ r \in Seq(Nat) /\ Len(r) <= Len(s) /\ Len(r) \in Nat /\ Len(s) \in Nat
          /\ \A j \in Nat : j < Len(r) => FromEnd(r, j) = FromEnd(s, j)
          /\ Len(r) > 0 => LiveAt(now, r[1])
      BY <2>1, SinceFacts DEF Recent
    <3> HIDE DEF r, s, b
    <3>3. Len(r) <= Limit(t)
      <4>1. CASE Len(r) = 0 BY <2>1, <4>1
      <4>2. CASE Len(r) > 0
        <5>1. PICK j \in Nat : j = Len(r) - 1 /\ j < Len(r)
          <6>1. Len(r) - 1 \in Nat /\ Len(r) - 1 < Len(r) BY <3>2, <4>2
          <6> QED BY <6>1
        <5>2. Len(r) - j = 1 BY <3>2, <5>1
        <5>3. FromEnd(s, j) = r[1] BY <3>2, <5>1, <5>2 DEF FromEnd
        <5>4. j < Len(b) BY <3>1, <3>2, <4>2, <5>1, <5>3 DEF Covered
        <5> QED BY <2>1, <3>1, <3>2, <5>1, <5>4
      <4> QED BY <3>2, <4>1, <4>2
    <3>4. waved[t] = <<>> /\ Recent(<<>>) = <<>>
      <4>1. waved[t] = <<>> BY <2>2 DEF LimiterInv
      <4>2. PICK e \in Seq(Nat) : e = <<>> /\ Len(e) = 0
        BY EmptySeq
      <4>3. Recent(e) \in Seq(Nat) /\ Len(Recent(e)) <= Len(e)
        BY <2>1, SinceFacts DEF Recent
      <4>4. Recent(e) = <<>> BY <4>2, <4>3, EmptySeq
      <4> QED BY <4>1, <4>2, <4>4
    <3>5. Through(t) = Len(r) BY <3>2, <3>4 DEF Through, r, s
    <3> QED BY <2>1, <2>2, <3>2, <3>3, <3>5 DEF Uncounted
  <2>3. CASE backend = "redis"
    <3> DEFINE R == {r[i] : i \in DOMAIN r}
    <3>1. R \subseteq LiveTimes(s) BY <2>1, RecentAreLive
    <3>2. IsFiniteSet(LiveTimes(s)) /\ Cardinality(LiveTimes(s)) <= Limit(t)
      BY <2>3, FS_Subset DEF LimiterInv, RedisInv
    <3> HIDE DEF R, r, s
    <3>3. /\ Cardinality(R) <= Cardinality(LiveTimes(s))
          /\ Cardinality(R) \in Nat /\ Cardinality(LiveTimes(s)) \in Nat
      BY <3>1, <3>2, FS_Subset, FS_CardinalityType
    <3>4. Cardinality(R) <= Limit(t) BY <2>1, <3>2, <3>3
    <3>5. PICK n \in Nat, m \in Nat : n = Len(r) /\ m = Len(Recent(waved[t]))
      <4>1. r \in Seq(Nat) BY <2>1, SinceFacts DEF Recent, r
      <4>2. Recent(waved[t]) \in Seq(Nat) BY <2>1, SinceFacts DEF Recent, LimiterInv
      <4> QED BY <4>1, <4>2
    <3>6. /\ Through(t) = n + m /\ Uncounted(t) = (n - Cardinality(R)) + m
      BY <2>3, <3>5 DEF Through, Uncounted, Repeats, R, r, s
    <3> QED BY <2>1, <3>3, <3>4, <3>5, <3>6
  <2> QED BY <2>1, <2>2, <2>3
<1>2. LimiterSpec => []LimiterInv
  BY LimiterStart, LimiterStep, PTL DEF LimiterSpec
<1> QED BY <1>1, <1>2, PTL

(***************************************************************************)
(* The bridge.  A browser's task has come as far as next: what it passed   *)
(* without handing it out is no longer in the channel, and until it lags   *)
(* it hands out exactly what it passes.                                    *)
(***************************************************************************)
ClientType == [joined : Nat, next : Nat, missed : Nat, out : Seq(Nat), lagged : BOOLEAN]

Passed(w, s) ==
  \A i \in Nat : w.joined <= i /\ i < w.next =>
    (\E k \in 1 .. Len(w.out) : w.out[k] = s[i]) \/ i + Capacity <= Len(s)

InStep(w, s) == /\ Len(w.out) = w.next - w.joined
                /\ \A i \in 1 .. Len(w.out) : w.out[i] = s[w.joined + i - 1]

ClientInv(w, s) ==
  /\ w.missed > 0 => w.lagged
  /\ w.joined > 0 => /\ w.joined <= w.next /\ w.next <= Len(s) + 1
                     /\ Passed(w, s) /\ (w.lagged \/ InStep(w, s))

BridgeInv ==
  /\ batch \in Seq(Nat) /\ dlq \in Seq(Nat) /\ sent \in Seq(Nat)
  /\ taken \in Nat /\ published \in Nat
  /\ client \in [Clients -> ClientType]
  /\ \A c \in Clients : ClientInv(client[c], sent)

LEMMA SentToAll ==
  ASSUME NEW w \in ClientType, NEW s \in Seq(Nat), NEW x \in Nat, ClientInv(w, s)
  PROVE  ClientInv(w, Append(s, x))
<1>1. PICK s1 : s1 = Append(s, x) OBVIOUS
<1>2. /\ Len(s) \in Nat /\ Len(s1) = Len(s) + 1
      /\ \A i \in 1 .. Len(s) : s1[i] = s[i]
  BY <1>1, AppendFacts
<1>3. w.joined \in Nat /\ w.next \in Nat /\ w.out \in Seq(Nat) /\ Len(w.out) \in Nat
  BY DEF ClientType
<1>4. ASSUME w.joined > 0
      PROVE  /\ w.joined <= w.next /\ w.next <= Len(s1) + 1
             /\ Passed(w, s1) /\ (w.lagged \/ InStep(w, s1))
  <2>1. /\ w.joined <= w.next /\ w.next <= Len(s) + 1
        /\ Passed(w, s) /\ (w.lagged \/ InStep(w, s))
    BY <1>4 DEF ClientInv
  <2>2. Passed(w, s1)
    <3> SUFFICES ASSUME NEW i \in Nat, w.joined <= i, i < w.next
                 PROVE  (\E k \in 1 .. Len(w.out) : w.out[k] = s1[i]) \/ i + Capacity <= Len(s1)
      BY DEF Passed
    <3>1. (\E k \in 1 .. Len(w.out) : w.out[k] = s[i]) \/ i + Capacity <= Len(s)
      BY <2>1 DEF Passed
    <3>2. s1[i] = s[i] BY <1>2, <1>3, <1>4, <2>1
    <3> QED BY <1>2, <3>1, <3>2, BridgeAssumption
  <2>3. InStep(w, s) => InStep(w, s1)
    <3> SUFFICES ASSUME InStep(w, s), NEW i \in 1 .. Len(w.out)
                 PROVE  w.out[i] = s1[w.joined + i - 1]
      BY DEF InStep
    <3>1. w.out[i] = s[w.joined + i - 1] BY DEF InStep
    <3>2. PICK j \in Nat, n \in Nat, l \in Nat : j = w.joined /\ n = w.next /\ l = Len(s)
      BY <1>2, <1>3
    <3>3. Len(w.out) = n - j BY <3>2 DEF InStep
    <3>4. j > 0 /\ n <= l + 1 BY <1>4, <2>1, <3>2
    <3>5. i \in Nat /\ 1 <= i /\ i <= n - j BY <1>3, <3>3
    <3>6. j + i - 1 \in 1 .. l BY <3>4, <3>5
    <3>7. w.joined + i - 1 \in 1 .. Len(s) BY <3>2, <3>6
    <3> QED BY <1>2, <3>1, <3>7
  <2> QED BY <1>2, <1>3, <2>1, <2>2, <2>3
<1> QED BY <1>1, <1>4 DEF ClientInv

LEMMA ReceivedNext ==
  ASSUME NEW w \in ClientType, NEW s \in Seq(Nat), ClientInv(w, s),
         w.joined > 0, w.missed = 0, w.next <= Len(s),
         NEW w1, w1 = [w EXCEPT !.missed = 0, !.next = @ + 1, !.out = Append(@, s[w.next])]
  PROVE  w1 \in ClientType /\ ClientInv(w1, s)
<1>1. /\ w.joined \in Nat /\ w.next \in Nat /\ w.out \in Seq(Nat) /\ Len(s) \in Nat
      /\ w.lagged \in BOOLEAN /\ Len(w.out) \in Nat
  BY DEF ClientType
<1>2. /\ w.joined <= w.next /\ Passed(w, s) /\ (w.lagged \/ InStep(w, s))
  BY DEF ClientInv
<1>3. w.next \in 1 .. Len(s) BY <1>1, <1>2
<1>4. PICK x \in Nat : x = s[w.next] BY <1>3
<1>5. PICK o \in Seq(Nat) : o = Append(w.out, x)
  <2>1. Append(w.out, x) \in Seq(Nat) BY <1>1, AppendFacts
  <2> QED BY <2>1
<1>6. /\ Len(o) = Len(w.out) + 1 /\ o[Len(w.out) + 1] = x
      /\ \A i \in 1 .. Len(w.out) : o[i] = w.out[i]
  BY <1>1, <1>5, AppendFacts
<1>7. w1 = [joined |-> w.joined, next |-> w.next + 1, missed |-> 0, out |-> o,
            lagged |-> w.lagged]
  BY <1>1, <1>4, <1>5 DEF ClientType
<1>8. w1 \in ClientType BY <1>1, <1>7 DEF ClientType
<1>fields. w1.joined = w.joined /\ w1.next = w.next + 1 /\ w1.out = o BY <1>4, <1>5 DEF ClientType
<1>9. Passed(w1, s)
  <2> SUFFICES ASSUME NEW i \in Nat, w.joined <= i, i < w.next + 1
               PROVE  (\E k \in 1 .. Len(o) : o[k] = s[i]) \/ i + Capacity <= Len(s)
    BY <1>1, <1>fields DEF Passed
  <2>1. CASE i = w.next
    <3>1. Len(w.out) + 1 \in 1 .. Len(o) BY <1>1, <1>6
    <3> QED BY <1>4, <1>6, <2>1, <3>1
  <2>2. CASE i # w.next
    <3>1. (\E k \in 1 .. Len(w.out) : w.out[k] = s[i]) \/ i + Capacity <= Len(s)
      <4>1. i < w.next BY <1>1, <2>2
      <4> QED BY <1>2, <4>1 DEF Passed
    <3>2. \A k \in 1 .. Len(w.out) : k \in 1 .. Len(o) BY <1>1, <1>6
    <3> QED BY <1>6, <3>1, <3>2
  <2> QED BY <2>1, <2>2
<1>10. InStep(w, s) => InStep(w1, s)
  <2> SUFFICES ASSUME InStep(w, s) PROVE InStep(w1, s) OBVIOUS
  <2>1. Len(w.out) = w.next - w.joined BY DEF InStep
  <2>2. Len(o) = w.next + 1 - w.joined BY <1>1, <1>6, <2>1
  <2>3. ASSUME NEW i \in 1 .. Len(o) PROVE o[i] = s[w.joined + i - 1]
    <3>1. CASE i = Len(w.out) + 1
      <4>1. w.joined + i - 1 = w.next BY <1>1, <2>1, <3>1
      <4> QED BY <1>4, <1>6, <3>1, <4>1
    <3>2. CASE i # Len(w.out) + 1
      <4>1. i \in 1 .. Len(w.out) BY <1>1, <1>6, <3>2
      <4> QED BY <1>6, <4>1 DEF InStep
    <3> QED BY <3>1, <3>2
  <2>4. Len(w1.out) = w1.next - w1.joined BY <1>1, <1>fields, <2>2 DEF ClientType
  <2>5. \A i \in 1 .. Len(w1.out) : w1.out[i] = s[w1.joined + i - 1] BY <1>fields, <2>3
  <2> QED BY <2>4, <2>5 DEF InStep
<1>11. w1.joined <= w1.next /\ w1.next <= Len(s) + 1 /\ w1.missed = 0 /\ w1.lagged = w.lagged
  BY <1>1, <1>2, <1>7
<1> QED BY <1>2, <1>8, <1>9, <1>10, <1>11 DEF ClientInv

LEMMA FallsBehind ==
  ASSUME NEW w \in ClientType, NEW s \in Seq(Nat), ClientInv(w, s),
         w.joined > 0, NEW k, k = IF Len(s) > Capacity THEN Len(s) - Capacity + 1 ELSE 1,
         w.next < k,
         NEW w1, w1 = [w EXCEPT !.missed = k - w.next, !.lagged = TRUE, !.next = k]
  PROVE  w1 \in ClientType /\ ClientInv(w1, s)
<1>1. /\ w.joined \in Nat /\ w.next \in Nat /\ w.out \in Seq(Nat) /\ Len(s) \in Nat
      /\ w.lagged \in BOOLEAN /\ Capacity \in Nat /\ Capacity > 0
  BY BridgeAssumption DEF ClientType
<1>2. w.joined <= w.next /\ Passed(w, s) BY DEF ClientInv
<1>3. /\ k \in Nat /\ k - w.next \in Nat /\ k <= Len(s) + 1
      /\ \A i \in Nat : i < k /\ w.next <= i => i + Capacity <= Len(s)
  BY <1>1, <1>2
<1>4. w1 = [joined |-> w.joined, next |-> k, missed |-> k - w.next, out |-> w.out,
            lagged |-> TRUE]
  BY DEF ClientType
<1>5. w1 \in ClientType BY <1>1, <1>3, <1>4 DEF ClientType
<1>6. Passed(w1, s)
  <2> SUFFICES ASSUME NEW i \in Nat, w.joined <= i, i < k
               PROVE  (\E j \in 1 .. Len(w.out) : w.out[j] = s[i]) \/ i + Capacity <= Len(s)
    BY <1>4 DEF Passed
  <2>1. CASE i < w.next BY <1>2, <2>1 DEF Passed
  <2>2. CASE w.next <= i BY <1>3, <2>2
  <2> QED BY <1>1, <2>1, <2>2
<1>7. w1.joined <= w1.next /\ w1.next <= Len(s) + 1 /\ w1.lagged
  BY <1>1, <1>2, <1>3, <1>4
<1> QED BY <1>5, <1>6, <1>7 DEF ClientInv

LEMMA RecoversSome ==
  ASSUME NEW w \in ClientType, NEW s \in Seq(Nat), ClientInv(w, s), w.missed > 0,
         NEW d \in Seq(Nat), NEW w1, w1 = [w EXCEPT !.out = @ \o d, !.missed = 0]
  PROVE  w1 \in ClientType /\ ClientInv(w1, s)
<1>1. /\ w.joined \in Nat /\ w.next \in Nat /\ w.out \in Seq(Nat) /\ w.lagged \in BOOLEAN
      /\ w.lagged
  BY DEF ClientType, ClientInv
<1>2. PICK o \in Seq(Nat) : o = w.out \o d BY <1>1, ConcatProperties
<1>3. /\ Len(w.out) \in Nat /\ Len(d) \in Nat /\ Len(o) = Len(w.out) + Len(d)
      /\ \A i \in 1 .. Len(w.out) : o[i] = w.out[i] /\ i \in 1 .. Len(o)
  <2>1. /\ Len(o) = Len(w.out) + Len(d) /\ Len(w.out) \in Nat /\ Len(d) \in Nat
        /\ \A i \in 1 .. Len(w.out) + Len(d) :
             o[i] = IF i <= Len(w.out) THEN w.out[i] ELSE d[i - Len(w.out)]
    BY <1>1, <1>2, ConcatProperties
  <2>2. \A i \in 1 .. Len(w.out) : i \in 1 .. Len(w.out) + Len(d) /\ i <= Len(w.out) BY <2>1
  <2> QED BY <2>1, <2>2
<1>4. w1 = [joined |-> w.joined, next |-> w.next, missed |-> 0, out |-> o, lagged |-> w.lagged]
  BY <1>2 DEF ClientType
<1>fields. w1.joined = w.joined /\ w1.next = w.next /\ w1.out = o BY <1>2 DEF ClientType
<1>5. w1 \in ClientType
  <2>1. 0 \in Nat OBVIOUS
  <2>2. w1 = [w EXCEPT !.out = o, !.missed = 0] BY <1>2 DEF ClientType
  <2> QED BY <2>1, <2>2 DEF ClientType
<1>6. ASSUME Passed(w, s) PROVE Passed(w1, s)
  <2> SUFFICES ASSUME NEW i \in Nat, w.joined <= i, i < w.next
               PROVE  (\E j \in 1 .. Len(o) : o[j] = s[i]) \/ i + Capacity <= Len(s)
    BY <1>1, <1>fields DEF Passed
  <2>1. (\E j \in 1 .. Len(w.out) : w.out[j] = s[i]) \/ i + Capacity <= Len(s)
    BY <1>6 DEF Passed
  <2> QED BY <1>3, <2>1
<1> QED BY <1>1, <1>4, <1>5, <1>6 DEF ClientInv

(* What changes one browser's record, or none, and not what was sent.      *)
LEMMA OneClient ==
  ASSUME BridgeInv, NEW c \in Clients, NEW w \in ClientType, ClientInv(w, sent),
         client' = [client EXCEPT ![c] = w],
         UNCHANGED <<published, taken, batch, queued, dlq, sent>>
  PROVE  BridgeInv'
<1>1. client' \in [Clients -> ClientType] BY DEF BridgeInv
<1>2. \A d \in Clients : client'[d] = IF d = c THEN w ELSE client[d] BY DEF BridgeInv
<1>3. \A d \in Clients : ClientInv(client'[d], sent) BY <1>2 DEF BridgeInv
<1>4. \A d \in Clients : ClientInv(client[d], sent)'
  BY <1>3 DEF ClientInv, Passed, InStep
<1> QED BY <1>1, <1>4 DEF BridgeInv

LEMMA ReaderSteps ==
  ASSUME BridgeInv, PublishMessage \/ ReadBatch \/ KeepInDlq
  PROVE  BridgeInv'
<1>1. UNCHANGED <<sent, client>> BY DEF PublishMessage, ReadBatch, KeepInDlq
<1>2. \A c \in Clients : ClientInv(client[c], sent)'
  BY <1>1 DEF BridgeInv, ClientInv, Passed, InStep
<1>3. published' \in Nat /\ taken' \in Nat /\ batch' \in Seq(Nat) /\ dlq' \in Seq(Nat)
  <2>1. CASE PublishMessage BY <2>1 DEF PublishMessage, BridgeInv
  <2>2. CASE ReadBatch
    <3>1. PICK n \in 1 .. Lower(BatchSize, published - taken) :
            /\ taken' = taken + n
            /\ batch' \in {batch, [i \in 1 .. n |-> taken + i]}
      BY <2>2 DEF ReadBatch
    <3>2. /\ published \in Nat /\ taken \in Nat /\ taken < published /\ batch \in Seq(Nat)
          /\ published' = published /\ dlq' = dlq /\ dlq \in Seq(Nat) /\ BatchSize \in Nat
      BY <2>2, BridgeAssumption DEF BridgeInv, ReadBatch
    <3>3. n \in Nat BY <3>1, <3>2 DEF Lower
    <3>4. \A i \in 1 .. n : taken + i \in Nat BY <3>2, <3>3
    <3>5. [i \in 1 .. n |-> taken + i] \in Seq(Nat) BY <3>3, <3>4
    <3> QED BY <3>1, <3>2, <3>3, <3>5
  <2>3. CASE KeepInDlq
    <3>1. /\ batch \in Seq(Nat) /\ batch # <<>> /\ dlq \in Seq(Nat) /\ Len(dlq) \in Nat
          /\ UNCHANGED <<published, taken, batch>> /\ published \in Nat /\ taken \in Nat
      BY <2>3 DEF BridgeInv, KeepInDlq
    <3>2. Head(batch) \in Nat BY <3>1, HeadTailProperties
    <3>3. Len(dlq) >= DlqCapacity => Tail(dlq) \in Seq(Nat)
      <4>1. Len(dlq) >= DlqCapacity => dlq # <<>> BY <3>1, BridgeAssumption
      <4> QED BY <3>1, <4>1, HeadTailProperties
    <3>4. PICK d \in Seq(Nat) : dlq' = Append(d, Head(batch))
      BY <2>3, <3>1, <3>3 DEF KeepInDlq
    <3>5. dlq' \in Seq(Nat) BY <3>2, <3>4, AppendFacts
    <3> QED BY <3>1, <3>5
  <2> QED BY <2>1, <2>2, <2>3
<1> QED BY <1>1, <1>2, <1>3 DEF BridgeInv

LEMMA SenderStep ==
  ASSUME BridgeInv, SendToChannel PROVE BridgeInv'
<1>1. /\ batch \in Seq(Nat) /\ batch # <<>> /\ sent \in Seq(Nat)
      /\ sent' = Append(sent, Head(batch)) /\ batch' = Tail(batch)
      /\ UNCHANGED <<published, taken, dlq, client>>
  BY DEF BridgeInv, SendToChannel
<1>2. Head(batch) \in Nat /\ Tail(batch) \in Seq(Nat) BY <1>1, HeadTailProperties
<1>3. sent' \in Seq(Nat) /\ batch' \in Seq(Nat) BY <1>1, <1>2, AppendFacts
<1>4. ASSUME NEW c \in Clients PROVE ClientInv(client[c], sent)'
  <2>1. client[c] \in ClientType /\ ClientInv(client[c], sent) BY DEF BridgeInv
  <2>2. PICK s : s = Append(sent, Head(batch)) OBVIOUS
  <2>3. ClientInv(client[c], s) BY <1>1, <1>2, <2>1, <2>2, SentToAll
  <2> QED BY <1>1, <2>2, <2>3 DEF ClientInv, Passed, InStep
<1> QED BY <1>1, <1>3, <1>4 DEF BridgeInv

LEMMA BrowserSteps ==
  ASSUME BridgeInv, NEW c \in Clients,
         Subscribe(c) \/ Recv(c) \/ RecoverFromDlq(c) \/ Disconnect(c)
  PROVE  BridgeInv'
<1> DEFINE w == client[c]
<1>1. /\ w \in ClientType /\ ClientInv(w, sent) /\ sent \in Seq(Nat) /\ dlq \in Seq(Nat)
      /\ client \in [Clients -> ClientType] /\ Len(sent) \in Nat /\ Len(dlq) \in Nat
  BY DEF BridgeInv
<1>2. UNCHANGED <<published, taken, batch, queued, dlq, sent>>
  BY DEF Subscribe, Recv, RecoverFromDlq, Disconnect
<1>3. Off \in ClientType /\ ClientInv(Off, sent)
  BY EmptySeq DEF Off, ClientType, ClientInv
<1>4. CASE Subscribe(c)
  <2>1. PICK v : v = [Off EXCEPT !.joined = Len(sent) + 1, !.next = Len(sent) + 1] OBVIOUS
  <2>2. client' = [client EXCEPT ![c] = v] BY <1>4, <2>1 DEF Subscribe
  <2>3. Len(sent) + 1 \in Nat BY <1>1
  <2>4. v \in ClientType BY <1>3, <2>1, <2>3 DEF ClientType
  <2>5. /\ v.joined = Len(sent) + 1 /\ v.next = Len(sent) + 1 /\ v.missed = 0
        /\ v.out = <<>>
    BY <2>1 DEF Off
  <2>6. ClientInv(v, sent)
    <3>1. Passed(v, sent) BY <1>1, <2>5 DEF Passed
    <3>2. InStep(v, sent) BY <1>1, <2>5 DEF InStep
    <3> QED BY <1>1, <2>5, <3>1, <3>2 DEF ClientInv
  <2> QED BY <1>2, <2>2, <2>4, <2>6, OneClient
<1>5. CASE Recv(c)
  <2>1. /\ w.joined > 0 /\ w.missed = 0 /\ w.next <= Len(sent) /\ w.next \in Nat
        /\ w.joined \in Nat /\ w.lagged \in BOOLEAN
    BY <1>1, <1>5 DEF Recv, On, ClientType
  <2>2. OldestKept \in Nat BY <1>1, BridgeAssumption DEF OldestKept
  <2>3. CASE w.next < OldestKept
    <3>1. PICK v : v = [w EXCEPT !.missed = OldestKept - w.next, !.lagged = TRUE,
                                 !.next = OldestKept]
      OBVIOUS
    <3>2. client' = [client EXCEPT ![c] = v] BY <1>1, <1>5, <2>1, <2>3, <3>1 DEF Recv, ClientType
    <3>3. v \in ClientType /\ ClientInv(v, sent)
      BY <1>1, <2>1, <2>3, <3>1, FallsBehind DEF OldestKept
    <3> QED BY <1>2, <3>2, <3>3, OneClient
  <2>4. CASE ~(w.next < OldestKept)
    <3>1. PICK v : v = [w EXCEPT !.missed = 0, !.next = @ + 1, !.out = Append(@, sent[w.next])]
      OBVIOUS
    <3>2. client' = [client EXCEPT ![c] = v] BY <1>1, <1>5, <2>1, <2>4, <3>1 DEF Recv, ClientType
    <3>3. v \in ClientType /\ ClientInv(v, sent)
      BY <1>1, <2>1, <3>1, ReceivedNext
    <3> QED BY <1>2, <3>2, <3>3, OneClient
  <2> QED BY <2>3, <2>4
<1>6. CASE RecoverFromDlq(c)
  <2>1. w.missed > 0 /\ w.missed \in Nat BY <1>1, <1>6 DEF RecoverFromDlq, ClientType
  <2>2. PICK d : d = Newest(dlq, Lower(w.missed, RecoverCap)) OBVIOUS
  <2>3. d \in Seq(Nat)
    <3>1. PICK n \in Nat : n = Lower(Lower(w.missed, RecoverCap), Len(dlq)) /\ n <= Len(dlq)
      <4>1. Lower(w.missed, RecoverCap) \in Nat BY <2>1, BridgeAssumption DEF Lower
      <4>2. \A m \in Nat : Lower(m, Len(dlq)) \in Nat /\ Lower(m, Len(dlq)) <= Len(dlq)
        BY <1>1 DEF Lower
      <4> QED BY <4>1, <4>2
    <3>2. PICK m \in 1 .. Len(dlq) + 1 : m = Len(dlq) - n + 1
      <4>1. Len(dlq) - n + 1 \in 1 .. Len(dlq) + 1 BY <1>1, <3>1
      <4> QED BY <4>1
    <3>3. \A i \in m .. Len(dlq) : dlq[i] \in Nat
      <4>1. \A i \in m .. Len(dlq) : i \in 1 .. Len(dlq) BY <1>1, <3>2
      <4> QED BY <1>1, <4>1
    <3>4. m \in Int /\ Len(dlq) \in Int BY <1>1, <3>2
    <3>5. SubSeq(dlq, m, Len(dlq)) \in Seq(Nat) BY <3>3, <3>4, SubSeqProperties
    <3>6. d = SubSeq(dlq, m, Len(dlq)) BY <2>2, <3>1, <3>2 DEF Newest
    <3> QED BY <3>5, <3>6
  <2>4. PICK v : v = [w EXCEPT !.out = @ \o d, !.missed = 0] OBVIOUS
  <2>5. client' = [client EXCEPT ![c] = v] BY <1>1, <1>6, <2>2, <2>4 DEF RecoverFromDlq, ClientType
  <2>6. v \in ClientType /\ ClientInv(v, sent) BY <1>1, <2>1, <2>3, <2>4, RecoversSome
  <2> QED BY <1>2, <2>5, <2>6, OneClient
<1>7. CASE Disconnect(c)
  BY <1>2, <1>3, <1>7, OneClient DEF Disconnect
<1> QED BY <1>4, <1>5, <1>6, <1>7

LEMMA BridgeStart == BridgeInit => BridgeInv
<1> SUFFICES ASSUME BridgeInit PROVE BridgeInv OBVIOUS
<1>1. Off \in ClientType BY EmptySeq DEF Off, ClientType
<1>2. ClientInv(Off, <<>>) BY DEF Off, ClientInv
<1>3. client = [c \in Clients |-> Off] /\ sent = <<>> /\ dlq = <<>> /\ batch = <<>>
      /\ taken = 0 /\ published = 0
  BY DEF BridgeInit
<1> QED BY <1>1, <1>2, <1>3, EmptySeq DEF BridgeInv

LEMMA BridgeStep == BridgeInv /\ [BridgeNext]_bridgeVars => BridgeInv'
<1> SUFFICES ASSUME BridgeInv, [BridgeNext]_bridgeVars PROVE BridgeInv' OBVIOUS
<1>1. CASE UNCHANGED bridgeVars
  BY <1>1 DEF bridgeVars, BridgeInv, ClientInv, Passed, InStep
<1>2. CASE BridgeNext BY <1>2, ReaderSteps, SenderStep, BrowserSteps DEF BridgeNext
<1> QED BY <1>1, <1>2

\* However many messages a slow browser leaves in the channel, what it gets is
\* the stream since it joined, in order and each message once, until it lags;
\* and even then it only misses what the channel no longer held.
THEOREM StreamIsSeen == BridgeSpec => []BrowserSeesTheStream
<1>1. BridgeInv => BrowserSeesTheStream
  <2> SUFFICES ASSUME BridgeInv PROVE BrowserSeesTheStream OBVIOUS
  <2>1. ASSUME NEW c \in Clients, On(c)
        PROVE  /\ client[c].joined \in Nat /\ client[c].joined > 0 /\ client[c].next \in Nat
               /\ client[c].joined <= client[c].next /\ client[c].next <= Len(sent) + 1
               /\ client[c].out \in Seq(Nat) /\ sent \in Seq(Nat) /\ Len(sent) \in Nat
               /\ Passed(client[c], sent) /\ (client[c].lagged \/ InStep(client[c], sent))
    BY <2>1 DEF BridgeInv, ClientInv, ClientType, On
  <2>2. OnlyOverwrittenAreMissed
    <3> SUFFICES ASSUME NEW c \in Clients, On(c),
                        NEW i \in client[c].joined .. client[c].next - 1
                 PROVE  sent[i] \in Delivered(c) \/ i + Capacity <= Len(sent)
      BY DEF OnlyOverwrittenAreMissed
    <3>1. i \in Nat /\ client[c].joined <= i /\ i < client[c].next BY <2>1
    <3>2. (\E k \in 1 .. Len(client[c].out) : client[c].out[k] = sent[i])
          \/ i + Capacity <= Len(sent)
      BY <2>1, <3>1 DEF Passed
    <3>3. DOMAIN client[c].out = 1 .. Len(client[c].out) BY <2>1
    <3> QED BY <3>2, <3>3 DEF Delivered
  <2>3. EachOnceUnlessLagged
    <3> SUFFICES ASSUME NEW c \in Clients, On(c), ~client[c].lagged
                 PROVE  client[c].out = SubSeq(sent, client[c].joined, client[c].next - 1)
      BY DEF EachOnceUnlessLagged
    <3>1. PICK w, s : w = client[c] /\ s = sent OBVIOUS
    <3>out. PICK o : o = w.out OBVIOUS
    <3>from. PICK m : m = w.joined OBVIOUS
    <3>to. PICK n : n = w.next - 1 OBVIOUS
    <3>2. /\ m \in Int /\ n \in Int /\ m >= 1 /\ m <= n + 1 /\ n <= Len(s) /\ Len(s) \in Nat
          /\ Len(o) = n - m + 1 /\ \A i \in 1 .. Len(o) : o[i] = s[m + i - 1]
      <4>1. /\ w.joined \in Nat /\ w.joined > 0 /\ w.next \in Nat
            /\ w.joined <= w.next /\ w.next <= Len(s) + 1 /\ Len(s) \in Nat
            /\ InStep(w, s)
        BY <2>1, <3>1
      <4>2. w.next - w.joined = n - m + 1 BY <3>from, <3>to, <4>1
      <4>3. Len(o) = n - m + 1 /\ \A i \in 1 .. Len(o) : o[i] = s[m + i - 1]
        BY <3>out, <3>from, <4>1, <4>2 DEF InStep
      <4> QED BY <3>from, <3>to, <4>1, <4>3
    <3>3. \A i \in m .. n : s[i] \in Nat
      <4>1. \A i \in m .. n : i \in 1 .. Len(s) BY <3>2
      <4>2. s \in Seq(Nat) BY <2>1, <3>1
      <4> QED BY <4>1, <4>2
    <3>4. PICK u : u = SubSeq(s, m, n) OBVIOUS
    <3>5. /\ u \in Seq(Nat) /\ Len(u) = n - m + 1
          /\ \A i \in 1 .. n - m + 1 : u[i] = s[m + i - 1]
      BY <3>2, <3>3, <3>4, SubSeqProperties
    <3>6. o = u
      <4>1. Len(o) = Len(u) /\ \A i \in 1 .. Len(o) : o[i] = u[i] BY <3>2, <3>5
      <4>2. o \in Seq(Nat) BY <2>1, <3>1, <3>out
      <4> QED BY <3>5, <4>1, <4>2, SeqEqual
    <3> QED BY <3>1, <3>out, <3>from, <3>to, <3>4, <3>6
  <2> QED BY <2>2, <2>3 DEF BrowserSeesTheStream
<1>2. BridgeSpec => []BridgeInv
  BY BridgeStart, BridgeStep, PTL DEF BridgeSpec
<1> QED BY <1>1, <1>2, PTL
==============================================================================
