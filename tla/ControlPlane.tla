---------------------------- MODULE ControlPlane ----------------------------
(***************************************************************************)
(* Operator commands on their way from the dashboard (web/app/api/control) *)
(* or a script through the API's handlers (services/api/src/lib.rs) to the *)
(* control rows of system_events, and for the kill switch on to the        *)
(* executor's control task (services/executor/src/lib.rs), whose           *)
(* acknowledgement the API waits for.                                      *)
(*                                                                         *)
(* The dashboard gives up on a request after five seconds and repeats it   *)
(* at its next base URL; the handler it leaves is dropped at its await.    *)
(***************************************************************************)
EXTENDS Naturals, Sequences, FiniteSets

CONSTANTS Operators,    \* who sends commands, each one at a time
          WebOperators, \* those who do so through the dashboard's proxy
          Urls,         \* base URLs the proxy tries in turn
          MaxCommands,
          MaxFaults     \* failing statements and crashes together

ASSUME OperatorsAssumption == WebOperators \subseteq Operators
ASSUME UrlsAssumption == Urls \in Nat \ {0}
ASSUME ControlBounds == MaxCommands \in Nat /\ MaxFaults \in Nat

VARIABLES rows,    \* control rows of system_events, oldest first
          control, \* the stream viper:control_events: request ids to acknowledge
          cursor,  \* entries of it the group executor has been given
          ctl,     \* the executor's control task
          acks,    \* the acknowledgements in viper:executor_events
          op,      \* each operator's command and the handler that works on it
          issued, faulted

controlVars == <<rows, control, cursor, ctl, acks, op, issued, faulted>>

Kinds == {"kill-switch", "executor"}
Handling == {"insert", "fetch", "publish", "arm", "wait"}

RequestType == [op : Operators, n : Nat, url : Nat]
RowType == [op : Operators, n : Nat, kind : Kinds]
AckType == [id : RequestType, seen : Nat, defaulted : BOOLEAN]
OpType == [n : Nat, kind : Kinds, url : 1 .. Urls, pc : Handling \union {"idle"},
           row : Nat, pos : Nat, told : {"nothing", "ok", "acknowledged", "failed"}]

RequestId(o) == [op |-> o, n |-> op[o].n, url |-> op[o].url]

\* fetch_latest_control_flag: the newest row of the kill switch, 0 if none
NewestKillRow ==
  LET kills == {i \in DOMAIN rows : rows[i].kind = "kill-switch"}
  IN IF kills = {} THEN 0 ELSE CHOOSE i \in kills : \A j \in kills : j <= i

Fault == faulted < MaxFaults /\ faulted' = faulted + 1

------------------------------------------------------------------------------
ControlInit ==
  /\ rows = <<>> /\ control = <<>> /\ cursor = 0 /\ acks = <<>>
  /\ ctl = [pc |-> "reading"]
  /\ op = [o \in Operators |-> [n |-> 0, kind |-> "executor", url |-> 1,
                                pc |-> "idle", row |-> 0, pos |-> 0, told |-> "nothing"]]
  /\ issued = 0 /\ faulted = 0

Answer(o, what) == op' = [op EXCEPT ![o].pc = "idle", ![o].told = what]

\* The attempt is lost or answered with an error: the proxy goes on to its
\* next base URL, a script reports the failure.
TryOnceMore(o) ==                      \* mutation: one URL too many
  IF o \in WebOperators /\ op[o].url <= Urls
  THEN op' = [op EXCEPT ![o].url = @ + 1, ![o].pc = "insert", ![o].row = 0]
  ELSE Answer(o, "failed")
AttemptFailed(o) ==
  IF o \in WebOperators /\ op[o].url < Urls
  THEN op' = [op EXCEPT ![o].url = @ + 1, ![o].pc = "insert", ![o].row = 0]
  ELSE Answer(o, "failed")

AddRow(o) ==
  rows' = Append(rows, [op |-> o, n |-> op[o].n, kind |-> op[o].kind])

\* A new command, when the operator has seen the end of the one before.
Issue(o) ==
  /\ op[o].pc = "idle" /\ issued < MaxCommands
  /\ \E k \in Kinds :
       op' = [op EXCEPT ![o] = [n |-> @.n + 1, kind |-> k, url |-> 1,
                                pc |-> "insert", row |-> 0, pos |-> 0, told |-> "nothing"]]
  /\ issued' = issued + 1
  /\ UNCHANGED <<rows, control, cursor, ctl, acks, faulted>>

\* The API does not answer at this URL, limits the rate or refuses the command.
Refuse(o) ==
  /\ op[o].pc = "insert" /\ AttemptFailed(o)
  /\ UNCHANGED <<rows, control, cursor, ctl, acks, issued, faulted>>

AnswerOkAnyway(o) ==                   \* mutation: the failed INSERT is only logged
  /\ op[o].pc = "insert"
  /\ op' = [op EXCEPT ![o].pc = "fetch", ![o].row = Len(rows) + 1]
  /\ \/ AddRow(o) /\ UNCHANGED faulted
     \/ Fault /\ UNCHANGED rows
  /\ UNCHANGED <<control, cursor, ctl, acks, issued>>
InsertEvent(o) ==
  /\ op[o].pc = "insert"
  /\ \/ /\ AddRow(o)
        /\ op' = [op EXCEPT ![o].pc = "fetch", ![o].row = Len(rows) + 1]
        /\ UNCHANGED faulted
     \/ Fault /\ AttemptFailed(o) /\ (AddRow(o) \/ UNCHANGED rows)
  /\ UNCHANGED <<control, cursor, ctl, acks, issued>>

\* The state read back is only shown; if it cannot be read the request is. With
\* it the handler of the executor's switch is done.
FetchKillSwitchStatus(o) ==
  /\ op[o].pc = "fetch" /\ op[o].kind = "kill-switch"
  /\ op' = [op EXCEPT ![o].pc = "publish"]
  /\ UNCHANGED <<rows, control, cursor, ctl, acks, issued, faulted>>

FetchExecutorStatus(o) ==
  /\ op[o].pc = "fetch" /\ op[o].kind = "executor"
  /\ Answer(o, "ok")
  /\ UNCHANGED <<rows, control, cursor, ctl, acks, issued, faulted>>

PublishSync(o) ==
  /\ op[o].pc = "publish"
  /\ \/ /\ control' = Append(control, RequestId(o))
        /\ op' = [op EXCEPT ![o].pc = "arm"]
        /\ UNCHANGED faulted
     \/ Fault /\ Answer(o, "ok") /\ UNCHANGED control
  /\ UNCHANGED <<rows, cursor, ctl, acks, issued>>

\* XREAD from "$": only what is appended from now on.
ArmRead(o) ==
  /\ op[o].pc = "arm"
  /\ op' = [op EXCEPT ![o].pc = "wait", ![o].pos = Len(acks)]
  /\ UNCHANGED <<rows, control, cursor, ctl, acks, issued, faulted>>

\* BLOCK 1000 goes by with nothing new, and the loop reads from a new "$".
BlockExpires(o) ==
  /\ op[o].pc = "wait" /\ Len(acks) = op[o].pos
  /\ op' = [op EXCEPT ![o].pc = "arm"]
  /\ UNCHANGED <<rows, control, cursor, ctl, acks, issued, faulted>>

ReadAnyAck(o) ==                       \* mutation: the request id is not compared
  /\ op[o].pc = "wait" /\ Len(acks) > op[o].pos /\ Answer(o, "acknowledged")
  /\ UNCHANGED <<rows, control, cursor, ctl, acks, issued, faulted>>
ReadAcks(o) ==
  /\ op[o].pc = "wait" /\ Len(acks) > op[o].pos
  /\ IF \E i \in op[o].pos + 1 .. Len(acks) : acks[i].id = RequestId(o)
     THEN Answer(o, "acknowledged")
     ELSE op' = [op EXCEPT ![o].pc = "arm"]
  /\ UNCHANGED <<rows, control, cursor, ctl, acks, issued, faulted>>

\* Five seconds without the acknowledgement, or XREAD fails.
NoTimeout(o) == FALSE                  \* mutation: waits for the acknowledgement
AckTimeout(o) ==
  /\ op[o].pc \in {"arm", "wait"}
  /\ Answer(o, "ok")
  /\ UNCHANGED <<rows, control, cursor, ctl, acks, issued, faulted>>

\* The proxy aborts the request; an INSERT under way has happened or not.
AbortRequest(o) ==
  /\ o \in WebOperators /\ op[o].pc \in Handling
  /\ AttemptFailed(o)
  /\ \/ UNCHANGED rows
     \/ op[o].pc = "insert" /\ AddRow(o)
  /\ UNCHANGED <<control, cursor, ctl, acks, issued, faulted>>

------------------------------------------------------------------------------
\* The executor's control task: one entry at a time, acknowledged whatever the
\* flag is; an entry it was given when it died is not given again.
ReadControl ==
  /\ ctl.pc = "reading" /\ cursor < Len(control)
  /\ cursor' = cursor + 1
  /\ ctl' = [pc |-> "fetch", id |-> control[cursor + 1]]
  /\ UNCHANGED <<rows, control, acks, op, issued, faulted>>

FetchFlag ==
  /\ ctl.pc = "fetch"
  /\ \/ /\ ctl' = [pc |-> "ack", id |-> ctl.id, seen |-> NewestKillRow, defaulted |-> FALSE]
        /\ UNCHANGED faulted
     \/ /\ Fault
        /\ ctl' = [pc |-> "ack", id |-> ctl.id, seen |-> 0, defaulted |-> TRUE]
  /\ UNCHANGED <<rows, control, cursor, acks, op, issued>>

PublishAck ==
  /\ ctl.pc = "ack"
  /\ ctl' = [pc |-> "reading"]
  /\ \/ /\ acks' = Append(acks, [id |-> ctl.id, seen |-> ctl.seen, defaulted |-> ctl.defaulted])
        /\ UNCHANGED faulted
     \/ Fault /\ UNCHANGED acks
  /\ UNCHANGED <<rows, control, cursor, op, issued>>

CrashExecutor ==
  /\ ctl.pc # "down" /\ Fault
  /\ ctl' = [pc |-> "down"]
  /\ UNCHANGED <<rows, control, cursor, acks, op, issued>>

RestartExecutor ==
  /\ ctl.pc = "down" /\ ctl' = [pc |-> "reading"]
  /\ UNCHANGED <<rows, control, cursor, acks, op, issued, faulted>>

------------------------------------------------------------------------------
Handle(o) == \/ InsertEvent(o) \/ FetchKillSwitchStatus(o) \/ FetchExecutorStatus(o)
             \/ PublishSync(o) \/ ArmRead(o) \/ ReadAcks(o) \/ AckTimeout(o)

ControlNext ==
  \/ \E o \in Operators : \/ Issue(o) \/ Refuse(o) \/ Handle(o)
                          \/ BlockExpires(o) \/ AbortRequest(o)
  \/ ReadControl \/ FetchFlag \/ PublishAck \/ CrashExecutor \/ RestartExecutor

\* tokio polls the handler, and its wait has a timeout; nothing is assumed of
\* operators, of the executor or of the proxy's patience.
ControlFairness == \A o \in Operators : WF_controlVars(Handle(o)) /\ WF_controlVars(AckTimeout(o))

ControlSpec == ControlInit /\ [][ControlNext]_controlVars /\ ControlFairness

------------------------------------------------------------------------------
ControlTypeOK ==
  /\ rows \in Seq(RowType) /\ acks \in Seq(AckType) /\ control \in Seq(RequestType)
  /\ cursor \in 0 .. Len(control)
  /\ op \in [Operators -> OpType]
  /\ ctl.pc \in {"reading", "fetch", "ack", "down"}
  /\ issued \in 0 .. MaxCommands /\ faulted \in 0 .. MaxFaults

\* An operator who is told that the kill switch was acknowledged can rely on
\* it: the executor has read the switch in the meantime and what it found was
\* the row of this command or a newer one (kill_switch_handler, control task).
\* The exception is a read that failed, which the control task acknowledges too.
AckedSwitchWasRead ==
  \A o \in Operators : op[o].told = "acknowledged" =>
    \E i \in DOMAIN acks :
      /\ acks[i].id = RequestId(o)
      /\ acks[i].seen >= op[o].row \/ acks[i].defaulted
      /\ rows[op[o].row].op = o /\ rows[op[o].row].n = op[o].n

\* However often the proxy repeats a command, an operator's commands reach the
\* control rows in the order in which they were given, and one that was
\* confirmed is the operator's last word there (route.ts, the handlers).
LastWordWins ==
  /\ \A i, j \in DOMAIN rows : i < j /\ rows[i].op = rows[j].op => rows[i].n <= rows[j].n
  /\ \A o \in Operators : op[o].told \in {"ok", "acknowledged"} =>
       \E i \in DOMAIN rows :
         /\ rows[i].op = o /\ rows[i].n = op[o].n
         /\ \A j \in DOMAIN rows : rows[j].op = o => j <= i

\* Every command comes to an end that its operator is told of, whatever becomes
\* of the executor: no lost acknowledgement keeps the handler waiting.
EveryCommandConcludes ==
  \A o \in Operators : (op[o].pc # "idle") ~> (op[o].pc = "idle")
==============================================================================
