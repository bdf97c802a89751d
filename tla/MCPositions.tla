---------------------------- MODULE MCPositions ----------------------------
(***************************************************************************)
(* The two watchers of the same rows and positions. They do not see each   *)
(* other, so one of them at a time is enough; the other one is then set to *)
(* the mode in which it promises nothing about drifts.                     *)
(***************************************************************************)
EXTENDS Reconciliation, Monitor

VARIABLE watcher

\* The monitor's configurations worth telling apart: paper, neither keys nor a
\* webhook, and with keys one webhook or both of those that matter.
Paper == simulated /\ ~credentials /\ webhooks = {}
Blind == ~simulated /\ ~credentials /\ webhooks = {}
Seeing == ~simulated /\ credentials /\ webhooks \in {{"warning"}, {"warning", "critical"}}

Init == /\ watcher \in {"executor", "monitor"}
        /\ PositionsInit /\ ReconInit /\ MonitorInit
        /\ watcher = "executor" => Paper
        /\ watcher = "monitor" => mode = "auto" /\ ~allow /\ (Paper \/ Blind \/ Seeing)

ByExecutor(action) == watcher = "executor" /\ action /\ UNCHANGED <<watcher, monitorVars>>
ByMonitor(action) == watcher = "monitor" /\ action /\ UNCHANGED <<watcher, reconVars>>

Next == ByExecutor(ReconNext) \/ ByMonitor(MonitorNext)

vars == <<watcher, reconVars, monitorVars, positionVars>>

\* The runtime polls both tasks, whose loops have a timer, and the clock goes on.
\* A call that hangs disables its task's steps; the handler may stop anywhere.
Spec == /\ Init /\ [][Next]_vars
        /\ WF_vars(ByExecutor(ReconStep) \/ ByMonitor(MonitorStep))
        /\ WF_vars(ByMonitor(Tick))
============================================================================
