------------------------------ MODULE Monitor ------------------------------
(***************************************************************************)
(* The monitor's reconciliation cycle (services/monitor/src/lib.rs): per   *)
(* symbol the local notional, then the exchange's (or, if that fails, the  *)
(* last snapshot, which this cycle wrote), a snapshot row, an event row    *)
(* and an alert that a cooldown per symbol and severity holds back. Prices *)
(* are left out: the notional of a lot is one.                             *)
(***************************************************************************)
EXTENDS Positions

CONSTANTS Threshold, \* drift up to which all is well
          Cooldown   \* in ticks

ASSUME MonitorAssumption == Threshold \in Nat /\ Cooldown \in Nat \ {0}

VARIABLES simulated,   \* trading_mode.uses_simulated_positions
          credentials, \* has_bybit_credentials
          webhooks,    \* severities with a Discord webhook; error uses critical's
          mon,       \* the cycle
          snapshot,  \* exchange notional in the newest snapshot row of a symbol
          since,     \* alert_last_sent: ticks since then, Cooldown or more are alike
          alerts,    \* history: alerts of the last Cooldown, in this life of the process
          told       \* history: severities alerted per symbol since it last changed

config == <<simulated, credentials, webhooks>>
monitorVars == <<config, mon, snapshot, since, alerts, told>>

Severities == {"info", "warning", "error", "critical"}

\* Mutated: short positions are taken to have no notional.
LongNotional(s) == Sum(OpenRows(<<s, "Long">>))

LocalNotional(s) == Sum(OpenRows(<<s, "Long">>) \union OpenRows(<<s, "Short">>))
ExchangeNotional(s) == IF simulated THEN LocalNotional(s) ELSE Distance(net[s], 0)

ClassifySeverity(drift) ==
  CASE drift <= Threshold     -> "info"
    [] drift <= 2 * Threshold /\ drift > Threshold -> "warning"
    [] drift <= 4 * Threshold /\ drift > 2 * Threshold -> "error"
    [] OTHER                  -> "critical"

Waiting == [pc |-> "wait"]
Cycle(pc, todo) == [pc |-> pc, todo |-> todo, local |-> 0, bybit |-> 0, live |-> TRUE, moved |-> FALSE]
Symbol == Head(mon.todo)
NextSymbol == IF Len(mon.todo) = 1 THEN Waiting ELSE Cycle("local", Tail(mon.todo))
Severity == ClassifySeverity(Distance(mon.local, mon.bybit))

MonitorInit ==
  /\ simulated \in BOOLEAN /\ credentials \in BOOLEAN
  /\ webhooks \in SUBSET {"info", "warning", "critical"}
  /\ mon = Waiting
  /\ snapshot = [s \in Symbols |-> 0]
  /\ since = [s \in Symbols |-> [v \in Severities |-> Cooldown]]
  /\ alerts = {} /\ told = [s \in Symbols |-> {}]

StartCycle ==
  /\ mon = Waiting /\ Symbols # {} /\ mon' = Cycle("local", SetToSeq(Symbols))
  /\ UNCHANGED <<config, snapshot, since, alerts, told, positionVars>>

FetchLocalNotional ==
  /\ mon.pc = "local"
  /\ \/ mon' = [mon EXCEPT !.pc = "exchange", !.local = LocalNotional(Symbol)] /\ UNCHANGED faults
     \/ Fault /\ mon' = NextSymbol
  /\ UNCHANGED <<config, snapshot, since, alerts, told, trades, net, handler, orders, closes>>

\* Mutated: the exchange is asked only when there is no snapshot yet.
SnapshotFirst ==
  /\ mon.pc = "exchange"
  /\ \/ /\ mon' = [mon EXCEPT !.pc = "snapshot",
                    !.bybit = IF snapshot[Symbol] > 0 THEN snapshot[Symbol] ELSE ExchangeNotional(Symbol)]
        /\ UNCHANGED faults
     \/ Fault /\ mon' = NextSymbol
  /\ UNCHANGED <<config, snapshot, since, alerts, told, trades, net, handler, orders, closes>>

\* The exchange, or when it does not answer (without keys it is not asked) the
\* newest snapshot.
ResolveBybitNotional ==
  /\ mon.pc = "exchange"
  /\ \/ /\ simulated \/ credentials
        /\ mon' = [mon EXCEPT !.pc = "snapshot", !.bybit = ExchangeNotional(Symbol)]
        /\ UNCHANGED faults
     \/ /\ ~simulated /\ (IF credentials THEN Fault ELSE UNCHANGED faults)
        /\ mon' = [mon EXCEPT !.pc = "snapshot", !.bybit = snapshot[Symbol], !.live = FALSE]
     \/ Fault /\ mon' = NextSymbol
  /\ UNCHANGED <<config, snapshot, since, alerts, told, trades, net, handler, orders, closes>>

\* The two INSERTs; if either fails there is no alert for this symbol.
PersistSnapshot ==
  /\ mon.pc = "snapshot"
  /\ \/ /\ snapshot' = [snapshot EXCEPT ![Symbol] = mon.bybit]
        /\ mon' = [mon EXCEPT !.pc = "event"] /\ UNCHANGED faults
     \/ Fault /\ mon' = NextSymbol /\ UNCHANGED snapshot
  /\ UNCHANGED <<config, since, alerts, told, trades, net, handler, orders, closes>>

PersistEvent ==
  /\ mon.pc = "event"
  /\ \/ mon' = [mon EXCEPT !.pc = "alert"] /\ UNCHANGED faults
     \/ Fault /\ mon' = NextSymbol
  /\ UNCHANGED <<config, snapshot, since, alerts, told, trades, net, handler, orders, closes>>

\* Mutated: one tick too early.
EmitEarly(ticks) == ticks >= Cooldown - 1

ShouldEmitAlert(ticks) == ticks >= Cooldown

\* discord_webhook_for
HasWebhook(severity) == (IF severity = "error" THEN "critical" ELSE severity) \in webhooks

\* publish_recon_event changes nothing here. Any answer of the webhook counts as
\* sent, a request without one does not.
MaybePublishDiscordAlert ==
  /\ mon.pc = "alert" /\ mon' = NextSymbol
  /\ LET s == Symbol
         due == Severity # "info" /\ HasWebhook(Severity) /\ ShouldEmitAlert(since[s][Severity])
     IN \/ ~due /\ UNCHANGED <<since, alerts, told, faults>>
        \/ /\ due
           /\ since' = [since EXCEPT ![s][Severity] = 0]
           /\ alerts' = alerts \union
                {[symbol |-> s, severity |-> Severity, age |-> 0, n |-> Cardinality(alerts)]}
           /\ told' = [told EXCEPT ![s] = @ \union {Severity}]
           /\ UNCHANGED faults
        \/ due /\ Fault /\ UNCHANGED <<since, alerts, told>>
  /\ UNCHANGED <<config, snapshot, trades, net, handler, orders, closes>>

\* Time goes on; alerts older than the cooldown leave the history.
Tick ==
  /\ since' = [s \in Symbols |-> [v \in Severities |-> LowerOf(since[s][v] + 1, Cooldown)]]
  /\ alerts' = {[a EXCEPT !.age = @ + 1] : a \in {x \in alerts : x.age + 1 < Cooldown}}
  /\ since' # since
  /\ UNCHANGED <<config, mon, snapshot, told, positionVars>>

\* Any query or request of the cycle may never return, and the loop awaits the
\* cycle.
CycleHangs ==
  /\ mon \notin {Waiting, Hung} /\ mon' = Hung
  /\ UNCHANGED <<config, snapshot, since, alerts, told, positionVars>>

RestartMonitor ==
  /\ Fault /\ mon' = Waiting /\ alerts' = {}
  /\ since' = [s \in Symbols |-> [v \in Severities |-> Cooldown]]
  /\ UNCHANGED <<config, snapshot, told, trades, net, handler, orders, closes>>

MonitorStep == \/ StartCycle \/ FetchLocalNotional \/ ResolveBybitNotional
               \/ PersistSnapshot \/ PersistEvent \/ MaybePublishDiscordAlert

\* The executor and the exchange move on in the middle of a cycle (moved and
\* told are history).
PositionsMove ==
  /\ Handler \/ (~simulated /\ ExchangeCloses)
  /\ mon' = IF mon \in {Waiting, Hung} THEN mon ELSE [mon EXCEPT !.moved = TRUE]
  /\ told' = [s \in Symbols |->
       IF LocalNotional(s)' # LocalNotional(s) \/ net'[s] # net[s] THEN {} ELSE told[s]]
  /\ UNCHANGED <<config, snapshot, since, alerts>>

MonitorNext == MonitorStep \/ Tick \/ CycleHangs \/ RestartMonitor \/ PositionsMove

MonitorSpec == PositionsInit /\ MonitorInit /\ [][MonitorNext]_<<monitorVars, positionVars>>

------------------------------------------------------------------------------
\* In one life of the process no symbol is alerted about with the same severity
\* twice within the cooldown, however often its drift comes and goes and
\* whichever requests fail (should_emit_alert, maybe_publish_discord_alert).
OneAlertPerCooldown ==
  \A a, b \in alerts : a.symbol = b.symbol /\ a.severity = b.severity => a = b

\* The severity of the drift there is, counted row by row.
Actual(s) ==
  LET open == Sum({i \in DOMAIN trades : trades[i].open /\ trades[i].book[1] = s})
  IN ClassifySeverity(IF simulated THEN 0 ELSE Distance(open, Distance(net[s], 0)))

\* What is about to be alerted is the drift there is, if nothing moved since
\* the local notional was read and the exchange answered; without a position
\* on an exchange there is none.
AlertIsTrue ==
  mon.pc = "alert" /\ ~mon.moved /\ mon.live =>
    Severity = Actual(Symbol)

\* A drift the monitor can see (it has the exchange's keys) and has a webhook for.
Alertable(s) == credentials /\ Actual(s) # "info" /\ HasWebhook(Actual(s))

\* A drift beyond the threshold that stays as it is comes to an operator's
\* notice with its severity, although requests and statements fail and the
\* process may start anew, as long as no call of the cycle hangs.
DriftIsAlerted ==
  \A s \in Symbols :
    Alertable(s) ~> (Actual(s) \in told[s] \/ ~Alertable(s) \/ mon = Hung)
==============================================================================
