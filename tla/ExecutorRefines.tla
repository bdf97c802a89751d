--------------------------- MODULE ExecutorRefines ---------------------------
(* The executor implements IdempotentExecution as long as it has Postgres: *)
(* the claim is the system_events row, the effect the order or the paper   *)
(* trade, the outcome the status written back to the row.                  *)
EXTENDS Executor

OutcomeOf(s) == IF s \in Effective THEN "effective"
                ELSE IF s \in Refused THEN "refused"
                ELSE IF s \in Vague THEN "unknown"
                ELSE "none"

ownerBar   == [k \in Key |-> row[k].by]
effectBar  == [k \in Key |-> EffectsOf(k)]
outcomeBar == [k \in Key |-> OutcomeOf(row[k].status)]

Idem == INSTANCE IdempotentExecution
          WITH Event <- Id, NoEvent <- 0,
               owner <- ownerBar, effect <- effectBar, outcome <- outcomeBar

\* ARCHITECTURE_V2.md, "executor: enforces idempotency": every step of the
\* executor, a crash or a failing statement included, claims a free key, lets
\* the claim's owner take effect for the first time, records a true and final
\* outcome, or changes nothing of the three.
ImplementsIdempotentExecution == Idem!Spec
=============================================================================
