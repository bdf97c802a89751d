------------------------ MODULE IdempotentExecution ------------------------
(***************************************************************************)
(* What the executor promises about a source event, with no database, no   *)
(* process and no exchange in sight: the first of its events to claim the  *)
(* key owns it, only the owner may take effect, once, and the outcome on   *)
(* record is final and agrees with what happened.                          *)
(***************************************************************************)
CONSTANTS
  Key,
  Event,
  NoEvent   \* not an Event

Outcome == {"none", "effective", "refused", "unknown"}

VARIABLES
  owner,    \* the event that claimed the key
  effect,   \* the events of the key that took effect
  outcome   \* what the record says came of it

vars == <<owner, effect, outcome>>

Init ==
  /\ owner   = [k \in Key |-> NoEvent]
  /\ effect  = [k \in Key |-> {}]
  /\ outcome = [k \in Key |-> "none"]

Claim(k, e) ==
  /\ owner[k] = NoEvent
  /\ owner' = [owner EXCEPT ![k] = e]
  /\ UNCHANGED <<effect, outcome>>

Perform(k) ==
  /\ owner[k] # NoEvent /\ outcome[k] = "none" /\ effect[k] = {}
  /\ effect' = [effect EXCEPT ![k] = {owner[k]}]
  /\ UNCHANGED <<owner, outcome>>

\* A record may be vague about a failure, but what it states is true.
Conclude(k, o) ==
  /\ owner[k] # NoEvent /\ outcome[k] = "none"
  /\ o = "effective" => effect[k] = {owner[k]}
  /\ o = "refused"   => effect[k] = {}
  /\ outcome' = [outcome EXCEPT ![k] = o]
  /\ UNCHANGED <<owner, effect>>

Next == \E k \in Key : \/ \E e \in Event : Claim(k, e)
                       \/ Perform(k)
                       \/ \E o \in Outcome \ {"none"} : Conclude(k, o)

Spec == Init /\ [][Next]_vars
=============================================================================
