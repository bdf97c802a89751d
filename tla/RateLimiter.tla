---------------------------- MODULE RateLimiter ----------------------------
(***************************************************************************)
(* The API's two limiters (services/api/src/rate_limit.rs) in the order in *)
(* which the route tree of services/api/src/lib.rs asks them, for one      *)
(* client address. Every request asks the general limiter first; what it   *)
(* refuses or what is no general route goes on to the control limiter, and *)
(* what is no control route either ends at the exempt routes. A check that *)
(* gets no answer from Redis lets the request through. A check is one step, *)
(* its reading of the clock included, and one instance of the API runs.    *)
(***************************************************************************)
EXTENDS Naturals, Sequences, FiniteSets

CONSTANTS GeneralMax, ControlMax, \* requests a tier admits in a window
          Window, MaxTime,
          MaxErrors \* bound: checks that Redis does not answer

ASSUME LimiterAssumption ==
  GeneralMax \in Nat \ {0} /\ ControlMax \in Nat \ {0} /\ Window \in Nat \ {0}
  /\ MaxTime \in Nat /\ MaxErrors \in Nat

VARIABLES backend, \* "memory", or "redis" if it could be reached at boot
          now,
          bucket,  \* in memory: per tier the times of the requests it admitted
          zset,    \* in Redis: ONE set of times, its key is the bare address
          served,  \* history: times of requests that an answer admitted, of the last window
          waved,   \* history: times of those let through without an answer, likewise
          asked,   \* history: times of control requests, of the last window
          errors

limiterVars == <<backend, now, bucket, zset, served, waved, asked, errors>>

Tiers == {"general", "control"}
Routes == Tiers \union {"exempt"}
Limit(t) == IF t = "general" THEN GeneralMax ELSE ControlMax

LiveAt(t, time) == time + Window > t
InWindow(time)  == LiveAt(now, time)

\* purge: everything before the first time of the window is drained.
FirstLive(t, times) ==
  CHOOSE k \in 1 .. Len(times) + 1 : /\ \A i \in 1 .. k - 1 : ~LiveAt(t, times[i])
                                     /\ k <= Len(times) => LiveAt(t, times[k])
Since(t, times) == SubSeq(times, FirstLive(t, times), Len(times))
Recent(times)   == Since(now, times)

LimiterInit ==
  /\ backend \in {"memory", "redis"} /\ now = 0
  /\ bucket = [t \in Tiers |-> <<>>] /\ zset = {}
  /\ served = [r \in Routes |-> <<>>] /\ waved = [t \in Tiers |-> <<>>]
  /\ asked = <<>> /\ errors = 0

\* check_and_consume of tier t, given what the limiter holds: does it admit,
\* and what does it hold then? In memory a refused request is not counted, in
\* Redis it is; requests of one millisecond are one member of the sorted set.
Purged(b, z) == [b |-> [t \in Tiers |-> Recent(b[t])], z |-> {x \in z : InWindow(x)}]

AdmitsOneMore(t, b, z) ==              \* mutation: off by one in memory
  IF backend = "memory" THEN Len(Recent(b[t])) <= Limit(t)
                        ELSE Cardinality(Purged(b, z).z \union {now}) <= Limit(t)
Admits(t, b, z) ==
  IF backend = "memory" THEN Len(Recent(b[t])) < Limit(t)
                        ELSE Cardinality(Purged(b, z).z \union {now}) <= Limit(t)

Consumed(t, b, z) ==
  IF backend = "redis" THEN [b |-> b, z |-> Purged(b, z).z \union {now}]
  ELSE [b |-> [b EXCEPT ![t] = IF Admits(t, b, z) THEN Append(Recent(b[t]), now)
                                                  ELSE Recent(b[t])],
        z |-> z]

\* The check as it answers, and as Redis fails it: the pipeline may have run all
\* the same, and the request is let through.
Checked(t, h) ==
  [admits |-> Admits(t, h.b, h.z), failed |-> 0, left |-> Consumed(t, h.b, h.z)]
Unanswered(t, h) ==
  {[admits |-> TRUE, failed |-> 1, left |-> l] : l \in {h, Consumed(t, h.b, h.z)}}
Checks(t, h) == {Checked(t, h)} \union (IF backend = "redis" THEN Unanswered(t, h) ELSE {})

\* A request for route r passes the filters in the order of the route tree: what
\* the general tier admits of its own routes ends there.
Pass(r, first, second) ==
  LET done == r = "general" /\ first.admits
      own  == IF r = "general" THEN first ELSE second  \* the check its tier makes
      left == IF done THEN first.left ELSE second.left
      ok   == r \in Tiers /\ own.admits
  IN /\ bucket' = left.b /\ zset' = left.z
     /\ errors' = errors + first.failed + (IF done THEN 0 ELSE second.failed)
     /\ errors' <= MaxErrors
     /\ served' = IF r = "exempt" \/ (ok /\ own.failed = 0)
                  THEN [served EXCEPT ![r] = Append(@, now)] ELSE served
     /\ waved' = IF ok /\ own.failed = 1
                 THEN [waved EXCEPT ![r] = Append(@, now)] ELSE waved
     /\ asked' = IF r = "control" THEN Append(asked, now) ELSE asked
     /\ UNCHANGED <<backend, now>>

Request(r) ==
  \E first \in Checks("general", [b |-> bucket, z |-> zset]) :
    \E second \in Checks("control", first.left) : Pass(r, first, second)

\* Requests per instant are bounded by what a tier could admit and one more.
RequestBound(r) ==
  /\ Len(served[r]) <= Limit("general") + 1 /\ Len(asked) <= ControlMax + 1

Wait ==
  /\ now < MaxTime /\ now' = now + 1
  /\ served' = [r \in Routes |-> Since(now + 1, served[r])]
  /\ waved' = [t \in Tiers |-> Since(now + 1, waved[t])]
  /\ asked' = Since(now + 1, asked)
  /\ UNCHANGED <<backend, bucket, zset, errors>>

LimiterNext == Wait \/ \E r \in Routes : RequestBound(r) /\ Request(r)

LimiterSpec == LimiterInit /\ [][LimiterNext]_limiterVars

------------------------------------------------------------------------------
Through(t) == Len(Recent(served[t])) + Len(Recent(waved[t]))

\* What Redis does not count: requests of a millisecond that has one already, and
\* those it has not answered for. In memory every request counts.
Repeats(times) == Len(times) - Cardinality({times[i] : i \in DOMAIN times})
Uncounted(t) ==
  IF backend = "memory" THEN 0 ELSE Repeats(Recent(served[t])) + Len(Recent(waved[t]))

\* In memory no client gets more requests through a tier in any window than the
\* tier allows; in Redis not more than that and what check_and_consume does not
\* count. This is so whatever is refused in between, however the window moves,
\* and although in Redis both tiers and the refused requests share one set.
TierRespected == \A t \in Tiers : Through(t) <= Limit(t) + Uncounted(t)

\* Two claims of a comment that the code does not keep (TLC refutes both).
\* "general rate-limit tier (100 req/min) ... stricter tier (20 req/min)"
\* (services/api/src/lib.rs 3063): a tier lets no more requests through in a window.
TiersAsDocumented == \A t \in Tiers : Through(t) <= Limit(t)

\* "public + data share a general rate-limit tier (100 req/min). control
\* endpoints get a stricter tier (20 req/min)" (services/api/src/lib.rs 3063):
\* a control request is refused only to a client that has made more of them in
\* this window than the tier allows.
ControlTierIsItsOwn ==
  [][ \A r \in Routes : Request(r) /\ r = "control" /\ UNCHANGED <<served, waved>>
        => Len(asked') > ControlMax ]_limiterVars
==============================================================================
