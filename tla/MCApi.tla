------------------------------- MODULE MCApi -------------------------------
(***************************************************************************)
(* The three stateful parts of the API that share nothing but the process: *)
(* one behaviour is a behaviour of one of them, which loses no             *)
(* interleaving.                                                           *)
(***************************************************************************)
EXTENDS ControlPlane, RateLimiter, WsBridge

VARIABLE part

CONSTANT Parts

Init == /\ part \in Parts
        /\ ControlInit /\ LimiterInit /\ BridgeInit
        /\ part # "limiter" => backend = "memory"

Next == /\ UNCHANGED part
        /\ \/ part = "control" /\ ControlNext /\ UNCHANGED <<limiterVars, bridgeVars>>
           \/ part = "limiter" /\ LimiterNext /\ UNCHANGED <<controlVars, bridgeVars>>
           \/ part = "bridge" /\ BridgeNext /\ UNCHANGED <<controlVars, limiterVars>>

vars == <<part, controlVars, limiterVars, bridgeVars>>

Spec == Init /\ [][Next]_vars /\ ControlFairness
==============================================================================
