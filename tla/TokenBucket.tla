----------------------------- MODULE TokenBucket ------------------------------
(***************************************************************************)
(* What the rate limiter promises: every key has a bucket of Burst units   *)
(* that refills by Rate with every tick, and a request costs Cost units.   *)
(* A request is refused if and only if its bucket holds less than that.    *)
(* No bucket is ever forgotten.                                            *)
(***************************************************************************)
EXTENDS Integers

CONSTANTS Keys, Cost, Rate, Burst

VARIABLES
    level,    \* the units in each bucket
    refused   \* whether the last request of the key was refused

vars == <<level, refused>>

Init ==
    /\ level = [k \in Keys |-> Burst]
    /\ refused = [k \in Keys |-> FALSE]

Grant(k) ==
    /\ level[k] >= Cost
    /\ level' = [level EXCEPT ![k] = @ - Cost]
    /\ refused' = [refused EXCEPT ![k] = FALSE]

Refuse(k) ==
    /\ level[k] < Cost
    /\ refused' = [refused EXCEPT ![k] = TRUE]
    /\ UNCHANGED level

Refill ==
    /\ level' = [k \in Keys |-> IF level[k] + Rate > Burst THEN Burst ELSE level[k] + Rate]
    /\ UNCHANGED refused

Next == (\E k \in Keys : Grant(k) \/ Refuse(k)) \/ Refill

Spec == Init /\ [][Next]_vars
===============================================================================
