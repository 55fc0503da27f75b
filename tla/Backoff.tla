------------------------------- MODULE Backoff --------------------------------
(***************************************************************************)
(* The delay before a retry: CalculateBackoff of internal/retry/backoff.go *)
(* and its conversion to whole seconds in FailJob.                         *)
(*                                                                         *)
(* The code multiplies floats and converts the product to a 64-bit         *)
(* time.Duration before it compares it with the maximum.  A product that   *)
(* does not fit has no defined value: amd64 yields the smallest integer,   *)
(* arm64 the largest.  The jitter is random.  So the result is a set.      *)
(***************************************************************************)
EXTENDS Integers

CONSTANTS
    BaseDelay,  \* cfg.RetryBaseDelay, in the unit of time.Duration
    MaxDelay,   \* cfg.RetryMaxDelay
    Second,     \* a second, in that unit: what retry_after is counted in
    MaxInt      \* the largest time.Duration

ASSUME BackoffAssumption ==
    /\ BaseDelay \in Nat
    /\ MaxDelay \in Nat
    /\ Second \in Nat \ {0}
    /\ MaxInt \in Nat
    /\ BaseDelay <= MaxInt
    /\ MaxDelay + MaxDelay \div 4 <= MaxInt

\* time.Duration(x) for a float x that is not negative.
ToDuration(x) == IF x \in 0 .. MaxInt THEN {x} ELSE {MaxInt, -MaxInt - 1}

\* Mistake: the maximum is left out.
NotCapped(d) == d

Capped(d) == IF d > MaxDelay THEN MaxDelay ELSE d

\* d + rand.Int63n(2*jitterRange) - jitterRange, if jitterRange > 0.
Jittered(d) ==
    LET jitterRange == d \div 4 IN
    IF jitterRange > 0 THEN d - jitterRange .. d + jitterRange - 1 ELSE {d}

NotNegative(d) == IF d < 0 THEN BaseDelay ELSE d

CalculateBackoff(retryCount) ==
    {NotNegative(d) : d \in UNION {Jittered(Capped(x)) :
                                      x \in ToDuration(BaseDelay * 2 ^ retryCount)}}

\* int(backoff.Seconds())
RetryDelays(retryCount) == {d \div Second : d \in CalculateBackoff(retryCount)}
-------------------------------------------------------------------------------
(***************************************************************************)
(* The reference: the comment's formula, min(baseDelay * 2^retryCount,     *)
(* maxDelay) +/- 25%, in exact arithmetic and cut to seconds.              *)
(***************************************************************************)
Formula(n) == IF BaseDelay * 2 ^ n \in 0 .. MaxDelay THEN BaseDelay * 2 ^ n ELSE MaxDelay

FollowsFormula(n, seconds) ==
    /\ seconds * Second <= Formula(n) + Formula(n) \div 4
    /\ (seconds + 1) * Second > Formula(n) - Formula(n) \div 4

\* The product has a value as a time.Duration.
Fits(n) == BaseDelay * 2 ^ n \in 0 .. MaxInt
===============================================================================
