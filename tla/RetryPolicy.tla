----------------------------- MODULE RetryPolicy ----------------------------
(***************************************************************************)
(* packages/aai-client/src/backoff.ts: what to do about a session that was *)
(* closed.  A session fails again and again; after each failure the policy *)
(* is asked with the number of attempts already made.                      *)
(***************************************************************************)
EXTENDS Naturals, Sequences, FiniteSets

CONSTANTS
    MaxAttempts, BaseDelay, MaxDelay, CapacityDelay,    \* ReconnectPolicyOptions
    Jitter,
    RetryAfters     \* what a server may ask for; 0 when it says nothing

ASSUME PolicyAssumption ==
    /\ MaxAttempts \in Nat
    /\ BaseDelay \in Nat \ {0} /\ MaxDelay \in Nat \ {0} /\ CapacityDelay \in Nat \ {0}
    /\ BaseDelay <= MaxDelay /\ CapacityDelay <= MaxDelay
    /\ Jitter \in BOOLEAN /\ RetryAfters \subseteq Nat

Codes == {1000, 1006, 1008, 1011, 3005, 3006, 3007, 3008, 3009, 410, 4999}

\* CLASSIFICATIONS: what reconnecting cannot help, what was asked for, and what wants
\* more patience or smaller chunks.  A code that is not in the table is transient.
Fatal(code) == code \in {1008, 3006, 410}
Expected(code) == code = 1000
AdjustChunkSize(code) == code = 3007
Capacity(code) == code = 3009
Retriable(code) == ~Fatal(code) /\ ~Expected(code)

VARIABLES attempts, waited, last

policyVars == <<attempts, waited, last>>

\* delayFor(): the server's word, or a step of the schedule, somewhere between its
\* floor and its cap.
BackoffFloor(code) == IF Capacity(code) THEN CapacityDelay ELSE BaseDelay
AtMost(d) == IF d > MaxDelay THEN MaxDelay ELSE d
Doubled[n \in Nat] == IF n = 0 THEN 1 ELSE 2 * Doubled[n - 1]
BackoffStep(code, attempt) == AtMost(BackoffFloor(code) * Doubled[attempt])

Delays_Full(code, attempt, retryAfter) ==
    IF retryAfter > 0 THEN {AtMost(retryAfter)}
    ELSE IF Jitter THEN 0..BackoffStep(code, attempt) ELSE {BackoffStep(code, attempt)}

Delays(code, attempt, retryAfter) ==
    IF retryAfter > 0 THEN {AtMost(retryAfter)}
    ELSE IF Jitter THEN BackoffFloor(code)..BackoffStep(code, attempt) ELSE {BackoffStep(code, attempt)}

\* decide()
Decide(code, attempt, retryAfter) ==
    IF Retriable(code) /\ attempt < MaxAttempts
    THEN {[retry |-> TRUE, delay |-> d] : d \in Delays(code, attempt, retryAfter)}
    ELSE {[retry |-> FALSE, delay |-> 0]}

NoFailure == [code |-> 0, retry |-> TRUE, delay |-> 0, asked |-> 0]

PolicyInit == attempts = 0 /\ waited = 0 /\ last = NoFailure

\* A session of the line is closed, and the policy is asked.
Fails(code, retryAfter) ==
    /\ last.retry
    /\ \E d \in Decide(code, attempts, retryAfter) :
        /\ last' = [code |-> code, retry |-> d.retry, delay |-> d.delay, asked |-> retryAfter]
        /\ attempts' = IF d.retry THEN attempts + 1 ELSE attempts
        /\ waited' = waited + d.delay

PolicyNext == \E code \in Codes, r \in RetryAfters : Fails(code, r)

PolicySpec == PolicyInit /\ [][PolicyNext]_policyVars

-----------------------------------------------------------------------------
PolicyTypeOK == attempts \in 0..MaxAttempts /\ waited \in Nat /\ last.delay \in 0..MaxDelay

\* However often a session fails, the line gives up, after at most maxAttempts waits none
\* of which is longer than maxDelayMs.
WaitingIsBounded == attempts <= MaxAttempts /\ waited <= MaxAttempts * MaxDelay

\* A refusal for want of capacity is never answered sooner than capacityDelayMs, nor any
\* failure sooner than the base delay, unless the server itself says so: no hot loop.
NeverHot ==
    last.code # 0 /\ last.retry /\ last.asked = 0 =>
        last.delay >= (IF last.code = 3009 THEN CapacityDelay ELSE BaseDelay)

\* backoff.ts:236: "never retry sooner" than the server's Retry-After.
NeverSooner == last.retry => last.delay >= last.asked
=============================================================================
