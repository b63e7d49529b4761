--------------------------------- MODULE Retry ---------------------------------
(***************************************************************************)
(* model/retry.go: ExponentialBackoff.Do calls a function until it         *)
(* succeeds, fails for good, or has failed MaxRetries + 1 times, and waits *)
(* longer and longer in between.  RetryWithBackoff is the same loop around *)
(* ctx.Err() instead of a function, and does not stop at success.          *)
(*                                                                         *)
(* Durations are integers and the multiplier a whole number.  An error is  *)
(* what isRetryable can see of it.                                         *)
(***************************************************************************)
EXTENDS Integers, Sequences

CONSTANTS
    BaseDelay, MaxDelay, Multiplier,
    Retries,     \* the values of MaxRetries
    Noise        \* the values of UnixNano()%100

ASSUME BackoffAssumption ==
    /\ {BaseDelay, MaxDelay, Multiplier} \subseteq Nat
    /\ Retries \subseteq Int
    /\ Noise \subseteq 0..99

\* declared: a RetryableError, which HTTPStatusError is (429 and 5xx say yes)
Errors == {"declared_retryable", "declared_final", "context", "other"}
Outcomes == Errors \cup {"nil"}

VARIABLES
    MaxRetries,
    helper,    \* RetryWithBackoff, not Do
    expired,   \* ctx is done
    attempt,
    delay,
    log,       \* what the function returned, call by call
    waits,     \* the waits between the calls
    verdict     \* of the call: running until it returns

retryVars == <<MaxRetries, helper, expired, attempt, delay, log, waits, verdict>>

isRetryable(e) == e \in {"declared_retryable", "other"}

\* A mutation of nextDelay: the delay does not grow.
nextDelayFlat(d) == {IF d > MaxDelay THEN MaxDelay ELSE d}

\* Capped, and then up to a quarter is added.
nextDelay(d) ==
    LET next == IF d * Multiplier > MaxDelay THEN MaxDelay ELSE d * Multiplier
    IN  {next + (next * k) \div 400 : k \in Noise}

RetryInit ==
    /\ MaxRetries \in Retries
    /\ helper \in BOOLEAN
    /\ expired = FALSE
    /\ attempt = 0
    /\ delay = BaseDelay
    /\ log = <<>> /\ waits = <<>>
    /\ verdict = "running"

RetryExpire ==
    /\ ~expired
    /\ verdict = "running"
    /\ expired' = TRUE
    /\ UNCHANGED <<MaxRetries, helper, attempt, delay, log, waits, verdict>>

\* The context ends a wait between two attempts.
StopWaiting ==
    /\ verdict = "running"
    /\ attempt \in 1..MaxRetries
    /\ expired
    /\ verdict' = "expired"
    /\ UNCHANGED <<MaxRetries, helper, expired, attempt, delay, log, waits>>

\* After a wait the function is called and its outcome judged.
Call(e) ==
    LET final == IF helper THEN e # "nil" ELSE ~isRetryable(e)
    IN  /\ verdict = "running"
        /\ attempt <= MaxRetries
        /\ helper => e = IF expired THEN "context" ELSE "nil"
        /\ waits' = IF attempt > 0 THEN Append(waits, delay) ELSE waits
        /\ log' = Append(log, e)
        /\ IF final
           THEN /\ verdict' = IF e = "nil" THEN "ok" ELSE "failed"
                /\ UNCHANGED <<attempt, delay>>
           ELSE /\ attempt' = attempt + 1
                /\ delay' \in nextDelay(delay)
                /\ UNCHANGED verdict
        /\ UNCHANGED <<MaxRetries, helper, expired>>

GiveUp ==
    /\ verdict = "running"
    /\ attempt > MaxRetries
    /\ verdict' = "exhausted"
    /\ UNCHANGED <<MaxRetries, helper, expired, attempt, delay, log, waits>>

RetryStep == StopWaiting \/ GiveUp \/ \E e \in Outcomes : Call(e)
RetryNext == RetryExpire \/ RetryStep

\* Timers fire and the function returns.
RetrySpec == RetryInit /\ [][RetryNext]_retryVars /\ WF_retryVars(RetryStep)

-------------------------------------------------------------------------------

(* The loop stops at the first success and at the first error that is not  *)
(* retryable, tells the caller which it was, and gives up only after all   *)
(* attempts have failed.                                                   *)
VerdictExact ==
    ~helper =>
        /\ \A i \in 1..(Len(log) - 1) : log[i] \in {"declared_retryable", "other"}
        /\ (verdict = "ok") <=> (log # <<>> /\ log[Len(log)] = "nil")
        /\ (verdict = "failed")
             <=> (log # <<>> /\ log[Len(log)] \in {"declared_final", "context"})
        /\ verdict = "exhausted" => Len(log) = IF MaxRetries < 0 THEN 0 ELSE MaxRetries + 1

\* The base delay after n multiplications, and the n-th wait without jitter.
Growth[n \in Nat] == IF n = 0 THEN BaseDelay ELSE Multiplier * Growth[n - 1]

Nominal(n) == IF Growth[n] > MaxDelay THEN MaxDelay ELSE Growth[n]

(* The waits grow exponentially up to the cap: with any jitter, each is at *)
(* least the nominal one, and exceeds the cap by at most a quarter.        *)
WaitsExponential ==
    \A n \in DOMAIN waits : Nominal(n) <= waits[n] /\ 4 * waits[n] <= 5 * MaxDelay

(* Do stops where it should, and waits as long as it should before that.   *)
RetryExact == VerdictExact /\ WaitsExponential
===============================================================================
