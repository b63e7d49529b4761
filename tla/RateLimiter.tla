------------------------------ MODULE RateLimiter ------------------------------
(***************************************************************************)
(* The combined limiter (model/rate_limiter.go, RateLimiter): a request    *)
(* takes a token first and then a place in the sliding window.  Callers    *)
(* run concurrently; the two limiters have a mutex each, so other callers  *)
(* come in between, and a caller that waits sleeps without any lock.       *)
(***************************************************************************)
EXTENDS SlidingWindow, TokenBucket

CONSTANTS
    Callers,   \* goroutines, each of which makes one request
    MaxTime    \* bound: after this many ticks time only passes for sleepers

VARIABLES
    pc,      \* where each caller is
    wakeAt   \* when the caller's timer fires

rlVars == <<now, swVars, tbVars, pc, wakeAt>>

RLInit ==
    /\ now = 0
    /\ SWInit
    /\ TBInit
    /\ pc = [c \in Callers |-> "idle"]
    /\ wakeAt = [c \in Callers |-> 0]

Move(c, from, to) == pc[c] = from /\ pc' = [pc EXCEPT ![c] = to]

\* A caller calls Allow or Wait.
Request(c) ==
    /\ \/ Move(c, "idle", "allowToken")
       \/ Move(c, "idle", "waitToken")
    /\ UNCHANGED <<now, swVars, tbVars, wakeAt>>

\* Allow: bucket && window
Allow(c) ==
    /\ UNCHANGED wakeAt
    /\ \/ Move(c, "allowToken", "allowWindow") /\ TakeToken(TRUE) /\ UNCHANGED swVars
       \/ Move(c, "allowToken", "refused") /\ TakeToken(FALSE) /\ UNCHANGED swVars
       \/ Move(c, "allowWindow", "admitted") /\ WindowTry(TRUE) /\ UNCHANGED tbVars
       \/ Move(c, "allowWindow", "refused") /\ WindowTry(FALSE) /\ UNCHANGED tbVars

\* A round of TokenBucket.Wait, then rounds of SlidingWindow.Wait.
WaitRound(c) ==
    \/ /\ Move(c, "waitToken", "waitWindow")
       /\ TakeToken(TRUE)
       /\ UNCHANGED <<swVars, wakeAt>>
    \/ /\ Move(c, "waitToken", "sleepToken")
       /\ TakeToken(FALSE)
       /\ wakeAt' = [wakeAt EXCEPT ![c] = bucketWake]
       /\ UNCHANGED swVars
    \/ /\ Move(c, "waitWindow", "admitted")
       /\ WindowTry(TRUE)
       /\ UNCHANGED <<tbVars, wakeAt>>
    \/ /\ Move(c, "waitWindow", "sleepWindow")
       /\ WindowTry(FALSE)
       /\ wakeAt' = [wakeAt EXCEPT ![c] = windowWake(win')]
       /\ UNCHANGED tbVars

Wake(c) ==
    /\ now >= wakeAt[c]
    /\ \/ Move(c, "sleepToken", "waitToken")
       \/ Move(c, "sleepWindow", "waitWindow")
    /\ UNCHANGED <<now, swVars, tbVars, wakeAt>>

\* ctx.Done() is seen at the top of a round and while asleep.
Cancel(c) ==
    /\ \E s \in {"waitToken", "sleepToken", "waitWindow", "sleepWindow"} :
          Move(c, s, "cancelled")
    /\ UNCHANGED <<now, swVars, tbVars, wakeAt>>

Asleep(c) == pc[c] \in {"sleepToken", "sleepWindow"}

TimePasses ==
    /\ now < MaxTime \/ \E c \in Callers : Asleep(c) /\ now <= wakeAt[c]
    /\ Tick
    /\ UNCHANGED <<swVars, tbVars, pc, wakeAt>>

CallerStep(c) == Allow(c) \/ WaitRound(c) \/ Wake(c)

RLNext ==
    \/ \E c \in Callers : Request(c) \/ CallerStep(c) \/ Cancel(c)
    \/ TimePasses

RLSpec == RLInit /\ [][RLNext]_rlVars

(* Goroutines that can run do run, and time passes, also while a caller    *)
(* goes round and round (SF).                                              *)
FairRLSpec ==
    /\ RLSpec
    /\ SF_rlVars(TimePasses)
    /\ \A c \in Callers : WF_rlVars(CallerStep(c))

-------------------------------------------------------------------------------

(* The limiters let through what they may, no more and no less, however    *)
(* many callers wake for the same place and whichever way they are called  *)
(* (Allow and Wait of both, model/rate_limiter.go).                        *)
LimitersExact == WindowExact /\ BucketExact
===============================================================================
