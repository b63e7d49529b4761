------------------------------ MODULE TokenBucket ------------------------------
(***************************************************************************)
(* The token-bucket limiter (model/rate_limiter.go, TokenBucket).  The     *)
(* code keeps a fractional number of tokens as a float64; here a token is  *)
(* Unit parts, and Rate parts flow in per tick.  A step is one critical    *)
(* section under t.mu.                                                     *)
(*                                                                         *)
(* bucketLog keeps every token taken for the properties.                   *)
(***************************************************************************)
EXTENDS Clock

CONSTANTS Capacity, Unit, Rate

ASSUME BucketAssumption ==
    Capacity \in Nat \ {0} /\ Unit \in Nat \ {0} /\ Rate \in Nat \ {0}

VARIABLES
    tokens,      \* TokenBucket.tokens, in parts
    lastRefill,  \* TokenBucket.lastRefill
    bucketLog    \* the times at which a token was taken

tbVars == <<tokens, lastRefill, bucketLog>>

-------------------------------------------------------------------------------

TBInit ==
    /\ tokens = Capacity * Unit
    /\ lastRefill = now
    /\ bucketLog = <<>>

\* A mutation of refilled: whole tokens only.
refilledWhole ==
    LET sum == tokens + (((now - lastRefill) * Rate) \div Unit) * Unit
    IN  IF sum > Capacity * Unit THEN Capacity * Unit ELSE sum

\* refill: what has flowed in since the last refill, up to the capacity.
refilled ==
    LET sum == tokens + (now - lastRefill) * Rate
    IN  IF sum > Capacity * Unit THEN Capacity * Unit ELSE sum

\* Allow, and one round of Wait.
TakeToken(ok) ==
    /\ IF ok
       THEN /\ refilled >= Unit
            /\ tokens' = refilled - Unit
            /\ bucketLog' = Append(bucketLog, now)
       ELSE /\ refilled < Unit
            /\ tokens' = refilled
            /\ UNCHANGED bucketLog
    /\ lastRefill' = now
    /\ UNCHANGED now

\* Wait sleeps until the missing part of a token should have flowed in; the
\* duration is truncated, so it may wake a little early and go round again.
bucketWake == now + (Unit - refilled) \div Rate

TBNext ==
    \/ Tick /\ UNCHANGED tbVars
    \/ \E ok \in BOOLEAN : TakeToken(ok)

TBSpec == now = 0 /\ TBInit /\ [][TBNext]_<<now, tbVars>>

-------------------------------------------------------------------------------

(* Between any two admissions, both included, the bucket hands out no more *)
(* than its capacity and what has flowed in meanwhile, whatever refills    *)
(* and refusals came in between (refill, Allow, Wait).                     *)
BucketRespected ==
    \A i, j \in 1..Len(bucketLog) :
        i <= j => (j - i + 1) * Unit
                     <= Capacity * Unit + (bucketLog[j] - bucketLog[i]) * Rate

(* Nothing that flows in is lost below the ceiling: a caller that comes    *)
(* now is refused only if the tokens handed out since some moment at which *)
(* the bucket may have been full leave less than one.                      *)
RefusesOnlyWhenEmpty ==
    refilled < Unit
        => \E i \in 1..Len(bucketLog) :
              Capacity * Unit + (now - bucketLog[i]) * Rate
                 < (Len(bucketLog) - i + 2) * Unit

(* The bucket hands out what it may, no more and no less (Allow, Wait).    *)
BucketExact == BucketRespected /\ RefusesOnlyWhenEmpty
===============================================================================
