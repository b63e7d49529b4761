--------------------------- MODULE ParallelExecutor ---------------------------
(***************************************************************************)
(* executor/parallel.go: ExecuteBatch runs the tool calls of one batch in  *)
(* a goroutine each, at most limit of them at a time, and returns their    *)
(* results in the order of the calls.  The semaphore is a buffered channel *)
(* and the caller waits on a WaitGroup; a goroutine that waits for the     *)
(* semaphore gives up when the context expires.                            *)
(***************************************************************************)
EXTENDS Integers, FiniteSets

CONSTANTS
    N,       \* the number of actions in the batch
    Limits   \* the limits given to NewParallel

ASSUME BatchAssumption == N \in Nat \ {0} /\ Limits \subseteq Int

Index == 1..N
NoResult == "nil"
Outcomes == {"output", "error", "expired"}

VARIABLES
    limit,    \* the limit of this batch
    expired,  \* ctx is done
    sem,      \* the tokens in the channel
    wg,       \* the counter of the WaitGroup
    step,     \* of every goroutine
    results,
    returned  \* ExecuteBatch has returned

execVars == <<limit, expired, sem, wg, step, results, returned>>

PETypeOK ==
    /\ limit \in 1..N
    /\ expired \in BOOLEAN
    /\ sem \in 0..limit
    /\ wg \in 0..N
    /\ step \in [Index -> {"waiting", "running", "releasing", "finishing", "done"}]
    /\ results \in [Index -> Outcomes \cup {NoResult}]
    /\ returned \in BOOLEAN

batchLimit(l) == IF l <= 0 \/ l > N THEN N ELSE l

\* wg.Add(1) is called before each goroutine starts.
PEInit ==
    /\ limit \in {batchLimit(l) : l \in Limits}
    /\ expired = FALSE
    /\ sem = 0
    /\ wg = N
    /\ step = [i \in Index |-> "waiting"]
    /\ results = [i \in Index |-> NoResult]
    /\ returned = FALSE

Expire ==
    /\ ~expired
    /\ expired' = TRUE
    /\ UNCHANGED <<limit, sem, wg, step, results, returned>>

\* A mutation of Acquire: one goroutine too many.
AcquireOneMore(i) ==
    /\ step[i] = "waiting"
    /\ sem <= limit
    /\ sem' = IF sem < limit THEN sem + 1 ELSE sem
    /\ step' = [step EXCEPT ![i] = "running"]
    /\ UNCHANGED <<limit, expired, wg, results, returned>>

Acquire(i) ==
    /\ step[i] = "waiting"
    /\ sem < limit
    /\ sem' = sem + 1
    /\ step' = [step EXCEPT ![i] = "running"]
    /\ UNCHANGED <<limit, expired, wg, results, returned>>

\* A mutation of GiveUp: the goroutine returns without a result.
GiveUpSilently(i) ==
    /\ step[i] = "waiting"
    /\ expired
    /\ step' = [step EXCEPT ![i] = "finishing"]
    /\ UNCHANGED <<limit, expired, sem, wg, results, returned>>

\* The select takes either branch when both are ready.
GiveUp(i) ==
    /\ step[i] = "waiting"
    /\ expired
    /\ results' = [results EXCEPT ![i] = "expired"]
    /\ step' = [step EXCEPT ![i] = "finishing"]
    /\ UNCHANGED <<limit, expired, sem, wg, returned>>

\* The tool returns.
Finish(i, r) ==
    /\ step[i] = "running"
    /\ results' = [results EXCEPT ![i] = r]
    /\ step' = [step EXCEPT ![i] = "releasing"]
    /\ UNCHANGED <<limit, expired, sem, wg, returned>>

\* The deferred calls run last in, first out.
Release(i) ==
    /\ step[i] = "releasing"
    /\ sem > 0
    /\ sem' = sem - 1
    /\ step' = [step EXCEPT ![i] = "finishing"]
    /\ UNCHANGED <<limit, expired, wg, results, returned>>

Done(i) ==
    /\ step[i] = "finishing"
    /\ wg' = wg - 1
    /\ step' = [step EXCEPT ![i] = "done"]
    /\ UNCHANGED <<limit, expired, sem, results, returned>>

Return ==
    /\ wg = 0
    /\ ~returned
    /\ returned' = TRUE
    /\ UNCHANGED <<limit, expired, sem, wg, step, results>>

Goroutine(i) ==
    \/ Acquire(i)
    \/ GiveUp(i)
    \/ \E r \in {"output", "error"} : Finish(i, r)
    \/ Release(i)
    \/ Done(i)

PENext == Expire \/ Return \/ \E i \in Index : Goroutine(i)

\* Tools return and goroutines are scheduled.  A goroutine that waits for the
\* channel is served although others compete: Go's channels are first in,
\* first out.
PESpec ==
    /\ PEInit /\ [][PENext]_execVars
    /\ WF_execVars(Return)
    /\ \A i \in Index : SF_execVars(Goroutine(i))

-------------------------------------------------------------------------------

\* The goroutines between their receive from and their send to the channel.
Holders == {i \in Index : step[i] \in {"running", "releasing"}}

(* At no moment do more tools run than the limit allows, whoever gives up  *)
(* or fails, and no token is lost: the channel holds one for each holder.  *)
LimitRespected == Cardinality(Holders) = sem /\ sem <= limit

(* The batch that is handed to the caller is complete: each call has its   *)
(* result, no goroutine is left that could still write one.                *)
BatchComplete ==
    returned => \A i \in Index : step[i] = "done" /\ results[i] # NoResult

===============================================================================
