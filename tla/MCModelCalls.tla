---------------------------- MODULE MCModelCalls ----------------------------
(***************************************************************************)
(* What a model call goes through, for TLC: the two rate limiters, each    *)
(* called on its own at any time, and the combined limiter; the metrics; a *)
(* call with retries; a streamed call, with its channels and with the      *)
(* events its reply is put together from; a skill's own loop of calls; the *)
(* vector store, and the searches of a hybrid retrieval.  They share only  *)
(* the clock, so a behaviour exercises one of them, its part.              *)
(***************************************************************************)
EXTENDS Stream, ProviderReply, Retry, SkillContext, HybridRetriever, RateLimiter,
        MetricsWindow, Retrieval

CONSTANTS
    LogTime,   \* bound: clock of a limiter on its own
    MaxLog     \* bound: admissions of a limiter on its own

VARIABLE part

callsVars == <<streamVars, replyVars, retryVars, skillVars, hybridVars, rlVars, mwVars,
               retrievalVars, part>>

\* Negative, zero and positive numbers of retries.
MCRetries == {-1, 0, 1, 4}

\* Batches with an id of their own, without, and with both.
Doc(i, t) == [id |-> i, text |-> t]
MCBatches == {<<Doc(7, 1)>>, <<Doc(0, 1), Doc(0, 2)>>, <<Doc(7, 2), Doc(0, 3)>>}

CallsInit ==
    /\ part \in {"stream", "reply", "retry", "skill", "hybrid", "window", "bucket",
                 "combined", "metrics", "retrieval"}
    /\ StreamInit /\ ReplyInit /\ RetryInit /\ NewContext /\ HybridInit
    /\ RLInit /\ MWInit /\ RetrievalInit
    /\ part # "stream" => ~relayed
    /\ part # "reply" => reply = <<>> /\ provider = "openai" /\ choice
    /\ part # "retry" => MaxRetries = 0 /\ ~helper
    /\ storeOf[1] = 1
    /\ part # "retrieval" => storeOf[2] = 1

Only(p) ==
    /\ part = p /\ UNCHANGED part
    /\ p # "stream" => UNCHANGED streamVars
    /\ p # "reply" => UNCHANGED replyVars
    /\ p # "retry" => UNCHANGED retryVars
    /\ p # "skill" => UNCHANGED skillVars
    /\ p # "hybrid" => UNCHANGED hybridVars
    /\ p \notin {"window", "combined"} => UNCHANGED swVars
    /\ p \notin {"bucket", "combined"} => UNCHANGED tbVars
    /\ p # "combined" => UNCHANGED <<pc, wakeAt>>
    /\ p # "metrics" => UNCHANGED mwVars
    /\ p # "retrieval" => UNCHANGED retrievalVars
    /\ p \notin {"window", "bucket", "combined", "metrics"} => UNCHANGED now

Bounded(log_) == now <= LogTime /\ Len(log_) <= MaxLog

CallsNext ==
    \/ Only("stream") /\ StreamNext
    \/ Only("reply") /\ ReplyNext
    \/ Only("retry") /\ RetryNext
    \/ Only("skill") /\ SkillStep
    \/ Only("hybrid") /\ HybridNext
    \/ Only("window") /\ SWNext /\ Bounded(windowLog)'
    \/ Only("bucket") /\ TBNext /\ Bounded(bucketLog)'
    \/ Only("combined") /\ RLNext
    \/ Only("metrics") /\ MWNext
    \/ Only("retrieval") /\ RetrievalNext

\* The fairness of each part, while it is the one exercised.
CallsSpec ==
    /\ CallsInit /\ [][CallsNext]_callsVars
    /\ WF_callsVars(Only("stream") /\ UNCHANGED relayed /\ Produce)
    /\ WF_callsVars(Only("stream") /\ UNCHANGED relayed /\ RelayStep)
    /\ WF_callsVars(Only("stream") /\ UNCHANGED relayed /\ Collect)
    /\ WF_callsVars(Only("retry") /\ RetryStep)
    /\ WF_callsVars(Only("skill") /\ SkillStep)
    /\ SF_callsVars(Only("combined") /\ TimePasses)
    /\ \A c \in Callers : WF_callsVars(Only("combined") /\ CallerStep(c))

\* The loop that collects the reply (streamReActPlan) does not wait any more,
\* and no goroutine of a provider is left behind on a channel nobody reads
\* (Client.Stream).  The exception is the relay's exit on ctx.Done(): it stops
\* reading, and a provider with a full channel is stranded.
StreamEnded ==
    /\ reader # "reading"
    /\ producer = "ended" \/ (relayed /\ ctxDone /\ Len(msgCh[1]) = Cap)

\* Nobody waits for a limiter.
NobodyWaits ==
    \A c \in Callers :
        pc[c] \notin {"waitToken", "sleepToken", "waitWindow", "sleepWindow"}

\* Whatever is started ends, each caller asking a limiter once: a streamed call,
\* whichever goroutine fails or is cancelled and in whatever order the channels
\* are closed; ExponentialBackoff.Do, whatever the function returns; a skill
\* call, whatever the model does; and a Wait, however many callers wake for the
\* same place.
CallsEnd ==
    []<>(/\ part = "stream" => StreamEnded
         /\ part = "retry" => verdict # "running"
         /\ part = "skill" => ended
         /\ part = "combined" => NobodyWaits)
=============================================================================
