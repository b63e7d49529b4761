------------------------------- MODULE MCMemory -------------------------------
(***************************************************************************)
(* What a session remembers, for TLC: the conversation, the summarising    *)
(* memory and the long tool results.  A behaviour exercises one of them,   *)
(* its part, and leaves the others as they were built.                     *)
(***************************************************************************)
EXTENDS Conversation, SummaryMemory, TruncatedResults

VARIABLE part

memoryVars == <<convVars, summaryVars, truncVars, part>>

MemoryInit ==
    /\ part \in {"conversation", "summary", "results"}
    /\ ConvInit /\ SMInit /\ TruncInit
    /\ part # "conversation" => messages = <<>> /\ \A n \in Sizes : maxSize <= n
    /\ part # "summary" => \A n \in Thresholds : threshold <= n
    /\ part # "results" => \A n \in MaxLens : maxLen <= n

Only(p) ==
    /\ part = p /\ UNCHANGED part
    /\ p # "conversation" => UNCHANGED convVars
    /\ p # "summary" => UNCHANGED summaryVars
    /\ p # "results" => UNCHANGED truncVars

MemoryNext ==
    \/ Only("conversation") /\ ConvNext
    \/ Only("summary") /\ SMNext
    \/ Only("results") /\ TruncNext

\* A call of the summarising memory that has begun goes on: every step returns.
MemorySpec ==
    MemoryInit /\ [][MemoryNext]_memoryVars /\ WF_memoryVars(Only("summary") /\ Steps)
===============================================================================
