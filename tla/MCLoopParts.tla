----------------------------- MODULE MCLoopParts -----------------------------
(***************************************************************************)
(* What the agent loop calls, for TLC: loop detector, planner, checkpoints,*)
(* human in the loop, executor, evaluators, the check of the answer, and   *)
(* the sandbox commands run in.  They share no state, so a behaviour       *)
(* exercises one of them, its part, and leaves the others as they were     *)
(* built.                                                                  *)
(***************************************************************************)
EXTENDS LoopDetectorRefinement, SharedPlanner, Checkpoint, HITL,
        ParallelExecutor, Evaluators, OutputController, Sandbox

CONSTANTS
    s1,
    MaxCalls    \* bound: calls recorded by the loop detector

VARIABLE part

partsVars == <<ldVars, sharedVars, checkpointVars, hitlVars, execVars, evalVars,
               outputVars, sandboxVars, part>>

\* Plans of two or three tool calls, with distinct ids and with a repeated one.
Draft(ids) == [i \in DOMAIN ids |-> [id |-> ids[i], act |-> ToolCall(s1)]]
MCDrafts == {Draft(<<1, 2>>), Draft(<<1, 2, 3>>), Draft(<<2, 2>>)}

PartsInit ==
    /\ part \in {"detector", "planner", "checkpoint", "human", "executor", "evaluator",
                 "output", "sandbox"}
    /\ LDInit /\ SharedInit /\ CPInit /\ HITLInit /\ PEInit /\ EvalInit
    /\ OutputInit /\ SandboxInit
    /\ part # "executor" => limit = N
    /\ part # "output" => schema = "struct" /\ autoRetry = 0
    /\ part # "sandbox" => kind = "e2b"

Only(p) ==
    /\ part = p /\ UNCHANGED part
    /\ p # "detector" => UNCHANGED ldVars
    /\ p # "planner" => UNCHANGED sharedVars
    /\ p # "checkpoint" => UNCHANGED checkpointVars
    /\ p # "human" => UNCHANGED hitlVars
    /\ p # "executor" => UNCHANGED execVars
    /\ p # "evaluator" => UNCHANGED evalVars
    /\ p # "output" => UNCHANGED outputVars
    /\ p # "sandbox" => UNCHANGED sandboxVars

PartsNext ==
    \/ Only("detector") /\ Len(history) < MaxCalls /\ LDNext
    \/ Only("planner") /\ SharedNext
    \/ Only("checkpoint") /\ CPNext
    \/ Only("human") /\ HITLNext
    \/ Only("executor") /\ PENext
    \/ Only("evaluator") /\ EvalNext
    \/ Only("output") /\ OutputNext
    \/ Only("sandbox") /\ SandboxNext

\* The fairness of each part, while it is the one exercised.
PartsSpec ==
    /\ PartsInit /\ [][PartsNext]_partsVars
    /\ WF_partsVars(Only("checkpoint") /\ Saves)
    /\ \A c \in Callers : /\ WF_partsVars(Only("human") /\ LeaveWait(c))
                          /\ WF_partsVars(Only("human") /\ WaitExpires(c, "timeout"))
    /\ \A q \in Questions : WF_partsVars(Only("human") /\ Send(q))
    /\ WF_partsVars(Only("executor") /\ Return)
    /\ \A i \in Index : SF_partsVars(Only("executor") /\ Goroutine(i))

\* Nothing that a Run starts or waits for is left behind: every save ends, also
\* when the store does not answer; WaitForHuman returns even if the human never
\* answers, given a wait timeout, and the goroutine of a human who has answered
\* ends, also when nobody waits any more; every batch of the executor returns,
\* with any limit and whenever the context expires.
PartsEnd ==
    []<>(/\ inflight = {}
         /\ \A c \in Callers : place[c] # "wait"
         /\ \A q \in Questions : helper[q] \notin Verdicts
         /\ part = "executor" => returned)
=============================================================================
