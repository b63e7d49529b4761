------------------------------ MODULE AgentLoop ------------------------------
(***************************************************************************)
(* One session of an agent: Session.Run (agent/session.go) and the state   *)
(* machine runLoop (agent/loop.go) behind it, together with the two things *)
(* a Run leaves behind for the next one: the session's loop detector and   *)
(* memory, and the plan-and-solve planner that the agent shares among all  *)
(* Runs.                                                                   *)
(*                                                                         *)
(* There is one action per case of runLoop's switch.  The case Executing   *)
(* is two actions, ExecuteStart and ToolReturn, because a tool may run for *)
(* long and the context may expire meanwhile.  The check of ctx.Done() at  *)
(* the top of the loop is the guard ~ctxDone of every handler and the      *)
(* action Cancelled.                                                       *)
(*                                                                         *)
(* External parts are nondeterministic: what a model or a custom planner   *)
(* replies, what a human, a tool or an evaluator says, and whether a call  *)
(* to one of them fails.                                                   *)
(*                                                                         *)
(* Abstractions.  The conversation is reduced to openCalls, the assistant  *)
(* tool calls in memory that no tool message answers: pruning removes a    *)
(* call with its answer and compaction only rewrites texts, so neither     *)
(* changes it.  The memory is unbounded (maxSize <= 0) and checkpoints     *)
(* are off.  Hooks only observe.                                           *)
(***************************************************************************)
EXTENDS LoopDetector, PlanAndSolve

CONSTANTS
    ToolOf,             \* the tool a signature calls: [Sigs -> tool names]
    Configs,            \* the settings a Run may find, see Config
    Replies,            \* what the planner of ReAct mode may return
    HasInterrupter,     \* a.interrupter # nil
    ReviewsPlans,       \* ShouldInterrupt(AfterPlan)
    ReviewsEscalations, \* ShouldInterrupt(OnEscalate)
    ReviewedTools,      \* tools with ShouldInterrupt(BeforeToolCall)
    MaxIterations,      \* a.maxIterations
    AutoRetry,          \* a.autoRetry
    ValidAnswers,       \* the answers validateFinalOutput accepts
    MaxRuns             \* bound: Runs of the session

\* A custom planner may return an action type the loop does not know.
UnknownAction == [type |-> "Unknown", arg |-> Nil]

\* The agent's settings that runLoop copies under a.mu before it starts:
\* the planners that exist, the mode, evalOn, and whether there is a schema.
Config == [mode : {"ReAct", "PlanAndSolve"}, pl : BOOLEAN, pas : BOOLEAN,
           evalOn : BOOLEAN, outSchema : BOOLEAN]

ASSUME AgentLoopAssumption ==
    /\ ToolOf \in [Sigs -> {ToolOf[s] : s \in Sigs}]
    /\ Configs \subseteq Config
    /\ Replies \subseteq Action \cup {UnknownAction, GenerateFailed}
    /\ {HasInterrupter, ReviewsPlans, ReviewsEscalations} \subseteq BOOLEAN
    /\ MaxIterations \in Nat \ {0}
    /\ AutoRetry \in Nat
    /\ MaxRuns \in Nat

VARIABLES
    \* runLoop's local variables
    state, cfg, iteration, pendingAction, pendingToolCallID, planGenFirst,
    lastExec, evalEscalate, validateLeft, completeAnswer,
    ctxDone,    \* the Run's context has expired or was cancelled
    result,     \* what the latest Run returned, Nil while one is under way
    \* the session's memory
    openCalls,  \* tool calls in memory without an answer
    callSeq,    \* number of tool call ids handed out
    \* bookkeeping for the properties, read by no action
    runs,       \* number of Runs started
    firstCall,  \* callSeq when the Run started
    granted,    \* the action the latest passage through Interrupt let through
    attempts,   \* executions of that action
    planOwner   \* the Run in which the current plan was generated

locals == <<cfg, iteration, pendingAction, pendingToolCallID, planGenFirst,
            lastExec, evalEscalate, validateLeft, completeAnswer>>
memVars == <<openCalls, callSeq>>
bookVars == <<runs, firstCall, granted, attempts, planOwner>>
vars == <<ldVars, psVars, state, locals, ctxDone, result, memVars, bookVars>>

LoopStates == {"Init", "PlanGen", "PlanReview", "Planning", "Interrupt",
               "Executing", "Evaluating", "Completing"}

Results == {"answer", "error", "stepStillRunning", "maxIterations",
            "hitlTimeout", "loopDetected", "outputValidation", "ctxErr"}

\* Nil is none of the values a pointer may point to, and no Run's result.
ASSUME NilLoopAssumption ==
    Nil \notin {UnknownAction} \cup Config \cup [action : Action, toolCallID : Nat]
                 \cup Results

TypeOK ==
    /\ LDTypeOK
    /\ plan \in ActionPlan \cup {Nil}
    /\ planRes \in Action \cup PlanErrors \cup {UnknownAction, Nil}
    /\ state \in LoopStates \cup {"Idle", "ToolRunning"}
    /\ cfg \in Configs \cup {Nil}
    /\ iteration \in 0..(MaxIterations + 1)
    /\ pendingAction \in Action \cup {UnknownAction, Nil}
    /\ pendingToolCallID \in 0..callSeq
    /\ planGenFirst \in Action \cup {Nil}
    /\ lastExec \in [action : Action, toolCallID : Nat] \cup {Nil}
    /\ evalEscalate \in BOOLEAN
    /\ validateLeft \in 0..AutoRetry
    /\ completeAnswer \in Answers \cup {Nil}
    /\ ctxDone \in BOOLEAN
    /\ result \in Results \cup {Nil}
    /\ openCalls \subseteq 1..callSeq
    /\ callSeq \in Nat
    /\ runs \in 0..MaxRuns
    /\ firstCall \in 0..callSeq
    /\ granted \in Action \cup {Nil}
    /\ attempts \in Nat
    /\ planOwner \in 0..runs

-------------------------------------------------------------------------------

Init ==
    /\ LDInit
    /\ PSInit
    /\ state = "Idle"
    /\ cfg = Nil
    /\ iteration = 0
    /\ pendingAction = Nil
    /\ pendingToolCallID = 0
    /\ planGenFirst = Nil
    /\ lastExec = Nil
    /\ evalEscalate = FALSE
    /\ validateLeft = 0
    /\ completeAnswer = Nil
    /\ ctxDone = FALSE
    /\ result = Nil
    /\ openCalls = {}
    /\ callSeq = 0
    /\ runs = 0
    /\ firstCall = 0
    /\ granted = Nil
    /\ attempts = 0
    /\ planOwner = 0

\* A handler runs when the check at the top of the loop finds a live context.
At(s) == state = s /\ ~ctxDone

Goto(s) == state' = s /\ UNCHANGED result

Return(res) == state' = "Idle" /\ result' = res

\* Memory operations fail silently once the context has expired, which may
\* happen at any point of a handler.
Expired == ctxDone' = TRUE

-------------------------------------------------------------------------------
\* Session.Run: record the input, then enter runLoop with fresh locals and
\* the settings c.  A dead context fails the Run before it starts, a missing
\* planner right after.

StartRun(c) ==
    /\ state = "Idle"
    /\ runs < MaxRuns
    /\ runs' = runs + 1
    /\ UNCHANGED <<ldVars, psVars, memVars, planOwner>>
    /\ \/ /\ Return("ctxErr")
          /\ UNCHANGED <<locals, ctxDone, firstCall, granted, attempts>>
       \/ /\ cfg' = c
          /\ iteration' = 0
          /\ pendingAction' = Nil
          /\ pendingToolCallID' = 0
          /\ planGenFirst' = Nil
          /\ lastExec' = Nil
          /\ evalEscalate' = FALSE
          /\ validateLeft' = AutoRetry
          /\ completeAnswer' = Nil
          /\ ctxDone' = FALSE
          /\ firstCall' = callSeq
          /\ granted' = Nil
          /\ attempts' = 0
          /\ IF c.pl THEN state' = "Init" /\ result' = Nil ELSE Return("error")

\* The Run's deadline passes, or the caller cancels.
Expire ==
    /\ state # "Idle"
    /\ ~ctxDone
    /\ ctxDone' = TRUE
    /\ UNCHANGED <<ldVars, psVars, state, locals, result, memVars, bookVars>>

\* ctx.Done() at the top of the loop
Cancelled ==
    /\ state \in LoopStates
    /\ ctxDone
    /\ Return("ctxErr")
    /\ UNCHANGED <<ldVars, psVars, locals, ctxDone, memVars, bookVars>>

LoopInit ==
    /\ At("Init")
    /\ Goto(IF cfg.mode = "PlanAndSolve" THEN "PlanGen" ELSE "Planning")
    /\ UNCHANGED <<ldVars, psVars, locals, ctxDone, memVars, bookVars>>

-------------------------------------------------------------------------------
\* case StatePlanGen

PlanGen ==
    /\ At("PlanGen")
    /\ UNCHANGED <<ldVars, cfg, iteration, pendingAction, pendingToolCallID,
                   lastExec, evalEscalate, validateLeft, completeAnswer,
                   memVars, runs, firstCall, granted, attempts>>
    /\ \/ \* no plan-and-solve planner
          /\ ~cfg.pas
          /\ Return("error")
          /\ UNCHANGED <<psVars, planGenFirst, ctxDone, planOwner>>
       \/ \* buildPlanState fails
          /\ cfg.pas
          /\ Return("error")
          /\ Expired
          /\ UNCHANGED <<psVars, planGenFirst, planOwner>>
       \/ \* the planner still has a plan
          /\ cfg.pas
          /\ plan # Nil
          /\ Goto("PlanReview")
          /\ UNCHANGED <<psVars, planGenFirst, ctxDone, planOwner>>
       \/ \* a new plan, of which Plan already hands out the first step
          /\ cfg.pas
          /\ plan = Nil
          /\ Plan
          /\ UNCHANGED ctxDone
          /\ IF planRes' \in PlanErrors
             THEN Return("error") /\ UNCHANGED <<planGenFirst, planOwner>>
             ELSE /\ Goto("PlanReview")
                  /\ planGenFirst' = planRes'
                  /\ planOwner' = runs

\* case StatePlanReview.  A rejection makes the planner start over and comes
\* back here; planGenFirst keeps its value.
PlanReview ==
    /\ At("PlanReview")
    /\ UNCHANGED <<ldVars, locals, memVars, runs, firstCall, granted, attempts>>
    /\ \/ \* no review, or approved
          /\ Goto("Planning")
          /\ UNCHANGED <<psVars, ctxDone, planOwner>>
       \/ \* the interrupter or the human's answer fails
          /\ HasInterrupter
          /\ Return("error")
          /\ UNCHANGED <<psVars, ctxDone, planOwner>>
       \/ \* rejected: Replan
          /\ HasInterrupter /\ ReviewsPlans
          /\ Replan
          /\ IF plan' = Nil
             THEN Return("error") /\ UNCHANGED <<ctxDone, planOwner>>
             ELSE Goto("PlanReview") /\ planOwner' = runs /\ UNCHANGED ctxDone
       \/ \* rejected, but the context expires before Replan
          /\ HasInterrupter /\ ReviewsPlans
          /\ Return("error")
          /\ Expired
          /\ UNCHANGED <<psVars, planOwner>>

-------------------------------------------------------------------------------
\* case StatePlanning

\* L4 compression may rewrite the memory to a summary and the messages from
\* the last assistant message on.
Compressed == {openCalls} \cup SUBSET {c \in openCalls : c = callSeq}

\* The planner of the Run's mode; planRes is the res of the handler.
CallPlanner ==
    IF cfg.mode = "PlanAndSolve"
    THEN Plan
    ELSE planRes' \in Replies /\ UNCHANGED plan

\* What follows from the planner's reply.
Dispatch(res) ==
    \/ /\ res \in PlanErrors
       /\ Return(IF res = StillRunning THEN "stepStillRunning" ELSE "error")
       /\ UNCHANGED <<pendingAction, completeAnswer>>
    \/ /\ res.type \in {"ToolCall", "AskHuman"}
       /\ Goto("Interrupt")
       /\ pendingAction' = res
       /\ UNCHANGED completeAnswer
    \/ /\ res.type = "FinalAnswer"
       /\ Goto("Completing")
       /\ pendingAction' = res
       /\ completeAnswer' = res.arg
    \/ /\ res = UnknownAction
       /\ Return("error")
       /\ pendingAction' = res
       /\ UNCHANGED completeAnswer

\* A mutation of Planning: the iteration limit is not tested.
PlanningUnlimited ==
    /\ At("Planning")
    /\ iteration' = iteration + 1
    /\ planGenFirst' = Nil
    /\ IF planGenFirst # Nil
       THEN planRes' = planGenFirst /\ UNCHANGED plan
       ELSE CallPlanner
    /\ Dispatch(planRes')
    /\ UNCHANGED <<ldVars, cfg, pendingToolCallID, lastExec, evalEscalate,
                   validateLeft, callSeq, runs, firstCall, granted, attempts,
                   ctxDone, openCalls, planOwner>>

Planning ==
    /\ At("Planning")
    /\ iteration' = iteration + 1
    /\ UNCHANGED <<ldVars, cfg, pendingToolCallID, lastExec, evalEscalate,
                   validateLeft, callSeq, runs, firstCall, granted, attempts>>
    /\ \/ /\ iteration' > MaxIterations
          /\ Return("maxIterations")
          /\ UNCHANGED <<psVars, pendingAction, planGenFirst, completeAnswer,
                         ctxDone, openCalls, planOwner>>
       \/ \* buildPlanState fails, perhaps after compression cleared the memory
          /\ iteration' <= MaxIterations
          /\ Return("error")
          /\ Expired
          /\ openCalls' \in {openCalls, {}}
          /\ UNCHANGED <<psVars, pendingAction, planGenFirst, completeAnswer,
                         planOwner>>
       \/ /\ iteration' <= MaxIterations
          /\ openCalls' \in Compressed
          /\ UNCHANGED ctxDone
          /\ planGenFirst' = Nil
          /\ IF planGenFirst # Nil
             THEN planRes' = planGenFirst /\ UNCHANGED plan
             ELSE CallPlanner
          /\ planOwner' = IF plan = Nil /\ plan' # Nil THEN runs ELSE planOwner
          /\ Dispatch(planRes')

-------------------------------------------------------------------------------
\* case StateInterrupt

\* An evaluation asked for a human.  Whatever the answer, the loop goes on
\* planning; a rejection only adds its text to the memory.
EscalationReview ==
    /\ At("Interrupt")
    /\ evalEscalate
    /\ UNCHANGED <<ldVars, psVars, cfg, iteration, pendingToolCallID, planGenFirst,
                   lastExec, validateLeft, completeAnswer, ctxDone, memVars,
                   bookVars>>
    /\ \/ /\ evalEscalate' = FALSE
          /\ pendingAction' = Nil
          /\ Goto("Planning")
       \/ /\ HasInterrupter
          /\ \/ Return("error")
             \/ ReviewsEscalations /\ Return("hitlTimeout")
          /\ UNCHANGED <<evalEscalate, pendingAction>>

\* Does the pending action have to be shown to a human?
Reviewed ==
    /\ HasInterrupter
    /\ IF pendingAction.type = "AskHuman"
       THEN ReviewsEscalations
       ELSE ToolOf[pendingAction.arg] \in ReviewedTools

\* The inputs a human may substitute: same tool, other parameters.
Revisions(sig) == {s \in Sigs : ToolOf[s] = ToolOf[sig]}

\* A mutation of NotApproved: after a denial the case falls through.
NotApprovedFallsThrough ==
    /\ At("Interrupt")
    /\ ~evalEscalate
    /\ Reviewed
    /\ Goto(IF pendingAction.type = "ToolCall" THEN "Executing" ELSE "Planning")
    /\ UNCHANGED <<ldVars, psVars, locals, ctxDone, memVars, bookVars>>

\* The interrupter fails, the human does not answer in time, or says no.
NotApproved ==
    /\ At("Interrupt")
    /\ ~evalEscalate
    /\ HasInterrupter
    /\ \/ Return("error")
       \/ Reviewed /\ Return("hitlTimeout")
       \/ Reviewed /\ Goto("Planning")
    /\ UNCHANGED <<ldVars, psVars, locals, ctxDone, memVars, bookVars>>

\* A question is put to the human, or skipped, and planning goes on.
HumanAsked ==
    /\ At("Interrupt")
    /\ ~evalEscalate
    /\ pendingAction.type = "AskHuman"
    /\ Goto("Planning")
    /\ UNCHANGED <<ldVars, psVars, locals, ctxDone, memVars, bookVars>>

\* The call is approved, perhaps with other parameters, or needs no approval;
\* it gets its id and goes into the memory.
CallGranted ==
    /\ At("Interrupt")
    /\ ~evalEscalate
    /\ pendingAction.type = "ToolCall"
    /\ \E sig \in IF Reviewed THEN Revisions(pendingAction.arg)
                   ELSE {pendingAction.arg} :
          /\ pendingAction' = ToolCall(sig)
          /\ granted' = ToolCall(sig)
    /\ attempts' = 0
    /\ callSeq' = callSeq + 1
    /\ pendingToolCallID' = callSeq'
    /\ \/ openCalls' = openCalls \cup {callSeq'} /\ UNCHANGED ctxDone
       \/ openCalls' = openCalls /\ Expired
    /\ Goto("Executing")
    /\ UNCHANGED <<ldVars, psVars, cfg, iteration, planGenFirst, lastExec,
                   evalEscalate, validateLeft, completeAnswer, runs, firstCall,
                   planOwner>>

-------------------------------------------------------------------------------
\* case StateExecuting

\* Mutations of ExecuteStart: a call is not recorded by the detector; a call
\* that draws a warning is left out.
ExecuteStartUnrecorded ==
    /\ At("Executing")
    /\ Goto("ToolRunning")
    /\ attempts' = attempts + 1
    /\ UNCHANGED <<ldVars, psVars, locals, ctxDone, memVars, runs, firstCall,
                   granted, planOwner>>

ExecuteStartSkipsWarned ==
    /\ At("Executing")
    /\ Record(pendingAction.arg)
    /\ CASE loopStatus' = "LoopTerminate" -> Return("loopDetected")
         [] loopStatus' = "LoopWarning" -> Goto("Planning")
         [] OTHER -> Goto("ToolRunning")
    /\ UNCHANGED <<psVars, locals, ctxDone, memVars, bookVars>>

ExecuteStart ==
    /\ At("Executing")
    /\ Record(pendingAction.arg)
    /\ IF loopStatus' = "LoopTerminate"
       THEN Return("loopDetected") /\ UNCHANGED attempts
       ELSE Goto("ToolRunning") /\ attempts' = attempts + 1
    /\ UNCHANGED <<psVars, locals, ctxDone, memVars, runs, firstCall, granted,
                   planOwner>>

\* The tool's result goes into the memory, which is then pruned, compacted,
\* cleared and written again.  If the context expires in between, the result
\* is not recorded, or the memory is not rewritten, or it stays empty.
RecordToolResult ==
    \/ /\ ctxDone
       /\ UNCHANGED <<openCalls, ctxDone>>
    \/ /\ ~ctxDone
       /\ \/ openCalls' = openCalls \ {pendingToolCallID} /\ UNCHANGED ctxDone
          \/ openCalls' \in {openCalls, openCalls \ {pendingToolCallID}, {}} /\ Expired

\* A mutation of BookOnPlan: a failure is not booked.
BookOnPlanSuccess(ok, out) ==
    plan' = IF cfg.mode = "PlanAndSolve" /\ cfg.pas /\ plan # Nil
                 /\ runningStep(plan) # 0 /\ ok
            THEN MarkStep(plan, plan.steps[runningStep(plan)].id, "Done", out)
            ELSE plan

\* The step of the plan that is Running takes the tool's outcome.
BookOnPlan(ok, out) ==
    plan' = IF cfg.mode = "PlanAndSolve" /\ cfg.pas /\ plan # Nil
                 /\ runningStep(plan) # 0
            THEN MarkStep(plan, plan.steps[runningStep(plan)].id,
                          IF ok THEN "Done" ELSE "Failed", out)
            ELSE plan

\* ok: the tool reported no error; out: its output is not blank.  Executors
\* report failures in the result: ParallelExecutor.Execute returns no error.
ToolReturn(ok, out) ==
    /\ state = "ToolRunning"
    /\ lastExec' = [action |-> pendingAction, toolCallID |-> pendingToolCallID]
    /\ RecordToolResult
    /\ BookOnPlan(ok, out)
    /\ pendingAction' = Nil
    /\ pendingToolCallID' = 0
    /\ Goto(IF cfg.evalOn THEN "Evaluating" ELSE "Planning")
    /\ UNCHANGED <<ldVars, planRes, cfg, iteration, planGenFirst, evalEscalate,
                   validateLeft, completeAnswer, callSeq, bookVars>>

-------------------------------------------------------------------------------
\* case StateEvaluating

\* The memory or the evaluator fails.
EvaluationFails ==
    /\ At("Evaluating")
    /\ Return("error")
    /\ ctxDone' \in BOOLEAN
    /\ UNCHANGED <<ldVars, psVars, locals, memVars, bookVars>>

\* DecisionContinue, or the evaluator was taken away during the Run
EvalContinue ==
    /\ At("Evaluating")
    /\ Goto("Planning")
    /\ UNCHANGED <<ldVars, psVars, locals, ctxDone, memVars, bookVars>>

\* The answer is the evaluator's feedback or the latest output of a tool.
EvalComplete(ans) ==
    /\ At("Evaluating")
    /\ completeAnswer' = ans
    /\ Goto("Completing")
    /\ UNCHANGED <<ldVars, psVars, cfg, iteration, pendingAction,
                   pendingToolCallID, planGenFirst, lastExec, evalEscalate,
                   validateLeft, ctxDone, memVars, bookVars>>

\* The same action under the same id, without a new passage through Interrupt.
EvalRetry ==
    /\ At("Evaluating")
    /\ IF lastExec # Nil
       THEN /\ pendingAction' = lastExec.action
            /\ pendingToolCallID' = lastExec.toolCallID
            /\ Goto("Executing")
       ELSE Goto("Planning") /\ UNCHANGED <<pendingAction, pendingToolCallID>>
    /\ UNCHANGED <<ldVars, psVars, cfg, iteration, planGenFirst, lastExec,
                   evalEscalate, validateLeft, completeAnswer, ctxDone, memVars,
                   bookVars>>

\* A mutation of EvalEscalate: the escalated action is not restored.
EvalEscalateBare ==
    /\ At("Evaluating")
    /\ evalEscalate' = TRUE
    /\ Goto("Interrupt")
    /\ UNCHANGED <<ldVars, psVars, cfg, iteration, pendingAction,
                   pendingToolCallID, planGenFirst, lastExec, validateLeft,
                   completeAnswer, ctxDone, memVars, bookVars>>

EvalEscalate ==
    /\ At("Evaluating")
    /\ evalEscalate' = TRUE
    /\ pendingAction' = IF pendingAction = Nil /\ lastExec # Nil
                        THEN lastExec.action ELSE pendingAction
    /\ Goto("Interrupt")
    /\ UNCHANGED <<ldVars, psVars, cfg, iteration, pendingToolCallID,
                   planGenFirst, lastExec, validateLeft, completeAnswer, ctxDone,
                   memVars, bookVars>>

EvalReplan ==
    /\ At("Evaluating")
    /\ UNCHANGED <<ldVars, cfg, iteration, pendingAction, pendingToolCallID,
                   lastExec, evalEscalate, validateLeft, completeAnswer, memVars,
                   runs, firstCall, granted, attempts>>
    /\ IF cfg.mode = "PlanAndSolve" /\ cfg.pas
       THEN \/ \* buildPlanState fails
               /\ Return("error")
               /\ Expired
               /\ UNCHANGED <<psVars, planGenFirst, planOwner>>
            \/ /\ Replan
               /\ UNCHANGED ctxDone
               /\ IF plan' = Nil
                  THEN Return("error") /\ UNCHANGED <<planGenFirst, planOwner>>
                  ELSE /\ Goto("PlanGen")
                       /\ planGenFirst' = Nil
                       /\ planOwner' = runs
       ELSE Goto("Planning") /\ UNCHANGED <<psVars, planGenFirst, planOwner, ctxDone>>

-------------------------------------------------------------------------------
\* case StateCompleting

Rejected == cfg.outSchema /\ completeAnswer \notin ValidAnswers

\* A mutation of Revalidate: the loop forgets to go back to planning and to
\* count the retry.
RevalidateInPlace ==
    /\ At("Completing")
    /\ Rejected
    /\ IF validateLeft > 0 THEN Goto("Completing") ELSE Return("outputValidation")
    /\ UNCHANGED <<ldVars, psVars, locals, ctxDone, memVars, bookVars>>

\* Validation fails: tell the planner while retries are left.
Revalidate ==
    /\ At("Completing")
    /\ Rejected
    /\ IF validateLeft > 0
       THEN validateLeft' = validateLeft - 1 /\ Goto("Planning")
       ELSE Return("outputValidation") /\ UNCHANGED validateLeft
    /\ UNCHANGED <<ldVars, psVars, cfg, iteration, pendingAction,
                   pendingToolCallID, planGenFirst, lastExec, evalEscalate,
                   completeAnswer, ctxDone, memVars, bookVars>>

Complete ==
    /\ At("Completing")
    /\ ~Rejected
    /\ \/ Return("answer") /\ UNCHANGED ctxDone
       \/ Return("error") /\ Expired
    /\ UNCHANGED <<ldVars, psVars, locals, memVars, bookVars>>

-------------------------------------------------------------------------------

Evaluating ==
    \/ EvaluationFails
    \/ EvalContinue
    \/ \E ans \in {"good", "bad"} : EvalComplete(ans)
    \/ EvalRetry
    \/ EvalEscalate
    \/ EvalReplan

\* Every step of runLoop once it has been entered.
LoopStep ==
    \/ Cancelled
    \/ LoopInit
    \/ PlanGen
    \/ PlanReview
    \/ Planning
    \/ EscalationReview
    \/ NotApproved
    \/ HumanAsked
    \/ CallGranted
    \/ ExecuteStart
    \/ \E ok, out \in BOOLEAN : ToolReturn(ok, out)
    \/ Evaluating
    \/ Revalidate
    \/ Complete

Next ==
    \/ \E c \in Configs : StartRun(c)
    \/ Expire
    \/ LoopStep

Spec == Init /\ [][Next]_vars

(* runLoop keeps taking steps as long as models, tools, evaluators and     *)
(* humans answer; nothing makes a caller start another Run.                *)
FairSpec == Spec /\ WF_vars(LoopStep)

-------------------------------------------------------------------------------

\* The tool of pendingAction is about to be called, or running.
InExecution == state \in {"Executing", "ToolRunning"}

(* runLoop dereferences pendingAction at the top of the cases Interrupt    *)
(* and Executing, before it tests it for nil: no path, and in particular   *)
(* none through Retry or Escalate, leads there without a pending action.   *)
NoNilDereference ==
    /\ state \in {"Interrupt", "Executing", "ToolRunning"} => pendingAction # Nil
    /\ InExecution => pendingAction.type = "ToolCall"

(* A tool only runs with the parameters that the interrupter let through:  *)
(* a denied call, a call whose input a human revised and a call that was   *)
(* only escalated never run as the planner wrote them, also on Retry,      *)
(* which does not go through Interrupt again.                              *)
OnlyGrantedCallsRun == InExecution => pendingAction = granted

(* Retry takes no iteration and no approval; the loop detector is its only *)
(* bound: one granted call runs at most Threshold times.                   *)
RetriesBounded == attempts <= Threshold

(* The model is never shown a conversation in which a tool call of the     *)
(* current Run lacks its result (providers refuse such a conversation).    *)
CallsAnswered ==
    state \in {"PlanGen", "PlanReview", "Planning", "Evaluating", "Completing"} /\ ~ctxDone
        => \A c \in openCalls : c <= firstCall

(* In plan-and-solve mode the call that is put up for execution is the     *)
(* step of the current plan that is marked Running.                        *)
CallIsRunningStep ==
    state = "Interrupt" /\ ~evalEscalate /\ cfg.mode = "PlanAndSolve"
        => /\ plan # Nil
           /\ runningStep(plan) # 0
           /\ plan.steps[runningStep(plan)].act = pendingAction

(* A Run that gives up because a step of its own plan is still Running     *)
(* never does so over a call that was made: not one that failed, was tried *)
(* again, revised or escalated.  The step is a question or an answer the   *)
(* Run has gone past, a call that a human may have denied, or one whose id *)
(* another step has too, which then took its outcome.                      *)
StuckStepExplained ==
    result = "stepStillRunning" /\ planOwner = runs
        => LET i == runningStep(plan)
           IN  \/ plan.steps[i].act.type # "ToolCall"
               \/ HasInterrupter /\ ToolOf[plan.steps[i].act.arg] \in ReviewedTools
               \/ \E j \in DOMAIN plan.steps \ {i} : plan.steps[j].id = plan.steps[i].id

(* What the design says about the transitions of plan-and-solve mode, and  *)
(* the code does not do.                                                   *)

(* td.md's table of transitions sends a rejected plan back to be made      *)
(* anew: what is put up for execution is a step of the plan that replaced  *)
(* it.  PlanReview keeps planGenFirst, the first step of the rejected one. *)
RejectedPlanIsDropped ==
    state = "Interrupt" /\ ~evalEscalate /\ cfg.mode = "PlanAndSolve"
        => /\ plan # Nil
           /\ \E i \in DOMAIN plan.steps : plan.steps[i].act = pendingAction

(* Agent's comment calls the planners shared components that are read-only *)
(* after initialisation.  The answer of a Run would then come from the     *)
(* plan made in that Run; PlanGen finds the plan of an earlier one.        *)
AnswerFromOwnPlan ==
    result = "answer" /\ cfg.mode = "PlanAndSolve" => planOwner = runs

(* Every Run ends.                                                         *)
RunEnds == state # "Idle" ~> state = "Idle"

===============================================================================
