--------------------------- MODULE AgentLoopProofs ---------------------------
(***************************************************************************)
(* The safety of the agent loop, for every set of tools, settings, plans   *)
(* and replies, every threshold and every number of Runs.                  *)
(***************************************************************************)
EXTENDS AgentLoop, PlanAndSolveProofs, LoopDetectorProofs

\* What a handler finds in the variables that earlier handlers have set.
Control ==
    /\ state # "Idle" => cfg \in Configs /\ iteration <= MaxIterations
    /\ state = "Interrupt" =>
          pendingAction \in Action /\ pendingAction.type # "FinalAnswer"
    /\ InExecution => pendingAction = granted
    /\ state = "Evaluating" =>
          lastExec # Nil /\ lastExec.action = granted /\ pendingAction = Nil
    /\ InExecution \/ state = "Evaluating" =>
          granted \in Action /\ granted.type = "ToolCall"
    /\ lastExec # Nil => lastExec.toolCallID <= callSeq

LoopInv == TypeOK /\ Control /\ (plan # Nil => PlanInv(plan))

(* The shapes of actions.                                                  *)
LEMMA ActionShapes ==
    /\ \A a \in Action :
          /\ a # Nil /\ a # UnknownAction /\ a \notin PlanErrors
          /\ a.type \in {"ToolCall", "FinalAnswer", "AskHuman"}
          /\ a.type = "ToolCall" => a.arg \in Sigs
          /\ a.type = "FinalAnswer" => a.arg \in Answers
    /\ \A s \in Sigs : ToolCall(s) \in Action /\ ToolCall(s).type = "ToolCall"
    /\ \A e \in PlanErrors : e.type = "error"
    /\ UnknownAction.type = "Unknown"
  <1>1. \A a \in Action :
          /\ a.type \in {"ToolCall", "FinalAnswer", "AskHuman"}
          /\ a.type = "ToolCall" => a.arg \in Sigs
          /\ a.type = "FinalAnswer" => a.arg \in Answers
    BY DEF Action, AskHuman
  <1>2. \A a \in Action : a # Nil
    BY NilAssumption
  <1>3. ASSUME NEW s \in Sigs
        PROVE  ToolCall(s) \in Action /\ ToolCall(s).type = "ToolCall"
    <2>1. ToolCall(s) \in [type : {"ToolCall"}, arg : Sigs]
      BY DEF ToolCall
    <2> QED BY <2>1 DEF Action, ToolCall
  <1>4. \A e \in PlanErrors : e.type = "error"
    <2>1. GenerateFailed.type = "error" /\ StillRunning.type = "error"
      BY DEF GenerateFailed, StillRunning
    <2> QED BY <2>1 DEF PlanErrors
  <1>5. UnknownAction.type = "Unknown"
    BY DEF UnknownAction
  <1> QED BY <1>1, <1>2, <1>3, <1>4, <1>5

(* What the planner of either mode returns.                                *)
LEMMA PlannerKeeps ==
    ASSUME LoopInv, CallPlanner
    PROVE  /\ plan' # Nil => PlanInv(plan')
           /\ planRes' \in Action \cup PlanErrors \cup {UnknownAction}
  <1>1. CASE cfg.mode = "PlanAndSolve"
    BY <1>1, PlanKeeps DEF LoopInv, CallPlanner
  <1>2. CASE cfg.mode # "PlanAndSolve"
    BY <1>2, AgentLoopAssumption DEF LoopInv, CallPlanner, PlanErrors
  <1> QED BY <1>1, <1>2

-------------------------------------------------------------------------------
\* Types and control.

(* The Boolean variables of the loop.                                      *)
LEMMA FlagsStep ==
    ASSUME TypeOK, [Next]_vars
    PROVE  ctxDone' \in BOOLEAN /\ evalEscalate' \in BOOLEAN
  <1> USE DEF Goto, Return, At, Expired, locals
  <1>1. CASE UNCHANGED vars
    BY <1>1 DEF vars, TypeOK
  <1>2. ASSUME NEW c \in Configs, StartRun(c) PROVE ctxDone' \in BOOLEAN /\ evalEscalate' \in BOOLEAN
    BY <1>2, Zenon DEF StartRun, TypeOK
  <1>3. CASE Expire
    BY <1>3, Zenon DEF Expire, TypeOK
  <1>4. CASE Cancelled
    BY <1>4, Zenon DEF Cancelled, TypeOK
  <1>5. CASE LoopInit
    BY <1>5, Zenon DEF LoopInit, TypeOK
  <1>6. CASE PlanGen
    BY <1>6, Zenon DEF PlanGen, TypeOK
  <1>7. CASE PlanReview
    BY <1>7, Zenon DEF PlanReview, TypeOK
  <1>8. CASE Planning
    BY <1>8, Zenon DEF Planning, TypeOK
  <1>9. CASE EscalationReview
    BY <1>9, Zenon DEF EscalationReview, TypeOK
  <1>10. CASE CallGranted
    BY <1>10, Zenon DEF CallGranted, TypeOK
  <1>11. ASSUME NEW ok, NEW out, ToolReturn(ok, out) PROVE ctxDone' \in BOOLEAN /\ evalEscalate' \in BOOLEAN
    BY <1>11, Zenon DEF ToolReturn, RecordToolResult, TypeOK
  <1>12. CASE EvaluationFails
    BY <1>12, Zenon DEF EvaluationFails, TypeOK
  <1>13. CASE EvalEscalate
    BY <1>13, Zenon DEF EvalEscalate, TypeOK
  <1>14. CASE EvalReplan
    BY <1>14, Zenon DEF EvalReplan, TypeOK
  <1>15. CASE Complete
    BY <1>15, Zenon DEF Complete, TypeOK
  <1>16. CASE NotApproved \/ HumanAsked \/ ExecuteStart \/ EvalContinue
    BY <1>16 DEF NotApproved, HumanAsked, ExecuteStart, EvalContinue, TypeOK
  <1>17. ASSUME NEW ans, EvalComplete(ans) PROVE ctxDone' \in BOOLEAN /\ evalEscalate' \in BOOLEAN
    BY <1>17 DEF EvalComplete, TypeOK
  <1>18. CASE EvalRetry \/ Revalidate
    BY <1>18 DEF EvalRetry, Revalidate, TypeOK
  <1> QED BY <1>1, <1>2, <1>3, <1>4, <1>5, <1>6, <1>7, <1>8, <1>9, <1>10, <1>11, <1>12,
             <1>13, <1>14, <1>15, <1>16, <1>17, <1>18 DEF Next, LoopStep, Evaluating

(* Every step keeps the types, the control invariant and the plan's.       *)
LEMMA LoopInvStep == LoopInv /\ [Next]_vars => LoopInv'
  <1> SUFFICES ASSUME LoopInv, [Next]_vars PROVE LoopInv'
    OBVIOUS
  <1> USE DEF Goto, Return, At, Expired, ldVars, psVars, locals, memVars, bookVars,
              LoopInv, TypeOK, Control, InExecution, LDTypeOK, LoopStates, Results
  <1>0. ctxDone' \in BOOLEAN /\ evalEscalate' \in BOOLEAN
    BY FlagsStep
  <1>1. CASE UNCHANGED vars
    BY <1>1 DEF vars
  <1>2. ASSUME NEW c \in Configs, StartRun(c) PROVE LoopInv'
    <2>1. /\ state = "Idle"
          /\ runs' \in 0..MaxRuns /\ runs' = runs + 1
          /\ UNCHANGED <<ldVars, psVars, memVars, planOwner>>
      <3>1. runs < MaxRuns /\ runs \in 0..MaxRuns /\ runs' = runs + 1 /\ MaxRuns \in Nat
        BY <1>2, AgentLoopAssumption DEF StartRun
      <3>2. runs' \in 0..MaxRuns
        BY <3>1
      <3> QED BY <1>2, <3>1, <3>2 DEF StartRun
    <2>2. planOwner' \in 0..runs'
      BY <2>1, AgentLoopAssumption
    <2>3. CASE Return("ctxErr") /\ UNCHANGED <<locals, ctxDone, firstCall, granted, attempts>>
      BY <1>0, <2>1, <2>2, <2>3
    <2>4. CASE ~(Return("ctxErr") /\ UNCHANGED <<locals, ctxDone, firstCall, granted, attempts>>)
      <3>1. /\ cfg' = c
            /\ iteration' = 0 /\ attempts' = 0 /\ pendingToolCallID' = 0
            /\ pendingAction' = Nil /\ planGenFirst' = Nil /\ lastExec' = Nil
            /\ completeAnswer' = Nil /\ granted' = Nil
            /\ validateLeft' = AutoRetry /\ firstCall' = callSeq
            /\ state' \in {"Init", "Idle"} /\ result' \in Results \cup {Nil}
        BY <1>2, <2>4 DEF StartRun
      <3>2. /\ iteration' \in 0..(MaxIterations + 1) /\ iteration' <= MaxIterations
            /\ validateLeft' \in 0..AutoRetry
        BY <3>1, AgentLoopAssumption
      <3> QED BY <1>0, <2>1, <2>2, <3>1, <3>2
    <2> QED BY <2>3, <2>4
  <1>3. CASE Expire
    BY <1>0, <1>3 DEF Expire
  <1>4. CASE Cancelled
    BY <1>0, <1>4 DEF Cancelled
  <1>5. CASE LoopInit
    BY <1>0, <1>5 DEF LoopInit
  <1>6. CASE PlanGen
    <2>1. CASE plan = Nil /\ Plan
      <3>1. (plan' # Nil => PlanInv(plan')) /\ planRes' \in Action \cup PlanErrors
        BY <2>1, PlanKeeps
      <3>2. plan' \in ActionPlan \cup {Nil}
        BY <3>1 DEF PlanInv
      <3> QED BY <1>0, <1>6, <2>1, <3>1, <3>2, AgentLoopAssumption DEF PlanGen
    <2>2. CASE ~(plan = Nil /\ Plan)
      <3>1. UNCHANGED <<psVars, planGenFirst, planOwner>> /\ state' \in {"Idle", "PlanReview"}
        BY <1>6, <2>2 DEF PlanGen
      <3>2. result' \in Results \cup {Nil}
        BY <1>6, <2>2 DEF PlanGen
      <3> QED BY <1>0, <1>6, <3>1, <3>2 DEF PlanGen
    <2> QED BY <2>1, <2>2
  <1>7. CASE PlanReview
    <2>1. plan' # Nil => PlanInv(plan')
      BY <1>7, ReplanKeeps DEF PlanReview
    <2>2. plan' \in ActionPlan \cup {Nil}
      BY <2>1 DEF PlanInv
    <2>3. /\ state' \in {"Idle", "Planning", "PlanReview"}
          /\ result' \in Results \cup {Nil}
          /\ planOwner' \in {runs, planOwner}
          /\ UNCHANGED planRes
      BY <1>7 DEF PlanReview, Replan
    <2> QED BY <1>0, <1>7, <2>1, <2>2, <2>3, AgentLoopAssumption DEF PlanReview
  <1>8. CASE Planning
    <2>1. iteration' = iteration + 1 /\ iteration <= MaxIterations /\ iteration \in Nat
      BY <1>8, AgentLoopAssumption DEF Planning
    <2>2. CASE UNCHANGED <<psVars, pendingAction, planGenFirst, completeAnswer, planOwner>>
               /\ openCalls' \subseteq openCalls /\ state' = "Idle" /\ result' \in Results
      BY <1>0, <1>8, <2>1, <2>2, AgentLoopAssumption DEF Planning
    <2>3. ASSUME iteration' <= MaxIterations, openCalls' \in Compressed, planGenFirst' = Nil,
                 IF planGenFirst # Nil
                 THEN planRes' = planGenFirst /\ UNCHANGED plan ELSE CallPlanner,
                 planOwner' = IF plan = Nil /\ plan' # Nil THEN runs ELSE planOwner,
                 Dispatch(planRes')
          PROVE  LoopInv'
      <3>1. /\ plan' # Nil => PlanInv(plan')
            /\ planRes' \in Action \cup PlanErrors \cup {UnknownAction}
        BY <2>3, PlannerKeeps
      <3>2. plan' \in ActionPlan \cup {Nil}
        BY <3>1 DEF PlanInv
      <3>3. openCalls' \subseteq openCalls
        BY <2>3 DEF Compressed
      <3>4. /\ pendingAction' \in Action \cup {UnknownAction, Nil}
            /\ completeAnswer' \in Answers \cup {Nil}
            /\ state' \in {"Idle", "Interrupt", "Completing"}
            /\ result' \in Results \cup {Nil}
            /\ state' = "Interrupt" =>
                  pendingAction' \in Action /\ pendingAction'.type # "FinalAnswer"
        BY <2>3, <3>1, ActionShapes DEF Dispatch
      <3>5. planOwner' \in 0..runs
        BY <2>3, AgentLoopAssumption
      <3>6. /\ state = "Planning"
            /\ UNCHANGED <<ldVars, cfg, pendingToolCallID, lastExec, validateLeft,
                           callSeq, runs, firstCall, granted, attempts>>
        BY <1>8 DEF Planning
      <3>7. iteration' \in 0..(MaxIterations + 1) /\ planGenFirst' = Nil
        BY <2>1, <2>3, AgentLoopAssumption
      <3> QED BY <1>0, <2>3, <3>1, <3>2, <3>3, <3>4, <3>5, <3>6, <3>7
    <2> QED BY <1>8, <2>2, <2>3 DEF Planning
  <1>9. CASE EscalationReview
    <2>1. /\ state' \in {"Idle", "Planning"}
          /\ result' \in Results \cup {Nil}
          /\ pendingAction' \in {pendingAction, Nil}
      BY <1>9 DEF EscalationReview
    <2> QED BY <1>0, <1>9, <2>1 DEF EscalationReview
  <1>10. CASE CallGranted
    <2>1. pendingAction.arg \in Sigs
      BY <1>10, ActionShapes DEF CallGranted
    <2>2. PICK sig \in Sigs : pendingAction' = ToolCall(sig) /\ granted' = ToolCall(sig)
      BY <1>10, <2>1 DEF CallGranted, Revisions
    <2>3. pendingAction' \in Action /\ pendingAction' = granted' /\ granted'.type = "ToolCall"
      BY <2>2, ActionShapes
    <2>4. callSeq' \in Nat /\ callSeq' = callSeq + 1
      BY <1>10 DEF CallGranted
    <2>5. openCalls' \subseteq 1..callSeq' /\ pendingToolCallID' \in 0..callSeq'
      BY <1>10, <2>4 DEF CallGranted
    <2>6. /\ state' = "Executing" /\ attempts' = 0
          /\ UNCHANGED <<ldVars, psVars, cfg, iteration, planGenFirst, lastExec,
                         validateLeft, completeAnswer, runs, firstCall, planOwner, result>>
      BY <1>10 DEF CallGranted
    <2>7. firstCall' \in 0..callSeq' /\ (lastExec' # Nil => lastExec'.toolCallID <= callSeq')
      BY <2>4, <2>6
    <2>8. state # "Idle"
      BY <1>10 DEF CallGranted
    <2> QED BY <1>0, <2>3, <2>4, <2>5, <2>6, <2>7, <2>8
  <1>11. CASE ExecuteStart
    <2>1. pendingAction.arg \in Sigs
      BY <1>11, ActionShapes DEF ExecuteStart
    <2>2. LDTypeOK'
      BY <1>11, <2>1, RecordTypes DEF ExecuteStart
    <2> HIDE DEF LDTypeOK
    <2> QED BY <1>0, <1>11, <2>2 DEF ExecuteStart
  <1>12. ASSUME NEW ok \in BOOLEAN, NEW out \in BOOLEAN, ToolReturn(ok, out) PROVE LoopInv'
    <2>1. plan' # Nil => PlanInv(plan')
      BY <1>12, MarkStepInv DEF ToolReturn, BookOnPlan
    <2>2. plan' \in ActionPlan \cup {Nil}
      BY <2>1 DEF PlanInv
    <2>3. openCalls' \subseteq openCalls
      BY <1>12 DEF ToolReturn, RecordToolResult
    <2>4. /\ lastExec' \in [action : Action, toolCallID : Nat]
          /\ lastExec'.action = granted
          /\ lastExec'.toolCallID <= callSeq
      BY <1>12 DEF ToolReturn
    <2>5. lastExec' # Nil
      BY <2>4, NilLoopAssumption
    <2> QED BY <1>0, <1>12, <2>1, <2>2, <2>3, <2>4, <2>5 DEF ToolReturn
  <1>13. CASE EvaluationFails
    BY <1>0, <1>13 DEF EvaluationFails
  <1>14. CASE EvalContinue
    BY <1>0, <1>14 DEF EvalContinue
  <1>15. ASSUME NEW ans \in {"good", "bad"}, EvalComplete(ans) PROVE LoopInv'
    BY <1>0, <1>15 DEF EvalComplete, Answers
  <1>16. CASE EvalRetry
    BY <1>0, <1>16 DEF EvalRetry
  <1>17. CASE EvalEscalate
    BY <1>0, <1>17, ActionShapes DEF EvalEscalate
  <1>18. CASE EvalReplan
    <2>1. plan' # Nil => PlanInv(plan')
      BY <1>18, ReplanKeeps DEF EvalReplan
    <2>2. plan' \in ActionPlan \cup {Nil}
      BY <2>1 DEF PlanInv
    <2>3. /\ state' \in {"Idle", "Planning", "PlanGen"}
          /\ result' \in Results \cup {Nil}
          /\ planOwner' \in {runs, planOwner}
          /\ planGenFirst' \in {planGenFirst, Nil}
          /\ UNCHANGED planRes
      BY <1>18 DEF EvalReplan, Replan
    <2> QED BY <1>0, <1>18, <2>1, <2>2, <2>3, AgentLoopAssumption DEF EvalReplan
  <1>19. CASE Revalidate
    BY <1>0, <1>19, AgentLoopAssumption DEF Revalidate
  <1>20. CASE Complete
    BY <1>0, <1>20 DEF Complete
  <1>21. CASE NotApproved \/ HumanAsked
    BY <1>0, <1>21 DEF NotApproved, HumanAsked
  <1> QED BY <1>1, <1>2, <1>3, <1>4, <1>5, <1>6, <1>7, <1>8, <1>9, <1>10, <1>11, <1>12,
             <1>13, <1>14, <1>15, <1>16, <1>17, <1>18, <1>19, <1>20, <1>21
          DEF Next, LoopStep, Evaluating

-------------------------------------------------------------------------------
\* The detector bounds the retries of a granted call.

(* The executions of the granted call are the last entries of the          *)
(* detector's history, and there are no more of them than it lets pass.    *)
RetryInv ==
    /\ LDInv
    /\ attempts <= Threshold
    /\ attempts > 0 =>
          /\ granted # Nil
          /\ attempts <= Len(history)
          /\ \A i \in (Len(history) - attempts + 1)..Len(history) :
                 history[i] = granted.arg

(* Only ExecuteStart calls the detector; the other handlers leave the      *)
(* count alone or reset it.                                                *)
LEMMA OnlyExecuteRecords ==
    ASSUME [Next]_vars
    PROVE  \/ ExecuteStart
           \/ UNCHANGED ldVars /\ (attempts' = 0 \/ UNCHANGED <<attempts, granted>>)
  <1> USE DEF bookVars
  <1>1. CASE UNCHANGED vars
    BY <1>1 DEF vars
  <1>2. ASSUME NEW c \in Configs, StartRun(c)
        PROVE  UNCHANGED ldVars /\ (attempts' = 0 \/ UNCHANGED <<attempts, granted>>)
    BY <1>2 DEF StartRun
  <1>3. CASE Expire \/ Cancelled \/ LoopInit \/ PlanGen \/ PlanReview \/ Planning
    BY <1>3 DEF Expire, Cancelled, LoopInit, PlanGen, PlanReview, Planning
  <1>4. CASE EscalationReview \/ NotApproved \/ HumanAsked \/ CallGranted
    BY <1>4 DEF EscalationReview, NotApproved, HumanAsked, CallGranted
  <1>5. ASSUME NEW ok, NEW out, ToolReturn(ok, out)
        PROVE  UNCHANGED <<ldVars, attempts, granted>>
    BY <1>5 DEF ToolReturn
  <1>6. ASSUME NEW ans, EvalComplete(ans)
        PROVE  UNCHANGED <<ldVars, attempts, granted>>
    BY <1>6 DEF EvalComplete
  <1>7. CASE EvaluationFails \/ EvalContinue \/ EvalRetry \/ EvalEscalate \/ EvalReplan
    BY <1>7 DEF EvaluationFails, EvalContinue, EvalRetry, EvalEscalate, EvalReplan
  <1>8. CASE Revalidate \/ Complete
    BY <1>8 DEF Revalidate, Complete
  <1> QED BY <1>1, <1>2, <1>3, <1>4, <1>5, <1>6, <1>7, <1>8 DEF Next, LoopStep, Evaluating

(* Every step of the loop preserves RetryInv.                              *)
LEMMA RetryInvStep == LoopInv /\ RetryInv /\ [Next]_vars => RetryInv'
  <1> SUFFICES ASSUME LoopInv, RetryInv, [Next]_vars PROVE RetryInv'
    OBVIOUS
  <1>0. attempts \in Nat /\ Threshold \in Nat /\ Threshold >= 1 /\ Len(history) \in Nat
    BY ThresholdAssumption DEF LoopInv, TypeOK, LDTypeOK
  <1>1. CASE UNCHANGED ldVars /\ (attempts' = 0 \/ UNCHANGED <<attempts, granted>>)
    <2>1. LDInv'
      BY <1>1, LDInductive DEF RetryInv
    <2> QED BY <1>0, <1>1, <2>1 DEF RetryInv, ldVars
  <1>2. CASE ExecuteStart
    <2> DEFINE sig == pendingAction.arg
    <2>1. /\ sig \in Sigs /\ Record(sig) /\ LDTypeOK
          /\ granted = pendingAction /\ granted # Nil /\ granted' = granted
          /\ history' = Append(history, sig)
      BY <1>2, ActionShapes DEF ExecuteStart, LoopInv, TypeOK, Control, InExecution, At, Record
    <2> HIDE DEF sig
    <2>2. /\ history' \in Seq(Sigs)
          /\ Len(history') = Len(history) + 1
          /\ \A i \in 1..Len(history) : history'[i] = history[i]
          /\ history'[Len(history')] = sig
      BY <2>1, AppendSig
    <2>3. LDInv'
      BY <2>1, LDInductive DEF RetryInv, LDNext
    <2>4. ASSUME NEW i \in (Len(history') - attempts)..Len(history')
          PROVE  history'[i] = sig /\ attempts + 1 <= Len(history')
      <3>1. CASE i = Len(history')
        BY <1>0, <2>2, <3>1 DEF RetryInv
      <3>2. CASE i # Len(history')
        <4>1. attempts > 0 /\ i \in (Len(history) - attempts + 1)..Len(history)
          BY <1>0, <2>2, <3>2
        <4>2. attempts <= Len(history) /\ history[i] = granted.arg
          BY <4>1 DEF RetryInv
        <4>3. i \in 1..Len(history)
          BY <1>0, <4>1, <4>2
        <4> QED BY <1>0, <2>1, <2>2, <4>2, <4>3 DEF sig
      <3> QED BY <3>1, <3>2
    <2>5. attempts + 1 <= Len(history')
      BY <1>0, <2>2, <2>4
    <2>6. attempts' # attempts => loopStatus' # "LoopTerminate" /\ attempts' = attempts + 1
      BY <1>2 DEF ExecuteStart
    <2>7. ASSUME attempts = Threshold PROVE loopStatus' = "LoopTerminate"
      <3>1. LastSame(Threshold)
        BY <1>0, <2>7 DEF RetryInv, LastSame
      <3>2. warned
        BY <3>1 DEF RetryInv, LDInv, WarnedExact
      <3>3. Len(history') >= Threshold
        BY <1>0, <2>5, <2>7, <2>2
      <3>4. \A i \in (Len(history') - Threshold + 1)..Len(history') :
                history'[i] = history'[Len(history')]
        BY <1>0, <2>2, <2>4, <2>7
      <3>5. SameWindow(history')
        BY <2>2, <3>3, <3>4, WindowEnd
      <3>6. ~(Len(history') < Threshold)
        BY <1>0, <2>2, <3>3
      <3> QED BY <2>1, <3>2, <3>5, <3>6 DEF Record
    <2>8. attempts' \in {attempts, attempts + 1} /\ attempts' <= Threshold
      BY <1>0, <2>6, <2>7 DEF RetryInv
    <2>9. \A i \in (Len(history') - attempts' + 1)..Len(history') : history'[i] = sig
      BY <1>0, <2>2, <2>4, <2>8
    <2> QED BY <1>0, <2>1, <2>2, <2>3, <2>5, <2>8, <2>9 DEF RetryInv, sig
  <1> QED BY <1>1, <1>2, OnlyExecuteRecords

-------------------------------------------------------------------------------
\* Every tool call of a Run is answered before the model is asked again.

(* While the context lives, the only call of this Run without an answer is *)
(* the one in execution.                                                   *)
OpenInv ==
    state # "Idle" /\ ~ctxDone =>
        \A c \in openCalls : c <= firstCall \/ (InExecution /\ c = pendingToolCallID)

(* Every step of the loop preserves OpenInv.                               *)
LEMMA OpenInvStep == LoopInv /\ OpenInv /\ [Next]_vars => OpenInv'
  <1> SUFFICES ASSUME LoopInv, OpenInv, [Next]_vars PROVE OpenInv'
    OBVIOUS
  <1> USE DEF OpenInv, InExecution, At, Goto, Return, Expired, locals, memVars, bookVars
  <1>0. openCalls \subseteq 1..callSeq /\ callSeq \in Nat
    BY DEF LoopInv, TypeOK
  <1>1. CASE UNCHANGED vars
    BY <1>1 DEF vars
  <1>2. ASSUME NEW c \in Configs, StartRun(c) PROVE OpenInv'
    BY <1>0, <1>2 DEF StartRun
  <1>3. CASE Expire \/ Cancelled \/ LoopInit
    BY <1>3 DEF Expire, Cancelled, LoopInit
  <1>4. CASE PlanGen
    BY <1>4 DEF PlanGen
  <1>5. CASE PlanReview
    BY <1>5 DEF PlanReview
  <1>6. CASE Planning
    <2>1. openCalls' \subseteq openCalls
      BY <1>6 DEF Planning, Compressed
    <2> QED BY <1>6, <2>1 DEF Planning
  <1>7. CASE EscalationReview
    BY <1>7 DEF EscalationReview
  <1>8. CASE NotApproved \/ HumanAsked
    BY <1>8 DEF NotApproved, HumanAsked
  <1>9. CASE CallGranted
    BY <1>9 DEF CallGranted
  <1>10. CASE ExecuteStart
    BY <1>10 DEF ExecuteStart
  <1>11. ASSUME NEW ok, NEW out, ToolReturn(ok, out) PROVE OpenInv'
    <2>1. ctxDone' \/ (~ctxDone /\ openCalls' = openCalls \ {pendingToolCallID})
      BY <1>11 DEF ToolReturn, RecordToolResult
    <2> QED BY <1>11, <2>1 DEF ToolReturn
  <1>12. CASE EvaluationFails \/ EvalContinue \/ EvalRetry \/ EvalEscalate
    BY <1>12 DEF EvaluationFails, EvalContinue, EvalRetry, EvalEscalate
  <1>13. ASSUME NEW ans, EvalComplete(ans) PROVE OpenInv'
    BY <1>13 DEF EvalComplete
  <1>14. CASE EvalReplan
    BY <1>14 DEF EvalReplan
  <1>15. CASE Revalidate \/ Complete
    BY <1>15 DEF Revalidate, Complete
  <1> QED BY <1>1, <1>2, <1>3, <1>4, <1>5, <1>6, <1>7, <1>8, <1>9, <1>10, <1>11, <1>12,
             <1>13, <1>14, <1>15 DEF Next, LoopStep, Evaluating

-------------------------------------------------------------------------------
\* What is put up for execution, and what a Run gets stuck on.

\* The first step of the plan waits in planGenFirst only for the review and the
\* next planning.
FirstStepWaits ==
    planGenFirst # Nil /\ state # "Idle" => state \in {"PlanReview", "Planning"}

\* It is the running step of the plan, as long as no review replaces the plan.
StepInv ==
    /\ FirstStepWaits
    /\ planGenFirst # Nil /\ state # "Idle" => HandedOut(plan, planGenFirst)
    /\ CallIsRunningStep

\* What StuckStepExplained says of the step of p that is running, if there is one.
Explained(p) ==
    LET i == runningStep(p)
    IN  i # 0 => \/ p.steps[i].act.type # "ToolCall"
                 \/ HasInterrupter /\ ToolOf[p.steps[i].act.arg] \in ReviewedTools
                 \/ \E j \in DOMAIN p.steps \ {i} : p.steps[j].id = p.steps[i].id

\* While a Run works on its own plan, a running step of it is the one in hand:
\* waiting for the review, put up for execution or executing; or it is explained.
StuckInv ==
    /\ FirstStepWaits
    /\ state # "Idle" => result = Nil
    /\ state \notin {"Idle", "Interrupt"} => ~evalEscalate
    /\ state \notin {"Idle", "Init", "PlanGen"} /\ cfg.mode = "PlanAndSolve" => cfg.pas
    /\ state # "Idle" /\ cfg.mode = "PlanAndSolve" /\ planOwner = runs /\ plan # Nil =>
         \/ Explained(plan)
         \/ InExecution
         \/ /\ state = "Interrupt" /\ ~evalEscalate
            /\ plan.steps[runningStep(plan)].act = pendingAction
         \/ /\ planGenFirst # Nil
            /\ plan.steps[runningStep(plan)].act = planGenFirst
    /\ result = "stepStillRunning" /\ planOwner = runs =>
         state = "Idle" /\ plan # Nil /\ runningStep(plan) # 0 /\ Explained(plan)

(* What Planning does when it goes on: it takes the step that waited, or   *)
(* asks the planner, and dispatches what it got.                           *)
LEMMA PlanningTakes ==
    ASSUME LoopInv, Planning
    PROVE  \/ state' = "Idle" /\ UNCHANGED psVars /\ result' \in {"maxIterations", "error"}
           \/ /\ planGenFirst' = Nil
              /\ \/ planGenFirst # Nil /\ planRes' = planGenFirst /\ UNCHANGED plan
                 \/ planGenFirst = Nil /\ CallPlanner
              /\ planOwner' = IF plan = Nil /\ plan' # Nil THEN runs ELSE planOwner
              /\ Dispatch(planRes')
  BY DEF Planning, Return, psVars

(* What is dispatched to which state.                                      *)
LEMMA DispatchGoes ==
    ASSUME LoopInv, NEW res \in Action \cup PlanErrors \cup {UnknownAction}, Dispatch(res)
    PROVE  \/ /\ state' = "Idle" /\ res \notin Action
              /\ result' = IF res = StillRunning THEN "stepStillRunning" ELSE "error"
           \/ /\ state' = "Interrupt" /\ pendingAction' = res /\ UNCHANGED result
              /\ res \in Action /\ res.type # "FinalAnswer"
           \/ /\ state' = "Completing" /\ UNCHANGED result
              /\ res \in Action /\ res.type = "FinalAnswer"
  <1>1. UnknownAction # StillRunning
    BY DEF UnknownAction, StillRunning
  <1> QED BY <1>1, ActionShapes DEF Dispatch, Goto, Return

(* Every step keeps StepInv, if no review can replace a plan.              *)
LEMMA StepInvStep ==
    ASSUME ~(HasInterrupter /\ ReviewsPlans), LoopInv, StepInv, [Next]_vars
    PROVE  StepInv'
  <1> USE DEF Goto, Return, At, ldVars, psVars, locals, memVars, bookVars,
              StepInv, FirstStepWaits, CallIsRunningStep
  <1>1. CASE UNCHANGED vars \/ Expire
    BY <1>1 DEF vars, Expire
  <1>2. ASSUME NEW c \in Configs, StartRun(c) PROVE StepInv'
    BY <1>2 DEF StartRun
  <1>3. CASE Cancelled \/ LoopInit
    BY <1>3 DEF Cancelled, LoopInit
  <1>4. CASE PlanGen
    <2>1. CASE plan = Nil /\ Plan /\ planGenFirst' = planRes' /\ planRes' \notin PlanErrors
      <3>1. plan' # Nil /\ HandedOut(plan', planRes') /\ state' = "PlanReview"
        BY <1>4, <2>1, PlanHandsOut, NilPlanAssumption DEF LoopInv, PlanGen, PlanErrors
      <3> QED BY <2>1, <3>1
    <2>2. CASE UNCHANGED <<plan, planGenFirst>>
      BY <1>4, <2>2 DEF PlanGen
    <2>3. CASE state' = "Idle"
      BY <2>3
    <2> QED BY <1>4, <2>1, <2>2, <2>3 DEF PlanGen
  <1>5. CASE PlanReview
    BY <1>5 DEF PlanReview
  <1>6. CASE Planning
    <2>1. CASE state' = "Idle"
      BY <2>1
    <2>2. ASSUME planGenFirst' = Nil, Dispatch(planRes'),
                 \/ planGenFirst # Nil /\ planRes' = planGenFirst /\ UNCHANGED plan
                 \/ planGenFirst = Nil /\ CallPlanner
          PROVE  StepInv'
      <3>1. state = "Planning" /\ UNCHANGED cfg
        BY <1>6 DEF Planning
      <3>2. planRes' \in Action \cup PlanErrors \cup {UnknownAction}
        BY <2>2, PlannerKeeps DEF LoopInv, TypeOK
      <3>3. CASE state' # "Interrupt"
        BY <2>2, <3>3
      <3>4. CASE state' = "Interrupt" /\ cfg.mode = "PlanAndSolve"
        <4>1. pendingAction' = planRes' /\ planRes' \in Action /\ planRes'.type # "FinalAnswer"
          BY <2>2, <3>2, <3>4, DispatchGoes
        <4>2. CASE planGenFirst # Nil
          <5>1. HandedOut(plan, planGenFirst)
            BY <3>1, <4>2
          <5> QED BY <2>2, <3>1, <4>1, <4>2, <5>1 DEF HandedOut
        <4>3. CASE planGenFirst = Nil
          <5>1. Plan
            BY <2>2, <3>4, <4>3 DEF CallPlanner
          <5>2. HandedOut(plan', planRes')
            BY <4>1, <5>1, PlanHandsOut, ActionShapes DEF LoopInv, PlanErrors
          <5> QED BY <2>2, <4>1, <5>2 DEF HandedOut
        <4> QED BY <4>2, <4>3
      <3> QED BY <2>2, <3>1, <3>3, <3>4
    <2> QED BY <1>6, <2>1, <2>2, PlanningTakes
  <1>7. CASE EscalationReview \/ NotApproved \/ HumanAsked \/ CallGranted
    BY <1>7 DEF EscalationReview, NotApproved, HumanAsked, CallGranted
  <1>8. CASE ExecuteStart
    BY <1>8 DEF ExecuteStart
  <1>9. ASSUME NEW ok, NEW out, ToolReturn(ok, out) PROVE StepInv'
    BY <1>9 DEF ToolReturn
  <1>10. CASE EvaluationFails \/ EvalContinue \/ EvalRetry
    BY <1>10 DEF EvaluationFails, EvalContinue, EvalRetry
  <1>11. ASSUME NEW ans, EvalComplete(ans) PROVE StepInv'
    BY <1>11 DEF EvalComplete
  <1>12. CASE EvalEscalate
    BY <1>12 DEF EvalEscalate
  <1>13. CASE EvalReplan
    BY <1>13 DEF EvalReplan
  <1>14. CASE Revalidate \/ Complete
    BY <1>14 DEF Revalidate, Complete
  <1> QED BY <1>1, <1>2, <1>3, <1>4, <1>5, <1>6, <1>7, <1>8, <1>9, <1>10, <1>11, <1>12,
             <1>13, <1>14 DEF Next, LoopStep, Evaluating

(* Replan leaves no plan, or one without a running step.                   *)
LEMMA ReplanExplained ==
    ASSUME Replan, plan' # Nil PROVE Explained(plan')
  BY ParsedNotRunning DEF Replan, Explained

(* Every step keeps StuckInv.                                              *)
LEMMA StuckInvStep ==
    ASSUME LoopInv, StuckInv, [Next]_vars
    PROVE  StuckInv'
  <1> USE DEF Goto, Return, At, ldVars, psVars, locals, memVars, bookVars,
              StuckInv, FirstStepWaits, InExecution
  <1>0. Nil # "stepStillRunning"
    BY NilLoopAssumption DEF Results
  <1>1. CASE UNCHANGED vars \/ Expire
    BY <1>1 DEF vars, Expire
  <1>2. ASSUME NEW c \in Configs, StartRun(c) PROVE StuckInv'
    <2>1. planOwner' # runs'
      BY <1>2 DEF StartRun, LoopInv, TypeOK
    <2> QED BY <1>2, <2>1 DEF StartRun
  <1>3. CASE Cancelled \/ LoopInit
    BY <1>3 DEF Cancelled, LoopInit
  <1>4. CASE PlanGen
    <2>1. CASE plan = Nil /\ Plan /\ planGenFirst' = planRes' /\ planRes' \notin PlanErrors
      <3>1. /\ plan' # Nil
            /\ planRes' \in Action
            /\ runningStep(plan') # 0 => plan'.steps[runningStep(plan')].act = planRes'
        BY <2>1, PlanHandsOut DEF LoopInv, PlanErrors
      <3>2. planRes' # Nil
        BY <3>1, ActionShapes
      <3>3. Explained(plan') \/ plan'.steps[runningStep(plan')].act = planGenFirst'
        BY <2>1, <3>1 DEF Explained
      <3>4. /\ state' = "PlanReview" /\ cfg.pas /\ state = "PlanGen" /\ result = Nil
            /\ UNCHANGED <<result, cfg, evalEscalate>>
        BY <1>4, <2>1, <3>1, <3>2, ActionShapes DEF PlanGen
      <3> QED BY <1>0, <2>1, <3>2, <3>3, <3>4
    <2>2. CASE UNCHANGED <<plan, planGenFirst, planOwner>>
      BY <1>4, <2>2 DEF PlanGen
    <2>3. CASE state' = "Idle" /\ result' = "error"
      BY <2>3
    <2> QED BY <1>4, <2>1, <2>2, <2>3 DEF PlanGen
  <1>5. CASE PlanReview
    <2>1. CASE UNCHANGED <<plan, planOwner>>
      BY <1>5, <2>1 DEF PlanReview
    <2>2. CASE Replan
      BY <1>0, <1>5, <2>2, ReplanExplained DEF PlanReview
    <2> QED BY <1>5, <2>1, <2>2 DEF PlanReview
  <1>6. CASE Planning
    <2>0. /\ state = "Planning" /\ result = Nil /\ ~evalEscalate
          /\ UNCHANGED <<cfg, runs, evalEscalate>>
      BY <1>6 DEF Planning
    <2>1. CASE state' = "Idle" /\ result' \in {"maxIterations", "error"}
      BY <2>1
    <2>2. ASSUME planGenFirst' = Nil, Dispatch(planRes'),
                 \/ planGenFirst # Nil /\ planRes' = planGenFirst /\ UNCHANGED plan
                 \/ planGenFirst = Nil /\ CallPlanner,
                 planOwner' = IF plan = Nil /\ plan' # Nil THEN runs ELSE planOwner
          PROVE  StuckInv'
      <3>1. planRes' \in Action \cup PlanErrors \cup {UnknownAction}
        BY <2>2, PlannerKeeps DEF LoopInv, TypeOK
      <3>2. CASE planGenFirst # Nil
        <4>1. planRes' \in Action /\ planRes' # StillRunning /\ UNCHANGED <<plan, planOwner>>
          BY <2>2, <3>2, ActionShapes DEF LoopInv, TypeOK, PlanErrors
        <4>2. \/ cfg.mode # "PlanAndSolve" \/ planOwner # runs \/ plan = Nil
              \/ Explained(plan) \/ plan.steps[runningStep(plan)].act = planRes'
          BY <2>0, <2>2, <3>2
        <4>3. CASE state' = "Idle" /\ result' = "error"
          BY <4>3
        <4>4. CASE state' = "Interrupt" /\ pendingAction' = planRes' /\ UNCHANGED result
          BY <1>6, <2>0, <2>2, <4>1, <4>2, <4>4 DEF Planning
        <4>5. CASE state' = "Completing" /\ UNCHANGED result /\ planRes'.type = "FinalAnswer"
          <5>1. plan.steps[runningStep(plan)].act = planRes' => Explained(plan)
            BY <4>5 DEF Explained
          <5> QED BY <1>0, <2>0, <2>2, <4>1, <4>2, <4>5, <5>1
        <4> QED BY <2>2, <3>1, <4>1, <4>3, <4>4, <4>5, DispatchGoes
      <3>3. CASE planGenFirst = Nil /\ cfg.mode # "PlanAndSolve"
        <4>1. planRes' # StillRunning
          <5>1. GenerateFailed # StillRunning /\ UnknownAction # StillRunning
            BY DEF GenerateFailed, StillRunning, UnknownAction
          <5> QED BY <2>2, <3>3, <5>1, AgentLoopAssumption, ActionShapes DEF CallPlanner, PlanErrors
        <4>2. result' # "stepStillRunning" /\ (state' # "Idle" => UNCHANGED result)
          BY <2>0, <2>2, <3>1, <4>1, NilLoopAssumption, DispatchGoes DEF Results
        <4> QED BY <1>0, <2>0, <2>2, <3>3, <4>2
      <3>4. CASE planGenFirst = Nil /\ cfg.mode = "PlanAndSolve"
        <4>1. Plan
          BY <2>2, <3>4 DEF CallPlanner
        <4>2. CASE planRes' = GenerateFailed
          <5>1. state' = "Idle" /\ result' = "error"
            <6>1. GenerateFailed # StillRunning /\ GenerateFailed \notin Action
              BY ActionShapes DEF GenerateFailed, StillRunning, PlanErrors
            <6> QED BY <2>2, <3>1, <4>2, <6>1, DispatchGoes
          <5> QED BY <5>1
        <4>3. CASE planRes' = StillRunning /\ plan # Nil /\ plan' = plan /\ runningStep(plan) # 0
          <5>1. state' = "Idle" /\ result' = "stepStillRunning"
            <6>1. StillRunning \notin Action
              BY ActionShapes DEF PlanErrors
            <6> QED BY <2>2, <3>1, <4>3, <6>1, DispatchGoes
          <5>2. planOwner' = planOwner
            BY <2>2, <4>3
          <5>3. planOwner = runs => Explained(plan)
            BY <2>0, <3>4, <4>3
          <5> QED BY <2>0, <4>3, <5>1, <5>2, <5>3
        <4>4. CASE /\ planRes' \in Action /\ plan' # Nil
                   /\ runningStep(plan') # 0 => plan'.steps[runningStep(plan')].act = planRes'
          <5>1. Explained(plan') \/ plan'.steps[runningStep(plan')].act = planRes'
            BY <4>4 DEF Explained
          <5>2. CASE state' = "Interrupt" /\ pendingAction' = planRes' /\ UNCHANGED result
            BY <1>0, <2>0, <2>2, <5>1, <5>2
          <5>3. CASE state' = "Completing" /\ UNCHANGED result /\ planRes'.type = "FinalAnswer"
            <6>1. Explained(plan')
              BY <5>1, <5>3 DEF Explained
            <6> QED BY <1>0, <2>0, <2>2, <3>4, <5>3, <6>1
          <5> QED BY <2>2, <3>1, <4>4, <5>2, <5>3, DispatchGoes
        <4> QED BY <4>1, <4>2, <4>3, <4>4, PlanHandsOut DEF LoopInv
      <3> QED BY <3>2, <3>3, <3>4
    <2> QED BY <1>6, <2>1, <2>2, PlanningTakes
  <1>7. CASE EscalationReview
    BY <1>7 DEF EscalationReview
  <1>8. CASE NotApproved \/ HumanAsked
    <2>1. /\ state = "Interrupt" /\ ~evalEscalate /\ planGenFirst = Nil /\ result = Nil
          /\ UNCHANGED <<psVars, locals, bookVars>>
      BY <1>8, ActionShapes DEF NotApproved, HumanAsked, LoopInv, TypeOK
    <2>2. CASE state' = "Idle" /\ result' \in {"error", "hitlTimeout"}
      BY <2>1, <2>2
    <2>3. CASE state' = "Planning" /\ UNCHANGED result
      <3>1. \/ pendingAction.type # "ToolCall"
            \/ HasInterrupter /\ ToolOf[pendingAction.arg] \in ReviewedTools
        BY <1>8, <2>3, ActionShapes DEF NotApproved, HumanAsked, Reviewed, LoopInv, Control
      <3>2. plan.steps[runningStep(plan)].act = pendingAction => Explained(plan)
        BY <3>1 DEF Explained
      <3> QED BY <2>1, <2>3, <3>2
    <2> QED BY <1>8, <2>2, <2>3 DEF NotApproved, HumanAsked
  <1>9. CASE CallGranted
    BY <1>9 DEF CallGranted
  <1>10. CASE ExecuteStart
    BY <1>10 DEF ExecuteStart
  <1>11. ASSUME NEW ok \in BOOLEAN, NEW out \in BOOLEAN, ToolReturn(ok, out) PROVE StuckInv'
    <2>1. /\ state = "ToolRunning" /\ planGenFirst = Nil /\ result = Nil /\ ~evalEscalate
          /\ cfg.mode = "PlanAndSolve" => cfg.pas
          /\ state' \in {"Evaluating", "Planning"}
          /\ UNCHANGED <<cfg, result, evalEscalate, planGenFirst, bookVars>>
      BY <1>11 DEF ToolReturn
    <2>2. ASSUME cfg.mode = "PlanAndSolve", plan' # Nil
          PROVE  Explained(plan')
      <3>1. CASE plan # Nil /\ runningStep(plan) # 0
        <4>1. plan' = MarkStep(plan, plan.steps[runningStep(plan)].id,
                               IF ok THEN "Done" ELSE "Failed", out)
          BY <1>11, <2>1, <2>2, <3>1 DEF ToolReturn, BookOnPlan
        <4>2. PlanInv(plan)
          BY <3>1 DEF LoopInv
        <4>3. ASSUME runningStep(plan') # 0
              PROVE  \E j \in DOMAIN plan'.steps \ {runningStep(plan')} :
                         plan'.steps[j].id = plan'.steps[runningStep(plan')].id
          BY <3>1, <4>1, <4>2, <4>3, MarkLeavesRunning
        <4> QED BY <4>3 DEF Explained
      <3>2. CASE ~(plan # Nil /\ runningStep(plan) # 0)
        BY <1>11, <2>2, <3>2 DEF ToolReturn, BookOnPlan, Explained
      <3> QED BY <3>1, <3>2
    <2>3. result' # "stepStillRunning"
      BY <2>1, NilLoopAssumption DEF Results
    <2> QED BY <2>1, <2>2, <2>3
  <1>12. CASE EvaluationFails \/ EvalContinue \/ EvalRetry
    BY <1>12 DEF EvaluationFails, EvalContinue, EvalRetry
  <1>13. ASSUME NEW ans, EvalComplete(ans) PROVE StuckInv'
    BY <1>13 DEF EvalComplete
  <1>14. CASE EvalEscalate
    BY <1>14 DEF EvalEscalate
  <1>15. CASE EvalReplan
    <2>1. CASE UNCHANGED <<plan, planGenFirst, planOwner>>
      BY <1>15, <2>1 DEF EvalReplan
    <2>2. CASE Replan
      BY <1>0, <1>15, <2>2, ReplanExplained DEF EvalReplan
    <2> QED BY <1>15, <2>1, <2>2 DEF EvalReplan
  <1>16. CASE Revalidate \/ Complete
    BY <1>16 DEF Revalidate, Complete
  <1> QED BY <1>1, <1>2, <1>3, <1>4, <1>5, <1>6, <1>7, <1>8, <1>9, <1>10, <1>11, <1>12,
             <1>13, <1>14, <1>15, <1>16 DEF Next, LoopStep, Evaluating

-------------------------------------------------------------------------------
\* The theorems.

(* The three invariants hold initially.                                    *)
LEMMA InitInv == Init => LoopInv /\ OpenInv /\ (LDInv => RetryInv)
  <1> SUFFICES ASSUME Init PROVE LoopInv /\ OpenInv /\ (LDInv => RetryInv)
    OBVIOUS
  <1>1. ctxDone \in BOOLEAN /\ evalEscalate \in BOOLEAN /\ warned \in BOOLEAN
    BY Zenon DEF Init, LDInit
  <1>2. <<>> \in Seq(Sigs)
    OBVIOUS
  <1>3. LDTypeOK
    BY <1>1, <1>2 DEF Init, LDInit, LDTypeOK, LoopStatus
  <1>4. LoopInv
    BY <1>1, <1>3, AgentLoopAssumption
       DEF Init, PSInit, LoopInv, TypeOK, Control, InExecution
  <1>5. OpenInv
    BY DEF Init, OpenInv
  <1>6. LDInv => RetryInv
    BY ThresholdAssumption DEF Init, RetryInv
  <1> QED BY <1>4, <1>5, <1>6

(* The inductive invariant of the loop.                                    *)
THEOREM LoopInvariant == Spec => [](LoopInv /\ RetryInv /\ OpenInv)
  <1>1. Init => LoopInv /\ RetryInv /\ OpenInv
    BY InitInv, LDInitInv DEF Init
  <1>2. (LoopInv /\ RetryInv /\ OpenInv) /\ [Next]_vars => (LoopInv /\ RetryInv /\ OpenInv)'
    BY LoopInvStep, RetryInvStep, OpenInvStep
  <1> QED BY <1>1, <1>2, PTL DEF Spec

(* The variables of runLoop and of the session have their types.           *)
THEOREM LoopTypes == Spec => []TypeOK
  <1>1. LoopInv => TypeOK
    BY DEF LoopInv
  <1> QED BY <1>1, LoopInvariant, PTL

(* No path of the state machine dereferences a nil action.                 *)
THEOREM ActionsAreSet == Spec => []NoNilDereference
  <1>1. LoopInv => NoNilDereference
    BY ActionShapes DEF LoopInv, Control, NoNilDereference, InExecution
  <1> QED BY <1>1, LoopInvariant, PTL

(* No tool runs with parameters that did not pass the interrupter.         *)
THEOREM CallsGuarded == Spec => []OnlyGrantedCallsRun
  <1>1. LoopInv => OnlyGrantedCallsRun
    BY ActionShapes DEF LoopInv, Control, OnlyGrantedCallsRun, InExecution
  <1> QED BY <1>1, LoopInvariant, PTL

(* A granted call runs at most Threshold times, whatever the evaluator     *)
(* decides.                                                                *)
THEOREM RetriesAreBounded == Spec => []RetriesBounded
  <1>1. RetryInv => RetriesBounded
    BY DEF RetryInv, RetriesBounded
  <1> QED BY <1>1, LoopInvariant, PTL

(* The model never sees a conversation with an unanswered call of the      *)
(* current Run.                                                            *)
THEOREM CallsAreAnswered == Spec => []CallsAnswered
  <1>1. OpenInv => CallsAnswered
    BY DEF OpenInv, CallsAnswered, InExecution
  <1> QED BY <1>1, LoopInvariant, PTL

(* The plan that all Runs share stays in order.                            *)
THEOREM LoopPlansInOrder == Spec => [](OneStepRunning /\ StartedInOrder)
  <1>1. LoopInv => OneStepRunning /\ StartedInOrder
    BY DEF LoopInv, PlanInv, OneStepRunning, StartedInOrder
  <1> QED BY <1>1, LoopInvariant, PTL

(* In plan-and-solve mode the call put up for execution is the running     *)
(* step of the plan, unless a human may reject plans: a rejected plan's    *)
(* first step stays in planGenFirst.                                       *)
THEOREM CallsAreRunningSteps ==
    ASSUME ~(HasInterrupter /\ ReviewsPlans)
    PROVE  Spec => []CallIsRunningStep
  <1>1. Init => StepInv
    BY DEF Init, StepInv, FirstStepWaits, CallIsRunningStep
  <1>2. LoopInv /\ StepInv /\ [Next]_vars => StepInv'
    BY StepInvStep
  <1>3. StepInv => CallIsRunningStep
    BY DEF StepInv
  <1> QED BY <1>1, <1>2, <1>3, LoopInvariant, PTL DEF Spec

(* A Run that gives up over a step of its own plan that is still Running   *)
(* does so over a question, an answer, a call that a human could deny, or  *)
(* a step that shares its id, with or without reviews.                     *)
THEOREM StuckStepsAreExplained == Spec => []StuckStepExplained
  <1>1. Init => StuckInv
    BY NilLoopAssumption
       DEF Init, StuckInv, FirstStepWaits, InExecution, Results
  <1>2. LoopInv /\ StuckInv /\ [Next]_vars => StuckInv'
    BY StuckInvStep
  <1>3. StuckInv => StuckStepExplained
    BY DEF StuckInv, StuckStepExplained, Explained
  <1> QED BY <1>1, <1>2, <1>3, LoopInvariant, PTL DEF Spec

===============================================================================
