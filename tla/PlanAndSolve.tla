----------------------------- MODULE PlanAndSolve -----------------------------
(***************************************************************************)
(* The plan-and-solve planner (planner/plan_and_solve.go): one ActionPlan, *)
(* nil or a list of steps, that Plan walks through, the Mark operations    *)
(* update and Replan replaces.                                             *)
(*                                                                         *)
(* The language model is external: a plan it writes is any member of       *)
(* Drafts, a sequence of [id, act].  parseActionPlan takes the step ids    *)
(* from the model's JSON and only replaces a missing one (0) by the step's *)
(* position, so two steps of a plan may carry the same id.                 *)
(* Texts are abstracted: an answer is one of Answers, a step's result is   *)
(* either blank or not, which is all summarizeResults looks at.            *)
(***************************************************************************)
EXTENDS Actions

CONSTANT Drafts   \* the plans the model may answer with

DraftStep == [id : Int, act : Action]

\* parseActionPlan refuses a plan without steps.
ASSUME DraftsAssumption == Drafts \subseteq (Seq(DraftStep) \ {<<>>})

StepStatus == {"Pending", "Running", "Done", "Failed", "Skipped"}
PlanStep == [id : Int, act : Action, status : StepStatus, result : BOOLEAN]

VARIABLES
    plan,     \* PlanAndSolvePlanner.plan: Nil or a record [steps, current]
    planRes   \* what the latest Plan call returned: an action, or an error

psVars == <<plan, planRes>>

ActionPlan == [steps : Seq(PlanStep), current : Nat]

\* Plan's error returns.
GenerateFailed == [type |-> "error", arg |-> "generate failed"]
StillRunning == [type |-> "error", arg |-> "step still running"]
PlanErrors == {GenerateFailed, StillRunning}

ASSUME NilPlanAssumption == Nil \notin ActionPlan

PSTypeOK ==
    /\ plan \in ActionPlan \cup {Nil}
    /\ planRes \in Action \cup PlanErrors \cup {Nil}

-------------------------------------------------------------------------------
\* Reading a plan.  Step numbers are positions, 0 stands for "no such step".

First(S) == CHOOSE i \in S : \A j \in S : i <= j

WithStatus(p, sts) == {i \in DOMAIN p.steps : p.steps[i].status \in sts}

runningStep(p) ==
    LET R == WithStatus(p, {"Running"}) IN IF R = {} THEN 0 ELSE First(R)

\* A mutation of nextStep: failed steps are passed over like done ones.
nextStepSkipsFailed(p) ==
    LET R == WithStatus(p, {"Pending"}) IN IF R = {} THEN 0 ELSE First(R)

\* The first step that is neither done nor skipped, if it is pending.
nextStep(p) ==
    LET R == WithStatus(p, {"Pending", "Running", "Failed"})
    IN  IF R # {} /\ p.steps[First(R)].status = "Pending" THEN First(R) ELSE 0

summarizeResults(p) ==
    IF \E i \in WithStatus(p, {"Done"}) : p.steps[i].result
    THEN "step results"
    ELSE "All planned steps finished."

-------------------------------------------------------------------------------
\* Changing a plan.

\* parseActionPlan: every step of the model's plan starts Pending.
parseActionPlan(draft) ==
    [steps |-> [i \in DOMAIN draft |->
                    [id |-> IF draft[i].id = 0 THEN i ELSE draft[i].id,
                     act |-> draft[i].act, status |-> "Pending", result |-> FALSE]],
     current |-> 0]

\* Plan on an existing plan: what it returns and what it leaves behind.
PlanResult(p) ==
    IF runningStep(p) # 0 THEN StillRunning
    ELSE IF nextStep(p) = 0 THEN FinalAnswer(summarizeResults(p))
    ELSE p.steps[nextStep(p)].act

\* A mutation of PlanUpdate: the step is not marked.
PlanUpdateUnmarked(p) == p

PlanUpdate(p) ==
    IF runningStep(p) # 0 \/ nextStep(p) = 0 THEN p
    ELSE [p EXCEPT !.steps[nextStep(p)].status = "Running",
                   !.current = nextStep(p) - 1]

\* MarkStepDone and MarkStepFailed: the first step that carries the id.
MarkStep(p, id, st, res) ==
    LET M == {i \in DOMAIN p.steps : p.steps[i].id = id}
    IN  IF M = {} THEN p
        ELSE [p EXCEPT !.steps[First(M)].status = st,
                       !.steps[First(M)].result = res]

-------------------------------------------------------------------------------
\* The planner as its callers see it.

PSInit == plan = Nil /\ planRes = Nil

\* Plan: generate a plan first if there is none.
Plan ==
    \/ /\ plan = Nil
       /\ planRes' = GenerateFailed
       /\ UNCHANGED plan
    \/ \E p \in IF plan = Nil THEN {parseActionPlan(d) : d \in Drafts} ELSE {plan} :
          /\ plan' = PlanUpdate(p)
          /\ planRes' = PlanResult(p)

\* The agent loop marks the step that runningPlanStep finds, by its id.
MarkRunningStep ==
    /\ plan # Nil
    /\ runningStep(plan) # 0
    /\ \E st \in {"Done", "Failed"}, res \in BOOLEAN :
          plan' = MarkStep(plan, plan.steps[runningStep(plan)].id, st, res)
    /\ UNCHANGED planRes

\* Replan: the old plan is dropped before the model is asked for a new one.
Replan ==
    /\ plan' \in {parseActionPlan(d) : d \in Drafts} \cup {Nil}
    /\ UNCHANGED planRes

PSNext == Plan \/ MarkRunningStep \/ Replan

PSSpec == PSInit /\ [][PSNext]_psVars

-------------------------------------------------------------------------------

AtMostOneRunning(p) ==
    \A i, j \in WithStatus(p, {"Running"}) : i = j

\* Failed in place of a later step k that has the same id and stays Running.
FailedForLater(p, i) ==
    /\ p.steps[i].status = "Failed"
    /\ \E k \in WithStatus(p, {"Running"}) : i < k /\ p.steps[k].id = p.steps[i].id

InOrder(p) ==
    \A i, j \in DOMAIN p.steps :
        i < j /\ p.steps[j].status # "Pending"
            => p.steps[i].status = "Done" \/ FailedForLater(p, i)

(* At most one step of the plan is running, so that the step the agent     *)
(* loop finds and marks after an execution is the one Plan handed out.     *)
OneStepRunning == plan # Nil => AtMostOneRunning(plan)

(* Steps are worked off in order and a failure stops the plan: whatever    *)
(* lies before a step that has been started is done, or it was marked      *)
(* failed in place of a later step that carries the same id and that       *)
(* stays Running (nextStep, MarkStepFailed).                               *)
StartedInOrder == plan # Nil => InOrder(plan)

===============================================================================
