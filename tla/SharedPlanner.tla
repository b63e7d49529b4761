----------------------------- MODULE SharedPlanner -----------------------------
(***************************************************************************)
(* The planner in plan-and-solve mode belongs to the Agent, so all its     *)
(* sessions use one PlanAndSolvePlanner, which has no lock.  This module   *)
(* splits its operations at their reads and writes of p.plan and lets the  *)
(* goroutines of the sessions interleave.                                  *)
(*                                                                         *)
(* With a single session the small steps implement the planner of module   *)
(* PlanAndSolve, on which AgentLoop builds; with several they do not.      *)
(*                                                                         *)
(* A plan is an object that outlives p.plan: a session that holds a        *)
(* pointer to one of its steps writes to it whatever p.plan is by then.    *)
(***************************************************************************)
EXTENDS Actions, FiniteSets

CONSTANTS
    Drafts, Sessions,
    MaxPlans    \* bound: plans generated

VARIABLES
    heap,    \* the plans generated so far
    ref,     \* p.plan: an index of heap, 0 for nil
    at,      \* where each session is
    local,   \* its pointer to a step: <<plan, position>>, or the id to mark
    result   \* what the latest Plan returned

sharedVars == <<heap, ref, at, local, result>>

None == <<0, 0>>

\* p.plan as the callers of the planner see it.  Between the mark at the
\* chosen step and the return of Plan, the call counts as done.
Choosing == {s \in Sessions : at[s] = "current"}
planView ==
    IF ref = 0 THEN Nil
    ELSE IF Choosing = {} THEN heap[ref]
    ELSE LET s == CHOOSE s \in Choosing : TRUE
         IN  [heap[ref] EXCEPT !.current = local[s][2] - 1]
resultView ==
    IF Choosing = {} THEN result
    ELSE LET s == CHOOSE s \in Choosing : TRUE
         IN  heap[local[s][1]].steps[local[s][2]].act

PS == INSTANCE PlanAndSolve WITH plan <- planView, planRes <- resultView

ASSUME SharedAssumption ==
    /\ MaxPlans \in Nat
    /\ Drafts \subseteq (Seq(PS!DraftStep) \ {<<>>})
    /\ Nil \notin PS!ActionPlan

SharedInit ==
    /\ heap = <<>>
    /\ ref = 0
    /\ at = [s \in Sessions |-> "idle"]
    /\ local = [s \in Sessions |-> None]
    /\ result = Nil

Goto(s, p) == at' = [at EXCEPT ![s] = p]

-------------------------------------------------------------------------------
\* Plan

Begin(s) ==
    /\ at[s] = "idle"
    /\ Goto(s, "plan")
    /\ UNCHANGED <<heap, ref, local, result>>

CheckPlan(s) ==
    /\ at[s] = "plan"
    /\ Goto(s, IF ref = 0 THEN "generate" ELSE "select")
    /\ UNCHANGED <<heap, ref, local, result>>

\* The model answers; whoever answers last has its plan in p.plan.
Generate(s, d) ==
    /\ at[s] \in {"generate", "regenerate"}
    /\ Len(heap) < MaxPlans
    /\ heap' = Append(heap, PS!parseActionPlan(d))
    /\ ref' = Len(heap) + 1
    /\ Goto(s, IF at[s] = "generate" THEN "select" ELSE "plan")
    /\ UNCHANGED <<local, result>>

GenerateFails(s) ==
    /\ at[s] \in {"generate", "regenerate"}
    /\ result' = IF at[s] = "generate" THEN PS!GenerateFailed ELSE result
    /\ Goto(s, "idle")
    /\ UNCHANGED <<heap, ref, local>>

\* A mutation of Select: a running step is not looked for.
SelectUnchecked(s) ==
    LET i == IF ref = 0 \/ PS!WithStatus(heap[ref], {"Pending"}) = {} THEN 0
             ELSE PS!First(PS!WithStatus(heap[ref], {"Pending"}))
    IN  /\ at[s] = "select"
        /\ IF i = 0
           THEN /\ result' = FinalAnswer("All planned steps finished.")
                /\ Goto(s, "idle") /\ UNCHANGED local
           ELSE /\ local' = [local EXCEPT ![s] = <<ref, i>>]
                /\ Goto(s, "mark") /\ UNCHANGED result
        /\ UNCHANGED <<heap, ref>>

\* runningStep and nextStep.  A plan that is gone by now has no steps left:
\* the answer is the empty summary.
Select(s) ==
    LET i == IF ref = 0 \/ PS!runningStep(heap[ref]) # 0 THEN 0
             ELSE PS!nextStep(heap[ref])
    IN  /\ at[s] = "select"
        /\ IF i = 0
           THEN /\ result' = IF ref = 0 THEN FinalAnswer("")
                             ELSE PS!PlanResult(heap[ref])
                /\ Goto(s, "idle") /\ UNCHANGED local
           ELSE /\ local' = [local EXCEPT ![s] = <<ref, i>>]
                /\ Goto(s, "mark") /\ UNCHANGED result
        /\ UNCHANGED <<heap, ref>>

\* step.Status = StepRunning, through the pointer.
MarkRunning(s) ==
    /\ at[s] = "mark"
    /\ heap' = [heap EXCEPT ![local[s][1]].steps[local[s][2]].status = "Running"]
    /\ Goto(s, "current")
    /\ UNCHANGED <<ref, local, result>>

\* range p.plan.Steps: a nil pointer is dereferenced if the plan is gone.
SetCurrent(s) ==
    /\ at[s] = "current"
    /\ IF ref = 0
       THEN Goto(s, "panic") /\ UNCHANGED <<heap, result>>
       ELSE /\ heap' = IF ref = local[s][1]
                       THEN [heap EXCEPT ![ref].current = local[s][2] - 1] ELSE heap
            /\ result' = heap[local[s][1]].steps[local[s][2]].act
            /\ Goto(s, "execute")
    /\ UNCHANGED <<ref, local>>

-------------------------------------------------------------------------------
\* What the loop does with the step, and Replan

Execute(s) ==
    /\ at[s] = "execute"
    /\ Goto(s, "find")
    /\ UNCHANGED <<heap, ref, local, result>>

\* runningPlanStep: the step that is running in p.plan, whoever started it.
FindRunning(s) ==
    /\ at[s] = "find"
    /\ IF ref # 0 /\ PS!runningStep(heap[ref]) # 0
       THEN /\ local' = [local EXCEPT ![s] = <<ref, heap[ref].steps[PS!runningStep(heap[ref])].id>>]
            /\ Goto(s, "finish")
       ELSE Goto(s, "plan") /\ UNCHANGED local
    /\ UNCHANGED <<heap, ref, result>>

FinishStep(s, st) ==
    /\ at[s] = "finish"
    /\ heap' = IF ref = 0 THEN heap
               ELSE [heap EXCEPT ![ref] = PS!MarkStep(heap[ref], local[s][2], st, TRUE)]
    /\ Goto(s, "plan")
    /\ UNCHANGED <<ref, local, result>>

\* Replan drops the plan before it asks for another one.
DropPlan(s) ==
    /\ at[s] = "plan"
    /\ ref' = 0
    /\ Goto(s, "regenerate")
    /\ UNCHANGED <<heap, local, result>>

SharedNext ==
    \E s \in Sessions :
        \/ Begin(s) \/ CheckPlan(s)
        \/ \E d \in Drafts : Generate(s, d)
        \/ GenerateFails(s)
        \/ Select(s) \/ MarkRunning(s) \/ SetCurrent(s)
        \/ Execute(s) \/ FindRunning(s)
        \/ \E st \in {"Done", "Failed"} : FinishStep(s, st)
        \/ DropPlan(s)

SharedSpec == SharedInit /\ [][SharedNext]_sharedVars

-------------------------------------------------------------------------------

(* For one session the planner, step by step as it runs, is the planner    *)
(* of PlanAndSolve, whose operations are atomic.                           *)
ImplementsPlanner == PS!PSSpec

(* Sessions of one agent do not get in each other's way: none of them      *)
(* takes the plan away while another is between the choice of a step and   *)
(* the return of Plan.                                                     *)
NoPanic == \A s \in Sessions : at[s] # "panic"
===============================================================================
