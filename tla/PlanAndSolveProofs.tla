-------------------------- MODULE PlanAndSolveProofs --------------------------
(***************************************************************************)
(* Every plan the planner holds is worked off one step at a time and in    *)
(* order, for every set of plans the model may write.  The facts about the *)
(* operations are lemmas on arbitrary plans; AgentLoopProofs uses them for *)
(* the planner inside the agent loop.                                      *)
(***************************************************************************)
EXTENDS PlanAndSolve, WellFoundedInduction, TLAPS

\* No operation skips a step, which nextStep would pass over.
NoneSkipped(p) == WithStatus(p, {"Skipped"}) = {}

\* What holds of every plan.
PlanInv(p) == p \in ActionPlan /\ NoneSkipped(p) /\ AtMostOneRunning(p) /\ InOrder(p)

(* First picks the least of a set of step numbers.                         *)
LEMMA FirstIsLeast ==
    ASSUME NEW S \in SUBSET Nat, S # {}
    PROVE  First(S) \in S /\ \A j \in S : First(S) <= j
  <1> DEFINE Less == OpToRel(<, Nat)
  <1>1. \E i \in S : \A j \in S : ~(<<j, i>> \in Less)
    BY NatLessThanWellFounded, WFMin
  <1>2. \A i, j \in S : j < i => <<j, i>> \in Less
    BY DEF OpToRel
  <1> HIDE DEF Less
  <1>3. PICK i \in S : \A j \in S : ~(<<j, i>> \in Less)
    BY <1>1
  <1>4. \A j \in S : i <= j
    <2> TAKE j \in S
    <2>1. i \in Nat /\ j \in Nat /\ ~(j < i)
      BY <1>2, <1>3
    <2> QED BY <2>1
  <1> QED BY <1>4 DEF First

(* The steps of a plan are numbered from one.                              *)
LEMMA StepNumbers ==
    ASSUME NEW p \in ActionPlan
    PROVE  /\ Len(p.steps) \in Nat
           /\ DOMAIN p.steps = 1..Len(p.steps)
           /\ \A i \in DOMAIN p.steps : p.steps[i] \in PlanStep
           /\ \A sts : WithStatus(p, sts) \in SUBSET Nat
  BY DEF ActionPlan, WithStatus

(* What runningStep returns.                                               *)
LEMMA RunningStepIs ==
    ASSUME NEW p \in ActionPlan
    PROVE  /\ runningStep(p) = 0 => WithStatus(p, {"Running"}) = {}
           /\ runningStep(p) # 0 =>
                  /\ runningStep(p) \in DOMAIN p.steps
                  /\ p.steps[runningStep(p)].status = "Running"
  <1>1. CASE WithStatus(p, {"Running"}) = {}
    BY <1>1 DEF runningStep
  <1>2. CASE WithStatus(p, {"Running"}) # {}
    <2>1. runningStep(p) \in WithStatus(p, {"Running"})
      BY <1>2, StepNumbers, FirstIsLeast DEF runningStep
    <2>2. runningStep(p) # 0
      BY <2>1, StepNumbers DEF WithStatus
    <2> QED BY <2>1, <2>2 DEF WithStatus
  <1> QED BY <1>1, <1>2

(* What nextStep returns: a pending step behind nothing but steps that are *)
(* done or skipped.                                                        *)
LEMMA NextStepIs ==
    ASSUME NEW p \in ActionPlan, nextStep(p) # 0
    PROVE  /\ nextStep(p) \in DOMAIN p.steps
           /\ p.steps[nextStep(p)].status = "Pending"
           /\ \A i \in DOMAIN p.steps :
                 i < nextStep(p) => p.steps[i].status \in {"Done", "Skipped"}
  <1> DEFINE R == WithStatus(p, {"Pending", "Running", "Failed"})
  <1>1. R # {} /\ p.steps[First(R)].status = "Pending" /\ nextStep(p) = First(R)
    BY DEF nextStep
  <1>2. nextStep(p) \in R /\ \A j \in R : nextStep(p) <= j
    BY <1>1, StepNumbers, FirstIsLeast
  <1>3. ASSUME NEW i \in DOMAIN p.steps, i < nextStep(p)
        PROVE  p.steps[i].status \in {"Done", "Skipped"}
    <2>1. nextStep(p) \in Nat /\ i \in Nat
      BY <1>2, StepNumbers
    <2>2. i \notin R
      BY <1>2, <1>3, <2>1
    <2>3. p.steps[i].status \in StepStatus
      BY <1>3, StepNumbers DEF PlanStep
    <2> QED BY <2>2, <2>3 DEF WithStatus, StepStatus
  <1> QED BY <1>1, <1>2, <1>3 DEF WithStatus

-------------------------------------------------------------------------------
\* The operations preserve PlanInv.

(* Functions on 1..n are sequences.                                        *)
LEMMA IsSequence ==
    ASSUME NEW n \in Nat, NEW T, NEW f \in [1..n -> T]
    PROVE  f \in Seq(T)
  OBVIOUS

(* A parsed plan has nothing but pending steps.                            *)
LEMMA ParseInv ==
    ASSUME NEW d \in Drafts
    PROVE  PlanInv(parseActionPlan(d))
  <1> DEFINE p == parseActionPlan(d)
  <1>1. d \in Seq(DraftStep) /\ Len(d) \in Nat /\ DOMAIN d = 1..Len(d)
    BY DraftsAssumption
  <1>2. \A i \in 1..Len(d) : d[i] \in DraftStep
    BY <1>1
  <1>3. p.steps \in [1..Len(d) -> PlanStep]
    BY <1>1, <1>2 DEF parseActionPlan, PlanStep, DraftStep, StepStatus
  <1>4. p \in ActionPlan
    <2>1. p.steps \in Seq(PlanStep)
      BY <1>1, <1>3, IsSequence
    <2> QED BY <2>1 DEF parseActionPlan, ActionPlan
  <1>5. \A i \in DOMAIN p.steps : p.steps[i].status = "Pending"
    BY <1>1 DEF parseActionPlan
  <1> HIDE DEF p
  <1>6. NoneSkipped(p) /\ AtMostOneRunning(p) /\ InOrder(p)
    BY <1>5 DEF NoneSkipped, AtMostOneRunning, InOrder, WithStatus
  <1> QED BY <1>4, <1>6 DEF PlanInv, p

\* q is p but for step n, which has the status st and its old id and action.
StepSet(p, q, n, st) ==
    /\ q \in ActionPlan
    /\ DOMAIN q.steps = DOMAIN p.steps
    /\ q.steps[n].status = st
    /\ \A i \in DOMAIN p.steps : q.steps[i].id = p.steps[i].id /\ q.steps[i].act = p.steps[i].act
    /\ \A i \in DOMAIN p.steps : i # n => q.steps[i] = p.steps[i]

(* Replacing one step of a plan by another with the same id and action.    *)
LEMMA OneStepSet ==
    ASSUME NEW p \in ActionPlan, NEW n \in DOMAIN p.steps, NEW s \in PlanStep,
           s.id = p.steps[n].id, s.act = p.steps[n].act, NEW c \in Nat
    PROVE  StepSet(p, [steps |-> [p.steps EXCEPT ![n] = s], current |-> c], n, s.status)
  <1> DEFINE t == [p.steps EXCEPT ![n] = s]
  <1>1. /\ Len(p.steps) \in Nat
        /\ p.steps \in [1..Len(p.steps) -> PlanStep]
        /\ DOMAIN p.steps = 1..Len(p.steps)
    BY DEF ActionPlan
  <1>2. t \in [1..Len(p.steps) -> PlanStep]
    BY <1>1
  <1>3. t \in Seq(PlanStep)
    BY <1>1, <1>2, IsSequence
  <1>4. DOMAIN t = DOMAIN p.steps /\ t[n] = s
    BY <1>1
  <1>5. \A i \in DOMAIN p.steps : i # n => t[i] = p.steps[i]
    BY <1>1
  <1> HIDE DEF t
  <1>6. \A i \in DOMAIN p.steps : t[i].id = p.steps[i].id /\ t[i].act = p.steps[i].act
    BY <1>4, <1>5
  <1>7. StepSet(p, [steps |-> t, current |-> c], n, s.status)
    BY <1>3, <1>4, <1>5, <1>6 DEF StepSet, ActionPlan
  <1> QED BY <1>7 DEF t

(* Plan leaves the plan alone or marks the next step as running.           *)
LEMMA PlanUpdateSets ==
    ASSUME NEW p \in ActionPlan, runningStep(p) = 0, nextStep(p) # 0
    PROVE  StepSet(p, PlanUpdate(p), nextStep(p), "Running")
  <1> DEFINE n == nextStep(p)
             s == [p.steps[n] EXCEPT !.status = "Running"]
  <1>1. n \in DOMAIN p.steps /\ p.steps[n] \in PlanStep /\ n \in Nat /\ n # 0
    BY NextStepIs, StepNumbers
  <1>2. s \in PlanStep /\ s.id = p.steps[n].id /\ s.act = p.steps[n].act /\ s.status = "Running"
    BY <1>1 DEF PlanStep, StepStatus
  <1>3. n - 1 \in Nat
    BY <1>1
  <1>4. PlanUpdate(p) = [steps |-> [p.steps EXCEPT ![n] = s], current |-> n - 1]
    BY DEF PlanUpdate, ActionPlan
  <1> HIDE DEF n, s
  <1>5. StepSet(p, PlanUpdate(p), n, s.status)
    BY <1>1, <1>2, <1>3, <1>4, OneStepSet
  <1> QED BY <1>2, <1>5 DEF n

(* The Mark operations, given the id of a step r, change the first step    *)
(* that has this id, which may be one before r.                            *)
LEMMA MarkStepSets ==
    ASSUME NEW p \in ActionPlan, NEW r \in DOMAIN p.steps,
           NEW st \in StepStatus, NEW res \in BOOLEAN
    PROVE  \E m \in DOMAIN p.steps :
              /\ m <= r
              /\ p.steps[m].id = p.steps[r].id
              /\ \A i \in DOMAIN p.steps : p.steps[i].id = p.steps[r].id => m <= i
              /\ StepSet(p, MarkStep(p, p.steps[r].id, st, res), m, st)
  <1> DEFINE M == {i \in DOMAIN p.steps : p.steps[i].id = p.steps[r].id}
             m == First(M)
             s == [p.steps[m] EXCEPT !.status = st, !.result = res]
  <1>1. M \in SUBSET Nat /\ r \in M
    BY StepNumbers
  <1>2. m \in M /\ \A j \in M : m <= j
    BY <1>1, FirstIsLeast
  <1>3. m \in DOMAIN p.steps /\ p.steps[m] \in PlanStep
    BY <1>2, StepNumbers
  <1>4. MarkStep(p, p.steps[r].id, st, res)
            = [steps |-> [p.steps EXCEPT ![m] = s], current |-> p.current]
    BY <1>1, <1>3 DEF MarkStep, ActionPlan
  <1> HIDE DEF m
  <1>5. s \in PlanStep /\ s.id = p.steps[m].id /\ s.act = p.steps[m].act /\ s.status = st
    BY <1>3 DEF PlanStep
  <1> HIDE DEF s
  <1>6. p.current \in Nat
    BY DEF ActionPlan
  <1>7. StepSet(p, MarkStep(p, p.steps[r].id, st, res), m, st)
    BY <1>3, <1>4, <1>5, <1>6, OneStepSet
  <1> QED BY <1>1, <1>2, <1>3, <1>7

(* Marking the next step as running keeps the plan in order.               *)
LEMMA PlanUpdateInv ==
    ASSUME NEW p, PlanInv(p)
    PROVE  PlanInv(PlanUpdate(p))
  <1> DEFINE n == nextStep(p)
             q == PlanUpdate(p)
  <1>0. p \in ActionPlan
    BY DEF PlanInv
  <1>1. CASE runningStep(p) # 0 \/ n = 0
    BY <1>1 DEF PlanUpdate
  <1>2. CASE runningStep(p) = 0 /\ n # 0
    <2>1. StepSet(p, q, n, "Running")
      BY <1>0, <1>2, PlanUpdateSets
    <2>2. /\ n \in DOMAIN p.steps
          /\ p.steps[n].status = "Pending"
          /\ \A i \in DOMAIN p.steps : i < n => p.steps[i].status \in {"Done", "Skipped"}
      BY <1>0, <1>2, NextStepIs
    <2>3. DOMAIN p.steps \subseteq Nat
      BY <1>0, StepNumbers
    <2>4. \A i \in DOMAIN p.steps : p.steps[i].status \notin {"Running", "Skipped"}
      BY <1>0, <1>2, RunningStepIs DEF PlanInv, NoneSkipped, WithStatus
    <2> HIDE DEF n, q
    <2>5. NoneSkipped(q)
      BY <2>1, <2>4 DEF NoneSkipped, StepSet, WithStatus
    <2>6. AtMostOneRunning(q)
      BY <2>1, <2>4 DEF AtMostOneRunning, StepSet, WithStatus
    <2>7. ASSUME NEW i \in DOMAIN q.steps, NEW j \in DOMAIN q.steps,
                 i < j, q.steps[j].status # "Pending"
          PROVE  q.steps[i].status = "Done"
      <3>1. i \in DOMAIN p.steps /\ j \in DOMAIN p.steps
        BY <2>1, <2>7 DEF StepSet
      <3>2. ASSUME NEW k \in DOMAIN p.steps, p.steps[k].status # "Pending",
                   NEW h \in DOMAIN p.steps, h < k
            PROVE  p.steps[h].status = "Done"
        BY <2>4, <3>2 DEF PlanInv, InOrder, FailedForLater, WithStatus
      <3>3. CASE j = n
        BY <2>1, <2>2, <2>3, <2>4, <2>7, <3>1, <3>3 DEF StepSet
      <3>4. CASE j # n
        <4>1. p.steps[i].status = "Done"
          BY <2>1, <2>7, <3>1, <3>2, <3>4 DEF StepSet
        <4> QED BY <2>1, <2>2, <3>1, <4>1 DEF StepSet
      <3> QED BY <3>3, <3>4
    <2>8. InOrder(q)
      BY <2>7 DEF InOrder
    <2> QED BY <2>1, <2>5, <2>6, <2>8 DEF PlanInv, StepSet, q
  <1> QED BY <1>1, <1>2

(* Booking an outcome on the step that is running keeps the plan in order, *)
(* also when another step has its id.                                      *)
LEMMA MarkStepInv ==
    ASSUME NEW p, PlanInv(p), runningStep(p) # 0,
           NEW st \in {"Done", "Failed"}, NEW res \in BOOLEAN
    PROVE  PlanInv(MarkStep(p, p.steps[runningStep(p)].id, st, res))
  <1> DEFINE r == runningStep(p)
             q == MarkStep(p, p.steps[r].id, st, res)
  <1>0. p \in ActionPlan /\ st \in StepStatus
    BY DEF PlanInv, StepStatus
  <1>1. r \in DOMAIN p.steps /\ p.steps[r].status = "Running"
    BY <1>0, RunningStepIs
  <1>2. PICK m \in DOMAIN p.steps :
              /\ m <= r
              /\ p.steps[m].id = p.steps[r].id
              /\ \A i \in DOMAIN p.steps : p.steps[i].id = p.steps[r].id => m <= i
              /\ StepSet(p, q, m, st)
    BY <1>0, <1>1, MarkStepSets
  <1>3. DOMAIN p.steps \subseteq Nat
    BY <1>0, StepNumbers
  <1> HIDE DEF r, q
  <1>4. \A i \in DOMAIN p.steps : p.steps[i].status = "Running" => i = r
    BY <1>1 DEF PlanInv, AtMostOneRunning, WithStatus
  <1>5. NoneSkipped(q)
    BY <1>2 DEF PlanInv, NoneSkipped, WithStatus, StepSet
  <1>6. AtMostOneRunning(q)
    BY <1>2 DEF PlanInv, AtMostOneRunning, WithStatus, StepSet
  <1>7. ASSUME NEW i \in DOMAIN q.steps, NEW j \in DOMAIN q.steps,
               i < j, q.steps[j].status # "Pending"
        PROVE  q.steps[i].status = "Done" \/ FailedForLater(q, i)
    <2>1. i \in DOMAIN p.steps /\ j \in DOMAIN p.steps
      BY <1>2, <1>7 DEF StepSet
    <2>2. m = r \/ p.steps[m].status = "Done" \/ FailedForLater(p, m)
      BY <1>1, <1>2, <1>3 DEF PlanInv, InOrder
    <2>3. p.steps[m].status # "Pending"
      BY <1>1, <2>2 DEF FailedForLater
    <2>4. p.steps[i].status = "Done" \/ FailedForLater(p, i)
      BY <1>2, <1>7, <2>1, <2>3 DEF PlanInv, InOrder, StepSet
    <2>5. CASE i = m
      <3>1. m # r
        BY <1>1, <2>4, <2>5 DEF FailedForLater
      <3>2. r \in WithStatus(q, {"Running"}) /\ m < r /\ q.steps[r].id = q.steps[m].id
        BY <1>1, <1>2, <1>3, <3>1 DEF WithStatus, StepSet
      <3>3. q.steps[m].status = st
        BY <1>2 DEF StepSet
      <3> QED BY <2>5, <3>2, <3>3 DEF FailedForLater
    <2>6. CASE i # m
      <3>1. q.steps[i] = p.steps[i]
        BY <1>2, <2>1, <2>6 DEF StepSet
      <3>2. CASE p.steps[i].status = "Done"
        BY <3>1, <3>2
      <3>3. CASE FailedForLater(p, i)
        <4>1. i < r /\ p.steps[r].id = p.steps[i].id
          BY <1>4, <3>3 DEF FailedForLater, WithStatus
        <4>2. m < r
          BY <1>2, <1>3, <1>1, <2>1, <4>1
        <4>3. r \in WithStatus(q, {"Running"}) /\ q.steps[r].id = q.steps[i].id
          BY <1>1, <1>2, <1>3, <2>1, <4>1, <4>2 DEF WithStatus, StepSet
        <4> QED BY <3>1, <3>3, <4>1, <4>3 DEF FailedForLater
      <3> QED BY <2>4, <3>2, <3>3
    <2> QED BY <2>5, <2>6
  <1>8. InOrder(q)
    BY <1>7 DEF InOrder
  <1> QED BY <1>2, <1>5, <1>6, <1>8 DEF PlanInv, StepSet, q, r

(* Plan returns an action or an error.                                     *)
LEMMA PlanResultType ==
    ASSUME NEW p \in ActionPlan
    PROVE  PlanResult(p) \in Action \cup PlanErrors
  <1>1. CASE runningStep(p) # 0
    BY <1>1 DEF PlanResult, PlanErrors
  <1>2. CASE runningStep(p) = 0 /\ nextStep(p) = 0
    BY <1>2 DEF PlanResult, FinalAnswer, summarizeResults, Action, Answers, Summaries
  <1>3. CASE runningStep(p) = 0 /\ nextStep(p) # 0
    <2>1. p.steps[nextStep(p)].act \in Action
      BY <1>3, NextStepIs, StepNumbers DEF PlanStep
    <2> QED BY <1>3, <2>1 DEF PlanResult
  <1> QED BY <1>1, <1>2, <1>3

-------------------------------------------------------------------------------
\* The planner on its own.

PSInv == PSTypeOK /\ (plan # Nil => PlanInv(plan))

(* Plan keeps the invariant, whether it has to make a plan or not.         *)
LEMMA PlanKeeps ==
    ASSUME plan # Nil => PlanInv(plan), Plan
    PROVE  /\ plan' # Nil => PlanInv(plan')
           /\ planRes' \in Action \cup PlanErrors
  <1>1. CASE plan = Nil /\ planRes' = GenerateFailed /\ UNCHANGED plan
    BY <1>1 DEF PlanErrors
  <1>2. ASSUME NEW p \in IF plan = Nil THEN {parseActionPlan(d) : d \in Drafts} ELSE {plan},
               plan' = PlanUpdate(p), planRes' = PlanResult(p)
        PROVE  PlanInv(plan') /\ planRes' \in Action \cup PlanErrors
    <2>1. PlanInv(p)
      BY <1>2, ParseInv
    <2> QED BY <1>2, <2>1, PlanUpdateInv, PlanResultType DEF PlanInv
  <1> QED BY <1>1, <1>2 DEF Plan

(* Replan keeps the invariant.                                             *)
LEMMA ReplanKeeps ==
    ASSUME Replan PROVE plan' # Nil => PlanInv(plan')
  BY ParseInv DEF Replan

\* a is the final answer, or the action of the step of p that is running.
HandedOut(p, a) ==
    a.type # "FinalAnswer"
        => p # Nil /\ runningStep(p) # 0 /\ p.steps[runningStep(p)].act = a

(* A plan with at most one running step has it where runningStep looks.    *)
LEMMA RunningStepFound ==
    ASSUME NEW p \in ActionPlan, AtMostOneRunning(p),
           NEW n \in DOMAIN p.steps, p.steps[n].status = "Running"
    PROVE  runningStep(p) = n
  <1>1. n \in WithStatus(p, {"Running"})
    BY DEF WithStatus
  <1>2. runningStep(p) # 0
    BY <1>1, RunningStepIs
  <1>3. runningStep(p) \in WithStatus(p, {"Running"})
    BY <1>2, RunningStepIs DEF WithStatus
  <1> QED BY <1>1, <1>3 DEF AtMostOneRunning

(* What Plan returns is the step it leaves running or the final answer,    *)
(* and it refuses only over a step that was running before.                *)
LEMMA PlanHandsOut ==
    ASSUME plan # Nil => PlanInv(plan), Plan
    PROVE  \/ planRes' = GenerateFailed
           \/ planRes' = StillRunning /\ plan # Nil /\ plan' = plan /\ runningStep(plan) # 0
           \/ /\ planRes' \in Action /\ plan' # Nil /\ HandedOut(plan', planRes')
              /\ runningStep(plan') # 0 => plan'.steps[runningStep(plan')].act = planRes'
              /\ plan # Nil => runningStep(plan) = 0
  <1>1. CASE plan = Nil /\ planRes' = GenerateFailed
    BY <1>1
  <1>2. ASSUME NEW p \in IF plan = Nil THEN {parseActionPlan(d) : d \in Drafts} ELSE {plan},
               plan' = PlanUpdate(p), planRes' = PlanResult(p)
        PROVE  \/ /\ planRes' = StillRunning /\ plan # Nil /\ plan' = plan
                  /\ runningStep(plan) # 0
               \/ /\ planRes' \in Action /\ plan' # Nil /\ HandedOut(plan', planRes')
                  /\ runningStep(plan') # 0 => plan'.steps[runningStep(plan')].act = planRes'
                  /\ plan # Nil => runningStep(plan) = 0
    <2>1. PlanInv(p) /\ p \in ActionPlan
      BY <1>2, ParseInv DEF PlanInv
    <2>2. PlanInv(plan') /\ plan' \in ActionPlan
      BY <1>2, <2>1, PlanUpdateInv DEF PlanInv
    <2>3. plan' # Nil
      BY <2>2, NilPlanAssumption
    <2>4. CASE runningStep(p) # 0
      <3>1. plan # Nil
        <4>1. ASSUME NEW d \in Drafts, p = parseActionPlan(d) PROVE FALSE
          <5>1. runningStep(p) \in DOMAIN p.steps /\ p.steps[runningStep(p)].status = "Running"
            BY <2>1, <2>4, RunningStepIs
          <5> QED BY <4>1, <5>1 DEF parseActionPlan
        <4> QED BY <1>2, <4>1
      <3> QED BY <1>2, <2>4, <3>1 DEF PlanResult, PlanUpdate
    <2>5. CASE runningStep(p) = 0 /\ nextStep(p) = 0
      <3>1. planRes' = FinalAnswer(summarizeResults(p)) /\ plan' = p
        BY <1>2, <2>5 DEF PlanResult, PlanUpdate
      <3>2. planRes' \in Action /\ planRes'.type = "FinalAnswer"
        BY <3>1 DEF FinalAnswer, summarizeResults, Action, Answers, Summaries
      <3> QED BY <1>2, <2>3, <2>5, <3>1, <3>2 DEF HandedOut
    <2>6. CASE runningStep(p) = 0 /\ nextStep(p) # 0
      <3>1. planRes' = p.steps[nextStep(p)].act /\ nextStep(p) \in DOMAIN p.steps
        BY <1>2, <2>1, <2>6, NextStepIs DEF PlanResult
      <3>2. StepSet(p, plan', nextStep(p), "Running")
        BY <1>2, <2>1, <2>6, PlanUpdateSets
      <3>3. runningStep(plan') = nextStep(p)
        BY <2>2, <3>1, <3>2, RunningStepFound DEF StepSet, PlanInv
      <3>4. plan'.steps[runningStep(plan')].act = planRes'
        BY <3>1, <3>2, <3>3 DEF StepSet
      <3>5. planRes' \in Action
        BY <2>1, <3>1, StepNumbers DEF PlanStep
      <3> QED BY <1>2, <2>3, <2>6, <3>3, <3>4, <3>5 DEF HandedOut
    <2> QED BY <2>4, <2>5, <2>6
  <1> QED BY <1>1, <1>2 DEF Plan

(* A step is still running after its outcome was booked only if another    *)
(* step that has its id took the outcome.                                  *)
LEMMA MarkLeavesRunning ==
    ASSUME NEW p, PlanInv(p), runningStep(p) # 0, NEW st \in {"Done", "Failed"},
           NEW res \in BOOLEAN, NEW q,
           q = MarkStep(p, p.steps[runningStep(p)].id, st, res), runningStep(q) # 0
    PROVE  \E j \in DOMAIN q.steps \ {runningStep(q)} :
               q.steps[j].id = q.steps[runningStep(q)].id
  <1> DEFINE r == runningStep(p)
  <1>1. p \in ActionPlan /\ st \in StepStatus
    BY DEF PlanInv, StepStatus
  <1>2. r \in DOMAIN p.steps /\ p.steps[r].status = "Running"
    BY <1>1, RunningStepIs
  <1>3. PICK m \in DOMAIN p.steps : p.steps[m].id = p.steps[r].id /\ StepSet(p, q, m, st)
    BY <1>1, <1>2, MarkStepSets
  <1>4. q \in ActionPlan
    BY <1>3 DEF StepSet
  <1>5. runningStep(q) \in DOMAIN q.steps /\ q.steps[runningStep(q)].status = "Running"
    BY <1>4, RunningStepIs
  <1>6. runningStep(q) # m /\ runningStep(q) \in DOMAIN p.steps
    BY <1>3, <1>5 DEF StepSet
  <1>7. p.steps[runningStep(q)].status = "Running"
    BY <1>3, <1>5, <1>6 DEF StepSet
  <1>8. runningStep(q) = r
    BY <1>1, <1>6, <1>7, RunningStepFound DEF PlanInv
  <1> QED BY <1>3, <1>6, <1>8 DEF StepSet

(* A new plan has no running step.                                         *)
LEMMA ParsedNotRunning ==
    ASSUME NEW d \in Drafts
    PROVE  runningStep(parseActionPlan(d)) = 0
  <1> DEFINE p == parseActionPlan(d)
  <1>1. p \in ActionPlan
    BY ParseInv DEF PlanInv
  <1>2. \A i \in DOMAIN p.steps : p.steps[i].status = "Pending"
    BY DEF parseActionPlan
  <1> HIDE DEF p
  <1>3. runningStep(p) = 0
    BY <1>1, <1>2, RunningStepIs
  <1> QED BY <1>3 DEF p

(* The planner's invariant holds in every reachable state.                 *)
THEOREM PSInvariant == PSSpec => []PSInv
  <1>1. PSInit => PSInv
    BY DEF PSInit, PSInv, PSTypeOK
  <1>2. PSInv /\ [PSNext]_psVars => PSInv'
    <2> SUFFICES ASSUME PSInv, [PSNext]_psVars PROVE PSInv'
      OBVIOUS
    <2>1. CASE UNCHANGED psVars
      BY <2>1 DEF psVars, PSInv, PSTypeOK
    <2>2. CASE Plan
      BY <2>2, PlanKeeps DEF PSInv, PSTypeOK, PlanInv
    <2>3. CASE MarkRunningStep
      <3>1. PICK st \in {"Done", "Failed"}, res \in BOOLEAN :
                plan' = MarkStep(plan, plan.steps[runningStep(plan)].id, st, res)
        BY <2>3 DEF MarkRunningStep
      <3>2. PlanInv(plan) /\ runningStep(plan) # 0 /\ UNCHANGED planRes
        BY <2>3 DEF MarkRunningStep, PSInv
      <3>3. PlanInv(plan')
        BY <3>1, <3>2, MarkStepInv
      <3> QED BY <3>2, <3>3 DEF PSInv, PSTypeOK, PlanInv
    <2>4. CASE Replan
      BY <2>4, ReplanKeeps DEF PSInv, PSTypeOK, PlanInv, Replan
    <2> QED BY <2>1, <2>2, <2>3, <2>4 DEF PSNext
  <1> QED BY <1>1, <1>2, PTL DEF PSSpec

(* Whatever plans the model writes, at most one step is running and the    *)
(* steps are started in order.                                             *)
THEOREM PlansInOrder == PSSpec => [](PSTypeOK /\ OneStepRunning /\ StartedInOrder)
  <1>1. PSInv => PSTypeOK /\ OneStepRunning /\ StartedInOrder
    BY DEF PSInv, PlanInv, OneStepRunning, StartedInOrder
  <1> QED BY <1>1, PSInvariant, PTL

===============================================================================
