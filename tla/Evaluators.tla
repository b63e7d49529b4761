----------------------------- MODULE Evaluators -----------------------------
(***************************************************************************)
(* How a verdict on a step comes about (evaluator/): the composite asks    *)
(* its members one after the other and keeps the strongest decision; a     *)
(* member is a list of rules or a model acting as judge, whose reply has   *)
(* to be parsed.                                                           *)
(*                                                                         *)
(* A judge's reply is abstracted to what json.Unmarshal makes of the three *)
(* places the code looks at; feedback is there or not.                     *)
(***************************************************************************)
EXTENDS Naturals, Sequences

CONSTANTS
    MaxMembers,   \* members of the composite
    MaxRules      \* rules of a rule-based member

ASSUME EvaluatorsAssumption == MaxMembers \in Nat /\ MaxRules \in Nat

Decisions == {"continue", "replan", "retry", "escalate", "complete"}
Result == [decision : Decisions, feedback : BOOLEAN]
Err == [decision |-> "error", feedback |-> FALSE]
NoVerdict == [decision |-> "nil", feedback |-> FALSE]

-----------------------------------------------------------------------------
(* The rule-based evaluator. *)

\* A rule may return nothing.
RuleOutcomes == Result \union {Err, NoVerdict}

\* The first rule that fails or decides ends the list; what rules that say
\* "continue" have to say is lost.
RuleBased(rules) ==
    LET ends == {i \in DOMAIN rules : rules[i].decision \notin {"nil", "continue"}}
    IN  IF ends = {} THEN [decision |-> "continue", feedback |-> FALSE]
        ELSE rules[CHOOSE i \in ends : \A j \in ends : i <= j]

-----------------------------------------------------------------------------
(* The model as judge. *)

\* The decision of a reply: each word stands for its synonyms ("done" for
\* "complete", "again" for "retry"); "other" is a word the code does not know.
Words == Decisions \union {"other"}

mapDecisionString(w) == IF w = "other" THEN "continue" ELSE w

\* The reply as a whole, its fenced block and what stands between its outermost
\* braces: the decision word if the text is JSON, else "notJSON".
Texts == Words \union {"notJSON"}
Replies == [fence : Texts, whole : Texts, braces : Texts]

candidates(reply) == <<reply.fence, reply.whole, reply.braces>>

\* The first text that is JSON decides; a reply without any is feedback.
parseJudgeResponse(reply) ==
    LET texts == candidates(reply)
        json == {i \in DOMAIN texts : texts[i] # "notJSON"}
    IN  IF json = {} THEN "continue"
        ELSE mapDecisionString(texts[CHOOSE i \in json : \A j \in json : i <= j])

-----------------------------------------------------------------------------
(* The composite. *)

VARIABLES
    outcomes,     \* what the members asked so far returned
    best,        \* the strongest decision so far
    bestP,       \* and its priority
    parts,       \* whose feedback has been kept
    verdict      \* what Evaluate returned, NoVerdict before

evalVars == <<outcomes, best, bestP, parts, verdict>>

EvalInit ==
    /\ outcomes = <<>>
    /\ best = "continue"
    /\ bestP = 0
    /\ parts = <<>>
    /\ verdict = NoVerdict

\* Mutant: retry counts more than escalate.
decisionPriorityRetryFirst(d) ==
    CASE d = "complete" -> 5 [] d = "retry" -> 4 [] d = "escalate" -> 3
      [] d = "replan" -> 2 [] OTHER -> 0

decisionPriority(d) ==
    CASE d = "complete" -> 5 [] d = "escalate" -> 4 [] d = "retry" -> 3
      [] d = "replan" -> 2 [] OTHER -> 0

AddFeedback(res) ==
    parts' = IF res.feedback THEN Append(parts, Len(outcomes) + 1) ELSE parts

KeepStrongest(res) ==
    LET p == decisionPriority(res.decision)
    IN  IF p > bestP THEN best' = res.decision /\ bestP' = p
        ELSE UNCHANGED <<best, bestP>>

\* The next member returns; an error ends the evaluation.
Member(res) ==
    /\ verdict = NoVerdict
    /\ Len(outcomes) < MaxMembers
    /\ outcomes' = Append(outcomes, res)
    /\ IF res = Err
       THEN verdict' = Err /\ UNCHANGED <<best, bestP, parts>>
       ELSE KeepStrongest(res) /\ AddFeedback(res) /\ UNCHANGED verdict

AskRules(rules) == Member(RuleBased(rules))

\* The judge's error is its model's.
AskJudge(reply, feedback) ==
    Member([decision |-> parseJudgeResponse(reply), feedback |-> feedback])
JudgeFails == Member(Err)

\* The members are through.
Conclude ==
    /\ verdict = NoVerdict
    /\ verdict' = [decision |-> best, feedback |-> parts # <<>>]
    /\ UNCHANGED <<outcomes, best, bestP, parts>>

EvalNext ==
    \/ \E n \in 0..MaxRules : \E rules \in [1..n -> RuleOutcomes] : AskRules(rules)
    \/ \E reply \in Replies, feedback \in BOOLEAN : AskJudge(reply, feedback)
    \/ JudgeFails
    \/ Conclude

EvalSpec == EvalInit /\ [][EvalNext]_evalVars

-----------------------------------------------------------------------------
(* Properties. *)

\* Strength as the loop of agent/loop.go sees it, in one order: an answer, a
\* human, another try, another plan, going on.
Stronger == <<"continue", "replan", "retry", "escalate", "complete">>
Rank(d) == CHOOSE i \in 1..Len(Stronger) : Stronger[i] = d
Decided == {outcomes[i].decision : i \in DOMAIN outcomes} \union {"continue"}

Unanimous == outcomes # <<>> /\ \A i \in DOMAIN outcomes : outcomes[i].decision = "complete"

\* The verdict does not depend on the order of the members: it is an error if and
\* only if one of them failed; one that a member gave, and none of the other
\* decisions is stronger; and complete if all of them say so.  Whether complete
\* may also win when only some do is left open: td.md:728 wants all to pass.
StrongestWins ==
    verdict # NoVerdict =>
      IF "error" \in Decided THEN verdict = Err
      ELSE /\ verdict.decision \in Decided
           /\ \A d \in Decided \ {"complete"} : Rank(d) <= Rank(verdict.decision)
           /\ Unanimous => verdict.decision = "complete"

\* The feedback of every member that gave some reaches the caller, in order.
FeedbackComplete ==
    /\ {parts[k] : k \in DOMAIN parts} = {i \in DOMAIN outcomes : outcomes[i].feedback}
    /\ \A k, l \in DOMAIN parts : k < l => parts[k] < parts[l]

\* What the composite evaluator returns does justice to all its members: a
\* decision as strong as theirs and all their feedback (evaluator/composite.go).
CompositeExact == StrongestWins /\ FeedbackComplete
=============================================================================
