----------------------------- MODULE MCAgentLoop -----------------------------
(* AgentLoop for TLC.                                                       *)
EXTENDS AgentLoop

CONSTANTS r1, r2, w1   \* two calls of a tool r, one of a tool w

MCToolOf == [s \in Sigs |-> IF s = w1 THEN "w" ELSE "r"]

MCReplies ==
    {ToolCall(s) : s \in Sigs}
       \cup {FinalAnswer("good"), FinalAnswer("bad"), AskHuman, UnknownAction,
             GenerateFailed}

Settings(modes) ==
    [mode : modes, pl : {TRUE}, pas : {TRUE}, evalOn : BOOLEAN, outSchema : BOOLEAN]

ReActConfigs == Settings({"ReAct"})
PlanConfigs == Settings({"PlanAndSolve"})
\* An agent without a model: in plan-and-solve mode a.planner is an interface
\* around a nil pointer, which does not equal nil.
Broken == [mode |-> "PlanAndSolve", pl |-> TRUE, pas |-> FALSE, evalOn |-> FALSE,
           outSchema |-> FALSE]
NoPlanner == [Broken EXCEPT !.mode = "ReAct", !.pl = FALSE]

PlainPlanConfig == {[Broken EXCEPT !.pas = TRUE]}
WorkingConfigs == ReActConfigs \cup PlanConfigs
AllConfigs == WorkingConfigs \cup {Broken, NoPlanner}

Step(id, act) == [id |-> id, act |-> act]

\* Two tool steps; a tool step, a question and an answer; ids 2 and 2.
MCDrafts ==
    {<<Step(1, ToolCall(r1)), Step(2, ToolCall(w1))>>,
     <<Step(1, ToolCall(w1)), Step(2, AskHuman), Step(3, FinalAnswer("good"))>>,
     <<Step(2, ToolCall(r1)), Step(0, ToolCall(r1))>>}

TwoCalls == {<<Step(1, ToolCall(r1)), Step(2, ToolCall(w1))>>}

===============================================================================
