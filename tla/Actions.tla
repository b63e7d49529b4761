------------------------------- MODULE Actions -------------------------------
(***************************************************************************)
(* The actions that planners hand to the agent loop (planner/planner.go).  *)
(*                                                                         *)
(* An action is reduced to its type and to what the loop compares or       *)
(* passes on: a tool call to its signature, the pair of the tool's name    *)
(* and its parameters, an answer to one of a few texts.                    *)
(***************************************************************************)
EXTENDS Integers, Sequences

CONSTANTS
    Sigs,   \* signatures of tool calls: <<tool name, parameters>>
    Nil     \* Go's nil

\* What summarizeResults returns, and what a model may answer directly.
Summaries == {"step results", "All planned steps finished."}
Answers == {"good", "bad"} \cup Summaries

ToolCall(sig) == [type |-> "ToolCall", arg |-> sig]
FinalAnswer(ans) == [type |-> "FinalAnswer", arg |-> ans]
AskHuman == [type |-> "AskHuman", arg |-> Nil]

Action == [type : {"ToolCall"}, arg : Sigs]
             \cup [type : {"FinalAnswer"}, arg : Answers]
             \cup {AskHuman}

\* Nil is none of the values a pointer may point to.
ASSUME NilAssumption == Nil \notin Action \cup Sigs \cup Answers

===============================================================================
