---------------------------- MODULE SkillContext ----------------------------
(***************************************************************************)
(* A skill call (skill/context.go): a loop of its own with its own         *)
(* conversation, bounded by the skill's MaxIterations.  Unlike the agent's *)
(* loop it answers all the calls of a reply, turns every failure into text *)
(* and never returns an error.                                             *)
(*                                                                         *)
(* A message is a role, whether it has content, and call ids; which tools  *)
(* the skill has only decides between result and "unknown tool".           *)
(***************************************************************************)
EXTENDS Requests, SequencesExt

CONSTANTS
    MaxIter,     \* the skill's MaxIterations
    CallIds      \* tool call ids a reply may use; 0 is a missing one

ASSUME SkillAssumption == MaxIter \in Nat /\ CallIds \subseteq Nat

VARIABLES
    messages,    \* sc.messages
    step,        \* model calls made
    calls,       \* the calls of the latest reply still to be answered
    answer,      \* finalAnswer: empty, a text of the model, an error text
    ended        \* Run has returned

skillVars == <<messages, step, calls, answer, ended>>

Message(role, content, ids) == [role |-> role, content |-> content, ids |-> ids]

\* Replies of at most two calls, ids possibly repeated.
CallLists == {<<>>} \union {<<i>> : i \in CallIds} \union {<<i, j>> : i \in CallIds, j \in CallIds}

NewContext ==
    /\ messages = <<Message("system", TRUE, <<>>), Message("user", TRUE, <<>>)>>
    /\ step = 0
    /\ calls = <<>>
    /\ answer = "empty"
    /\ ended = FALSE

MayIterate == step < MaxIter

\* One model call that succeeds: the reply is appended; without calls and with
\* content it is the answer, without either the loop goes on.
Reply(ids, content) ==
    /\ ~ ended /\ calls = <<>> /\ MayIterate
    /\ step' = step + 1
    /\ messages' = Append(messages, Message("assistant", content, ids))
    /\ calls' = ids
    /\ LET final == ids = <<>> /\ content
       IN  /\ answer' = IF final THEN "text" ELSE answer
           /\ ended' = final

\* One that fails: the error's text is the answer.
ReplyFails ==
    /\ ~ ended /\ calls = <<>> /\ MayIterate
    /\ step' = step + 1
    /\ answer' = "error"
    /\ ended' = TRUE
    /\ UNCHANGED <<messages, calls>>

\* Mutant: an unknown tool gets no message.
ToolMessageKnownOnly(known) ==
    IF known THEN Append(messages, Message("tool", TRUE, <<Head(calls)>>)) ELSE messages

\* Result, error text or "unknown tool": each call gets one tool message.  A
\* tool may return an empty text.
ToolMessage(known) == Append(messages, Message("tool", TRUE, <<Head(calls)>>))

Execute(known) ==
    /\ ~ ended /\ calls # <<>>
    /\ messages' = ToolMessage(known)
    /\ calls' = Tail(calls)
    /\ UNCHANGED <<step, answer, ended>>

RunsOut ==
    /\ ~ ended /\ calls = <<>> /\ ~ MayIterate
    /\ ended' = TRUE
    /\ UNCHANGED <<messages, step, calls, answer>>

SkillStep ==
    \/ \E ids \in CallLists, content \in BOOLEAN : Reply(ids, content)
    \/ ReplyFails
    \/ \E known \in BOOLEAN : Execute(known)
    \/ RunsOut

\* The model and the tools return: both are given the context of the Run.
SkillSpec == NewContext /\ [][SkillStep]_skillVars /\ WF_skillVars(SkillStep)

-----------------------------------------------------------------------------
(* Properties. *)

\* The call ids of the tool messages that follow the message at position p
\* before the next one of another role.
AnswersAt(p) ==
    LET n == CHOOSE n \in 0..(Len(messages) - p) :
               /\ \A i \in (p + 1)..(p + n) : messages[i].role = "tool"
               /\ p + n = Len(messages) \/ messages[p + n + 1].role # "tool"
    IN  [i \in 1..n |-> messages[p + i].ids[1]]

\* Providers refuse a conversation in which a call is not answered: whenever the
\* model is asked again, and in the log handed to the hooks, each reply's calls
\* are answered once each, in order, right behind it.
SkillCallsAnswered ==
    \A p \in 1..Len(messages) :
      messages[p].role = "assistant" =>
        IF calls # <<>> /\ p = Len(messages) - Len(AnswersAt(p))
        THEN messages[p].ids = AnswersAt(p) \o calls
        ELSE messages[p].ids = AnswersAt(p)

\* The answer is what the model said last, an error if its last call failed,
\* and empty only if the iterations ran out without an answer.
AnswerExplained ==
    ended =>
      /\ answer = "text" <=> Last(messages) = Message("assistant", TRUE, <<>>)
      /\ answer = "empty" => step = MaxIter

\* Whenever the model is asked, the request that the clients make of the
\* conversation says what it says, and Anthropic finds all the answers to a
\* message's calls in the message behind it.
SkillRequestAccepted ==
    LET ms == [i \in DOMAIN messages |->
                  [role |-> messages[i].role, text |-> messages[i].content,
                   ids |-> messages[i].ids]]
    IN  calls = <<>> => RequestFaithfulTo(ms) /\ AnsweredInPlace(ms)

\* What a skill call leaves behind makes sense to the provider and to the
\* caller: a well-formed conversation and an answer that it explains.
SkillExact == SkillCallsAnswered /\ SkillRequestAccepted /\ AnswerExplained
=============================================================================
