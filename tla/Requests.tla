------------------------------ MODULE Requests ------------------------------
(***************************************************************************)
(* What a conversation becomes on its way to a provider: the messages of a *)
(* request to Anthropic (model/provider/anthropic) and to OpenAI or        *)
(* DeepSeek (model/provider/openai, which DeepSeek's client configures).   *)
(*                                                                         *)
(* A message is a role, whether its content is more than blanks, and the   *)
(* ids of the calls it makes or answers (0 is a missing id).  A block of   *)
(* a request names the message its content comes from.                     *)
(***************************************************************************)
EXTENDS Integers, Sequences, SeqFilter

NoId == 0

Text(i) == [type |-> "text", from |-> i, id |-> NoId]
Use(i, id) == [type |-> "tool_use", from |-> i, id |-> id]
Answer(i, id) == [type |-> "tool_result", from |-> i, id |-> id]

Uses(ms, i) == [n \in 1..Len(ms[i].ids) |-> Use(i, ms[i].ids[n])]

\* A text block only beside calls may be left out, if it is blank.
assistantContent(ms, i) ==
    IF ms[i].ids = <<>> THEN <<Text(i)>>
    ELSE (IF ms[i].text THEN <<Text(i)>> ELSE <<>>) \o Uses(ms, i)

\* A mutation of ResultsEnd: every result is a message of its own.
ResultsEndAtOnce(ms, i) == i

\* The last tool message of the run of tool messages that starts at i.
ResultsEnd(ms, i) ==
    CHOOSE j \in i..Len(ms) :
        /\ \A k \in i..j : ms[k].role = "tool"
        /\ j = Len(ms) \/ ms[j + 1].role # "tool"

\* The results at the places from i to j.
Answers(ms, i, j) == [n \in 1..(j - i + 1) |-> Answer(i + n - 1, ms[i + n - 1].ids[1])]

ReqMsg(role, blocks) == [role |-> role, blocks |-> blocks]

\* modelMessagesToAnthropic returns an error: a result without the id of its
\* call, or a role it does not know.
AnthropicRefuses(ms) ==
    \E i \in DOMAIN ms :
        \/ ms[i].role = "tool" /\ ms[i].ids[1] = NoId
        \/ ms[i].role \notin {"system", "user", "assistant", "tool"}

(* The system messages travel apart, in one string; results that follow    *)
(* each other become one message of the user.                              *)
modelMessagesToAnthropic(ms) ==
    LET rest[i \in 1..(Len(ms) + 1)] ==
          IF i > Len(ms) THEN <<>>
          ELSE CASE ms[i].role = "system" -> rest[i + 1]
                 [] ms[i].role = "tool" ->
                      LET j == ResultsEnd(ms, i)
                      IN  <<ReqMsg("user", Answers(ms, i, j))>> \o rest[j + 1]
                 [] ms[i].role = "user" ->
                      <<ReqMsg("user", <<Text(i)>>)>> \o rest[i + 1]
                 [] ms[i].role = "assistant" ->
                      <<ReqMsg("assistant", assistantContent(ms, i))>> \o rest[i + 1]
    IN  rest[1]

\* The system messages of the request, by their places in the conversation.
systemOf(ms) ==
    SelectIn([i \in DOMAIN ms |-> i], {i \in DOMAIN ms : ms[i].role = "system"})

\* One message for each, with its content, its calls and the call it answers.
modelMessagesToOpenAI(ms) ==
    [i \in DOMAIN ms |->
        ReqMsg(ms[i].role,
               IF ms[i].role = "tool" THEN <<Answer(i, ms[i].ids[1])>>
               ELSE <<Text(i)>> \o Uses(ms, i))]

-----------------------------------------------------------------------------

BlocksOf(ms) == [type : {"text", "tool_use", "tool_result"}, from : DOMAIN ms, id : Nat]

\* All blocks of a request in order.
Blocks(req) == FlattenSeq([n \in DOMAIN req |-> req[n].blocks])

OnlyResults(m) == \A n \in DOMAIN m.blocks : m.blocks[n].type = "tool_result"

(* Both providers are told the same: the blocks of the two requests agree  *)
(* in order and in number, but for system messages, which Anthropic gets   *)
(* apart, and for the blank text beside a call.                            *)
SameStory(ms) ==
    LET a == modelMessagesToAnthropic(ms)
        o == modelMessagesToOpenAI(ms)
        told == {b \in BlocksOf(ms) :
                    /\ ms[b.from].role # "system"
                    /\ b.type = "text" => ms[b.from].ids = <<>> \/ ms[b.from].text}
        instructing == {b \in BlocksOf(ms) : ms[b.from].role = "system"}
    IN  ~AnthropicRefuses(ms) =>
          /\ Blocks(a) = SelectIn(Blocks(o), told)
          /\ [n \in DOMAIN systemOf(ms) |-> Text(systemOf(ms)[n])]
                = SelectIn(Blocks(o), instructing)

(* Anthropic wants the answers to a message's calls in the one message     *)
(* behind it: results are never spread over two messages.                  *)
ResultsTogether(ms) ==
    LET a == modelMessagesToAnthropic(ms)
    IN  ~AnthropicRefuses(ms) => \A n \in 1..(Len(a) - 1) : ~(OnlyResults(a[n]) /\ OnlyResults(a[n + 1]))

(* What both clients make of a conversation: nothing is lost, added or     *)
(* moved, whatever the conversation has gone through.                      *)
RequestFaithfulTo(ms) == SameStory(ms) /\ ResultsTogether(ms)

(* Anthropic's rule for a request: the calls of a message are answered,    *)
(* each once and in order, in the message right behind it.                 *)
AnsweredInPlace(ms) ==
    LET a == modelMessagesToAnthropic(ms)
        uses(m) == SelectIn(m.blocks, {b \in BlocksOf(ms) : b.type = "tool_use"})
        ids(blocks) == [n \in DOMAIN blocks |-> blocks[n].id]
    IN  ~AnthropicRefuses(ms) =>
          \A n \in DOMAIN a : uses(a[n]) # <<>> =>
             /\ n < Len(a) /\ OnlyResults(a[n + 1])
             /\ ids(a[n + 1].blocks) = ids(uses(a[n]))
=============================================================================
