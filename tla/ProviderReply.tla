---------------------------- MODULE ProviderReply ----------------------------
(***************************************************************************)
(* How the events of a streamed reply add up to a message (Client.Stream   *)
(* of model/provider/anthropic and openai), beside the same reply read in  *)
(* one piece (Client.Generate), and the action the ReAct planner makes of  *)
(* either (planner/react.go, streamReActPlan in agent/loop.go).  The       *)
(* channels that carry the chunks on are in Stream.                        *)
(*                                                                         *)
(* A reply is a sequence of blocks: texts, and calls with arguments in     *)
(* JSON.  A block comes in parts, numbered <<block, 1>>, <<block, 2>>, ... *)
(* Arguments are an object, null, or no JSON object at all.                *)
(***************************************************************************)
EXTENDS Integers, Sequences, SequencesExt, SeqFilter

CONSTANTS
    MaxBlocks,  \* bound: blocks of a reply
    MaxParts    \* bound: parts of a block

ASSUME ReplyAssumption == MaxBlocks \in Nat /\ MaxParts \in Nat

Block == [kind : {"text", "tool_use"}, parts : 0..MaxParts,
          args : {"object", "null", "bad"}]

VARIABLES
    provider,   \* "anthropic" or "openai"
    reply,      \* the blocks the server has to send
    choice,     \* whether it has one at all: OpenAI's may have no choices
    given,      \* per block: started, and the parts sent so far
    blocks,     \* the accumulators: per index seen, the parts received
    deltas,     \* the text passed on, as parts in order
    counts,     \* usageAcc or lastUsage: the token counts that have come
    outcome,    \* open, refused, error, or done
    toolCalls,  \* the calls in the last chunk
    ending      \* how the body ended: open, broken (the server gave up),
                \* whole, or cut (it was closed in order before the end)

replyVars == <<provider, reply, choice, given, blocks, deltas, counts, outcome, toolCalls,
               ending>>

Counts == {"in", "out"}

Empty == 0  \* the arguments {}; those of block i are the number i

\* Blocks: no parts, no JSON that could be wrong; texts have no arguments.
Replies ==
    LET fits(b) == (b.kind = "text" \/ b.parts = 0) => b.args = "object"
    IN  BoundedSeq({b \in Block : fits(b)}, MaxBlocks)

ReplyInit ==
    /\ provider \in {"anthropic", "openai"}
    /\ reply \in Replies
    /\ choice \in BOOLEAN
    /\ ~choice => provider = "openai" /\ reply = <<>>
    /\ given = [i \in DOMAIN reply |-> [started |-> FALSE, parts |-> 0]]
    /\ blocks = << >>
    /\ deltas = <<>>
    /\ counts = {}
    /\ outcome = "open"
    /\ toolCalls = <<>>
    /\ ending = "open"

-----------------------------------------------------------------------------
\* Reading in one piece

\* json.Unmarshal of the first n parts of the arguments of block i: nothing is
\* {}, all is what it is, and no beginning of an object is an object.
Parsed(i, n) ==
    IF n = 0 THEN {Empty}
    ELSE IF n < reply[i].parts \/ reply[i].args = "bad" THEN {}
    ELSE {IF reply[i].args = "null" THEN Empty ELSE i}

Indices == [i \in DOMAIN reply |-> i]

ToolBlocks == {i \in DOMAIN reply : reply[i].kind = "tool_use"}

CallBlocks == SelectIn(Indices, ToolBlocks)

\* anthropicResponseToModel and chatMessageRespToModel: the texts joined, the
\* calls in order, or an error if the arguments of one cannot be read; no
\* choices are an error too.
GenerateReadable ==
    /\ choice
    /\ \A n \in DOMAIN CallBlocks : Parsed(CallBlocks[n], reply[CallBlocks[n]].parts) # {}

PartsOf(i) == [n \in 1..reply[i].parts |-> <<i, n>>]

GenerateText ==
    FlattenSeq([i \in DOMAIN reply |->
                   IF reply[i].kind = "text" THEN PartsOf(i) ELSE <<>>])

CallOfBlock(i, n) == [index |-> i, args |-> CHOOSE a \in Parsed(i, n) : TRUE]

GenerateCalls ==
    [n \in DOMAIN CallBlocks |-> CallOfBlock(CallBlocks[n], reply[CallBlocks[n]].parts)]

\* What a ReAct planner does with a message: its first call, with nested JSON
\* in the arguments decoded; without a call, its text is the answer.
ReActAction(calls, words) ==
    IF calls # <<>> THEN [type |-> "toolCall", call |-> calls[1], answer |-> <<>>]
    ELSE [type |-> "finalAnswer", call |-> [index |-> 0, args |-> Empty], answer |-> words]

NoAction == [type |-> "error", call |-> [index |-> 0, args |-> Empty], answer |-> <<>>]

\* ReActPlanner.Plan, on what Generate returns.
Plan == IF GenerateReadable THEN ReActAction(GenerateCalls, GenerateText) ELSE NoAction

\* A mutation of streamReActPlan: text that has been shown is the answer.
streamTextFirst ==
    IF outcome # "done" THEN NoAction
    ELSE ReActAction(IF deltas = <<>> THEN toolCalls ELSE <<>>, deltas)

\* streamReActPlan, on the chunks of a stream that has ended.
streamReActPlan == IF outcome = "done" THEN ReActAction(toolCalls, deltas) ELSE NoAction

-----------------------------------------------------------------------------
\* The server.  Blocks follow each other; only OpenAI may mix calls.

BlockSent(i) == given[i].started /\ given[i].parts = reply[i].parts

MayBegin(i) ==
    /\ ~given[i].started
    /\ \A j \in 1..(i - 1) :
          \/ BlockSent(j)
          \/ provider = "openai" /\ reply[i].kind = "tool_use" /\ reply[j].kind = "tool_use"

AllSent ==
    /\ \A i \in DOMAIN reply : BlockSent(i)
    /\ provider = "anthropic" => counts = Counts

-----------------------------------------------------------------------------
\* The goroutine's handling of one event

RequestFails ==
    /\ outcome = "open" /\ counts = {} /\ \A i \in DOMAIN reply : ~given[i].started
    /\ outcome' = "refused"
    /\ UNCHANGED <<given, blocks, deltas, counts, toolCalls, ending>>

\* message_start has the tokens of the prompt, message_delta those of the
\* reply; an OpenAI chunk may have both.
UsageEvent ==
    /\ outcome = "open" /\ ending = "open"
    /\ \E new \in SUBSET (Counts \ counts) :
          /\ new # {}
          /\ provider = "openai" => new = Counts
          /\ provider = "anthropic" /\ "out" \in new
                => counts = {"in"} /\ \A i \in DOMAIN reply : BlockSent(i)
          /\ counts' = counts \cup new
    /\ UNCHANGED <<given, blocks, deltas, outcome, toolCalls, ending>>

\* content_block_start, or the first delta of an OpenAI call, whose index has no
\* accumulator yet.  OpenAI's text has no blocks.
BlockStart(i) ==
    /\ outcome = "open" /\ ending = "open" /\ MayBegin(i)
    /\ provider = "anthropic" => counts = {"in"}
    /\ given' = [given EXCEPT ![i].started = TRUE]
    /\ blocks' = IF provider = "openai" /\ reply[i].kind = "text" THEN blocks
                 ELSE [j \in DOMAIN blocks \cup {i} |-> IF j = i THEN <<>> ELSE blocks[j]]
    /\ UNCHANGED <<deltas, counts, outcome, toolCalls, ending>>

\* Text is passed on at once; Anthropic's only if its block has been started.
TextDelta(i) ==
    /\ outcome = "open" /\ ending = "open" /\ given[i].started /\ ~BlockSent(i)
    /\ reply[i].kind = "text"
    /\ given' = [given EXCEPT ![i].parts = @ + 1]
    /\ deltas' = IF provider = "openai" \/ i \in DOMAIN blocks
                 THEN Append(deltas, <<i, given'[i].parts>>) ELSE deltas
    /\ UNCHANGED <<blocks, counts, outcome, toolCalls, ending>>

\* argChunks or jsonParts.
accumulate(parts, p) == Append(parts, p)

ArgsDelta(i) ==
    /\ outcome = "open" /\ ending = "open" /\ given[i].started /\ ~BlockSent(i)
    /\ reply[i].kind = "tool_use"
    /\ given' = [given EXCEPT ![i].parts = @ + 1]
    /\ blocks' = [blocks EXCEPT ![i] = accumulate(@, given'[i].parts)]
    /\ UNCHANGED <<deltas, counts, outcome, toolCalls, ending>>

\* An error in the middle of the stream.  Anthropic's is recognised; OpenAI's is
\* a chunk without choices, which is skipped, and then the stream ends.
ErrorEvent ==
    /\ outcome = "open" /\ ending = "open"
    /\ IF provider = "anthropic"
       THEN outcome' = "error" /\ UNCHANGED ending
       ELSE ending' = "broken" /\ UNCHANGED outcome
    /\ UNCHANGED <<given, blocks, deltas, counts, toolCalls>>

\* The context is done, or reading fails.
ReadFails ==
    /\ outcome = "open"
    /\ outcome' = "error"
    /\ UNCHANGED <<given, blocks, deltas, counts, toolCalls, ending>>

\* A mutation of sortedIndices: the indices as the map yields them.
indicesAsTheyCome == SetToSeqs(DOMAIN blocks)

\* The indices of the accumulators in order, as the set of possible sequences.
sortedIndices == {SelectIn(Indices, DOMAIN blocks)}

\* [DONE], or the end of the body at any point: the calls are put together.
FinishReply ==
    /\ outcome = "open"
    /\ ending' = IF ending = "open" /\ AllSent THEN "whole" ELSE "cut"
    /\ \E indices \in sortedIndices :
          LET called == SelectIn(indices, ToolBlocks)
              read(i) == Parsed(i, Len(blocks[i]))
          IN  IF \A n \in DOMAIN called : read(called[n]) # {}
              THEN /\ toolCalls' = [n \in DOMAIN called |->
                                        CallOfBlock(called[n], Len(blocks[called[n]]))]
                   /\ outcome' = "done"
              ELSE outcome' = "error" /\ UNCHANGED toolCalls
    /\ UNCHANGED <<given, blocks, deltas, counts>>

ReplyNext ==
    /\ UNCHANGED <<provider, reply, choice>>
    /\ \/ RequestFails
       \/ UsageEvent
       \/ \E i \in DOMAIN reply : BlockStart(i) \/ TextDelta(i) \/ ArgsDelta(i)
       \/ ErrorEvent
       \/ ReadFails
       \/ FinishReply

ReplySpec == ReplyInit /\ [][ReplyNext]_replyVars

-----------------------------------------------------------------------------

(* A reply that is streamed to its end is the reply that Generate returns: *)
(* the same text, the same calls in the same order with the same           *)
(* arguments, in whatever order the parts came; it fails if and only if    *)
(* Generate does; and so a Run goes on in the same way with streaming and  *)
(* without.  A reply without choices is left out: Generate fails, the      *)
(* stream is an empty answer.                                              *)
StreamAgrees ==
    ending = "whole" /\ choice
        => /\ outcome = IF GenerateReadable THEN "done" ELSE "error"
           /\ outcome = "done" => deltas = GenerateText /\ toolCalls = GenerateCalls
           /\ streamReActPlan = Plan

(* A reply that breaks off unnoticed may lack text and calls at its end,   *)
(* but no call in it has arguments that the model did not give: they are   *)
(* complete, or none of them had come.                                     *)
CutCallsWhole ==
    outcome = "done"
        => \A n \in DOMAIN toolCalls :
              LET c == toolCalls[n]
              IN  \/ given[c.index].parts = 0 /\ c.args = Empty
                  \/ BlockSent(c.index) /\ c.args \in Parsed(c.index, reply[c.index].parts)

(* What a stream yields, whole or cut.                                     *)
StreamExact == StreamAgrees /\ CutCallsWhole
=============================================================================
