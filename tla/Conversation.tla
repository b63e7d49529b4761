----------------------------- MODULE Conversation -----------------------------
(***************************************************************************)
(* The conversation in a session's memory: what runLoop writes into it and *)
(* in which order (agent/loop.go), the sliding window of BufferMemory      *)
(* (memory/buffer.go) over an InMemoryMessageStore, and the three rewrites *)
(* of memory/compressor.go: L1 drops repeated failures, L3 clears stale    *)
(* tool results, L4 replaces the past by a summary.                        *)
(*                                                                         *)
(* One Run at a time works on a session.  Every operation of the store     *)
(* fails once the context has expired, and the loop ignores that: a        *)
(* handler that is cut short leaves one of a few intermediate states.      *)
(*                                                                         *)
(* A message is its role, the id and the tool of the call it makes or      *)
(* answers, whether it reports a failure, and the tokens of its content    *)
(* (Cleared for a result that L3 has emptied).                             *)
(***************************************************************************)
EXTENDS Requests, FiniteSets

CONSTANTS
    Tools,
    Sizes,      \* the values of BufferMemory.maxSize, 0 for no window
    Budget,     \* a.recentToolResultTokens
    MaxTokens,  \* of one tool result, after TruncateToolResult
    MaxRuns, MaxCalls, MaxNotes   \* bounds: Runs, calls, other messages

ASSUME ConversationAssumption ==
    Sizes \cup {Budget, MaxTokens, MaxRuns, MaxCalls, MaxNotes} \subseteq Nat

NoTool == "none"
Cleared == -1

ASSUME NoToolAssumption == NoTool \notin Tools

Message == [role : {"system", "user", "assistant", "tool"}, call : Nat,
            tool : Tools \cup {NoTool}, fails : BOOLEAN, tokens : Nat \cup {Cleared}]

Plain(role) ==
    [role |-> role, call |-> 0, tool |-> NoTool, fails |-> FALSE, tokens |-> 0]
CallOf(id, t) == [Plain("assistant") EXCEPT !.call = id, !.tool = t]
ResultOf(id, t, fails, n) ==
    [role |-> "tool", call |-> id, tool |-> t, fails |-> fails, tokens |-> n]

VARIABLES
    maxSize,   \* BufferMemory.maxSize
    messages,  \* the store
    at,        \* where the loop is: idle, or its state
    current,   \* the latest call of the Run: its message, or <<>>
    runs, calls, notes,
    rewrote    \* the Run has recorded a result and rewritten the memory

convVars == <<maxSize, messages, at, current, runs, calls, notes, rewrote>>

-------------------------------------------------------------------------------
\* memory/buffer.go

\* The number of leading system messages.
sysHead(ms) ==
    CHOOSE n \in 0..Len(ms) :
        /\ \A i \in 1..n : ms[i].role = "system"
        /\ n = Len(ms) \/ ms[n + 1].role # "system"

\* A mutation of trimPreservingSystem: the newest messages go.
trimFromTheEnd(ms, drop) == SubSeq(ms, 1, Len(ms) - drop)

trimPreservingSystem(ms, drop) ==
    LET s == sysHead(ms)
    IN  IF drop >= Len(ms) - s
        THEN SubSeq(ms, 1, s)
        ELSE SubSeq(ms, 1, s) \o SubSeq(ms, s + drop + 1, Len(ms))

Add(ms, new) ==
    LET all == ms \o new
    IN  IF maxSize = 0 \/ Len(all) <= maxSize THEN all
        ELSE trimPreservingSystem(all, Len(all) - maxSize)

\* What an Add may leave behind when the context expires during it.
AddCutShort(ms, new) == {ms, ms \o new, Add(ms, new)}

-------------------------------------------------------------------------------
\* memory/compressor.go

\* A call and, right behind it, its failed result.
FailedPair(ms, i) ==
    /\ i \in 1..(Len(ms) - 1)
    /\ ms[i].role = "assistant" /\ ms[i].call # 0
    /\ ms[i + 1].role = "tool" /\ ms[i + 1].fails

\* The last pair of the run of failures of one tool that starts at i.
RunEnd(ms, i) ==
    CHOOSE j \in i..Len(ms) :
        /\ (j - i) % 2 = 0
        /\ \A k \in i..j : (k - i) % 2 = 0
              => FailedPair(ms, k) /\ ms[k + 1].tool = ms[i + 1].tool
        /\ ~(FailedPair(ms, j + 2) /\ ms[j + 3].tool = ms[i + 1].tool)

\* A mutation of PruneConsecutiveFailures: the first call stays with the last result.
PruneMixesPairs(ms) ==
    LET from[i \in 1..(Len(ms) + 1)] ==
          IF i > Len(ms) THEN <<>>
          ELSE IF FailedPair(ms, i)
               THEN LET j == RunEnd(ms, i) IN <<ms[i], ms[j + 1]>> \o from[j + 2]
               ELSE <<ms[i]>> \o from[i + 1]
    IN  from[1]

\* L1: of every such run only the last pair stays.
PruneConsecutiveFailures(ms) ==
    LET from[i \in 1..(Len(ms) + 1)] ==
          IF i > Len(ms) THEN <<>>
          ELSE IF FailedPair(ms, i)
               THEN LET j == RunEnd(ms, i) IN <<ms[j], ms[j + 1]>> \o from[j + 2]
               ELSE <<ms[i]>> \o from[i + 1]
    IN  from[1]

\* A tool result that still has its content.
Full(ms, i) == ms[i].role = "tool" /\ ms[i].tokens # Cleared

\* The tokens of the tool results from i on.
TokensFrom(ms, i) ==
    LET sum[k \in 1..(Len(ms) + 1)] ==
          IF k > Len(ms) THEN 0
          ELSE sum[k + 1] + IF Full(ms, k) THEN ms[k].tokens ELSE 0
    IN  sum[i]

\* A mutation of CompactStaleToolResults: the result that breaks the budget
\* stays.
CompactOneLess(ms) ==
    LET over == {i \in DOMAIN ms : Full(ms, i) /\ TokensFrom(ms, i) > Budget}
    IN  [i \in DOMAIN ms |->
            IF Full(ms, i) /\ \E j \in over : i < j
            THEN [ms[i] EXCEPT !.tokens = Cleared, !.fails = FALSE] ELSE ms[i]]

\* L3: the newest result that breaks the budget goes, with all older ones.
CompactStaleToolResults(ms) ==
    LET over == {i \in DOMAIN ms : Full(ms, i) /\ TokensFrom(ms, i) > Budget}
    IN  [i \in DOMAIN ms |->
            IF Full(ms, i) /\ \E j \in over : i <= j
            THEN [ms[i] EXCEPT !.tokens = Cleared, !.fails = FALSE]
            ELSE ms[i]]

\* L4: a summary, then everything from the last assistant message on.
Compress(ms) ==
    LET asst == {i \in DOMAIN ms : ms[i].role = "assistant"}
        recent == IF asst = {} THEN <<>>
                  ELSE SubSeq(ms, CHOOSE i \in asst : \A j \in asst : j <= i, Len(ms))
    IN  SubSeq(ms, 1, sysHead(ms)) \o <<Plain("user")>> \o recent

-------------------------------------------------------------------------------
\* agent/loop.go

\* A MemoryFactory may hand out a memory with a system message in it.
ConvInit ==
    /\ maxSize \in Sizes
    /\ messages \in {<<>>, <<Plain("system")>>}
    /\ at = "idle"
    /\ current = <<>>
    /\ runs = 0 /\ calls = 0 /\ notes = 0
    /\ rewrote = FALSE

\* Session.Run records the user's input.
StartRun ==
    /\ at = "idle"
    /\ runs < MaxRuns
    /\ runs' = runs + 1
    /\ at' = "planning"
    /\ messages' = Add(messages, <<Plain("user")>>)
    /\ current' = <<>>
    /\ rewrote' = FALSE
    /\ UNCHANGED <<calls, notes>>

\* What the model is told: a denial; or a question of the model with its
\* answer, an output of the model with the reason why it is refused.
Notes == {<<Plain("user")>>, <<Plain("assistant"), Plain("user")>>}

Note ==
    /\ at = "planning"
    /\ notes < MaxNotes
    /\ notes' = notes + 1
    /\ \E new \in Notes : messages' = Add(messages, new)
    /\ UNCHANGED <<at, current, runs, calls, rewrote>>

\* The call is granted and goes into the memory.
CallTool(t) ==
    /\ at = "planning"
    /\ calls < MaxCalls
    /\ calls' = calls + 1
    /\ current' = CallOf(calls', t)
    /\ messages' = Add(messages, <<current'>>)
    /\ at' = "executing"
    /\ UNCHANGED <<runs, notes, rewrote>>

\* The evaluator asks for another try of the same call, under the same id.
Retry ==
    /\ at = "evaluating"
    /\ calls < MaxCalls
    /\ calls' = calls + 1
    /\ at' = "executing"
    /\ UNCHANGED <<messages, current, runs, notes, rewrote>>

\* What the memory becomes when it is cleared and written again.
Rewritten(ms) ==
    Add(<<>>, CompactStaleToolResults(PruneConsecutiveFailures(ms)))

\* The result is added, then L1 and L3 rewrite the memory.
Result(fails, n) ==
    /\ at = "executing"
    /\ messages' = Rewritten(
          Add(messages, <<ResultOf(current.call, current.tool, fails, n)>>))
    /\ at' = "evaluating"
    /\ rewrote' = TRUE
    /\ UNCHANGED <<current, runs, calls, notes>>

\* The evaluator is content, or there is none.
Continue ==
    /\ at = "evaluating"
    /\ at' = "planning"
    /\ UNCHANGED <<messages, current, runs, calls, notes, rewrote>>

\* The loop detector refuses the call, or the executor returns an error: the
\* call stays without a result.
Refused ==
    /\ at = "executing"
    /\ at' = "idle"
    /\ UNCHANGED <<messages, current, runs, calls, notes, rewrote>>

CompressContext ==
    /\ at = "planning"
    /\ messages' = Add(<<>>, Compress(messages))
    /\ UNCHANGED <<at, current, runs, calls, notes, rewrote>>

\* The Run ends with an answer or an error.
Finish ==
    /\ at \in {"planning", "evaluating"}
    /\ messages' \in {messages, Add(messages, <<Plain("assistant")>>)}
    /\ at' = "idle"
    /\ UNCHANGED <<current, runs, calls, notes, rewrote>>

\* The context expires in the middle of a handler, and the Run ends.
CutShort ==
    /\ at' = "idle"
    /\ UNCHANGED <<current, runs, calls, notes, rewrote>>
    /\ \/ /\ at = "planning"
          /\ messages' \in AddCutShort(<<>>, Compress(messages))
                \cup UNION {AddCutShort(messages, new) : new \in Notes}
       \/ /\ at = "executing"
          /\ \E fails \in BOOLEAN, n \in 0..MaxTokens :
                LET m == ResultOf(current.call, current.tool, fails, n)
                    ms == Add(messages, <<m>>)
                IN  messages' \in AddCutShort(messages, <<m>>)
                       \cup AddCutShort(<<>>, CompactStaleToolResults(
                                                 PruneConsecutiveFailures(ms)))

ConvNext ==
    /\ UNCHANGED maxSize
    /\ \/ StartRun
       \/ Note
       \/ \E t \in Tools : CallTool(t)
       \/ Retry
       \/ \E fails \in BOOLEAN, n \in 0..MaxTokens : Result(fails, n)
       \/ Continue
       \/ Refused
       \/ CompressContext
       \/ Finish
       \/ CutShort

ConvSpec == ConvInit /\ [][ConvNext]_convVars

-------------------------------------------------------------------------------

\* Everything between the system messages and message i is a tool result.
AtTheCut(i) ==
    \A j \in (sysHead(messages) + 1)..i : messages[j].role = "tool"

(* Providers refuse a tool result without the call it answers.  Pruning,   *)
(* compaction, compression, retries and failed writes never separate the   *)
(* two; only the sliding window does, and only at the place where it cuts. *)
ResultsFollowCalls ==
    \A i \in DOMAIN messages :
        messages[i].role = "tool"
            => \/ \E j \in 1..(i - 1) :
                    messages[j].role = "assistant" /\ messages[j].call = messages[i].call
               \/ maxSize > 0 /\ AtTheCut(i)

(* While a Run is under way the window holds, also after a Run that was    *)
(* cut short has left too many messages behind; leading system messages    *)
(* may exceed it.                                                          *)
WindowBounded ==
    at # "idle" /\ maxSize > 0
        => Len(messages) <= maxSize \/ Len(messages) = sysHead(messages)

(* Whatever the window drops, the latest thing said is in it: the model    *)
(* sees the message that the loop has just written.                        *)
LatestIsKept ==
    at = "executing" /\ ~rewrote /\ maxSize # 1
        => messages[Len(messages)] = current

(* L3 keeps its budget: once a Run has recorded a result, the results that *)
(* the model sees in full fit the budget and are the newest ones.          *)
BudgetRespected ==
    at \in {"evaluating", "planning"} /\ rewrote
        => /\ TokensFrom(messages, 1) <= Budget
           /\ \A i, j \in DOMAIN messages :
                 i < j /\ Full(messages, i) /\ messages[j].role = "tool"
                    => Full(messages, j)

(* L3 clears no more than it must: a result stays, the latest one too, if  *)
(* it fits the budget together with the newer ones.                        *)
CompactExact ==
    \A i \in DOMAIN messages :
        Full(messages, i)
            => (Full(CompactStaleToolResults(messages), i)
                  <=> TokensFrom(messages, i) <= Budget)

\* The failure at i is followed by another one of the same tool.
Superseded(ms, i) ==
    /\ FailedPair(ms, i) /\ FailedPair(ms, i + 2)
    /\ ms[i + 1].tool = ms[i + 3].tool

(* L1 leaves exactly one of several failures in a row of the same tool,    *)
(* the last one, and drops nothing else.                                   *)
PruneExact ==
    LET kept == {i \in DOMAIN messages :
                    ~Superseded(messages, i) /\ ~Superseded(messages, i - 1)}
        pruned == PruneConsecutiveFailures(messages)
    IN  /\ Len(pruned) = Cardinality(kept)
        /\ \A i \in kept : pruned[Cardinality({j \in kept : j <= i})] = messages[i]

(* The messages as the providers' clients see them; the reasoning that goes*)
(* with a call may be blank.                                               *)
Sent(reasoned) ==
    [i \in DOMAIN messages |->
        LET m == messages[i]
        IN  [role |-> m.role, text |-> m.call = 0 \/ reasoned,
             ids |-> IF m.call = 0 THEN <<>> ELSE <<m.call>>]]

(* Whatever trims, rewrites, retries and cuts the conversation has gone    *)
(* through, each client can make a request of it, and the requests say     *)
(* what the conversation says (modelMessagesToAnthropic groups results,    *)
(* modelMessagesToOpenAI does not).                                        *)
RequestFaithful ==
    \A reasoned \in BOOLEAN :
        /\ ~AnthropicRefuses(Sent(reasoned))
        /\ RequestFaithfulTo(Sent(reasoned))

(* The window stays within its size without losing what was said last.    *)
WindowKept == WindowBounded /\ LatestIsKept

(* The rewrite after a tool call (L1 and L3 of the compressor) drops what  *)
(* it should and nothing else.                                             *)
RewriteExact == BudgetRespected /\ CompactExact /\ PruneExact
===============================================================================
