----------------------------- MODULE SummaryMemory -----------------------------
(***************************************************************************)
(* memory/summary.go: a memory that has the model summarise the older part *)
(* of a long history.  One Run of the session uses it at a time; each call *)
(* on the store, and the call of the model, may fail because the context   *)
(* has expired, and what was done before stays done.                       *)
(*                                                                         *)
(* A message is the set of the facts told in it; a summary is a message    *)
(* that tells the facts of all messages it stands for.  The empty summary  *)
(* is the empty string, which Messages does not show.                      *)
(***************************************************************************)
EXTENDS Integers, Sequences

CONSTANTS
    Thresholds,  \* the values given to NewSummary
    MaxFacts,    \* bound: facts told
    MaxFailures  \* bound: calls that fail

ASSUME SummaryAssumption ==
    Thresholds \cup {MaxFacts, MaxFailures} \subseteq Nat

VARIABLES
    threshold,
    store,     \* the messages in the MessageStore
    summary,   \* sm.summary
    pc,        \* the call under way: idle when there is none
    tail,      \* summarizeAndSnapshot: the messages that stay
    saved,     \* runLoop: the messages to be written back
    told,      \* the number of facts told
    failed,    \* the latest call has returned an error
    failures,  \* the number of calls that have
    excused    \* the model gave an empty summary, or a rewrite was cut short

summaryVars == <<threshold, store, summary, pc, tail, saved, told, failed, failures, excused>>

Facts(ms) == UNION {ms[i] : i \in DOMAIN ms}

\* What the model gets to see.
Messages == IF summary = {} THEN store ELSE <<summary>> \o store

SMInit ==
    /\ threshold \in Thresholds
    /\ store = <<>> /\ tail = <<>> /\ saved = <<>>
    /\ summary = {}
    /\ pc = "idle"
    /\ told = 0 /\ failures = 0
    /\ failed = FALSE /\ excused = FALSE

-------------------------------------------------------------------------------
\* Add

Append1 ==
    /\ pc = "idle"
    /\ told < MaxFacts
    /\ told' = told + 1
    /\ failed' = FALSE
    /\ store' = Append(store, {told'})
    /\ pc' = "measure"
    /\ UNCHANGED <<threshold, summary, tail, saved, failures, excused>>

\* A mutation of keepN: what is kept is still too long.
keepTooMuch == threshold + 1

keepN == IF threshold \div 2 < 1 THEN 1 ELSE threshold \div 2

\* The loop of Add: done, or another summary.
Measure ==
    /\ pc = "measure"
    /\ IF threshold = 0 \/ Len(store) <= threshold
       THEN pc' = "idle" /\ tail' = tail
       ELSE /\ pc' = "generate"
            /\ tail' = SubSeq(store, Len(store) - keepN + 1, Len(store))
    /\ UNCHANGED <<threshold, store, summary, saved, told, failed, failures, excused>>

\* A mutation of Generate: the model is not shown the existing summary.
GenerateAfresh ==
    /\ pc = "generate"
    /\ LET head == SubSeq(store, 1, Len(store) - Len(tail))
       IN  \/ summary' = Facts(head) /\ UNCHANGED excused
           \/ summary' = {} /\ excused' = TRUE
    /\ pc' = "replace"
    /\ UNCHANGED <<threshold, store, tail, saved, told, failed, failures>>

\* The model summarises the existing summary and the head; its reply may be
\* empty.  The summary is set before the store is rewritten.
Generate ==
    /\ pc = "generate"
    /\ LET head == SubSeq(store, 1, Len(store) - Len(tail))
       IN  \/ summary' = summary \cup Facts(head) /\ UNCHANGED excused
           \/ summary' = {} /\ excused' = TRUE
    /\ pc' = "replace"
    /\ UNCHANGED <<threshold, store, tail, saved, told, failed, failures>>

Replace ==
    /\ pc = "replace"
    /\ store' = tail
    /\ tail' = <<>>
    /\ pc' = "measure"
    /\ UNCHANGED <<threshold, summary, saved, told, failed, failures, excused>>

-------------------------------------------------------------------------------
\* The loop reads the memory, clears it and writes it again; what its own
\* rewrites drop is the subject of Conversation.

Rewrite ==
    /\ pc = "idle"
    /\ Messages # <<>>
    /\ saved' = Messages
    /\ failed' = FALSE
    /\ pc' = "forget"
    /\ UNCHANGED <<threshold, store, summary, tail, told, failures, excused>>

ClearSummary ==
    /\ pc = "forget"
    /\ summary' = {}
    /\ pc' = "clear"
    /\ UNCHANGED <<threshold, store, tail, saved, told, failed, failures, excused>>

ClearStore ==
    /\ pc = "clear"
    /\ store' = <<>>
    /\ pc' = "write"
    /\ UNCHANGED <<threshold, summary, tail, saved, told, failed, failures, excused>>

\* The summary becomes an ordinary message of the store.
WriteBack ==
    /\ pc = "write"
    /\ store' = saved
    /\ saved' = <<>>
    /\ pc' = "measure"
    /\ UNCHANGED <<threshold, summary, tail, told, failed, failures, excused>>

\* The context expires, or the model fails, before the step at pc: the call
\* returns an error.  Clear drops the summary in any case.
CallFails ==
    /\ pc # "idle"
    /\ failures < MaxFailures
    /\ failures' = failures + 1
    /\ pc' = "idle"
    /\ failed' = TRUE
    /\ tail' = <<>> /\ saved' = <<>>
    /\ summary' = IF pc = "forget" THEN {} ELSE summary
    /\ excused' = (excused \/ pc \in {"forget", "clear", "write"})
    /\ UNCHANGED <<threshold, store, told>>

Steps == Measure \/ Generate \/ Replace \/ ClearSummary \/ ClearStore \/ WriteBack

SMNext == Append1 \/ Rewrite \/ Steps \/ CallFails

\* A call that has begun goes on: every step returns.
SMSpec == SMInit /\ [][SMNext]_summaryVars /\ WF_summaryVars(Steps)

-------------------------------------------------------------------------------

(* Nothing that was told is forgotten: at every step, also after a summary *)
(* that failed half way, each fact is in a message that the model will see *)
(* or that is about to be written back.                                    *)
NothingForgotten == ~excused => 1..told \subseteq Facts(Messages) \cup Facts(saved)

(* The latest message is never summarised away, and what is kept word for  *)
(* word stays in order (a summary whose Replace failed may be among it).   *)
NewestVerbatim ==
    pc \in {"idle", "measure"} /\ told > 0 /\ ~excused
        => /\ Len(store) >= 1
           /\ store[Len(store)] = {told}
           /\ \A i, j \in DOMAIN store, f, g \in 1..told :
                 i < j /\ store[i] = {f} /\ store[j] = {g} => f <= g

(* When Add returns without an error the store fits the threshold.         *)
AddSettles == pc = "idle" /\ ~failed /\ threshold > 0 => Len(store) <= threshold

(* A summary shortens the store and keeps what was told (Add, summarize).  *)
SummaryExact == NothingForgotten /\ NewestVerbatim /\ AddSettles

(* Summaries do not follow one another for ever: every call returns.       *)
AddReturns == []<>(pc = "idle")
===============================================================================
