-------------------------- MODULE TruncatedResults --------------------------
(***************************************************************************)
(* Long tool results: cut to toolResultMaxLen before they enter memory     *)
(* (memory/compressor.go), kept whole in the session's ContentStore under  *)
(* the tool call's id (memory/content_store.go), and fetched again by the  *)
(* fetch_full_result tool, whose results go through the same cut           *)
(* (agent/loop.go, StateExecuting).                                        *)
(*                                                                         *)
(* A character says where it comes from: <<"output", n, i>> is the i-th of *)
(* the output of execution n, "notice" one of the notice, whose wording    *)
(* has a fixed length here, "warning" stands for the loop detector's text. *)
(* A call id is the number of the planned call (tc_<iteration>_<time> in   *)
(* the code).                                                              *)
(***************************************************************************)
EXTENDS Naturals, Sequences, SequencesExt

CONSTANTS
    MaxLens,        \* the values of toolResultMaxLen
    NoticeLen,     \* length of the notice that a result was cut
    Lengths,       \* lengths of the outputs of tools
    MayFail,       \* a Store or Load may fail: the disk, or an ended context
    MaxExecutions       \* bound: executions

ASSUME TruncatedAssumption ==
    /\ MaxLens \subseteq Nat \ {0, 1} /\ NoticeLen \in Nat \ {0} /\ MaxExecutions \in Nat
    /\ Lengths \subseteq Nat
    /\ MayFail \in BOOLEAN

Calls == 1 .. MaxExecutions
NoContent == <<<<"absent", 0, 0>>>>
NotFound == <<<<"error", 0, 1>>>>
LoopWarning == <<"warning", 0, 1>>

VARIABLES
    maxLen,        \* toolResultMaxLen, fixed for an agent
    results,       \* the tool messages so far, each with what it was made from
    contents,      \* the ContentStore: call id -> content
    planned        \* tool calls planned; the latest is the one a retry repeats

truncVars == <<maxLen, results, contents, planned>>

Output(n, len) == [i \in 1 .. len |-> <<"output", n, i>>]
Notice == [i \in 1 .. NoticeLen |-> <<"notice", 0, i>>]

\* Four fifths of the budget from the start, the rest from the end.
Keep(content, budget, between) ==
    LET head == (budget * 80) \div 100
        tail == budget - head
    IN  SubSeq(content, 1, head) \o between
          \o SubSeq(content, Len(content) - tail + 1, Len(content))

Cut(content) == Len(content) > maxLen

\* When the notice leaves less than two characters it is left out.
Shown(content) ==
    CASE ~ Cut(content)          -> content
      [] Cut(content) /\ maxLen < NoticeLen + 2 -> Keep(content, maxLen, <<>>)
      [] OTHER                   -> Keep(content, maxLen - NoticeLen, Notice)

\* Store of either content store, as the set of contents it may leave.  An ended
\* context leaves what was there; os.WriteFile empties the file first, so a disk
\* that fails leaves some beginning of the content.
StoreContent(id, content, ok) ==
    IF ok THEN {[contents EXCEPT ![id] = content]}
    ELSE {contents}
           \cup {[contents EXCEPT ![id] = SubSeq(content, 1, n)] : n \in 0 .. Len(content)}

\* Mutant: what is stored is the text after the cut.
StoredCut(content, id, ok) ==
    IF Cut(content) THEN StoreContent(id, Shown(content), ok) ELSE {contents}

\* The whole content is stored before the cut; an error is ignored.
Stored(content, id, ok) ==
    IF Cut(content) THEN StoreContent(id, content, ok) ELSE {contents}

\* The tool message of one execution.
Record(id, of, content, ok, warn) ==
    /\ results' = Append(results,
           [id |-> id, of |-> of, full |-> content, kept |-> ok,
            text |-> (IF warn THEN <<LoopWarning>> ELSE <<>>) \o Shown(content)])
    /\ contents' \in Stored(content, id, ok)

\* A planned call gets a fresh id, a retry of the evaluator the id of the call
\* it repeats.
Id(retry) == IF retry THEN planned ELSE planned + 1

ExecuteTool(retry, len, ok, warn) ==
    /\ Len(results) < MaxExecutions
    /\ retry => planned > 0 /\ Last(results).of = 0
    /\ planned' = Id(retry)
    /\ UNCHANGED maxLen
    /\ Record(Id(retry), 0, Output(Len(results) + 1, len), ok, warn)

\* Load of either content store: not found, or the content under the id.
Load(id) == contents[id]

\* fetch_full_result of an id the model chose: its result is cut and stored
\* like any other.  The executor runs it as any tool, so may a retry.
FetchFullResult(retry, id, found, ok, warn) ==
    /\ Len(results) < MaxExecutions
    /\ retry => planned > 0 /\ Last(results).of = id
    /\ planned' = Id(retry)
    /\ UNCHANGED maxLen
    /\ LET missing == Load(id) = NoContent \/ ~ found
       IN  Record(Id(retry), id, IF missing THEN NotFound ELSE Load(id), ok, warn)

TruncInit ==
    /\ maxLen \in MaxLens
    /\ results = <<>>
    /\ contents = [id \in Calls |-> NoContent]
    /\ planned = 0

Works == IF MayFail THEN BOOLEAN ELSE {TRUE}

TruncNext ==
    \/ \E retry, warn \in BOOLEAN, len \in Lengths, ok \in Works : ExecuteTool(retry, len, ok, warn)
    \/ \E retry, warn \in BOOLEAN, id \in Calls, found, ok \in Works :
          FetchFullResult(retry, id, found, ok, warn)

TruncSpec == TruncInit /\ [][TruncNext]_truncVars

-----------------------------------------------------------------------------
\* A message without the loop warning put before it.
Body(r) == IF r.text # <<>> /\ Head(r.text) = LoopWarning THEN Tail(r.text) ELSE r.text
WasCut(r) == Body(r) # r.full

\* What a message shows of a tool's output is never longer than the limit, but
\* for the loop warning put before it, and a cut one still has the first and the
\* last character of the output (TruncateToolResult's head and tail).  How much a
\* message shows of what was fetched is left open: the loop cuts it again, the
\* notice promises all of it.
CutWithinLimit ==
    \A n \in DOMAIN results :
        LET r == results[n]
        IN  r.of = 0 =>
              /\ Len(Body(r)) <= maxLen
              /\ WasCut(r) => Head(Body(r)) = Head(r.full) /\ Last(Body(r)) = Last(r.full)

\* The id of a cut result leads to its whole content, as long as the store
\* worked and no later execution had the same id.
NoticeLoads ==
    \A n \in DOMAIN results :
        LET r == results[n]
        IN  (/\ WasCut(r) /\ r.kept
             /\ \A k \in DOMAIN results : k > n => results[k].id # r.id)
            => contents[r.id] = r.full

\* What a fetch finds under an id is what a cut result with that id was made
\* from, whole if its Store worked, else at most shorter.  However long the
\* chain of fetches, it is a beginning of one output of a tool, and all of it if
\* no Store has failed.
FetchedIsOriginal ==
    \A n \in DOMAIN results :
        LET r == results[n]
            before == 1 .. (n - 1)
        IN  r.of # 0 /\ r.full # NotFound =>
              /\ \E k \in before : /\ results[k].id = r.of /\ WasCut(results[k])
                                  /\ IsPrefix(r.full, results[k].full)
                                  /\ results[k].kept => r.full = results[k].full
              /\ \E k \in before : /\ results[k].of = 0 /\ IsPrefix(r.full, results[k].full)
                                  /\ (\A m \in before : results[m].kept) => r.full = results[k].full

\* A long result is shown within the limit, and nothing of it is lost unless the
\* store fails: its id leads to the whole (TruncateToolResult, ContentStore,
\* fetch_full_result).
ResultsKept == CutWithinLimit /\ NoticeLoads /\ FetchedIsOriginal
=============================================================================
