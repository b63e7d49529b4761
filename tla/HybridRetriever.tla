-------------------------- MODULE HybridRetriever --------------------------
(***************************************************************************)
(* Hybrid retrieval (retriever/hybrid.go): a semantic and a keyword search *)
(* run in two goroutines, and their results are merged by reciprocal rank  *)
(* fusion.                                                                 *)
(*                                                                         *)
(* A document is its id.  Scores are exact: they are multiplied by a common*)
(* denominator, where the code adds two float64.                           *)
(***************************************************************************)
EXTENDS Naturals, Sequences, FiniteSets, Functions, SeqFilter

CONSTANTS
    Ids,             \* the ids documents may have: numbers, in the order of the strings
    MaxDocs,         \* documents one search returns
    K,               \* RRFMerger.K; 0 is replaced by 60
    SemanticWeight, KeywordWeight,   \* if both are 0, both are 1
    HasMerger        \* a merger was given to NewHybridRetriever

ASSUME HybridAssumption ==
    /\ Ids \subseteq 1..49 /\ MaxDocs \in 0..9
    /\ {K, SemanticWeight, KeywordWeight} \subseteq Nat /\ HasMerger \in BOOLEAN

\* The empty id: such documents are told apart by their list and position.
Unnamed == 0
Lists == UNION {[1..n -> Ids \union {Unnamed}] : n \in 0..MaxDocs}

\* "kw:<i>" and "sem:<i>", which are taken to be no document's own id.
NamedAs(list, prefix) ==
    [i \in DOMAIN list |-> IF list[i] = Unnamed THEN prefix + i - 1 ELSE list[i]]
KwPrefix == 50
SemPrefix == 60

rrfK == IF K = 0 THEN 60 ELSE K
Unset == SemanticWeight = 0 /\ KeywordWeight = 0
sw == IF Unset THEN 1 ELSE SemanticWeight
kw == IF Unset THEN 1 ELSE KeywordWeight

\* A multiple of every rrfK + rank.
Denominator ==
    LET product[n \in 0..MaxDocs] == IF n = 0 THEN 1 ELSE product[n - 1] * (rrfK + n)
    IN  product[MaxDocs]

\* What each position of a list adds to a document's score.
contrib(list, weight, id) ==
    [i \in 1..Len(list) |-> IF list[i] = id THEN (weight * Denominator) \div (rrfK + i) ELSE 0]

\* A list may name a document more than once.
Score(sem, key, id) == Total(contrib(sem, sw, id)) + Total(contrib(key, kw, id))

Documents(semantic, keyword) ==
    Range(NamedAs(semantic, SemPrefix)) \union Range(NamedAs(keyword, KwPrefix))

\* Those whose score is better than the one of d, or the same with a smaller id.
Ahead(score, d) ==
    {e \in DOMAIN score : score[e] > score[d] \/ (score[e] = score[d] /\ e < d)}

\* sort.Slice: no two documents have the same id, so their order is the only one.
SortedByScore(score) ==
    [i \in 1..Cardinality(DOMAIN score) |->
        CHOOSE d \in DOMAIN score : Cardinality(Ahead(score, d)) = i - 1]

Merge(semantic, keyword) ==
    LET sem == NamedAs(semantic, SemPrefix)
        key == NamedAs(keyword, KwPrefix)
    IN  SortedByScore([d \in Documents(semantic, keyword) |-> Score(sem, key, d)])

-----------------------------------------------------------------------------
(* Retrieve: two goroutines and a WaitGroup. *)

VARIABLES
    found,    \* per search: its documents so far
    err,      \* per search: it failed
    running,  \* the goroutines that have not called wg.Done
    result    \* what Retrieve returned: a list of ids, or why there is none

hybridVars == <<found, err, running, result>>

Searches == {"semantic", "keyword"}
Waiting == [status |-> "waiting", docs |-> <<>>]
Ok(docs) == [status |-> "ok", docs |-> docs]
Failed(s) == [status |-> s, docs |-> <<>>]

HybridInit ==
    /\ found = [s \in Searches |-> <<>>]
    /\ err = [s \in Searches |-> FALSE]
    /\ running = Searches
    /\ result = Waiting

Search(s, list) ==
    /\ s \in running
    /\ found' = [found EXCEPT ![s] = list]
    /\ running' = running \ {s}
    /\ UNCHANGED <<err, result>>

SearchFails(s) ==
    /\ s \in running
    /\ err' = [err EXCEPT ![s] = TRUE]
    /\ running' = running \ {s}
    /\ UNCHANGED <<found, result>>

\* Mutant: wg.Add(1).
JoinedOne == running # Searches

Joined == running = {}

Outcome ==
    IF err["semantic"] /\ err["keyword"] THEN Failed("both")
    ELSE IF err["semantic"] THEN Failed("semantic")
    ELSE IF err["keyword"] THEN Failed("keyword")
    ELSE IF ~ HasMerger THEN Ok(found["semantic"] \o found["keyword"])
    ELSE Ok(Merge(found["semantic"], found["keyword"]))

Retrieve ==
    /\ result = Waiting
    /\ Joined
    /\ result' = Outcome
    /\ UNCHANGED <<found, err, running>>

HybridNext ==
    \/ \E s \in Searches : SearchFails(s) \/ \E list \in Lists : Search(s, list)
    \/ Retrieve

HybridSpec == HybridInit /\ [][HybridNext]_hybridVars

-----------------------------------------------------------------------------
(* Properties. *)

Returned == result.status = "ok"
Position(id) == CHOOSE i \in DOMAIN result.docs : result.docs[i] = id
Once(list, id) == \A i, j \in DOMAIN list : list[i] = id /\ list[j] = id => i = j
RankIn(list, id) ==
    CHOOSE i \in DOMAIN list : list[i] = id /\ \A j \in DOMAIN list : list[j] = id => i <= j
Weight(s) == IF s = "semantic" THEN sw ELSE kw

\* The searches that y has a score from.
Votes(y) == {s \in Searches : Weight(s) > 0 /\ y \in Range(found[s])}

\* Retrieve answers for both searches as they ended, however the goroutines are
\* scheduled: it reports a failure if either failed, and otherwise each document
\* either search found, documents without an id all separately, exactly once.
EachDocumentOnce ==
    /\ Returned => ~ err["semantic"] /\ ~ err["keyword"]
    /\ Returned /\ HasMerger =>
         /\ \A i, j \in DOMAIN result.docs : result.docs[i] = result.docs[j] => i = j
         /\ Range(result.docs) \ (KwPrefix..(SemPrefix + MaxDocs))
              = (Range(found["semantic"]) \union Range(found["keyword"])) \ {Unnamed}
         /\ Cardinality(Range(result.docs) \intersect (KwPrefix..(SemPrefix + MaxDocs)))
              = Cardinality({i \in DOMAIN found["semantic"] : found["semantic"][i] = Unnamed})
                + Cardinality({i \in DOMAIN found["keyword"] : found["keyword"][i] = Unnamed})

\* What both searches prefer, the merged list prefers: if x stands before y in
\* each list that has y and a weight, at whatever distance, x comes before y.
PreferenceKept ==
    Returned /\ HasMerger =>
      \A x, y \in Range(result.docs) \intersect Ids :
        /\ Votes(y) # {}
        /\ \A s \in Votes(y) :
             /\ x \in Range(found[s])
             /\ Once(found[s], y)
             /\ RankIn(found[s], x) < RankIn(found[s], y)
        => Position(x) < Position(y)

\* The fused list has all the documents and respects what both searches say.
FusionExact == EachDocumentOnce /\ PreferenceKept
=============================================================================
