------------------------------ MODULE Retrieval ------------------------------
(***************************************************************************)
(* Documents in a vector store and searches in it: the embedder            *)
(* (retriever/embedder/openai.go), the Chroma store                        *)
(* (retriever/vectorstore/chroma.go), semantic and keyword retrieval       *)
(* (retriever/semantic.go, keyword.go) and the tool the agent calls        *)
(* (retriever/rag_tool.go).                                                *)
(*                                                                         *)
(* Callers use stores, which may be one and the same: a store has a lock   *)
(* for finding its collection and remembers the collection's id for good.  *)
(* The server is shared, other clients may delete the collection, and any  *)
(* request or answer may be lost.                                          *)
(*                                                                         *)
(* A text is a number, which is also its embedding; the distance of two    *)
(* texts is their difference.                                              *)
(***************************************************************************)
EXTENDS Integers, Sequences, Functions, SeqFilter

CONSTANTS
    Workers, Stores,   \* numbers
    Batches,     \* the documents of an upsert: sequences of id and text (an
                 \* upsert of no documents returns at once)
    Queries,     \* texts asked for
    Reaches,     \* the distances that a MinScore stands for
    TopK,        \* SearchOptions.TopK; 5 if it is not positive
    MaxJobs, MaxDrops   \* bounds: calls, deletions of the collection

ASSUME RetrievalAssumption ==
    /\ Queries \cup Reaches \cup {MaxJobs, MaxDrops} \subseteq Nat /\ TopK \in Int
    /\ Workers \subseteq Nat \ {0} /\ Batches \subseteq Seq([id : Nat, text : Nat]) \ {<<>>}

NoColl == 0
Anonymous == 0   \* the empty id of a document
NoReach == -1    \* MinScore not set

Idle == [kind |-> "idle", docs |-> <<>>, query |-> 0, reach |-> NoReach]
Upserting(b) == [kind |-> "upsert", docs |-> b, query |-> 0, reach |-> NoReach]
Searching(q, r) == [kind |-> "search", docs |-> <<>>, query |-> q, reach |-> r]

VARIABLES
    storeOf,   \* the store each caller uses
    coll,      \* server: the id of the collection of the name, if there is one
    made,      \* server: collections created so far
    stored,    \* server: per key of the collection, text and vector
    collID,    \* per store: the remembered id
    mu,        \* per store: who holds the lock, if anybody
    job,       \* per caller: what it was called with
    pos,       \* per caller: where it is
    vecs,      \* per caller: what the embedder returned
    useID,     \* per caller: the collection id ensureCollection returned
    got,       \* per caller: the documents of its latest search
    jobs, drops,
    promised   \* <<collection, key>> of documents whose upsert returned nil

retrievalVars == <<storeOf, coll, made, stored, collID, mu, job, pos, vecs, useID, got,
                   jobs, drops, promised>>

Nobody == 0

RetrievalInit ==
    /\ storeOf \in [Workers -> Stores]
    /\ coll = NoColl /\ made = 0
    /\ stored = << >>
    /\ collID = [s \in Stores |-> NoColl]
    /\ mu = [s \in Stores |-> Nobody]
    /\ job = [c \in Workers |-> Idle]
    /\ pos = [c \in Workers |-> "idle"]
    /\ vecs = [c \in Workers |-> <<>>]
    /\ useID = [c \in Workers |-> NoColl]
    /\ got = [c \in Workers |-> <<>>]
    /\ jobs = 0 /\ drops = 0
    /\ promised = {}

server == <<coll, made, stored, drops>>
Go(c, p) == pos' = [pos EXCEPT ![c] = p]

-----------------------------------------------------------------------------
\* The embedder

TextsOf(j) == IF j.kind = "search" THEN <<j.query>> ELSE [i \in DOMAIN j.docs |-> j.docs[i].text]

\* A call of RAGTool.Execute with a query and a MinScore (its other inputs are
\* errors), or an upsert of a batch with the embeddings of its texts.
BeginJob(c) ==
    /\ pos[c] = "idle" /\ jobs < MaxJobs
    /\ jobs' = jobs + 1
    /\ \/ \E b \in Batches : job' = [job EXCEPT ![c] = Upserting(b)]
       \/ \E q \in Queries, r \in Reaches \cup {NoReach} :
            job' = [job EXCEPT ![c] = Searching(q, r)]
    /\ Go(c, "embed")
    /\ got' = [got EXCEPT ![c] = <<>>]
    /\ UNCHANGED <<storeOf, server, collID, mu, vecs, useID, promised>>

\* A mutation of byIndex: the vectors as they came.
asTheyCame(data) == [i \in DOMAIN data |-> data[i].vec]

\* The vectors in the order of their indices.
byIndex(data) ==
    LET sorted == CHOOSE s \in [DOMAIN data -> Range(data)] :
                     \A i, j \in DOMAIN data : i < j => s[i].index < s[j].index
    IN  [i \in DOMAIN data |-> sorted[i].vec]

\* The answer has a vector for each text, in any order.
Embed(c) ==
    /\ pos[c] = "embed"
    /\ LET texts == TextsOf(job[c])
       IN  \E order \in Bijection(DOMAIN texts, DOMAIN texts) :
              vecs' = [vecs EXCEPT ![c] =
                          byIndex([i \in DOMAIN texts |->
                                      [index |-> order[i], vec |-> texts[order[i]]]])]
    /\ Go(c, "ensure")
    /\ UNCHANGED <<storeOf, server, collID, mu, job, useID, got, jobs, promised>>

-----------------------------------------------------------------------------
\* ensureCollection, under the store's lock

Lock(c) ==
    /\ pos[c] = "ensure" /\ mu[storeOf[c]] = Nobody
    /\ IF collID[storeOf[c]] # NoColl
       THEN /\ useID' = [useID EXCEPT ![c] = collID[storeOf[c]]]
            /\ Go(c, "send") /\ UNCHANGED mu
       ELSE /\ mu' = [mu EXCEPT ![storeOf[c]] = c]
            /\ Go(c, "list") /\ UNCHANGED useID
    /\ UNCHANGED <<storeOf, server, collID, job, vecs, got, jobs, promised>>

Remember(c, id) ==
    /\ collID' = [collID EXCEPT ![storeOf[c]] = id]
    /\ useID' = [useID EXCEPT ![c] = id]
    /\ mu' = [mu EXCEPT ![storeOf[c]] = Nobody]
    /\ Go(c, "send")

\* The server's list has the collection, or it has not.
List(c) ==
    /\ pos[c] = "list"
    /\ IF coll # NoColl
       THEN Remember(c, coll)
       ELSE Go(c, "create") /\ UNCHANGED <<collID, useID, mu>>
    /\ UNCHANGED <<storeOf, server, job, vecs, got, jobs, promised>>

\* The server makes no second collection of a name.
CreateCollection(c) ==
    /\ pos[c] = "create" /\ coll = NoColl
    /\ made' = made + 1 /\ coll' = made'
    /\ stored' = << >>
    /\ \/ Remember(c, coll')
       \/ /\ mu' = [mu EXCEPT ![storeOf[c]] = Nobody]   \* its answer is lost
          /\ Go(c, "idle") /\ UNCHANGED <<collID, useID>>
    /\ UNCHANGED <<storeOf, drops, job, vecs, got, jobs, promised>>

-----------------------------------------------------------------------------
\* Upsert and Search

\* Documents without an id are called after their place in the batch.
Keys(docs) ==
    [i \in DOMAIN docs |-> IF docs[i].id = Anonymous THEN <<"doc", i>> ELSE <<"id", docs[i].id>>]

\* A status from 200 to 299: the collection is there.
Acknowledged(c) == useID[c] = coll

Upsert(c) ==
    /\ pos[c] = "send" /\ job[c].kind = "upsert"
    /\ LET docs == job[c].docs
           key == Keys(docs)
           at(k) == CHOOSE i \in DOMAIN docs : key[i] = k
           new == [k \in {key[i] : i \in DOMAIN docs} |->
                      [text |-> docs[at(k)].text, vec |-> vecs[c][at(k)]]]
       IN  /\ stored' = IF useID[c] # coll THEN stored
                        ELSE [k \in DOMAIN stored \cup DOMAIN new |->
                                 IF k \in DOMAIN new THEN new[k] ELSE stored[k]]
           /\ promised' \in
                IF Acknowledged(c)
                THEN {promised, promised \cup {<<useID[c], key[i]>> : i \in DOMAIN docs}}
                ELSE {promised}
    /\ Go(c, "idle")
    /\ UNCHANGED <<storeOf, coll, made, drops, collID, mu, job, vecs, useID, got, jobs>>

Dist(q, k) == LET d == q - stored[k].vec IN IF d < 0 THEN -d ELSE d
Limit == IF TopK <= 0 THEN 5 ELSE TopK

\* The server's answer: as many keys as it was asked for, or all it has, the
\* nearest first.
Nearest(q) ==
    {near \in UNION {[1..n -> DOMAIN stored] : n \in 0..Limit} :
        /\ IsInjective(near)
        /\ \A i, j \in DOMAIN near : i < j => Dist(q, near[i]) <= Dist(q, near[j])
        /\ \A k \in DOMAIN stored \ Range(near) :
              Len(near) = Limit /\ \A i \in DOMAIN near : Dist(q, near[i]) <= Dist(q, k)}

\* Search of the store, and the filter of Retrieve: the score is 1 / (1 + distance).
SearchStore(c) ==
    /\ pos[c] = "send" /\ job[c].kind = "search"
    /\ Acknowledged(c)
    /\ LET q == vecs[c][1]
       IN  \E near \in Nearest(q) :
              LET hits == [i \in DOMAIN near |->
                              [key |-> near[i], text |-> stored[near[i]].text,
                               dist |-> Dist(q, near[i])]]
              IN  got' = [got EXCEPT ![c] =
                             IF job[c].reach = NoReach THEN hits
                             ELSE SelectIn(hits, {h \in Range(hits) : h.dist <= job[c].reach})]
    /\ Go(c, "idle")
    /\ UNCHANGED <<storeOf, server, collID, mu, job, vecs, useID, jobs, promised>>

\* A request is lost or answered with an error, at any of these places; the lock
\* is given back.
JobFails(c) ==
    /\ pos[c] \in {"embed", "list", "create", "send"}
    /\ mu' = [mu EXCEPT ![storeOf[c]] = IF @ = c THEN Nobody ELSE @]
    /\ Go(c, "idle")
    /\ UNCHANGED <<storeOf, server, collID, job, vecs, useID, got, jobs, promised>>

\* Another client deletes the collection.
Drop ==
    /\ coll # NoColl /\ drops < MaxDrops
    /\ drops' = drops + 1
    /\ coll' = NoColl /\ stored' = << >>
    /\ UNCHANGED <<storeOf, made, collID, mu, job, pos, vecs, useID, got, jobs, promised>>

RetrievalNext ==
    \/ \E c \in Workers :
          \/ BeginJob(c) \/ Embed(c) \/ Lock(c) \/ List(c) \/ CreateCollection(c)
          \/ Upsert(c) \/ SearchStore(c) \/ JobFails(c)
    \/ Drop

RetrievalSpec == RetrievalInit /\ [][RetrievalNext]_retrievalVars

-----------------------------------------------------------------------------

(* A document is stored under the embedding of its own text, in whichever  *)
(* order the embeddings came.                                              *)
VectorsFit == \A k \in DOMAIN stored : stored[k].vec = stored[k].text

(* What was upserted without an error is in the collection as long as that *)
(* exists: no store writes into a collection that is gone, or into one of  *)
(* its own, without being told.                                            *)
NoSilentLoss ==
    \A p \in promised : p[1] = coll => p[2] \in DOMAIN stored

(* Stores of one name share one collection, however their first calls      *)
(* interleave.  (Once the collection has been deleted, a store keeps the   *)
(* old id for good and every call of it fails.)                            *)
OneCollection ==
    drops = 0 => \A s \in Stores : collID[s] \in {NoColl, coll}

(* A search returns documents with their own texts and nothing beyond the  *)
(* reach that was asked for.                                               *)
HitsFit ==
    \A c \in Workers : \A i \in DOMAIN got[c] :
        LET h == got[c][i]
            d == job[c].query - h.text
        IN  /\ h.dist \in {d, -d}
            /\ job[c].reach # NoReach => h.dist <= job[c].reach
            /\ Len(got[c]) <= Limit

(* Retrieval finds what was stored, by what it says.                       *)
RetrievalExact == VectorsFit /\ NoSilentLoss /\ OneCollection /\ HitsFit
=============================================================================
