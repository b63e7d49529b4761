----------------------------- MODULE MemoryProofs -----------------------------
(***************************************************************************)
(* The safety of what a session remembers, for every value of the          *)
(* constants: the summarising memory and the conversation.                 *)
(***************************************************************************)
EXTENDS Conversation, SummaryMemory, TruncatedResults, RequestsProofs,
        SequenceTheorems, FiniteSetTheorems, WellFoundedInduction, TLAPS

-------------------------------------------------------------------------------
\* The summarising memory.

Telling == Seq(SUBSET Nat)

(* The facts of a message put before others are added to theirs.           *)
LEMMA FactsOfFirst ==
    ASSUME NEW s \in Telling, NEW a \in SUBSET Nat
    PROVE  /\ <<a>> \o s \in Telling
           /\ Facts(<<a>> \o s) = a \cup Facts(s)
  <1> DEFINE t == <<a>> \o s
  <1>1. t \in Seq(SUBSET Nat) /\ Len(t) = Len(s) + 1 /\ t[1] = a
        /\ \A i \in 1..Len(s) : t[i + 1] = s[i]
    BY DEF Telling
  <1>2. \A i \in 1..Len(t) : i = 1 \/ (i - 1 \in 1..Len(s) /\ t[i] = s[i - 1])
    BY <1>1 DEF Telling
  <1>3. DOMAIN t = 1..Len(t) /\ DOMAIN s = 1..Len(s) /\ Len(s) \in Nat
    BY <1>1 DEF Telling
  <1> HIDE DEF t
  <1>4. Facts(t) \subseteq a \cup Facts(s)
    <2> SUFFICES ASSUME NEW i \in 1..Len(t) PROVE t[i] \subseteq a \cup Facts(s)
      BY <1>3 DEF Facts
    <2>1. CASE i = 1
      BY <1>1, <2>1
    <2>2. CASE i # 1
      <3>1. i - 1 \in DOMAIN s /\ t[i] = s[i - 1]
        BY <1>2, <1>3, <2>2
      <3> QED BY <3>1 DEF Facts
    <2> QED BY <2>1, <2>2
  <1>5. a \subseteq Facts(t)
    BY <1>1, <1>3 DEF Facts
  <1>6. ASSUME NEW i \in 1..Len(s) PROVE s[i] \subseteq Facts(t)
    <2>1. i + 1 \in DOMAIN t /\ t[i + 1] = s[i]
      BY <1>1, <1>3, <1>6
    <2> QED BY <2>1 DEF Facts
  <1>7. Facts(s) \subseteq Facts(t)
    BY <1>3, <1>6 DEF Facts
  <1> QED BY <1>1, <1>4, <1>5, <1>7 DEF t, Telling

(* The same for a message put behind others.                               *)
LEMMA FactsOfLast ==
    ASSUME NEW s \in Telling, NEW a \in SUBSET Nat
    PROVE  /\ Append(s, a) \in Telling
           /\ Facts(s) \cup a \subseteq Facts(Append(s, a))
  <1> DEFINE t == Append(s, a)
  <1>1. /\ t \in Seq(SUBSET Nat) /\ Len(t) = Len(s) + 1 /\ t[Len(s) + 1] = a
        /\ \A i \in 1..Len(s) : t[i] = s[i]
        /\ DOMAIN t = 1..(Len(s) + 1) /\ DOMAIN s = 1..Len(s) /\ Len(s) \in Nat
    BY DEF Telling
  <1> HIDE DEF t
  <1>2. Len(s) + 1 \in DOMAIN t /\ \A i \in DOMAIN s : i \in DOMAIN t
    BY <1>1
  <1>3. a \subseteq Facts(t)
    BY <1>1, <1>2 DEF Facts
  <1>4. Facts(s) \subseteq Facts(t)
    BY <1>1, <1>2 DEF Facts
  <1> QED BY <1>1, <1>3, <1>4 DEF t, Telling

(* The facts of a sequence are in its first n messages or in the others.   *)
LEMMA FactsSplit ==
    ASSUME NEW s \in Telling, NEW n \in 0..Len(s)
    PROVE  Facts(s) \subseteq Facts(SubSeq(s, 1, n)) \cup Facts(SubSeq(s, n + 1, Len(s)))
  <1> DEFINE p == SubSeq(s, 1, n)
             q == SubSeq(s, n + 1, Len(s))
  <1>1. /\ Len(p) = n /\ DOMAIN p = 1..n /\ \A i \in 1..n : p[i] = s[i]
        /\ DOMAIN q = 1..(Len(s) - n) /\ \A i \in 1..(Len(s) - n) : q[i] = s[n + i]
        /\ DOMAIN s = 1..Len(s) /\ Len(s) \in Nat /\ n \in Nat
    BY DEF Telling
  <1> HIDE DEF p, q
  <1>2. ASSUME NEW i \in 1..Len(s) PROVE s[i] \subseteq Facts(p) \cup Facts(q)
    <2>1. CASE i <= n
      <3>1. i \in DOMAIN p /\ p[i] = s[i]
        BY <1>1, <1>2, <2>1
      <3> QED BY <3>1 DEF Facts
    <2>2. CASE i > n
      <3>1. i - n \in DOMAIN q /\ q[i - n] = s[i]
        BY <1>1, <1>2, <2>2
      <3> QED BY <3>1 DEF Facts
    <2> QED BY <1>1, <1>2, <2>1, <2>2
  <1>3. Facts(s) \subseteq Facts(p) \cup Facts(q)
    BY <1>1, <1>2 DEF Facts
  <1> QED BY <1>3 DEF p, q

\* Nothing of s is empty, its last message is the latest one told, and what it
\* tells word for word is in order.
Kept(s) ==
    /\ \A i \in 1..Len(s) : s[i] # {}
    /\ told > 0 => Len(s) >= 1 /\ s[Len(s)] = {told}
    /\ \A i, j \in 1..Len(s), f, g \in Nat : i < j /\ s[i] = {f} /\ s[j] = {g} => f <= g

\* A summary of a single fact is of one not newer than those of s.
NotNewer(a, s) == \A i \in 1..Len(s), f, g \in Nat : a = {f} /\ s[i] = {g} => f <= g

KnownFacts(s) == \A i \in 1..Len(s) : s[i] \subseteq 1..told

SMTypes ==
    /\ threshold \in Nat /\ told \in Nat
    /\ pc \in {"idle", "measure", "generate", "replace", "forget", "clear", "write"}
    /\ summary \in SUBSET (1..told)
    /\ store \in Telling /\ tail \in Telling /\ saved \in Telling
    /\ KnownFacts(store) /\ KnownFacts(saved)

\* The length of what is summarised.
HeadLen == Len(store) - keepN

\* While the memory is rewritten the messages are in saved, else in the store.
SMInv ==
    /\ SMTypes
    /\ pc \in {"generate", "replace"} =>
         /\ threshold > 0 /\ Len(store) > threshold
         /\ tail = SubSeq(store, HeadLen + 1, Len(store))
    /\ pc \in {"clear", "write"} => summary = {}
    /\ ~excused =>
         /\ pc \notin {"forget", "clear", "write"} =>
              Kept(store) /\ NotNewer(summary, store) /\ 1..told \subseteq summary \cup Facts(store)
         /\ pc = "replace" => Facts(SubSeq(store, 1, HeadLen)) \subseteq summary
         /\ pc \in {"forget", "clear", "write"} => Kept(saved) /\ 1..told \subseteq Facts(saved)
    /\ AddSettles

(* What is kept is not empty and shorter than what was there.              *)
LEMMA KeepIs ==
    ASSUME threshold \in Nat, threshold > 0
    PROVE  keepN \in 1..threshold
  BY DEF keepN

(* The memory starts with SMInv.                                           *)
LEMMA SMInvInit == SMInit => SMInv
  <1> SUFFICES ASSUME SMInit PROVE SMInv
    OBVIOUS
  <1>1. SMTypes
    BY SummaryAssumption DEF SMInit, SMTypes, Telling, KnownFacts
  <1>2. Kept(store) /\ NotNewer(summary, store) /\ 1..told \subseteq summary \cup Facts(store)
    BY DEF SMInit, Kept, NotNewer
  <1> QED BY <1>1, <1>2, SummaryAssumption DEF SMInit, SMInv, AddSettles

(* A message is added.                                                     *)
LEMMA Append1Keeps == ASSUME SMInv, Append1 PROVE SMInv'
  <1> DEFINE a == {told'}
  <1>1. /\ told \in Nat /\ told' = told + 1 /\ a \in SUBSET Nat /\ store \in Telling
        /\ store' = Append(store, a) /\ pc' = "measure" /\ pc = "idle"
        /\ UNCHANGED <<threshold, summary, tail, saved, excused>>
    BY DEF Append1, SMInv, SMTypes
  <1>2. /\ Len(store') = Len(store) + 1 /\ store'[Len(store) + 1] = a
        /\ \A i \in 1..Len(store) : store'[i] = store[i]
        /\ Len(store) \in Nat
    BY <1>1 DEF Telling
  <1>3. store' \in Telling /\ Facts(store) \cup a \subseteq Facts(store')
    BY <1>1, FactsOfLast
  <1> HIDE DEF a
  <1>4. a = {told'} /\ a # {} /\ a \subseteq 1..told'
    BY <1>1 DEF a
  <1>5. SMTypes'
    <2>1. KnownFacts(store)' /\ KnownFacts(saved)' /\ summary' \in SUBSET (1..told')
      BY <1>1, <1>2, <1>4 DEF SMInv, SMTypes, KnownFacts
    <2> QED BY <1>1, <1>3, <2>1 DEF SMInv, SMTypes
  <1>6. ASSUME ~excused
        PROVE  /\ Kept(store)' /\ NotNewer(summary, store)'
               /\ (1..told)' \subseteq summary' \cup Facts(store')
    <2>1. /\ Kept(store) /\ NotNewer(summary, store) /\ 1..told \subseteq summary \cup Facts(store)
          /\ KnownFacts(store) /\ summary \subseteq 1..told
      BY <1>1, <1>6 DEF SMInv, SMTypes
    <2>2. \A i \in 1..Len(store), f \in Nat : store[i] = {f} => f <= told
      BY <1>1, <2>1 DEF KnownFacts
    <2>3. \A g \in Nat : a = {g} => g = told + 1
      BY <1>1, <1>4
    <2>0. \A i \in 1..Len(store') :
              \/ i \in 1..Len(store) /\ store'[i] = store[i]
              \/ i = Len(store) + 1 /\ store'[i] = a
      BY <1>2
    <2>4. ASSUME NEW i \in 1..Len(store'), NEW j \in 1..Len(store'), NEW f \in Nat, NEW g \in Nat,
                 i < j, store'[i] = {f}, store'[j] = {g}
          PROVE  f <= g
      <3>1. i \in 1..Len(store) /\ store[i] = {f}
        BY <1>2, <2>0, <2>4
      <3>2. CASE j \in 1..Len(store) /\ store'[j] = store[j]
        BY <2>1, <2>4, <3>1, <3>2 DEF Kept
      <3>3. CASE j = Len(store) + 1 /\ store'[j] = a
        BY <1>1, <2>2, <2>3, <2>4, <3>1, <3>3
      <3> QED BY <2>0, <2>4, <3>2, <3>3
    <2>5. Kept(store)'
      <3>1. \A i \in 1..Len(store') : store'[i] # {}
        BY <1>4, <2>0, <2>1 DEF Kept
      <3>2. Len(store') >= 1 /\ store'[Len(store')] = {told'}
        BY <1>2, <1>4
      <3> QED BY <2>4, <3>1, <3>2 DEF Kept
    <2>6. \A f \in Nat : summary = {f} => f <= told
      BY <1>1, <2>1
    <2>7. NotNewer(summary, store)'
      <3> SUFFICES ASSUME NEW i \in 1..Len(store'), NEW f \in Nat, NEW g \in Nat,
                          summary = {f}, store'[i] = {g}
                   PROVE  f <= g
        BY <1>1 DEF NotNewer
      <3>1. CASE i \in 1..Len(store) /\ store'[i] = store[i]
        BY <2>1, <3>1 DEF NotNewer
      <3>2. CASE store'[i] = a
        BY <1>1, <2>3, <2>6, <3>2
      <3> QED BY <2>0, <3>1, <3>2
    <2>8. (1..told)' \subseteq 1..told \cup a
      BY <1>1, <1>4
    <2> QED BY <1>1, <1>3, <2>1, <2>5, <2>7, <2>8
  <1> QED BY <1>1, <1>5, <1>6 DEF SMInv, AddSettles

(* Add measures the store.                                                 *)
LEMMA MeasureKeeps == ASSUME SMInv, Measure PROVE SMInv'
  <1>1. /\ UNCHANGED <<threshold, store, summary, saved, told, failed, excused>>
        /\ pc = "measure" /\ pc' \in {"idle", "generate"}
    BY DEF Measure
  <1>2. tail' \in Telling
    <2>1. CASE threshold > 0 /\ Len(store) > threshold /\ tail' = SubSeq(store, HeadLen + 1, Len(store))
      <3>1. keepN \in 1..threshold /\ store \in Telling /\ threshold \in Nat
        BY <2>1, KeepIs DEF SMInv, SMTypes
      <3> QED BY <2>1, <3>1 DEF Telling, HeadLen
    <2> QED BY <2>1 DEF Measure, SMInv, SMTypes, Telling, HeadLen
  <1>3. SMTypes'
    BY <1>1, <1>2 DEF SMInv, SMTypes, KnownFacts
  <1>4. pc' = "generate" => /\ threshold > 0 /\ Len(store) > threshold
                            /\ tail' = SubSeq(store, HeadLen + 1, Len(store))
    BY DEF Measure, HeadLen, SMInv, SMTypes, Telling
  <1>5. AddSettles'
    BY <1>1 DEF Measure, AddSettles
  <1>6. ~excused => Kept(store)' /\ NotNewer(summary, store)' /\ (1..told)' \subseteq (summary \cup Facts(store))'
    BY <1>1 DEF SMInv, Kept, NotNewer, Facts
  <1>7. HeadLen' = HeadLen
    BY <1>1 DEF HeadLen, keepN
  <1> QED BY <1>1, <1>3, <1>4, <1>5, <1>6, <1>7 DEF SMInv

(* The model summarises all but the last messages.                         *)
LEMMA GenerateKeeps == ASSUME SMInv, Generate PROVE SMInv'
  <1> DEFINE head == SubSeq(store, 1, HeadLen)
  <1>1. /\ UNCHANGED <<threshold, store, tail, saved, told, failed>>
        /\ pc = "generate" /\ pc' = "replace"
        /\ SMTypes /\ store \in Telling /\ Len(store) \in Nat
        /\ threshold \in Nat /\ threshold > 0 /\ Len(store) > threshold
        /\ tail = SubSeq(store, HeadLen + 1, Len(store))
    BY DEF Generate, SMInv, SMTypes, Telling
  <1>2. keepN \in 1..threshold /\ HeadLen \in 1..Len(store) /\ HeadLen' = HeadLen
    <2>1. keepN \in 1..threshold
      BY <1>1, KeepIs
    <2> QED BY <1>1, <2>1 DEF HeadLen, keepN
  <1>3. Len(tail) = keepN /\ Len(store) - Len(tail) = HeadLen
    BY <1>1, <1>2 DEF HeadLen, Telling
  <1>4. /\ DOMAIN head = 1..HeadLen /\ \A i \in 1..HeadLen : head[i] = store[i]
    BY <1>1, <1>2 DEF Telling
  <1> HIDE DEF head
  <1>5. \/ summary' = summary \cup Facts(head) /\ UNCHANGED excused
        \/ summary' = {} /\ excused'
    BY <1>3 DEF Generate, head
  <1>6. Facts(head) \subseteq 1..told
    BY <1>1, <1>2, <1>4 DEF Facts, SMTypes, KnownFacts
  <1>7. SMTypes'
    <2>1. KnownFacts(store)' /\ KnownFacts(saved)' /\ summary' \in SUBSET (1..told)
      BY <1>1, <1>5, <1>6 DEF SMTypes, KnownFacts
    <2> QED BY <1>1, <2>1 DEF SMTypes
  <1>8. ASSUME ~excused'
        PROVE  /\ Kept(store)' /\ NotNewer(summary', store)
               /\ 1..told \subseteq summary' \cup Facts(store)
               /\ Facts(head) \subseteq summary'
    <2>1. summary' = summary \cup Facts(head) /\ ~excused
      BY <1>5, <1>8
    <2>2. Kept(store) /\ NotNewer(summary, store) /\ 1..told \subseteq summary \cup Facts(store)
      BY <1>1, <2>1 DEF SMInv
    <2>3. ASSUME NEW i \in 1..Len(store), NEW f \in Nat, NEW g \in Nat,
                 summary' = {f}, store[i] = {g}
          PROVE  f <= g
      <3>1. 1 \in DOMAIN head /\ head[1] = store[1] /\ 1 \in 1..Len(store)
        BY <1>2, <1>4
      <3>2. store[1] # {} /\ store[1] \subseteq {f}
        BY <2>1, <2>2, <2>3, <3>1 DEF Facts, Kept
      <3>3. store[1] = {f}
        BY <3>2
      <3>4. CASE i = 1
        BY <2>3, <3>3, <3>4
      <3>5. CASE i # 1
        BY <2>2, <2>3, <3>1, <3>3, <3>5 DEF Kept
      <3> QED BY <3>4, <3>5
    <2>4. Kept(store)'
      BY <1>1, <2>2 DEF Kept
    <2> QED BY <2>1, <2>2, <2>3, <2>4 DEF NotNewer
  <1>9. NotNewer(summary', store) => NotNewer(summary, store)'
    BY <1>1 DEF NotNewer
  <1>10. HeadLen' = HeadLen /\ SubSeq(store, 1, HeadLen)' = head /\ AddSettles'
    BY <1>1, <1>2 DEF head, AddSettles
  <1> QED BY <1>1, <1>2, <1>7, <1>8, <1>9, <1>10 DEF SMInv

(* The store is replaced by its last messages.                             *)
LEMMA ReplaceKeeps == ASSUME SMInv, Replace PROVE SMInv'
  <1>1. /\ UNCHANGED <<threshold, summary, saved, told, failed, excused>>
        /\ pc = "replace" /\ pc' = "measure" /\ store' = tail /\ tail' = <<>>
        /\ SMTypes /\ store \in Telling /\ Len(store) \in Nat /\ told \in Nat
        /\ threshold \in Nat /\ threshold > 0 /\ Len(store) > threshold
        /\ tail = SubSeq(store, HeadLen + 1, Len(store)) /\ tail \in Telling
    BY DEF Replace, SMInv, SMTypes, Telling
  <1>2. keepN \in 1..threshold /\ HeadLen \in 1..Len(store) /\ HeadLen = Len(store) - keepN
    <2>1. keepN \in 1..threshold
      BY <1>1, KeepIs
    <2> QED BY <1>1, <2>1 DEF HeadLen
  <1>3. /\ Len(tail) = keepN /\ Len(store) = HeadLen + keepN /\ keepN >= 1
        /\ \A i \in 1..keepN : HeadLen + i \in 1..Len(store) /\ tail[i] = store[HeadLen + i]
    <2> DEFINE k == keepN
               h == HeadLen
    <2>1. k \in Nat /\ k >= 1 /\ h \in Nat /\ Len(store) = h + k
      BY <1>1, <1>2
    <2> HIDE DEF k, h
    <2>2. /\ h + 1 \in Int /\ h + 1 <= Len(store) /\ Len(store) - (h + 1) + 1 = k
          /\ \A i \in (h + 1)..Len(store) : i \in 1..Len(store)
      BY <1>1, <2>1
    <2>3. \A i \in 1..k : h + i \in 1..Len(store) /\ (h + 1) + i - 1 = h + i
      BY <1>1, <2>1
    <2>4. \A i \in (h + 1)..Len(store) : store[i] \in SUBSET Nat
      BY <1>1, <2>2 DEF Telling
    <2>5. tail = SubSeq(store, h + 1, Len(store))
      BY <1>1 DEF h
    <2>6. Len(tail) = k /\ \A i \in 1..k : tail[i] = store[(h + 1) + i - 1]
      <3> DEFINE m == h + 1
                 n == Len(store)
      <3>1. m \in Int /\ n \in Int /\ \A i \in m..n : store[i] \in SUBSET Nat
        BY <1>1, <2>2, <2>4
      <3>2. m <= n /\ n - m + 1 = k
        BY <2>2
      <3>3. tail = SubSeq(store, m, n)
        BY <2>5
      <3> HIDE DEF m, n
      <3>4. /\ Len(SubSeq(store, m, n)) = IF m <= n THEN n - m + 1 ELSE 0
            /\ \A i \in 1..(n - m + 1) : SubSeq(store, m, n)[i] = store[m + i - 1]
        BY <3>1, SubSeqProperties
      <3>5. Len(tail) = k /\ \A i \in 1..k : tail[i] = store[m + i - 1]
        BY <3>2, <3>3, <3>4
      <3> QED BY <3>5 DEF m
    <2>7. \A i \in 1..k : tail[i] = store[h + i]
      BY <2>3, <2>6
    <2> QED BY <2>1, <2>3, <2>6, <2>7 DEF k, h
  <1>4. SMTypes'
    <2>1. KnownFacts(store)' /\ KnownFacts(saved)'
      BY <1>1, <1>3 DEF SMTypes, KnownFacts
    <2>2. <<>> \in Telling
      BY DEF Telling
    <2> QED BY <1>1, <2>1, <2>2 DEF SMTypes
  <1>5. ASSUME ~excused
        PROVE  Kept(tail) /\ NotNewer(summary, tail) /\ 1..told \subseteq summary \cup Facts(tail)
    <2>1. /\ Kept(store) /\ NotNewer(summary, store) /\ 1..told \subseteq summary \cup Facts(store)
          /\ Facts(SubSeq(store, 1, HeadLen)) \subseteq summary
      BY <1>1, <1>5 DEF SMInv
    <2>2. ASSUME NEW i \in 1..keepN, NEW j \in 1..keepN, NEW f \in Nat, NEW g \in Nat,
                 i < j, tail[i] = {f}, tail[j] = {g}
          PROVE  f <= g
      <3>1. HeadLen + i \in 1..Len(store) /\ HeadLen + j \in 1..Len(store) /\ HeadLen + i < HeadLen + j
        BY <1>2, <1>3, <2>2
      <3>2. store[HeadLen + i] = {f} /\ store[HeadLen + j] = {g}
        BY <1>3, <2>2
      <3> QED BY <2>1, <3>1, <3>2 DEF Kept
    <2>3. Kept(tail)
      <3>1. \A i \in 1..Len(tail) : tail[i] # {}
        BY <1>3, <2>1 DEF Kept
      <3>2. tail[Len(tail)] = store[Len(store)] /\ Len(tail) >= 1
        BY <1>2, <1>3
      <3>3. told > 0 => tail[Len(tail)] = {told}
        BY <2>1, <3>2 DEF Kept
      <3> QED BY <1>3, <2>2, <3>1, <3>2, <3>3 DEF Kept
    <2>4. NotNewer(summary, tail)
      BY <1>3, <2>1 DEF NotNewer
    <2>5. Facts(store) \subseteq Facts(SubSeq(store, 1, HeadLen)) \cup Facts(tail)
      BY <1>1, <1>2, FactsSplit
    <2> QED BY <2>1, <2>3, <2>4, <2>5
  <1>6. ~excused => Kept(store)' /\ NotNewer(summary, store)' /\ 1..told \subseteq summary \cup Facts(store')
    <2>0. store' = tail /\ told' = told
      BY <1>1
    <2>1. Kept(tail) => Kept(store)'
      BY <2>0, Zenon DEF Kept
    <2>2. NotNewer(summary, tail) => NotNewer(summary, store)'
      BY <1>1 DEF NotNewer
    <2>3. Facts(store') = Facts(tail)
      BY <1>1
    <2> QED BY <1>5, <2>1, <2>2, <2>3
  <1> QED BY <1>1, <1>4, <1>6 DEF SMInv, AddSettles

(* The loop's rewrite: it reads, forgets, clears and writes back.          *)
LEMMA RewriteKeeps ==
    ASSUME SMInv, Rewrite \/ ClearSummary \/ ClearStore \/ WriteBack
    PROVE  SMInv'
  <1> USE DEF SMInv
  <1>0. <<>> \in Telling /\ KnownFacts(<<>>)
    BY DEF Telling, KnownFacts
  <1>1. CASE Rewrite
    <2>1. /\ UNCHANGED <<threshold, store, summary, tail, told, excused>>
          /\ pc = "idle" /\ pc' = "forget" /\ saved' = Messages /\ failed' = FALSE
          /\ store \in Telling /\ summary \in SUBSET Nat /\ told \in Nat /\ Len(store) \in Nat
          /\ summary \subseteq 1..told
      BY <1>1 DEF Rewrite, SMTypes, Telling
    <2>2. CASE summary = {}
      <3>1. Messages = store
        BY <2>2 DEF Messages
      <3>2. SMTypes'
        BY <2>1, <3>1 DEF SMTypes, KnownFacts
      <3>3. ~excused => Kept(saved)' /\ 1..told \subseteq Facts(saved')
        BY <2>1, <2>2, <3>1 DEF Kept
      <3> QED BY <2>1, <3>2, <3>3 DEF AddSettles
    <2>3. CASE summary # {}
      <3>1. /\ saved' = <<summary>> \o store /\ saved' \in Telling
            /\ Facts(saved') = summary \cup Facts(store)
        BY <2>1, <2>3, FactsOfFirst DEF Messages
      <3>2. /\ Len(saved') = Len(store) + 1 /\ saved'[1] = summary
            /\ \A i \in 1..Len(saved') : i # 1 => i - 1 \in 1..Len(store) /\ saved'[i] = store[i - 1]
        BY <2>1, <3>1 DEF Telling
      <3>3. KnownFacts(saved)'
        BY <2>1, <3>2 DEF SMTypes, KnownFacts
      <3>4. SMTypes'
        BY <2>1, <3>1, <3>3 DEF SMTypes, KnownFacts
      <3>5. ASSUME ~excused PROVE Kept(saved)'
        <4>1. Kept(store) /\ NotNewer(summary, store) /\ 1..told \subseteq summary \cup Facts(store)
          BY <2>1, <3>5
        <4>2. \A i \in 1..Len(saved') : saved'[i] # {}
          BY <2>3, <3>2, <4>1 DEF Kept
        <4>3. told > 0 => Len(saved') >= 1 /\ saved'[Len(saved')] = {told}
          BY <2>1, <3>2, <4>1 DEF Kept
        <4>4. ASSUME NEW i \in 1..Len(saved'), NEW j \in 1..Len(saved'), NEW f \in Nat, NEW g \in Nat,
                     i < j, saved'[i] = {f}, saved'[j] = {g}
              PROVE  f <= g
          <5>1. j - 1 \in 1..Len(store) /\ store[j - 1] = {g}
            BY <3>2, <4>4
          <5>2. CASE i = 1
            BY <3>2, <4>1, <4>4, <5>1, <5>2 DEF NotNewer
          <5>3. CASE i # 1
            <6>1. i - 1 \in 1..Len(store) /\ store[i - 1] = {f} /\ i - 1 < j - 1
              BY <3>2, <4>4, <5>3
            <6> QED BY <4>1, <5>1, <6>1 DEF Kept
          <5> QED BY <5>2, <5>3
        <4> QED BY <2>1, <4>2, <4>3, <4>4 DEF Kept
      <3>6. ~excused => 1..told \subseteq Facts(saved')
        BY <2>1, <3>1
      <3> QED BY <2>1, <3>4, <3>5, <3>6 DEF AddSettles
    <2> QED BY <2>2, <2>3
  <1>2. CASE ClearSummary
    <2>1. /\ UNCHANGED <<threshold, store, tail, saved, told, failed, excused>>
          /\ pc = "forget" /\ pc' = "clear" /\ summary' = {}
      BY <1>2 DEF ClearSummary
    <2>2. SMTypes' /\ (~excused => Kept(saved)')
      BY <2>1 DEF SMTypes, KnownFacts, Kept
    <2> QED BY <2>1, <2>2 DEF AddSettles
  <1>3. CASE ClearStore
    <2>1. /\ UNCHANGED <<threshold, summary, tail, saved, told, failed, excused>>
          /\ pc = "clear" /\ pc' = "write" /\ store' = <<>>
      BY <1>3 DEF ClearStore
    <2>2. SMTypes' /\ (~excused => Kept(saved)')
      BY <1>0, <2>1 DEF SMTypes, KnownFacts, Kept
    <2> QED BY <2>1, <2>2 DEF AddSettles
  <1>4. CASE WriteBack
    <2>1. /\ UNCHANGED <<threshold, summary, tail, told, failed, excused>>
          /\ pc = "write" /\ pc' = "measure" /\ store' = saved /\ saved' = <<>> /\ summary = {}
      BY <1>4 DEF WriteBack
    <2>2. SMTypes'
      BY <1>0, <2>1 DEF SMTypes, KnownFacts
    <2>3. ~excused => Kept(store)' /\ NotNewer(summary, store)'
      BY <2>1 DEF Kept, NotNewer
    <2> QED BY <2>1, <2>2, <2>3 DEF AddSettles
  <1> QED BY <1>1, <1>2, <1>3, <1>4

(* A call fails before any of its steps.                                   *)
LEMMA CallFailsKeeps == ASSUME SMInv, CallFails PROVE SMInv'
  <1>1. /\ UNCHANGED <<threshold, store, told>> /\ pc # "idle" /\ pc' = "idle" /\ failed'
        /\ tail' = <<>> /\ saved' = <<>>
        /\ summary' = IF pc = "forget" THEN {} ELSE summary
    BY DEF CallFails
  <1>2. excused' = (excused \/ pc \in {"forget", "clear", "write"})
    BY DEF CallFails
  <1>3. SMTypes'
    <2>1. <<>> \in Telling /\ KnownFacts(saved)'
      BY <1>1 DEF Telling, KnownFacts
    <2> QED BY <1>1, <2>1 DEF SMInv, SMTypes, KnownFacts
  <1>4. ASSUME ~excused'
        PROVE  Kept(store)' /\ NotNewer(summary, store)' /\ 1..told \subseteq summary' \cup Facts(store)
    <2>1. ~excused /\ pc \notin {"forget", "clear", "write"}
      BY <1>2, <1>4
    <2> QED BY <1>1, <2>1 DEF SMInv, Kept, NotNewer
  <1> QED BY <1>1, <1>3, <1>4 DEF SMInv, AddSettles

(* SMInv is what the summarising memory promises.                          *)
LEMMA SMInvExact == SMInv => SummaryExact
  <1> SUFFICES ASSUME SMInv PROVE SummaryExact
    OBVIOUS
  <1>1. ASSUME ~excused
        PROVE  1..told \subseteq Facts(Messages) \cup Facts(saved)
    <2>1. CASE pc \in {"forget", "clear", "write"}
      BY <1>1, <2>1 DEF SMInv
    <2>2. CASE pc \notin {"forget", "clear", "write"}
      <3>1. 1..told \subseteq summary \cup Facts(store) /\ store \in Telling /\ summary \in SUBSET Nat
        BY <1>1, <2>2 DEF SMInv, SMTypes
      <3>2. summary \cup Facts(store) = Facts(Messages)
        BY <3>1, FactsOfFirst DEF Messages
      <3> QED BY <3>1, <3>2
    <2> QED BY <2>1, <2>2
  <1>2. ASSUME pc \in {"idle", "measure"}, told > 0, ~excused
        PROVE  /\ Len(store) >= 1
               /\ store[Len(store)] = {told}
               /\ \A i, j \in DOMAIN store, f, g \in 1..told :
                     i < j /\ store[i] = {f} /\ store[j] = {g} => f <= g
    <2>1. Kept(store) /\ DOMAIN store = 1..Len(store) /\ \A f \in 1..told : f \in Nat
      BY <1>2 DEF SMInv, SMTypes, Telling
    <2> QED BY <1>2, <2>1 DEF Kept
  <1> QED BY <1>1, <1>2 DEF SMInv, SummaryExact, NothingForgotten, NewestVerbatim

(* The summarising memory forgets nothing that was told, unless the model  *)
(* returns an empty summary or a rewrite is cut short; keeps the latest    *)
(* message word for word and the others in order; and Add leaves no more   *)
(* messages than the threshold: for every threshold, however many messages *)
(* there are and wherever calls fail.                                      *)
THEOREM SummariesAreExact == SMSpec => []SummaryExact
  <1>1. SMInv /\ [SMNext]_summaryVars => SMInv'
    <2> SUFFICES ASSUME SMInv, [SMNext]_summaryVars PROVE SMInv'
      OBVIOUS
    <2>1. CASE UNCHANGED summaryVars
      <3>1. SMTypes' /\ (Kept(store)' <=> Kept(store)) /\ (Kept(saved)' <=> Kept(saved))
            /\ (NotNewer(summary, store)' <=> NotNewer(summary, store))
        BY <2>1 DEF summaryVars, SMInv, SMTypes, KnownFacts, Kept, NotNewer
      <3>2. keepN' = keepN /\ HeadLen' = HeadLen
        BY <2>1 DEF summaryVars, HeadLen, keepN
      <3> QED BY <2>1, <3>1, <3>2 DEF summaryVars, SMInv, AddSettles
    <2> QED BY <2>1, Append1Keeps, MeasureKeeps, GenerateKeeps, ReplaceKeeps, RewriteKeeps,
               CallFailsKeeps DEF SMNext, Steps
  <1> QED BY <1>1, SMInvInit, SMInvExact, PTL DEF SMSpec

-------------------------------------------------------------------------------
\* The conversation: the rewrites as maps of positions.

(* A set of numbers up to n that is not empty has a greatest one.          *)
LEMMA GreatestNumber ==
    ASSUME NEW n \in Nat, NEW S, S \subseteq 0..n, S # {}
    PROVE  \E x \in S : \A y \in S : y <= x
  <1> DEFINE T == {n - y : y \in S}
  <1>0. \A y \in S : y \in Nat /\ n - y \in Nat
    OBVIOUS
  <1>1. T \subseteq Nat /\ T # {}
    BY <1>0
  <1>2. PICK t \in T : \A u \in T : t <= u
    BY <1>1, LeastNumber
  <1>3. PICK x \in S : t = n - x
    BY <1>2
  <1>4. \A y \in S : n - y \in T
    OBVIOUS
  <1>5. \A y \in S : n - x <= n - y /\ x \in Nat /\ y \in Nat
    BY <1>0, <1>2, <1>3, <1>4
  <1> HIDE DEF T
  <1>6. \A y \in S : y <= x
    BY <1>5
  <1> QED BY <1>6

(* sysHead counts the system messages before the first other message.      *)
LEMMA SysHeadIs ==
    ASSUME NEW ms \in Seq(Message)
    PROVE  /\ sysHead(ms) \in 0..Len(ms)
           /\ \A i \in 1..sysHead(ms) : ms[i].role = "system"
           /\ sysHead(ms) = Len(ms) \/ ms[sysHead(ms) + 1].role # "system"
  <1> DEFINE S == {n \in 0..Len(ms) : n = Len(ms) \/ ms[n + 1].role # "system"}
  <1>1. Len(ms) \in S /\ S \subseteq Nat /\ Len(ms) \in Nat
    OBVIOUS
  <1>2. PICK n \in S : \A y \in S : n <= y
    BY <1>1, LeastNumber
  <1>3. ASSUME NEW i \in 1..n PROVE ms[i].role = "system"
    <2>1. n \in 0..Len(ms)
      BY <1>2
    <2>2. i - 1 \in 0..Len(ms) /\ i - 1 < n /\ (i - 1) + 1 = i
      BY <1>1, <1>3, <2>1
    <2>3. i - 1 \notin S
      <3> HIDE DEF S
      <3>1. i - 1 \in S => n <= i - 1
        BY <1>2
      <3> QED BY <2>1, <2>2, <3>1
    <2> QED BY <2>2, <2>3
  <1>4. \E k \in 0..Len(ms) : /\ \A i \in 1..k : ms[i].role = "system"
                              /\ k = Len(ms) \/ ms[k + 1].role # "system"
    BY <1>2, <1>3
  <1> HIDE DEF S
  <1> QED BY <1>4 DEF sysHead

(* There is no other such number.                                          *)
LEMMA SysHeadUnique ==
    ASSUME NEW ms \in Seq(Message), NEW n \in 0..Len(ms), \A i \in 1..n : ms[i].role = "system",
           n = Len(ms) \/ ms[n + 1].role # "system"
    PROVE  sysHead(ms) = n
  <1> DEFINE s == sysHead(ms)
  <1>1. /\ s \in 0..Len(ms) /\ (\A i \in 1..s : ms[i].role = "system")
        /\ s = Len(ms) \/ ms[s + 1].role # "system"
    BY SysHeadIs
  <1> HIDE DEF s
  <1>2. Len(ms) \in Nat
    OBVIOUS
  <1>3. ~(s < n)
    <2> SUFFICES ASSUME s < n PROVE FALSE
      OBVIOUS
    <2>1. s + 1 \in 1..n /\ s # Len(ms)
      BY <1>1, <1>2
    <2> QED BY <1>1, <2>1
  <1>4. ~(n < s)
    <2> SUFFICES ASSUME n < s PROVE FALSE
      OBVIOUS
    <2>1. n + 1 \in 1..s /\ n # Len(ms)
      BY <1>1, <1>2
    <2> QED BY <1>1, <2>1
  <1>5. s = n
    BY <1>1, <1>2, <1>3, <1>4
  <1> QED BY <1>5 DEF s

\* The pairs from i to j are failures of one tool.
FailsOn(ms, i, j) ==
    /\ (j - i) % 2 = 0
    /\ \A k \in i..j : (k - i) % 2 = 0 => FailedPair(ms, k) /\ ms[k + 1].tool = ms[i + 1].tool

(* A run of failures has a last pair.                                      *)
LEMMA RunEndIs ==
    ASSUME NEW ms \in Seq(Message), NEW i \in 1..Len(ms), FailedPair(ms, i)
    PROVE  /\ RunEnd(ms, i) \in i..(Len(ms) - 1)
           /\ FailsOn(ms, i, RunEnd(ms, i))
           /\ FailedPair(ms, RunEnd(ms, i)) /\ ~Superseded(ms, RunEnd(ms, i))
  <1> DEFINE N == Len(ms)
             S == {j \in i..N : FailsOn(ms, i, j)}
  <1>1. N \in Nat /\ i \in Nat
    OBVIOUS
  <1>2. i \in S
    <2>1. \A k \in i..i : k = i
      BY <1>1
    <2>2. (i - i) % 2 = 0 /\ i \in i..N
      BY <1>1
    <2> QED BY <2>1, <2>2 DEF FailsOn
  <1>3. S \subseteq 0..N /\ S # {}
    BY <1>1, <1>2
  <1>4. PICK j \in S : \A y \in S : y <= j
    BY <1>1, <1>3, GreatestNumber
  <1>5. FailsOn(ms, i, j) /\ j \in i..N /\ j \in Nat
    BY <1>1, <1>4
  <1>6. ASSUME FailedPair(ms, j + 2), ms[j + 3].tool = ms[i + 1].tool
        PROVE  FALSE
    <2>1. j + 2 \in i..N
      BY <1>1, <1>5, <1>6 DEF FailedPair
    <2>2. ((j + 2) - i) % 2 = 0
      BY <1>1, <1>5 DEF FailsOn
    <2>3. ASSUME NEW k \in i..(j + 2), (k - i) % 2 = 0
          PROVE  FailedPair(ms, k) /\ ms[k + 1].tool = ms[i + 1].tool
      <3>1. CASE k \in i..j
        BY <1>5, <2>3, <3>1 DEF FailsOn
      <3>2. CASE k = j + 1
        <4>1. (j - i) % 2 = 0 /\ j - i \in Nat /\ (j - i) + 1 = k - i
          BY <1>1, <1>5, <3>2 DEF FailsOn
        <4> DEFINE d == j - i
        <4> HIDE DEF d
        <4>2. d \in Nat /\ d % 2 = 0 => (d + 1) % 2 = 1
          OBVIOUS
        <4>3. (k - i) % 2 = 1
          BY <4>1, <4>2 DEF d
        <4> QED BY <2>3, <4>3
      <3>3. CASE k = j + 2
        <4>1. k + 1 = j + 3
          BY <1>5, <3>3
        <4> QED BY <1>6, <3>3, <4>1
      <3> QED BY <1>1, <1>5, <2>3, <3>1, <3>2, <3>3
    <2>4. j + 2 \in S
      BY <2>1, <2>2, <2>3 DEF FailsOn
    <2> QED BY <1>4, <1>5, <2>4
  <1> HIDE DEF S
  <1>7. \E e \in i..N : FailsOn(ms, i, e) /\ ~(FailedPair(ms, e + 2) /\ ms[e + 3].tool = ms[i + 1].tool)
    BY <1>5, <1>6
  <1>8. /\ RunEnd(ms, i) \in i..N /\ FailsOn(ms, i, RunEnd(ms, i))
        /\ ~(FailedPair(ms, RunEnd(ms, i) + 2) /\ ms[RunEnd(ms, i) + 3].tool = ms[i + 1].tool)
    BY <1>7 DEF RunEnd, FailsOn
  <1> DEFINE e == RunEnd(ms, i)
  <1> HIDE DEF e
  <1>9. e \in i..N => e \in i..e /\ e \in Nat
    BY <1>1
  <1>10. FailedPair(ms, e) /\ ms[e + 1].tool = ms[i + 1].tool
    BY <1>8, <1>9 DEF FailsOn, e
  <1>11. e \in 1..(N - 1)
    BY <1>10 DEF FailedPair
  <1>12. ~Superseded(ms, e)
    BY <1>8, <1>10 DEF Superseded, e
  <1> QED BY <1>1, <1>8, <1>10, <1>11, <1>12 DEF e

\* One step of the recursion of PruneConsecutiveFailures, given the rest.
Pruned(ms, rest, i) ==
    IF i > Len(ms) THEN <<>>
    ELSE IF FailedPair(ms, i)
         THEN <<ms[RunEnd(ms, i)], ms[RunEnd(ms, i) + 1]>> \o rest[RunEnd(ms, i) + 2]
         ELSE <<ms[i]>> \o rest[i + 1]

(* Every step looks further ahead only.                                    *)
LEMMA PrunedLooksAhead ==
    ASSUME NEW ms \in Seq(Message), NEW f, NEW g, NEW i \in 1..(Len(ms) + 1),
           \A k \in (i + 1)..(Len(ms) + 1) : f[k] = g[k]
    PROVE  Pruned(ms, f, i) = Pruned(ms, g, i)
  <1>1. Len(ms) \in Nat /\ i \in Nat
    OBVIOUS
  <1>2. CASE i > Len(ms)
    BY <1>2 DEF Pruned
  <1>3. CASE i <= Len(ms) /\ FailedPair(ms, i)
    <2>1. RunEnd(ms, i) \in i..(Len(ms) - 1)
      BY <1>1, <1>3, RunEndIs
    <2>2. RunEnd(ms, i) + 2 \in (i + 1)..(Len(ms) + 1)
      BY <1>1, <2>1
    <2> QED BY <1>1, <1>3, <2>2 DEF Pruned
  <1>4. CASE i <= Len(ms) /\ ~FailedPair(ms, i)
    <2>1. i + 1 \in (i + 1)..(Len(ms) + 1)
      BY <1>1, <1>4
    <2> QED BY <1>1, <1>4, <2>1 DEF Pruned
  <1> QED BY <1>1, <1>2, <1>3, <1>4

(* So the recursion has a solution: there is no least number from which it *)
(* has one but 1.                                                          *)
LEMMA PruneSolved ==
    ASSUME NEW ms \in Seq(Message)
    PROVE  \E f : /\ f = [i \in 1..(Len(ms) + 1) |-> Pruned(ms, f, i)]
                  /\ PruneConsecutiveFailures(ms) = f[1]
  <1> DEFINE N == Len(ms)
             D == 1..(N + 1)
             From(f, m) == DOMAIN f = D /\ f = [i \in D |-> f[i]]
                              /\ \A i \in m..(N + 1) : f[i] = Pruned(ms, f, i)
             S == {m \in D : \E f : From(f, m)}
             Solves(f) == f = [i \in D |-> Pruned(ms, f, i)]
  <1>0. N \in Nat /\ D \subseteq Nat
    OBVIOUS
  <1>1. N + 1 \in S
    <2> DEFINE f == [i \in D |-> <<>>]
    <2>1. \A i \in (N + 1)..(N + 1) : i = N + 1 /\ i > N /\ i \in D
      BY <1>0
    <2>2. \A i \in (N + 1)..(N + 1) : f[i] = Pruned(ms, f, i)
      BY <2>1 DEF Pruned
    <2>3. From(f, N + 1)
      BY <2>2
    <2> QED BY <1>0, <2>3
  <1>2. PICK m \in S : \A y \in S : m <= y
    BY <1>0, <1>1, LeastNumber
  <1>3. PICK f : From(f, m)
    BY <1>2
  <1>4. ASSUME m # 1 PROVE FALSE
    <2> DEFINE g == [f EXCEPT ![m - 1] = Pruned(ms, f, m - 1)]
    <2>1. m - 1 \in D /\ m \in D /\ m \in Nat
      BY <1>0, <1>2, <1>4
    <2>2. DOMAIN g = D /\ g = [i \in D |-> g[i]] /\ g[m - 1] = Pruned(ms, f, m - 1)
          /\ \A i \in D : i # m - 1 => g[i] = f[i]
      BY <1>3, <2>1
    <2> HIDE DEF g
    <2>3. ASSUME NEW i \in (m - 1)..(N + 1) PROVE g[i] = Pruned(ms, g, i)
      <3>1. i \in D /\ \A k \in (i + 1)..(N + 1) : k \in D /\ k # m - 1
        BY <1>0, <2>1, <2>3
      <3>2. \A k \in (i + 1)..(N + 1) : f[k] = g[k]
        BY <2>2, <3>1
      <3>3. Pruned(ms, f, i) = Pruned(ms, g, i)
        BY <3>1, <3>2, PrunedLooksAhead
      <3>4. CASE i = m - 1
        BY <2>2, <3>3, <3>4
      <3>5. CASE i # m - 1
        <4>1. i \in m..(N + 1)
          BY <1>0, <2>1, <2>3, <3>5
        <4> QED BY <1>3, <2>2, <3>1, <3>3, <3>5, <4>1
      <3> QED BY <3>4, <3>5
    <2>4. From(g, m - 1)
      BY <2>2, <2>3
    <2>5. m - 1 \in S
      BY <2>1, <2>4
    <2> QED BY <1>2, <2>1, <2>5
  <1>5. Solves(f)
    BY <1>3, <1>4
  <1> HIDE DEF From, S
  <1>6. PruneConsecutiveFailures(ms) = (CHOOSE h : Solves(h))[1]
    BY DEF PruneConsecutiveFailures, Pruned
  <1>7. Solves(CHOOSE h : Solves(h))
    BY <1>5
  <1> QED BY <1>6, <1>7

\* A message at y goes with its pair when the pair behind it fails, too.
Dropped(ms, y) == Superseded(ms, y) \/ Superseded(ms, y - 1)

\* p is what is left of ms from i on: h says where each message was, and where
\* the end was.
LeftOf(ms, i, p, h) ==
    /\ p \in Seq(Message)
    /\ h \in [1..(Len(p) + 1) -> i..(Len(ms) + 1)]
    /\ h[Len(p) + 1] = Len(ms) + 1
    /\ \A x, y \in 1..(Len(p) + 1) : x < y => h[x] < h[y]
    /\ \A x \in 1..Len(p) : p[x] = ms[h[x]]
    /\ \A y \in i..Len(ms) : (\E x \in 1..Len(p) : h[x] = y) \/ Dropped(ms, y)
    /\ \A x \in 1..Len(p) : ~Dropped(ms, h[x])

(* A message, or two neighbours, put before what is left.                  *)
LEMMA LeftBefore ==
    ASSUME NEW ms \in Seq(Message), NEW i \in 1..Len(ms), NEW j \in i..Len(ms),
           \A y \in i..(j - 1) : Dropped(ms, y), ~Dropped(ms, j),
           NEW q, NEW g, LeftOf(ms, j + 1, q, g)
    PROVE  \E h : LeftOf(ms, i, <<ms[j]>> \o q, h)
  <1> DEFINE N == Len(ms)
             p == <<ms[j]>> \o q
             h == [x \in 1..(Len(q) + 2) |-> IF x = 1 THEN j ELSE g[x - 1]]
  <1>1. N \in Nat /\ i \in Nat /\ j \in 1..N /\ ms[j] \in Message /\ q \in Seq(Message)
        /\ Len(q) \in Nat
    BY DEF LeftOf
  <1>2. /\ p \in Seq(Message) /\ Len(p) = Len(q) + 1 /\ p[1] = ms[j]
        /\ \A x \in 2..(Len(q) + 1) : p[x] = q[x - 1] /\ x - 1 \in 1..Len(q)
    BY <1>1
  <1>3. /\ g \in [1..(Len(q) + 1) -> (j + 1)..(N + 1)] /\ g[Len(q) + 1] = N + 1
        /\ \A x, y \in 1..(Len(q) + 1) : x < y => g[x] < g[y]
        /\ \A x \in 1..Len(q) : q[x] = ms[g[x]]
        /\ \A y \in (j + 1)..N : (\E x \in 1..Len(q) : g[x] = y) \/ Dropped(ms, y)
        /\ \A x \in 1..Len(q) : ~Dropped(ms, g[x])
    BY DEF LeftOf
  <1>4. /\ h \in [1..(Len(q) + 2) -> i..(N + 1)] /\ h[1] = j
        /\ \A x \in 2..(Len(q) + 2) : h[x] = g[x - 1] /\ x - 1 \in 1..(Len(q) + 1)
    <2>1. \A x \in 1..(Len(q) + 2) : x # 1 => x - 1 \in 1..(Len(q) + 1)
      BY <1>1
    <2>2. \A x \in 1..(Len(q) + 1) : g[x] \in i..(N + 1)
      <3>1. \A x \in 1..(Len(q) + 1) : g[x] \in (j + 1)..(N + 1)
        BY <1>3
      <3>2. (j + 1)..(N + 1) \subseteq i..(N + 1)
        BY <1>1
      <3> QED BY <3>1, <3>2
    <2>3. j \in i..(N + 1)
      BY <1>1
    <2>4. \A x \in 1..(Len(q) + 2) : (IF x = 1 THEN j ELSE g[x - 1]) \in i..(N + 1)
      BY <2>1, <2>2, <2>3
    <2> QED BY <1>1, <2>1, <2>4
  <1> HIDE DEF p, h
  <1>5. h[Len(p) + 1] = N + 1
    <2>1. Len(p) + 1 = Len(q) + 2 /\ Len(q) + 2 \in 2..(Len(q) + 2)
          /\ (Len(q) + 2) - 1 = Len(q) + 1
      BY <1>1, <1>2
    <2>2. h[Len(q) + 2] = g[(Len(q) + 2) - 1]
      BY <1>4, <2>1
    <2> QED BY <1>3, <2>1, <2>2
  <1>6. ASSUME NEW x \in 1..(Len(p) + 1), NEW y \in 1..(Len(p) + 1), x < y
        PROVE  h[x] < h[y]
    <2>1. y \in 2..(Len(q) + 2) /\ h[y] = g[y - 1] /\ y - 1 \in 1..(Len(q) + 1)
      BY <1>1, <1>2, <1>4, <1>6
    <2>2. CASE x = 1
      <3>1. g[y - 1] \in (j + 1)..(N + 1)
        BY <1>3, <2>1
      <3> QED BY <1>1, <1>4, <2>1, <2>2, <3>1
    <2>3. CASE x # 1
      <3>1. x \in 2..(Len(q) + 2) /\ x - 1 < y - 1
        BY <1>1, <1>2, <1>6, <2>3
      <3>2. h[x] = g[x - 1] /\ x - 1 \in 1..(Len(q) + 1)
        BY <1>4, <3>1
      <3> QED BY <1>3, <2>1, <3>1, <3>2
    <2> QED BY <2>2, <2>3
  <1>7. ASSUME NEW x \in 1..Len(p) PROVE p[x] = ms[h[x]]
    <2>1. CASE x = 1
      BY <1>2, <1>4, <2>1
    <2>2. CASE x # 1
      <3>1. x \in 2..(Len(q) + 1) /\ x \in 2..(Len(q) + 2) /\ x - 1 \in 1..Len(q)
        BY <1>1, <1>2, <1>7, <2>2
      <3> QED BY <1>2, <1>3, <1>4, <3>1
    <2> QED BY <2>1, <2>2
  <1>8. ASSUME NEW y \in i..N PROVE (\E x \in 1..Len(p) : h[x] = y) \/ Dropped(ms, y)
    <2>1. CASE y < j
      <3>1. y \in i..(j - 1)
        BY <1>1, <1>8, <2>1
      <3> QED BY <3>1
    <2>2. CASE y = j
      <3>1. 1 \in 1..Len(p)
        BY <1>1, <1>2
      <3> QED BY <1>4, <2>2, <3>1
    <2>3. CASE y > j
      <3>1. y \in (j + 1)..N
        BY <1>1, <1>8, <2>3
      <3>2. ASSUME NEW x \in 1..Len(q), g[x] = y
            PROVE  \E z \in 1..Len(p) : h[z] = y
        <4>1. x + 1 \in 1..Len(p) /\ x + 1 \in 2..(Len(q) + 2) /\ (x + 1) - 1 = x
          BY <1>1, <1>2, <3>2
        <4> QED BY <1>4, <3>2, <4>1
      <3> QED BY <1>3, <3>1, <3>2
    <2> QED BY <1>1, <1>8, <2>1, <2>2, <2>3
  <1>9. h \in [1..(Len(p) + 1) -> i..(N + 1)]
    <2>1. Len(p) + 1 = Len(q) + 2
      BY <1>1, <1>2
    <2> QED BY <1>4, <2>1
  <1>10. ASSUME NEW x \in 1..Len(p) PROVE ~Dropped(ms, h[x])
    <2>1. CASE x = 1
      BY <1>4, <2>1
    <2>2. CASE x # 1
      <3>1. x \in 2..(Len(q) + 2) /\ x - 1 \in 1..Len(q)
        BY <1>1, <1>2, <1>10, <2>2
      <3> QED BY <1>3, <1>4, <3>1
    <2> QED BY <2>1, <2>2
  <1>11. LeftOf(ms, i, p, h)
    BY <1>2, <1>5, <1>6, <1>7, <1>8, <1>9, <1>10 DEF LeftOf
  <1> QED BY <1>11 DEF p

(* All pairs of a run of failures but the last one go.                     *)
LEMMA RunDropped ==
    ASSUME NEW ms, NEW i \in Nat, NEW e \in Nat, FailsOn(ms, i, e), NEW y \in i..(e - 1)
    PROVE  Dropped(ms, y)
  <1> DEFINE a == y - i
             b == e - i
  <1>1. a \in Nat /\ b \in Nat /\ a < b /\ b % 2 = 0
    BY DEF FailsOn
  <1>2. /\ (y + 2) - i = a + 2 /\ (y - 1) - i = a - 1 /\ (y + 1) - i = a + 1
        /\ y = i + a /\ e = i + b
    OBVIOUS
  <1> HIDE DEF a, b
  <1>3. CASE a % 2 = 0
    <2>1. a + 2 <= b /\ (a + 2) % 2 = 0
      BY <1>1, <1>3
    <2>2. y + 2 \in i..e /\ y \in i..e /\ (y + 2) + 1 = y + 3
      BY <1>1, <1>2, <2>1
    <2>3. FailedPair(ms, y) /\ ms[y + 1].tool = ms[i + 1].tool
      BY <1>3, <2>2 DEF FailsOn, a
    <2>4. FailedPair(ms, y + 2) /\ ms[(y + 2) + 1].tool = ms[i + 1].tool
      BY <1>2, <2>1, <2>2 DEF FailsOn
    <2> QED BY <2>2, <2>3, <2>4 DEF Dropped, Superseded
  <1>4. CASE a % 2 # 0
    <2>1. a - 1 \in Nat /\ (a - 1) % 2 = 0 /\ a + 1 <= b /\ (a + 1) % 2 = 0
      BY <1>1, <1>4
    <2>2. /\ y - 1 \in i..e /\ y + 1 \in i..e
          /\ (y - 1) + 2 = y + 1 /\ (y - 1) + 3 = (y + 1) + 1
      BY <1>1, <1>2, <2>1
    <2>3. FailedPair(ms, y - 1) /\ ms[(y - 1) + 1].tool = ms[i + 1].tool
      BY <1>2, <2>1, <2>2 DEF FailsOn
    <2>4. FailedPair(ms, y + 1) /\ ms[(y + 1) + 1].tool = ms[i + 1].tool
      BY <1>2, <2>1, <2>2 DEF FailsOn
    <2> QED BY <2>2, <2>3, <2>4 DEF Dropped, Superseded
  <1> QED BY <1>3, <1>4

(* What L1 leaves is the conversation, in its order, without the pairs     *)
(* that another failure follows.                                           *)
LEMMA PruneLeft ==
    ASSUME NEW ms \in Seq(Message)
    PROVE  \E h : LeftOf(ms, 1, PruneConsecutiveFailures(ms), h)
  <1> DEFINE N == Len(ms)
  <1>1. N \in Nat
    OBVIOUS
  <1>2. PICK f : /\ f = [i \in 1..(N + 1) |-> Pruned(ms, f, i)]
                 /\ PruneConsecutiveFailures(ms) = f[1]
    BY PruneSolved
  <1> DEFINE Good(i) == ~FailedPair(ms, i - 1) => \E h : LeftOf(ms, i, f[i], h)
             S == {m \in 1..(N + 1) : \A i \in m..(N + 1) : Good(i)}
  <1>3. \A i \in 1..(N + 1) : f[i] = Pruned(ms, f, i)
    BY <1>2
  <1>4. Good(N + 1)
    <2> DEFINE h == [x \in 1..1 |-> N + 1]
    <2>1. N + 1 \in 1..(N + 1) /\ N + 1 > N
      BY <1>1
    <2>2. f[N + 1] = <<>>
      BY <1>3, <2>1 DEF Pruned
    <2>3. <<>> \in Seq(Message) /\ Len(<<>>) = 0
      OBVIOUS
    <2>4. h \in [1..1 -> (N + 1)..(N + 1)] /\ h[1] = N + 1
      BY <1>1
    <2> HIDE DEF h
    <2>5. LeftOf(ms, N + 1, <<>>, h)
      BY <1>1, <2>3, <2>4 DEF LeftOf
    <2> QED BY <2>2, <2>5
  <1>5. ASSUME NEW i \in 1..N, \A k \in (i + 1)..(N + 1) : Good(k)
        PROVE  Good(i)
    <2> SUFFICES ASSUME ~FailedPair(ms, i - 1) PROVE \E h : LeftOf(ms, i, f[i], h)
      OBVIOUS
    <2>1. i \in 1..(N + 1) /\ ~(i > N) /\ i \in Nat
      BY <1>1, <1>5
    <2>2. CASE FailedPair(ms, i)
      <3> DEFINE e == RunEnd(ms, i)
      <3>1. e \in i..(N - 1) /\ FailsOn(ms, i, e) /\ FailedPair(ms, e) /\ ~Superseded(ms, e)
        BY <2>2, RunEndIs
      <3> HIDE DEF e
      <3>2. /\ e \in Nat /\ e + 1 \in 1..N /\ e \in i..N /\ e + 2 \in (i + 1)..(N + 1)
            /\ (e + 1) + 1 = e + 2 /\ e + 1 \in (e + 1)..N /\ (e + 1) - 1 = e
            /\ (e + 2) - 1 = e + 1 /\ (e - 1) + 1 = e
        BY <1>1, <2>1, <3>1
      <3>3. ~FailedPair(ms, e + 1) /\ ~FailedPair(ms, e - 1)
        BY <3>1, <3>2 DEF FailedPair
      <3>4. PICK g : LeftOf(ms, e + 2, f[e + 2], g)
        BY <1>5, <3>2, <3>3
      <3>5. PICK g2 : LeftOf(ms, e + 1, <<ms[e + 1]>> \o f[e + 2], g2)
        <4>1. \A y \in (e + 1)..((e + 1) - 1) : Dropped(ms, y)
          BY <3>2
        <4>2. ~Dropped(ms, e + 1)
          BY <3>1, <3>2, <3>3 DEF Dropped, Superseded
        <4> QED BY <3>2, <3>4, <4>1, <4>2, LeftBefore
      <3>6. \A y \in i..(e - 1) : Dropped(ms, y)
        BY <2>1, <3>1, <3>2, RunDropped
      <3>7. PICK g3 : LeftOf(ms, i, <<ms[e]>> \o (<<ms[e + 1]>> \o f[e + 2]), g3)
        <4>1. ~Dropped(ms, e)
          BY <3>1, <3>3 DEF Dropped, Superseded
        <4> QED BY <3>2, <3>5, <3>6, <4>1, LeftBefore
      <3>8. f[i] = <<ms[e], ms[e + 1]>> \o f[e + 2]
        BY <1>3, <2>1, <2>2 DEF Pruned, e
      <3>9. <<ms[e], ms[e + 1]>> \o f[e + 2] = <<ms[e]>> \o (<<ms[e + 1]>> \o f[e + 2])
        <4>1. f[e + 2] \in Seq(Message) /\ ms[e] \in Message /\ ms[e + 1] \in Message
          BY <3>2, <3>4 DEF LeftOf
        <4> QED BY <4>1
      <3> QED BY <3>7, <3>8, <3>9
    <2>3. CASE ~FailedPair(ms, i)
      <3>1. i + 1 \in (i + 1)..(N + 1) /\ i \in i..N /\ (i + 1) - 1 = i
        BY <1>1, <1>5
      <3>2. PICK g : LeftOf(ms, i + 1, f[i + 1], g)
        BY <1>5, <2>3, <3>1
      <3>3. (\A y \in i..(i - 1) : Dropped(ms, y)) /\ ~Dropped(ms, i)
        BY <2>1, <2>3 DEF Dropped, Superseded
      <3>4. PICK g2 : LeftOf(ms, i, <<ms[i]>> \o f[i + 1], g2)
        BY <1>5, <3>1, <3>2, <3>3, LeftBefore
      <3>5. f[i] = <<ms[i]>> \o f[i + 1]
        BY <1>3, <2>1, <2>3 DEF Pruned
      <3> QED BY <3>4, <3>5
    <2> QED BY <2>2, <2>3
  <1> HIDE DEF Good
  <1>6. N + 1 \in S /\ S \subseteq Nat
    <2>1. \A i \in (N + 1)..(N + 1) : i = N + 1
      BY <1>1
    <2> QED BY <1>1, <1>4, <2>1
  <1>7. PICK m \in S : \A y \in S : m <= y
    BY <1>6, LeastNumber
  <1>8. ASSUME m # 1 PROVE FALSE
    <2>1. m - 1 \in 1..N /\ (m - 1) + 1 = m /\ m \in Nat
      BY <1>1, <1>7, <1>8
    <2>2. \A k \in ((m - 1) + 1)..(N + 1) : Good(k)
      BY <1>7, <2>1
    <2>3. Good(m - 1)
      BY <1>5, <2>1, <2>2
    <2>4. \A i \in (m - 1)..(N + 1) : i = m - 1 \/ i \in m..(N + 1)
      BY <1>1, <2>1
    <2>5. m - 1 \in S
      BY <1>1, <1>7, <2>1, <2>3, <2>4
    <2> HIDE DEF S
    <2>6. m <= m - 1
      BY <1>7, <2>5
    <2> QED BY <2>1, <2>6
  <1>9. Good(1)
    <2>1. 1 \in 1..(N + 1)
      BY <1>1
    <2> QED BY <1>7, <1>8, <2>1
  <1>10. ~FailedPair(ms, 1 - 1)
    BY <1>1 DEF FailedPair
  <1> QED BY <1>2, <1>9, <1>10 DEF Good

\* The message at l explains a result of call c at k: nothing but results lies
\* between them, and l makes the call, or is the end of the system messages
\* where the window has cut.
Anchors(ms, l, k, c) ==
    /\ \A x \in (l + 1)..(k - 1) : ms[x].role = "tool"
    /\ \/ l > 0 /\ ms[l].role = "assistant" /\ ms[l].call = c
       \/ maxSize > 0 /\ \A x \in 1..l : ms[x].role = "system"

AnchorAt(ms, k, c) == \E l \in 0..(k - 1) : Anchors(ms, l, k, c)

\* A result of call c may be added.
Open(ms, c) == AnchorAt(ms, Len(ms) + 1, c)

Threaded(ms) ==
    \A k \in 1..Len(ms) : ms[k].role = "tool" => AnchorAt(ms, k, ms[k].call)

OneSystem(ms) == \A k \in 2..Len(ms) : ms[k].role # "system"

Well(ms) == ms \in Seq(Message) /\ Threaded(ms) /\ OneSystem(ms)

\* As far as roles and calls go, t is ms up to n.
SameUpTo(ms, t, n) ==
    \A x \in 1..n : ms[x].role = t[x].role /\ ms[x].call = t[x].call

(* Whether a result is explained depends on what is before it.             *)
LEMMA AnchorSame ==
    ASSUME NEW ms, NEW t, NEW k \in Nat, NEW c, SameUpTo(ms, t, k - 1), AnchorAt(ms, k, c)
    PROVE  AnchorAt(t, k, c)
  <1>1. PICK l \in 0..(k - 1) : Anchors(ms, l, k, c)
    BY DEF AnchorAt
  <1>2. l \in Nat /\ (l > 0 => l \in 1..(k - 1)) /\ (\A x \in (l + 1)..(k - 1) : x \in 1..(k - 1))
        /\ \A x \in 1..l : x \in 1..(k - 1)
    BY <1>1
  <1>3. Anchors(t, l, k, c)
    BY <1>1, <1>2 DEF Anchors, SameUpTo
  <1> QED BY <1>1, <1>3 DEF AnchorAt

(* A message that is no result may always be added, a result only where it *)
(* is explained; behind a call and behind a result, another result is.     *)
LEMMA AppendKeeps ==
    ASSUME NEW ms, Well(ms), NEW m \in Message, m.role # "system",
           m.role = "tool" => Open(ms, m.call)
    PROVE  /\ Well(ms \o <<m>>)
           /\ m.role # "user" => Open(ms \o <<m>>, m.call)
           /\ Len(ms \o <<m>>) = Len(ms) + 1 /\ (ms \o <<m>>)[Len(ms) + 1] = m
  <1> DEFINE N == Len(ms)
             t == ms \o <<m>>
  <1>1. ms \in Seq(Message) /\ N \in Nat
    BY DEF Well
  <1>2. t \in Seq(Message) /\ Len(t) = N + 1 /\ t[N + 1] = m /\ \A x \in 1..N : t[x] = ms[x]
    BY <1>1
  <1> HIDE DEF t
  <1>3. ASSUME NEW k \in 1..(N + 1), NEW c, AnchorAt(ms, k, c) PROVE AnchorAt(t, k, c)
    <2>1. k \in Nat /\ \A x \in 1..(k - 1) : x \in 1..N
      BY <1>1
    <2>2. SameUpTo(ms, t, k - 1)
      BY <1>2, <2>1 DEF SameUpTo
    <2> QED BY <1>3, <2>1, <2>2, AnchorSame
  <1>4. Threaded(t)
    <2> SUFFICES ASSUME NEW k \in 1..(N + 1), t[k].role = "tool"
                 PROVE  AnchorAt(t, k, t[k].call)
      BY <1>2 DEF Threaded
    <2>1. CASE k = N + 1
      BY <1>2, <1>3, <2>1 DEF Open
    <2>2. CASE k # N + 1
      <3>1. k \in 1..N
        BY <1>1, <2>2
      <3> QED BY <1>2, <1>3, <3>1 DEF Threaded, Well
    <2> QED BY <2>1, <2>2
  <1>5. OneSystem(t)
    <2>1. \A k \in 2..(N + 1) : k = N + 1 \/ (k \in 2..N /\ k \in 1..N)
      BY <1>1
    <2> QED BY <1>2, <2>1 DEF OneSystem, Well
  <1>6. m.role # "user" => Open(t, m.call)
    <2>1. m.role \in {"system", "user", "assistant", "tool"}
      BY DEF Message
    <2>2. CASE m.role = "assistant"
      <3>1. N + 1 \in 0..((N + 2) - 1) /\ N + 1 > 0
            /\ \A x \in ((N + 1) + 1)..((N + 2) - 1) : FALSE
        BY <1>1
      <3>2. Anchors(t, N + 1, N + 2, m.call)
        BY <1>2, <2>2, <3>1 DEF Anchors
      <3>3. (N + 1) + 1 = N + 2
        BY <1>1
      <3> QED BY <1>2, <3>1, <3>2, <3>3 DEF AnchorAt, Open
    <2>3. CASE m.role = "tool"
      <3>1. N + 1 \in 1..(N + 1) /\ N + 1 \in Nat /\ (N + 1) + 1 = N + 2
        BY <1>1
      <3>2. PICK l \in 0..((N + 1) - 1) : Anchors(t, l, N + 1, m.call)
        BY <1>3, <2>3, <3>1 DEF AnchorAt, Open
      <3>3. l \in 0..((N + 2) - 1)
            /\ \A x \in (l + 1)..((N + 2) - 1) : x = N + 1 \/ x \in (l + 1)..((N + 1) - 1)
        BY <1>1, <3>2
      <3>4. Anchors(t, l, N + 2, m.call)
        BY <1>2, <2>3, <3>2, <3>3 DEF Anchors
      <3> QED BY <1>2, <3>1, <3>3, <3>4 DEF AnchorAt, Open
    <2> QED BY <2>1, <2>2, <2>3
  <1>7. Well(t)
    BY <1>2, <1>4, <1>5 DEF Well
  <1> QED BY <1>2, <1>6, <1>7 DEF t

(* L3 changes neither a role nor a call.                                   *)
LEMMA CompactKeeps ==
    ASSUME NEW ms, Well(ms)
    PROVE  /\ Well(CompactStaleToolResults(ms))
           /\ \A c : Open(ms, c) => Open(CompactStaleToolResults(ms), c)
  <1> DEFINE N == Len(ms)
             t == CompactStaleToolResults(ms)
  <1>1. ms \in Seq(Message) /\ N \in Nat /\ DOMAIN ms = 1..N
    BY DEF Well
  <1>2. ASSUME NEW i \in 1..N
        PROVE  t[i] \in Message /\ t[i].role = ms[i].role /\ t[i].call = ms[i].call
    <2>1. ms[i] \in Message
      BY <1>1
    <2>2. t[i] = ms[i] \/ t[i] = [ms[i] EXCEPT !.tokens = Cleared, !.fails = FALSE]
      BY <1>1 DEF CompactStaleToolResults
    <2> QED BY <2>1, <2>2 DEF Message
  <1>3. DOMAIN t = 1..N /\ t = [i \in 1..N |-> t[i]]
    BY <1>1 DEF CompactStaleToolResults
  <1> HIDE DEF t
  <1>4. t \in Seq(Message) /\ Len(t) = N
    BY <1>1, <1>2, <1>3
  <1>5. ASSUME NEW k \in 1..(N + 1), NEW c, AnchorAt(ms, k, c) PROVE AnchorAt(t, k, c)
    <2>1. k \in Nat /\ \A x \in 1..(k - 1) : x \in 1..N
      BY <1>1
    <2>2. SameUpTo(ms, t, k - 1)
      BY <1>2, <2>1 DEF SameUpTo
    <2> QED BY <1>5, <2>1, <2>2, AnchorSame
  <1>6. Threaded(t)
    <2> SUFFICES ASSUME NEW k \in 1..N, t[k].role = "tool" PROVE AnchorAt(t, k, t[k].call)
      BY <1>4 DEF Threaded
    <2>1. k \in 1..(N + 1)
      BY <1>1
    <2> QED BY <1>2, <1>5, <2>1 DEF Threaded, Well
  <1>7. OneSystem(t)
    <2>1. \A k \in 2..N : k \in 1..N
      BY <1>1
    <2> QED BY <1>2, <1>4, <2>1 DEF OneSystem, Well
  <1>8. \A c : Open(ms, c) => Open(t, c)
    <2>1. N + 1 \in 1..(N + 1)
      BY <1>1
    <2> QED BY <1>4, <1>5, <2>1 DEF Open
  <1> QED BY <1>4, <1>6, <1>7, <1>8 DEF Well, t

(* L1 keeps what explains a result that it keeps: the call of a pair that  *)
(* goes has one result, which goes with it.                                *)
LEMMA PruneKeeps ==
    ASSUME NEW ms, Well(ms)
    PROVE  /\ Well(PruneConsecutiveFailures(ms))
           /\ \A c : Open(ms, c) => Open(PruneConsecutiveFailures(ms), c)
  <1> DEFINE N == Len(ms)
             p == PruneConsecutiveFailures(ms)
             M == Len(p)
  <1>1. ms \in Seq(Message) /\ N \in Nat
    BY DEF Well
  <1>2. PICK h : LeftOf(ms, 1, p, h)
    BY <1>1, PruneLeft
  <1> HIDE DEF p
  <1>3. /\ p \in Seq(Message) /\ M \in Nat /\ h \in [1..(M + 1) -> 1..(N + 1)] /\ h[M + 1] = N + 1
        /\ \A x, y \in 1..(M + 1) : x < y => h[x] < h[y]
        /\ \A x \in 1..M : p[x] = ms[h[x]]
        /\ \A y \in 1..N : (\E x \in 1..M : h[x] = y) \/ Dropped(ms, y)
        /\ \A x \in 1..M : ~Dropped(ms, h[x])
    BY <1>2 DEF LeftOf
  <1>4. \A x \in 1..(M + 1) : h[x] \in 1..(N + 1) /\ h[x] \in Nat /\ x \in Nat
    BY <1>1, <1>3
  <1>5. \A x \in 1..M : h[x] \in 1..N
    <2>1. \A x \in 1..M : x \in 1..(M + 1) /\ M + 1 \in 1..(M + 1) /\ x < M + 1
      BY <1>3
    <2>2. \A x \in 1..M : h[x] < N + 1 /\ h[x] \in 1..(N + 1)
      BY <1>3, <1>4, <2>1
    <2> QED BY <1>1, <2>2
  \* The message that explains a result that stays is not dropped.
  <1>6. ASSUME NEW x \in 1..(M + 1), NEW c, NEW l \in 0..(h[x] - 1), Anchors(ms, l, h[x], c), l > 0,
               h[x] = N + 1 \/ ms[h[x]].role = "tool"
        PROVE  \E z \in 1..M : h[z] = l
    <2>1. l \in 1..N /\ l \in Nat /\ h[x] \in Nat /\ h[x] <= N + 1 /\ l < h[x]
      BY <1>1, <1>4, <1>6
    <2> SUFFICES ASSUME Dropped(ms, l) PROVE FALSE
      BY <1>3, <2>1
    <2>2. ms[l].role = "assistant" \/ ms[l].role = "system"
      <3>1. l \in 1..l
        BY <2>1
      <3> QED BY <1>6, <3>1 DEF Anchors
    <2>3. ~FailedPair(ms, l - 1)
      <3>1. (l - 1) + 1 = l
        BY <2>1
      <3> QED BY <2>2, <3>1 DEF FailedPair
    <2>4. Superseded(ms, l) /\ FailedPair(ms, l + 2)
      BY <2>3 DEF Dropped, Superseded
    <2>5. ms[l + 2].role = "assistant" /\ l + 2 \in 1..N /\ l + 2 < N + 1
      BY <2>1, <2>4, <1>1 DEF FailedPair
    <2>6. l + 2 \notin (l + 1)..(h[x] - 1)
      BY <1>6, <2>5 DEF Anchors
    <2>7. h[x] # l + 2
      BY <1>1, <1>6, <2>1, <2>5
    <2>8. h[x] = l + 1
      BY <2>1, <2>6, <2>7
    <2>9. x # M + 1 /\ x \in 1..M
      <3>1. h[x] # N + 1
        BY <1>1, <2>1, <2>5, <2>8
      <3>2. x # M + 1
        BY <1>3, <3>1
      <3> QED BY <1>3, <1>6, <3>2
    <2>10. h[x] - 1 = l
      BY <2>1, <2>8
    <2> QED BY <1>3, <2>4, <2>9, <2>10 DEF Dropped
  \* So it still explains it.
  <1>7. ASSUME NEW x \in 1..(M + 1), NEW c, AnchorAt(ms, h[x], c),
               h[x] = N + 1 \/ ms[h[x]].role = "tool"
        PROVE  AnchorAt(p, x, c)
    <2>1. PICK l \in 0..(h[x] - 1) : Anchors(ms, l, h[x], c)
      BY <1>7 DEF AnchorAt
    <2>2. x \in Nat /\ h[x] \in Nat /\ l \in Nat /\ l < h[x] /\ h[x] <= N + 1
      BY <1>1, <1>4, <1>7, <2>1
    <2>3. CASE l = 0
      <3>1. \A w \in 1..(x - 1) : w \in 1..M /\ w \in 1..(M + 1) /\ w < x
        BY <1>3, <2>2
      <3>2. \A w \in 1..(x - 1) : h[w] < h[x] /\ h[w] \in 1..N
        BY <1>3, <1>5, <3>1
      <3>3. \A w \in 1..(x - 1) : h[w] \in (l + 1)..(h[x] - 1)
        BY <1>1, <2>2, <2>3, <3>2
      <3>4. \A w \in 1..(x - 1) : p[w].role = "tool"
        <4>1. \A y \in (l + 1)..(h[x] - 1) : ms[y].role = "tool"
          BY <2>1 DEF Anchors
        <4>2. \A w \in 1..(x - 1) : ms[h[w]].role = "tool"
          BY <3>3, <4>1
        <4> QED BY <1>3, <3>1, <4>2
      <3>5. 0 \in 0..(x - 1) /\ 0 + 1 = 1 /\ \A w \in 1..0 : FALSE
        BY <2>2
      <3>6. maxSize > 0
        BY <2>1, <2>3 DEF Anchors
      <3>7. Anchors(p, 0, x, c)
        BY <3>4, <3>5, <3>6 DEF Anchors
      <3> QED BY <3>5, <3>7 DEF AnchorAt
    <2>4. CASE l > 0
      <3>1. PICK z \in 1..M : h[z] = l
        BY <1>6, <1>7, <2>1, <2>4
      <3>2. z \in 1..(M + 1) /\ z \in Nat
        BY <1>3, <3>1
      <3>3. z < x
        <4>1. x < z => h[x] < h[z]
          BY <1>3, <3>2
        <4> QED BY <2>2, <3>1, <3>2, <4>1
      <3>4. ASSUME NEW w \in (z + 1)..(x - 1) PROVE p[w].role = "tool"
        <4>1. w \in 1..M /\ w \in 1..(M + 1) /\ z < w /\ w < x
          BY <1>3, <2>2, <3>2, <3>4
        <4>2. h[z] < h[w] /\ h[w] < h[x] /\ h[w] \in 1..N
          BY <1>3, <1>5, <3>2, <4>1
        <4>3. h[w] \in (l + 1)..(h[x] - 1)
          BY <1>1, <2>2, <3>1, <4>2
        <4>4. ms[h[w]].role = "tool"
          BY <2>1, <4>3 DEF Anchors
        <4> QED BY <1>3, <4>1, <4>4
      <3>5. ASSUME \A y \in 1..l : ms[y].role = "system", NEW w \in 1..z
            PROVE  p[w].role = "system"
        <4>1. w \in 1..M /\ w \in 1..(M + 1) /\ (w = z \/ w < z)
          BY <1>3, <3>2, <3>5
        <4>2. h[w] <= l /\ h[w] \in 1..N
          BY <1>3, <1>5, <2>2, <3>1, <3>2, <4>1
        <4>3. h[w] \in 1..l
          BY <1>1, <2>2, <4>2
        <4> QED BY <1>3, <3>5, <4>1, <4>3
      <3>6. p[z] = ms[l] /\ z > 0 /\ z \in 0..(x - 1)
        BY <1>3, <2>2, <3>1, <3>2, <3>3
      <3>7. Anchors(p, z, x, c)
        BY <2>1, <3>4, <3>5, <3>6 DEF Anchors
      <3> QED BY <3>6, <3>7 DEF AnchorAt
    <2> QED BY <2>2, <2>3, <2>4
  <1>8. Threaded(p)
    <2> SUFFICES ASSUME NEW x \in 1..M, p[x].role = "tool" PROVE AnchorAt(p, x, p[x].call)
      BY DEF Threaded
    <2>1. x \in 1..(M + 1) /\ h[x] \in 1..N /\ p[x] = ms[h[x]]
      BY <1>3, <1>5
    <2>2. AnchorAt(ms, h[x], ms[h[x]].call)
      BY <2>1 DEF Threaded, Well
    <2> QED BY <1>7, <2>1, <2>2
  <1>9. OneSystem(p)
    <2> SUFFICES ASSUME NEW x \in 2..M PROVE p[x].role # "system"
      BY DEF OneSystem
    <2>1. x \in 1..M /\ x \in 1..(M + 1) /\ 1 \in 1..(M + 1) /\ 1 < x
      BY <1>3
    <2>2. h[1] < h[x] /\ h[1] \in 1..(N + 1) /\ h[x] \in 1..N
      BY <1>3, <1>4, <1>5, <2>1
    <2>3. h[x] \in 2..N
      BY <1>1, <2>2
    <2> QED BY <1>3, <2>1, <2>3 DEF OneSystem, Well
  <1>10. ASSUME NEW c, Open(ms, c) PROVE Open(p, c)
    <2>1. M + 1 \in 1..(M + 1)
      BY <1>3
    <2>2. AnchorAt(ms, h[M + 1], c)
      BY <1>3, <1>10 DEF Open
    <2> QED BY <1>3, <1>7, <2>1, <2>2 DEF Open
  <1> QED BY <1>3, <1>8, <1>9, <1>10 DEF Well, p

(* A part of a conversation.                                               *)
LEMMA PartIs ==
    ASSUME NEW ms \in Seq(Message), NEW a \in 1..(Len(ms) + 1), NEW b \in 0..Len(ms), a <= b + 1
    PROVE  /\ SubSeq(ms, a, b) \in Seq(Message)
           /\ Len(SubSeq(ms, a, b)) = (b - a) + 1
           /\ \A x \in 1..((b - a) + 1) : SubSeq(ms, a, b)[x] = ms[x + (a - 1)]
  <1>1. a \in Int /\ b \in Int /\ Len(ms) \in Nat /\ \A i \in a..b : ms[i] \in Message
    OBVIOUS
  <1> DEFINE t == SubSeq(ms, a, b)
  <1>2. /\ t \in Seq(Message) /\ Len(t) = (IF a <= b THEN b - a + 1 ELSE 0)
        /\ \A i \in 1..(b - a + 1) : t[i] = ms[a + i - 1]
    BY <1>1, SubSeqProperties
  <1> HIDE DEF t
  <1>3. Len(t) = (b - a) + 1
    BY <1>1, <1>2
  <1>4. \A x \in 1..((b - a) + 1) : x \in 1..(b - a + 1) /\ a + x - 1 = x + (a - 1)
    BY <1>1
  <1>5. \A x \in 1..((b - a) + 1) : t[x] = ms[x + (a - 1)]
    BY <1>2, <1>4
  <1> QED BY <1>2, <1>3, <1>5 DEF t

(* A cut leaves the system messages, and as many of the newest messages as *)
(* fit.                                                                    *)
LEMMA TrimIs ==
    ASSUME NEW ms \in Seq(Message), NEW drop \in 1..Len(ms)
    PROVE  LET t == trimPreservingSystem(ms, drop)
               s == sysHead(ms)
           IN  /\ t \in Seq(Message)
               /\ drop >= Len(ms) - s => Len(t) = s
               /\ drop < Len(ms) - s
                    => /\ Len(t) = Len(ms) - drop
                       /\ \A x \in (s + 1)..Len(t) : t[x] = ms[x + drop]
               /\ s <= Len(t) /\ \A x \in 1..s : t[x] = ms[x] /\ t[x].role = "system"
  <1> DEFINE t == trimPreservingSystem(ms, drop)
             s == sysHead(ms)
             N == Len(ms)
             p == SubSeq(ms, 1, s)
             q == SubSeq(ms, s + drop + 1, N)
  <1>1. N \in Nat /\ s \in 0..N /\ s \in Nat /\ drop \in Nat /\ \A i \in 1..s : ms[i].role = "system"
    BY SysHeadIs
  <1>2. t = IF drop >= N - s THEN p ELSE p \o q
    BY DEF trimPreservingSystem
  <1> HIDE DEF s
  <1>3. p \in Seq(Message) /\ Len(p) = s /\ \A x \in 1..s : p[x] = ms[x]
    <2>1. 1 \in 1..(N + 1) /\ 1 <= s + 1 /\ (s - 1) + 1 = s /\ \A x \in 1..s : x + (1 - 1) = x
      BY <1>1
    <2> QED BY <1>1, <2>1, PartIs
  <1>4. CASE drop >= N - s
    BY <1>1, <1>2, <1>3, <1>4 DEF s
  <1>5. CASE drop < N - s
    <2>1. s + drop + 1 \in 1..(N + 1) /\ N \in 0..N /\ s + drop + 1 <= N + 1
          /\ (N - (s + drop + 1)) + 1 = N - (s + drop)
      BY <1>1, <1>5
    <2>2. q \in Seq(Message) /\ Len(q) = N - (s + drop)
          /\ \A x \in 1..(N - (s + drop)) : q[x] = ms[x + ((s + drop + 1) - 1)]
      BY <2>1, PartIs
    <2> HIDE DEF p, q
    <2>3. /\ p \o q \in Seq(Message) /\ Len(p \o q) = s + (N - (s + drop))
          /\ \A x \in 1..(s + (N - (s + drop))) :
                (p \o q)[x] = IF x <= s THEN p[x] ELSE q[x - s]
      BY <1>3, <2>2, ConcatProperties
    <2>4. s + (N - (s + drop)) = N - drop
      BY <1>1
    <2>5. t \in Seq(Message) /\ Len(t) = N - drop /\ s <= N - drop
          /\ \A x \in 1..(N - drop) : t[x] = IF x <= s THEN p[x] ELSE q[x - s]
      BY <1>1, <1>2, <1>5, <2>3, <2>4
    <2>6. \A x \in 1..s : t[x] = ms[x]
      <3>1. \A x \in 1..s : x \in 1..(N - drop) /\ x <= s
        BY <1>1, <2>5
      <3> QED BY <1>3, <2>5, <3>1
    <2>7. ASSUME NEW x \in (s + 1)..(N - drop) PROVE t[x] = ms[x + drop]
      <3>1. x \in 1..(N - drop) /\ ~(x <= s) /\ x - s \in 1..(N - (s + drop))
            /\ (x - s) + ((s + drop + 1) - 1) = x + drop
        BY <1>1, <2>7
      <3> QED BY <2>2, <2>5, <3>1
    <2> QED BY <1>1, <1>5, <2>5, <2>6, <2>7 DEF s
  <1> QED BY <1>1, <1>4, <1>5

(* The window cuts a result off its call only right behind the system      *)
(* messages.                                                               *)
LEMMA TrimKeeps ==
    ASSUME NEW ms, Well(ms), NEW drop \in 1..Len(ms), maxSize > 0
    PROVE  /\ Well(trimPreservingSystem(ms, drop))
           /\ \A c : Open(ms, c) => Open(trimPreservingSystem(ms, drop), c)
  <1> DEFINE N == Len(ms)
             t == trimPreservingSystem(ms, drop)
             s == sysHead(ms)
             M == Len(t)
  <1>1. /\ ms \in Seq(Message) /\ N \in Nat /\ s \in Nat /\ s <= N /\ drop \in Nat
        /\ s = N \/ ms[s + 1].role # "system"
    BY SysHeadIs DEF Well
  <1>2. /\ t \in Seq(Message) /\ M \in Nat
        /\ drop >= N - s => M = s
        /\ drop < N - s => M = N - drop /\ \A x \in (s + 1)..M : t[x] = ms[x + drop]
        /\ s <= M /\ \A x \in 1..s : t[x] = ms[x] /\ t[x].role = "system"
    BY <1>1, TrimIs
  <1> HIDE DEF t, s
  <1>3. ASSUME NEW k \in (s + 1)..(M + 1), NEW c, drop < N - s => AnchorAt(ms, k + drop, c)
        PROVE  AnchorAt(t, k, c)
    <2>1. CASE \A x \in (s + 1)..(k - 1) : t[x].role = "tool"
      <3>1. s \in 0..(k - 1)
        BY <1>1, <1>2
      <3>2. Anchors(t, s, k, c)
        BY <1>2, <2>1 DEF Anchors
      <3> QED BY <3>1, <3>2 DEF AnchorAt
    <2>2. CASE ~(\A x \in (s + 1)..(k - 1) : t[x].role = "tool")
      <3>1. drop < N - s /\ M = N - drop
        BY <1>1, <1>2, <2>2
      <3>2. PICK l \in 0..((k + drop) - 1) : Anchors(ms, l, k + drop, c)
        BY <1>3, <3>1 DEF AnchorAt
      <3>3. PICK y \in (s + 1)..(k - 1) : t[y].role # "tool"
        BY <2>2
      <3>4. y \in (s + 1)..M /\ y + drop <= (k + drop) - 1 /\ k \in Nat /\ l \in Nat
        BY <1>1, <1>2, <1>3, <3>2, <3>3
      <3>5. ms[y + drop].role # "tool"
        BY <1>2, <3>1, <3>3, <3>4
      <3>6. l >= y + drop
        <4>1. y + drop \notin (l + 1)..((k + drop) - 1)
          BY <3>2, <3>5 DEF Anchors
        <4> QED BY <1>1, <3>4, <4>1
      <3>7. ms[l].role = "assistant" /\ ms[l].call = c
        <4>1. s + 1 \in 1..l /\ s # N
          BY <1>1, <3>1, <3>4, <3>6
        <4>2. ~(\A x \in 1..l : ms[x].role = "system")
          BY <1>1, <4>1
        <4> QED BY <3>2, <4>2 DEF Anchors
      <3>8. l - drop \in (s + 1)..M /\ l - drop \in 0..(k - 1) /\ (l - drop) + drop = l
        BY <1>1, <1>2, <1>3, <3>2, <3>4, <3>6
      <3>9. t[l - drop] = ms[l]
        BY <1>2, <3>1, <3>8
      <3>10. ASSUME NEW x \in ((l - drop) + 1)..(k - 1) PROVE t[x].role = "tool"
        <4>1. x \in (s + 1)..M /\ x + drop \in (l + 1)..((k + drop) - 1)
          BY <1>1, <1>2, <1>3, <3>4, <3>8, <3>10
        <4> QED BY <1>2, <3>1, <3>2, <4>1 DEF Anchors
      <3>11. l - drop > 0
        BY <1>1, <3>8
      <3>12. Anchors(t, l - drop, k, c)
        BY <3>7, <3>9, <3>10, <3>11 DEF Anchors
      <3> QED BY <3>8, <3>12 DEF AnchorAt
    <2> QED BY <2>1, <2>2
  <1>4. Threaded(t)
    <2> SUFFICES ASSUME NEW k \in 1..M, t[k].role = "tool" PROVE AnchorAt(t, k, t[k].call)
      BY DEF Threaded
    <2>1. k \in (s + 1)..M /\ k \in (s + 1)..(M + 1) /\ drop < N - s /\ k + drop \in 1..N
      <3>1. k \notin 1..s
        BY <1>2
      <3>2. k > s
        BY <1>1, <3>1
      <3> QED BY <1>1, <1>2, <3>2
    <2>2. t[k] = ms[k + drop]
      BY <1>2, <2>1
    <2>3. AnchorAt(ms, k + drop, t[k].call)
      BY <2>1, <2>2 DEF Threaded, Well
    <2> QED BY <1>3, <2>1, <2>3
  <1>5. OneSystem(t)
    <2> SUFFICES ASSUME NEW k \in 2..M PROVE t[k].role # "system"
      BY DEF OneSystem
    <2>1. k \in Nat /\ k >= 2 /\ k <= M
      BY <1>2
    <2>2. CASE k <= s
      <3>1. k \in 1..s /\ k \in 2..N
        BY <1>1, <2>1, <2>2
      <3> QED BY <1>2, <3>1 DEF OneSystem, Well
    <2>3. CASE k > s
      <3>1. drop < N - s /\ M = N - drop
        BY <1>1, <1>2, <2>1, <2>3
      <3>2. k \in (s + 1)..M /\ k + drop \in 2..N
        BY <1>1, <2>1, <2>3, <3>1
      <3> QED BY <1>2, <3>1, <3>2 DEF OneSystem, Well
    <2> QED BY <1>1, <2>1, <2>2, <2>3
  <1>6. ASSUME NEW c, Open(ms, c) PROVE Open(t, c)
    <2>1. M \in Nat /\ s <= M /\ (drop < N - s => M = N - drop)
      BY <1>2
    <2>2. M + 1 \in (s + 1)..(M + 1) /\ (drop < N - s => (M + 1) + drop = N + 1)
      BY <1>1, <2>1
    <2> QED BY <1>3, <1>6, <2>2 DEF Open
  <1> QED BY <1>2, <1>4, <1>5, <1>6 DEF Well, t

(* At most the first message is a system message.                          *)
LEMMA SysHeadSmall ==
    ASSUME NEW ms, Well(ms)
    PROVE  sysHead(ms) \in 0..1 /\ sysHead(ms) <= Len(ms)
  <1>1. ms \in Seq(Message) /\ Len(ms) \in Nat
    BY DEF Well
  <1> DEFINE s == sysHead(ms)
  <1>2. s \in 0..Len(ms) /\ \A i \in 1..s : ms[i].role = "system"
    BY <1>1, SysHeadIs
  <1> HIDE DEF s
  <1>3. s < 2
    <2> SUFFICES ASSUME s >= 2 PROVE FALSE
      BY <1>2
    <2>1. 2 \in 1..s /\ 2 \in 2..Len(ms)
      BY <1>1, <1>2
    <2> QED BY <1>2, <2>1 DEF OneSystem, Well
  <1>4. s \in 0..1 /\ s <= Len(ms)
    BY <1>1, <1>2, <1>3
  <1> QED BY <1>4 DEF s

(* What BufferMemory.Add leaves: it is well formed if everything together  *)
(* is, it fits the window, and the newest message is in it.                *)
LEMMA AddKeeps ==
    ASSUME NEW ms, NEW new, Well(ms \o new), maxSize \in Nat
    PROVE  LET all == ms \o new
               t == Add(ms, new)
           IN  /\ Well(t)
               /\ \A c : Open(all, c) => Open(t, c)
               /\ maxSize > 0 => Len(t) <= maxSize \/ Len(t) = sysHead(t)
               /\ maxSize # 1 => t[Len(t)] = all[Len(all)]
  <1> DEFINE all == ms \o new
             t == Add(ms, new)
             N == Len(all)
             s == sysHead(all)
             drop == N - maxSize
  <1>1. all \in Seq(Message) /\ N \in Nat /\ s \in 0..1 /\ s <= N
    <2>1. s \in 0..1 /\ s <= N
      BY SysHeadSmall
    <2> QED BY <2>1 DEF Well
  <1>2. t = IF maxSize = 0 \/ N <= maxSize THEN all ELSE trimPreservingSystem(all, drop)
    BY DEF Add
  <1>3. Well(all)
    OBVIOUS
  <1> HIDE DEF all, t, s
  <1> DEFINE Good == /\ Well(t)
                     /\ \A c : Open(all, c) => Open(t, c)
                     /\ maxSize > 0 => Len(t) <= maxSize \/ Len(t) = sysHead(t)
                     /\ maxSize # 1 => t[Len(t)] = all[N]
  <1> SUFFICES Good
    BY DEF all, t
  <1>4. CASE maxSize = 0 \/ N <= maxSize
    <2>1. t = all /\ (maxSize > 0 => Len(t) <= maxSize)
      BY <1>2, <1>4
    <2> QED BY <1>3, <2>1
  <1>5. CASE ~(maxSize = 0 \/ N <= maxSize)
    <2>1. drop \in 1..N /\ maxSize > 0 /\ N - drop = maxSize /\ t = trimPreservingSystem(all, drop)
      BY <1>1, <1>2, <1>5
    <2>2. Well(t) /\ \A c : Open(all, c) => Open(t, c)
      BY <1>3, <2>1, TrimKeeps
    <2>3. /\ t \in Seq(Message)
          /\ drop >= N - s => Len(t) = s
          /\ drop < N - s => Len(t) = N - drop /\ \A x \in (s + 1)..Len(t) : t[x] = all[x + drop]
          /\ s <= Len(t) /\ \A x \in 1..s : t[x].role = "system"
      BY <1>1, <2>1, TrimIs DEF s
    <2> HIDE DEF drop
    <2>4. Len(t) <= maxSize \/ Len(t) = sysHead(t)
      <3>1. CASE drop < N - s
        BY <1>1, <2>1, <2>3, <3>1
      <3>2. CASE ~(drop < N - s)
        <4>1. Len(t) = s /\ s \in 0..Len(t)
          BY <1>1, <2>1, <2>3, <3>2
        <4> QED BY <2>3, <4>1, SysHeadUnique
      <3> QED BY <3>1, <3>2
    <2>5. ASSUME maxSize # 1 PROVE t[Len(t)] = all[N]
      <3>1. drop < N - s /\ s + 1 <= maxSize
        BY <1>1, <2>1, <2>5
      <3>2. Len(t) = N - drop
        BY <2>3, <3>1
      <3>3. Len(t) \in (s + 1)..Len(t) /\ Len(t) + drop = N
        BY <1>1, <2>1, <3>1, <3>2
      <3> QED BY <2>3, <3>1, <3>3
    <2> QED BY <2>2, <2>4, <2>5
  <1> QED BY <1>4, <1>5

(* L4 starts from the last call, so that its results stay explained.       *)
LEMMA CompressKeeps ==
    ASSUME NEW ms, Well(ms)
    PROVE  Well(Compress(ms))
  <1> DEFINE N == Len(ms)
             s == sysHead(ms)
             head == SubSeq(ms, 1, s) \o <<Plain("user")>>
             A == {i \in DOMAIN ms : ms[i].role = "assistant"}
             last == CHOOSE i \in A : \A j \in A : j <= i
             recent == IF A = {} THEN <<>> ELSE SubSeq(ms, last, N)
             t == head \o recent
  <1>1. ms \in Seq(Message) /\ N \in Nat /\ s \in 0..1 /\ s <= N /\ DOMAIN ms = 1..N
        /\ \A i \in 1..s : ms[i].role = "system"
    BY SysHeadSmall, SysHeadIs DEF Well
  <1>2. Compress(ms) = t
    BY DEF Compress
  <1>3. Plain("user") \in Message /\ Plain("user").role = "user"
    BY DEF Plain, Message
  <1> HIDE DEF s
  <1>4. /\ head \in Seq(Message) /\ Len(head) = s + 1 /\ head[s + 1].role = "user"
        /\ \A x \in 1..s : head[x].role = "system"
    <2> DEFINE p == SubSeq(ms, 1, s)
    <2>1. 1 \in 1..(N + 1) /\ s \in 0..N /\ 1 <= s + 1 /\ (s - 1) + 1 = s
          /\ \A x \in 1..s : x + (1 - 1) = x
      BY <1>1
    <2>2. p \in Seq(Message) /\ Len(p) = s /\ \A x \in 1..s : p[x] = ms[x]
      BY <1>1, <2>1, PartIs
    <2> HIDE DEF p
    <2>3. /\ p \o <<Plain("user")>> \in Seq(Message) /\ Len(p \o <<Plain("user")>>) = s + 1
          /\ (p \o <<Plain("user")>>)[s + 1] = Plain("user")
          /\ \A x \in 1..s : (p \o <<Plain("user")>>)[x] = p[x]
      BY <1>1, <1>3, <2>2
    <2> QED BY <1>1, <1>3, <2>2, <2>3 DEF p
  <1> HIDE DEF head
  <1>5. CASE A = {}
    <2>1. t = head
      BY <1>4, <1>5
    <2>2. \A x \in 1..(s + 1) : x = s + 1 \/ x \in 1..s
      BY <1>1
    <2>3. Threaded(head)
      BY <1>4, <2>2 DEF Threaded
    <2>4. \A x \in 2..(s + 1) : x = s + 1
      BY <1>1
    <2>5. OneSystem(head)
      BY <1>4, <2>4 DEF OneSystem
    <2> QED BY <1>2, <1>4, <2>1, <2>3, <2>5 DEF Well
  <1>6. CASE A # {}
    <2>1. A \subseteq 0..N
      BY <1>1
    <2>2. \E i \in A : \A j \in A : j <= i
      BY <1>1, <1>6, <2>1, GreatestNumber
    <2>3. last \in A /\ \A j \in A : j <= last
      BY <2>2
    <2> HIDE DEF last
    <2>4. last \in 1..N /\ ms[last].role = "assistant"
          /\ \A y \in 1..N : ms[y].role = "assistant" => y <= last
      BY <1>1, <2>3
    <2> DEFINE r == SubSeq(ms, last, N)
               n == (N - last) + 1
    <2>5. n \in Nat /\ n >= 1 /\ n = (N - last) + 1 /\ last \in Nat
      BY <1>1, <2>4
    <2>6. r \in Seq(Message) /\ Len(r) = n /\ \A x \in 1..n : r[x] = ms[x + (last - 1)]
      <3>1. last \in 1..(N + 1) /\ N \in 0..N /\ last <= N + 1
        BY <1>1, <2>4
      <3> QED BY <1>1, <3>1, PartIs
    <2>7. t = head \o r
      BY <1>6
    <2> HIDE DEF r, n, t, A
    <2>8. /\ t \in Seq(Message) /\ Len(t) = (s + 1) + n
          /\ \A x \in 1..((s + 1) + n) : t[x] = IF x <= s + 1 THEN head[x] ELSE r[x - (s + 1)]
      <3>1. /\ head \o r \in Seq(Message) /\ Len(head \o r) = Len(head) + Len(r)
            /\ \A x \in 1..(Len(head) + Len(r)) :
                  (head \o r)[x] = IF x <= Len(head) THEN head[x] ELSE r[x - Len(head)]
        BY <1>4, <2>6, ConcatProperties
      <3> QED BY <1>4, <2>6, <2>7, <3>1
    <2> DEFINE d == (last - 1) - (s + 1)
    <2>9. ASSUME NEW x \in (s + 2)..((s + 1) + n)
          PROVE  t[x] = ms[x + d] /\ x + d \in last..N /\ x + d \in 1..N
      <3>1. x \in 1..((s + 1) + n) /\ ~(x <= s + 1) /\ x - (s + 1) \in 1..n
            /\ (x - (s + 1)) + (last - 1) = x + d
        BY <1>1, <2>5
      <3>2. x + d \in last..N /\ x + d \in 1..N
        BY <1>1, <2>4, <2>5
      <3> QED BY <2>6, <2>8, <3>1, <3>2
    <2>10. \A x \in 1..(s + 1) : x \in 1..((s + 1) + n) /\ t[x] = head[x]
      BY <1>1, <2>5, <2>8
    <2>11. d \in Int /\ (s + 2) + d = last /\ s + 2 \in (s + 2)..((s + 1) + n)
      BY <1>1, <2>5
    <2>12. Threaded(t)
      <3> SUFFICES ASSUME NEW k \in 1..((s + 1) + n), t[k].role = "tool"
                   PROVE  AnchorAt(t, k, t[k].call)
        BY <2>8 DEF Threaded
      <3>1. k > s + 1
        <4> SUFFICES ASSUME k <= s + 1 PROVE FALSE
          BY <1>1
        <4>1. k \in 1..(s + 1) /\ (k = s + 1 \/ k \in 1..s)
          BY <1>1
        <4> QED BY <1>4, <2>10, <4>1
      <3>2. k \in (s + 2)..((s + 1) + n)
        BY <1>1, <2>5, <3>1
      <3>3. t[k] = ms[k + d] /\ k + d \in last..N /\ k + d \in 1..N /\ k + d \in Nat
        BY <2>9, <3>2
      <3>4. PICK l \in 0..((k + d) - 1) : Anchors(ms, l, k + d, t[k].call)
        BY <3>3 DEF Threaded, AnchorAt, Well
      <3>5. last < k + d
        <4>1. k + d # last
          BY <2>4, <3>3
        <4> QED BY <2>5, <3>3, <4>1
      <3>6. l >= last
        <4>1. last \notin (l + 1)..((k + d) - 1)
          BY <2>4, <3>4 DEF Anchors
        <4> QED BY <2>5, <3>3, <3>4, <3>5, <4>1
      <3>7. ms[l].role = "assistant" /\ ms[l].call = t[k].call
        <4>1. last \in 1..l
          BY <2>5, <2>4, <3>4, <3>6, <3>3
        <4>2. ~(\A x \in 1..l : ms[x].role = "system")
          BY <2>4, <4>1
        <4> QED BY <3>4, <4>2 DEF Anchors
      <3>8. l = last
        <4>1. l \in 1..N /\ l \in Nat
          BY <1>1, <2>4, <3>3, <3>4, <3>6
        <4>2. l <= last
          BY <2>4, <3>7, <4>1
        <4> QED BY <2>5, <3>6, <4>1, <4>2
      <3>9. t[s + 2] = ms[last]
        BY <2>9, <2>11
      <3>10. ASSUME NEW x \in ((s + 2) + 1)..(k - 1) PROVE t[x].role = "tool"
        <4>1. x \in (s + 2)..((s + 1) + n) /\ x + d \in (last + 1)..((k + d) - 1)
          BY <1>1, <2>5, <2>11, <3>2, <3>10
        <4> QED BY <2>9, <3>4, <3>8, <4>1 DEF Anchors
      <3>11. s + 2 \in 0..(k - 1) /\ s + 2 > 0
        <4>1. k # s + 2
          BY <2>11, <3>5, <2>5
        <4> QED BY <1>1, <2>5, <3>2, <4>1
      <3>12. Anchors(t, s + 2, k, t[k].call)
        BY <3>7, <3>8, <3>9, <3>10, <3>11 DEF Anchors
      <3> QED BY <3>11, <3>12 DEF AnchorAt
    <2>13. OneSystem(t)
      <3> SUFFICES ASSUME NEW x \in 2..((s + 1) + n) PROVE t[x].role # "system"
        BY <2>8 DEF OneSystem
      <3>1. CASE x <= s + 1
        <4>1. x = s + 1 /\ x \in 1..(s + 1)
          BY <1>1, <3>1
        <4> QED BY <1>4, <2>10, <4>1
      <3>2. CASE x > s + 1
        <4>1. x \in (s + 2)..((s + 1) + n)
          BY <1>1, <2>5, <3>2
        <4>2. t[x] = ms[x + d] /\ x + d \in last..N /\ x + d \in 1..N
          BY <2>9, <4>1
        <4>3. x + d = last \/ x + d \in 2..N
          BY <1>1, <2>4, <4>2
        <4> QED BY <2>4, <4>2, <4>3 DEF OneSystem, Well
      <3> QED BY <1>1, <2>5, <3>1, <3>2
    <2> QED BY <1>2, <2>8, <2>12, <2>13 DEF Well
  <1> QED BY <1>5, <1>6

(* The memory that is emptied and written again holds what is written.     *)
LEMMA WellEmpty ==
    /\ Well(<<>>)
    /\ \A ms : Well(ms) => <<>> \o ms = ms
  <1>1. <<>> \in Seq(Message) /\ Len(<<>>) = 0
    OBVIOUS
  <1>2. \A k \in 1..0 : FALSE
    OBVIOUS
  <1>3. \A k \in 2..0 : FALSE
    OBVIOUS
  <1>4. Well(<<>>)
    BY <1>1, <1>2, <1>3 DEF Well, Threaded, OneSystem
  <1>5. \A ms \in Seq(Message) : <<>> \o ms = ms
    OBVIOUS
  <1> QED BY <1>4, <1>5 DEF Well

(* The loop's messages are messages.                                       *)
LEMMA MessagesAre ==
    /\ \A r \in {"system", "user", "assistant"} : Plain(r) \in Message /\ Plain(r).role = r
    /\ \A id \in Nat, t \in Tools :
          CallOf(id, t) \in Message /\ CallOf(id, t).role = "assistant"
    /\ \A m \in Message, fails \in BOOLEAN, n \in 0..MaxTokens :
          /\ ResultOf(m.call, m.tool, fails, n) \in Message
          /\ ResultOf(m.call, m.tool, fails, n).role = "tool"
          /\ ResultOf(m.call, m.tool, fails, n).call = m.call
  <1>1. \A n \in 0..MaxTokens : n \in Nat
    BY ConversationAssumption
  <1> QED BY <1>1 DEF Plain, CallOf, ResultOf, Message, NoTool

(* The notes of the loop may always be added.                              *)
LEMMA NotesKeep ==
    ASSUME NEW ms, Well(ms), NEW new \in Notes
    PROVE  Well(ms \o new)
  <1>1. ms \in Seq(Message) /\ Plain("user") \in Message /\ Plain("assistant") \in Message
        /\ Plain("user").role = "user" /\ Plain("assistant").role = "assistant"
    BY MessagesAre DEF Well
  <1>2. Well(ms \o <<Plain("user")>>) /\ Well(ms \o <<Plain("assistant")>>)
    BY <1>1, AppendKeeps
  <1>3. Well((ms \o <<Plain("assistant")>>) \o <<Plain("user")>>)
    BY <1>1, <1>2, AppendKeeps
  <1>4. (ms \o <<Plain("assistant")>>) \o <<Plain("user")>> = ms \o <<Plain("assistant"), Plain("user")>>
    BY <1>1
  <1> QED BY <1>2, <1>3, <1>4 DEF Notes

\* A memory in which the window holds.
InWindow(ms) == maxSize > 0 => Len(ms) <= maxSize \/ Len(ms) = sysHead(ms)

(* A result is added, and the memory rewritten: at every point the memory  *)
(* is well formed, and in the end another result may follow.               *)
LEMMA ResultKeeps ==
    ASSUME NEW ms, Well(ms), maxSize \in Nat, NEW m \in Message, m.role = "tool", Open(ms, m.call)
    PROVE  LET all == Add(ms, <<m>>)
               new == CompactStaleToolResults(PruneConsecutiveFailures(all))
           IN  /\ Well(ms \o <<m>>) /\ Well(all) /\ Well(new) /\ <<>> \o new = new
               /\ Well(Add(<<>>, new)) /\ Open(Add(<<>>, new), m.call) /\ InWindow(Add(<<>>, new))
  <1> DEFINE all == Add(ms, <<m>>)
             p == PruneConsecutiveFailures(all)
             new == CompactStaleToolResults(p)
  <1>1. Well(ms \o <<m>>) /\ Open(ms \o <<m>>, m.call)
    BY AppendKeeps
  <1>2. Well(all) /\ Open(all, m.call)
    BY <1>1, AddKeeps
  <1> HIDE DEF all
  <1>3. Well(p) /\ Open(p, m.call)
    BY <1>2, PruneKeeps
  <1> HIDE DEF p
  <1>4. Well(new) /\ Open(new, m.call)
    BY <1>3, CompactKeeps
  <1> HIDE DEF new
  <1>5. <<>> \o new = new
    BY <1>4, WellEmpty
  <1>6. Well(Add(<<>>, new)) /\ Open(Add(<<>>, new), m.call) /\ InWindow(Add(<<>>, new))
    BY <1>4, <1>5, AddKeeps DEF InWindow
  <1> QED BY <1>1, <1>2, <1>4, <1>5, <1>6 DEF all, p, new

\* The inductive invariant of the conversation: the memory is well formed, the
\* latest call may get a result as long as the loop may add one, and the window
\* holds while a Run is under way.
ConvInv ==
    /\ maxSize \in Nat /\ calls \in Nat
    /\ Well(messages)
    /\ at \in {"executing", "evaluating"}
         => current \in Message /\ current.role = "assistant" /\ Open(messages, current.call)
    /\ at # "idle" => InWindow(messages)
    /\ at = "evaluating" => rewrote
    /\ LatestIsKept

(* It holds of a new session.                                              *)
LEMMA ConvInvInit == ConvInit => ConvInv
  <1> SUFFICES ASSUME ConvInit PROVE ConvInv
    OBVIOUS
  <1>1. maxSize \in Nat /\ calls \in Nat /\ at = "idle"
    BY ConversationAssumption DEF ConvInit
  <1>2. Well(<<Plain("system")>>)
    <2>1. Plain("system") \in Message /\ Plain("system").role = "system"
      BY MessagesAre
    <2>2. /\ <<Plain("system")>> \in Seq(Message) /\ Len(<<Plain("system")>>) = 1
          /\ <<Plain("system")>>[1].role = "system"
      BY <2>1
    <2>3. (\A k \in 1..1 : k = 1) /\ \A k \in 2..1 : FALSE
      OBVIOUS
    <2> QED BY <2>2, <2>3 DEF Well, Threaded, OneSystem
  <1>3. Well(messages)
    BY <1>2, WellEmpty DEF ConvInit
  <1> QED BY <1>1, <1>3 DEF ConvInv, LatestIsKept

(* No step of the loop, and no handler that is cut short, breaks it.       *)
LEMMA ConvInvStep == ConvInv /\ [ConvNext]_convVars => ConvInv'
  <1> SUFFICES ASSUME ConvInv, [ConvNext]_convVars PROVE ConvInv'
    OBVIOUS
  <1> DEFINE StepKeeps ==
        /\ calls' \in Nat
        /\ Well(messages')
        /\ at' \in {"executing", "evaluating"}
             => current' \in Message /\ current'.role = "assistant" /\ Open(messages', current'.call)
        /\ at' # "idle" => InWindow(messages')
        /\ at' = "evaluating" => rewrote'
        /\ at' = "executing" /\ ~rewrote' /\ maxSize # 1 => messages'[Len(messages')] = current'
  <1>0. /\ maxSize \in Nat /\ calls \in Nat /\ Well(messages)
        /\ at \in {"executing", "evaluating"}
             => current \in Message /\ current.role = "assistant" /\ Open(messages, current.call)
        /\ at # "idle" => InWindow(messages)
        /\ at = "evaluating" => rewrote
        /\ at = "executing" /\ ~rewrote /\ maxSize # 1 => messages[Len(messages)] = current
    BY DEF ConvInv, LatestIsKept
  <1>1. Plain("user") \in Message /\ Plain("user").role = "user"
        /\ Plain("assistant") \in Message /\ Plain("assistant").role = "assistant"
    BY MessagesAre
  <1>2. ASSUME NEW new, Well(messages \o new), messages' = Add(messages, new)
        PROVE  Well(messages') /\ InWindow(messages')
    BY <1>0, <1>2, AddKeeps DEF InWindow
  <1>3. Well(messages \o <<Plain("user")>>) /\ Well(messages \o <<Plain("assistant")>>)
    BY <1>0, <1>1, AppendKeeps
  <1>4. Well(Compress(messages)) /\ <<>> \o Compress(messages) = Compress(messages)
        /\ Well(Add(<<>>, Compress(messages))) /\ InWindow(Add(<<>>, Compress(messages)))
    <2>1. Well(Compress(messages))
      BY <1>0, CompressKeeps
    <2>2. <<>> \o Compress(messages) = Compress(messages)
      BY <2>1, WellEmpty
    <2> QED BY <1>0, <2>1, <2>2, AddKeeps DEF InWindow
  <1>5. ASSUME NEW fails \in BOOLEAN, NEW n \in 0..MaxTokens, at = "executing"
        PROVE  LET m == ResultOf(current.call, current.tool, fails, n)
                   all == Add(messages, <<m>>)
                   new == CompactStaleToolResults(PruneConsecutiveFailures(all))
               IN  /\ Well(messages \o <<m>>) /\ Well(all) /\ Well(new) /\ <<>> \o new = new
                   /\ Well(Add(<<>>, new)) /\ Open(Add(<<>>, new), current.call)
                   /\ InWindow(Add(<<>>, new))
    <2> DEFINE m == ResultOf(current.call, current.tool, fails, n)
    <2>1. m \in Message /\ m.role = "tool" /\ m.call = current.call /\ Open(messages, m.call)
      BY <1>0, <1>5, MessagesAre
    <2> HIDE DEF m
    <2>2. LET all == Add(messages, <<m>>)
              new == CompactStaleToolResults(PruneConsecutiveFailures(all))
          IN  /\ Well(messages \o <<m>>) /\ Well(all) /\ Well(new) /\ <<>> \o new = new
              /\ Well(Add(<<>>, new)) /\ Open(Add(<<>>, new), m.call) /\ InWindow(Add(<<>>, new))
      BY <1>0, <2>1, ResultKeeps
    <2> QED BY <2>1, <2>2 DEF m
  <1>6. StartRun => StepKeeps
    BY <1>0, <1>2, <1>3 DEF StartRun
  <1>7. Note => StepKeeps
    <2> SUFFICES ASSUME Note PROVE StepKeeps
      OBVIOUS
    <2>1. PICK new \in Notes : messages' = Add(messages, new)
      BY DEF Note
    <2>2. Well(messages \o new)
      BY <1>0, NotesKeep
    <2>3. Well(messages') /\ InWindow(messages')
      BY <1>2, <2>1, <2>2
    <2> QED BY <1>0, <2>3 DEF Note
  <1>8. ASSUME NEW t \in Tools, CallTool(t) PROVE StepKeeps
    <2>1. /\ calls' = calls + 1 /\ current' = CallOf(calls', t)
          /\ messages' = Add(messages, <<current'>>) /\ at' = "executing"
      BY <1>8 DEF CallTool
    <2>2. calls' \in Nat
      BY <1>0, <2>1
    <2>3. current' \in Message /\ current'.role = "assistant"
      BY <2>1, <2>2, MessagesAre
    <2>4. /\ Well(messages \o <<current'>>) /\ Open(messages \o <<current'>>, current'.call)
          /\ Len(messages \o <<current'>>) = Len(messages) + 1
          /\ (messages \o <<current'>>)[Len(messages) + 1] = current'
      BY <1>0, <2>3, AppendKeeps
    <2>5. Well(messages') /\ InWindow(messages')
      BY <1>2, <2>1, <2>4
    <2>6. /\ Open(messages', current'.call)
          /\ maxSize # 1 => messages'[Len(messages')] = current'
      BY <1>0, <2>1, <2>4, AddKeeps
    <2> QED BY <2>1, <2>2, <2>3, <2>5, <2>6
  <1>9. Retry => StepKeeps
    BY <1>0 DEF Retry
  <1>10. ASSUME NEW fails \in BOOLEAN, NEW n \in 0..MaxTokens, Result(fails, n) PROVE StepKeeps
    <2>1. Well(messages') /\ Open(messages', current.call) /\ InWindow(messages')
      BY <1>5, <1>10 DEF Result, Rewritten
    <2> QED BY <1>0, <1>10, <2>1 DEF Result
  <1>11. Continue => StepKeeps
    BY <1>0 DEF Continue
  <1>12. Refused => StepKeeps
    BY <1>0 DEF Refused
  <1>13. CompressContext => StepKeeps
    BY <1>0, <1>4 DEF CompressContext
  <1>14. Finish => StepKeeps
    <2> SUFFICES ASSUME Finish PROVE StepKeeps
      OBVIOUS
    <2>1. Well(messages')
      BY <1>0, <1>2, <1>3 DEF Finish
    <2> QED BY <1>0, <2>1 DEF Finish
  <1>15. CutShort => StepKeeps
    <2> SUFFICES ASSUME CutShort PROVE Well(messages')
      BY <1>0 DEF CutShort
    <2>1. CASE messages' \in AddCutShort(<<>>, Compress(messages))
      BY <1>4, <2>1, WellEmpty DEF AddCutShort
    <2>2. ASSUME NEW new \in Notes, messages' \in AddCutShort(messages, new) PROVE Well(messages')
      <3>1. Well(messages \o new)
        BY <1>0, NotesKeep
      <3> QED BY <1>0, <1>2, <2>2, <3>1 DEF AddCutShort
    <2>3. ASSUME NEW fails \in BOOLEAN, NEW n \in 0..MaxTokens, at = "executing",
                 LET m == ResultOf(current.call, current.tool, fails, n)
                     ms == Add(messages, <<m>>)
                 IN  messages' \in AddCutShort(messages, <<m>>)
                        \cup AddCutShort(<<>>, CompactStaleToolResults(PruneConsecutiveFailures(ms)))
          PROVE  Well(messages')
      <3> DEFINE m == ResultOf(current.call, current.tool, fails, n)
                 all == Add(messages, <<m>>)
                 new == CompactStaleToolResults(PruneConsecutiveFailures(all))
      <3>1. /\ Well(messages) /\ Well(messages \o <<m>>) /\ Well(all)
            /\ Well(<<>>) /\ Well(new) /\ <<>> \o new = new /\ Well(Add(<<>>, new))
        BY <1>0, <1>5, <2>3, WellEmpty
      <3>2. messages' \in {messages, messages \o <<m>>, all} \cup {<<>>, <<>> \o new, Add(<<>>, new)}
        BY <2>3 DEF AddCutShort
      <3> HIDE DEF m, all, new
      <3> QED BY <3>1, <3>2
    <2> QED BY <2>1, <2>2, <2>3 DEF CutShort
  <1>16. UNCHANGED convVars => StepKeeps /\ maxSize' = maxSize
    BY <1>0 DEF convVars
  <1>17. ConvNext => StepKeeps /\ maxSize' = maxSize
    BY <1>6, <1>7, <1>8, <1>9, <1>10, <1>11, <1>12, <1>13, <1>14, <1>15 DEF ConvNext
  <1>18. StepKeeps /\ maxSize' = maxSize
    BY <1>16, <1>17
  <1>19. Well(messages)' /\ (InWindow(messages') => InWindow(messages)')
         /\ (Open(messages', current'.call) => Open(messages, current.call)')
    BY <1>18 DEF Well, Threaded, OneSystem, Open, AnchorAt, Anchors, InWindow
  <1> QED BY <1>0, <1>18, <1>19 DEF ConvInv, LatestIsKept

(* ConvInv holds in every reachable state.                                 *)
LEMMA ConvInvariant == ConvSpec => []ConvInv
  BY ConvInvInit, ConvInvStep, PTL DEF ConvSpec

(* Every tool result in a session's memory follows the call that it        *)
(* answers, or lies at the place where the sliding window has cut, after   *)
(* any sequence of Runs, retries, rewrites, compressions and handlers that *)
(* are cut short (memory/buffer.go, memory/compressor.go, agent/loop.go).  *)
THEOREM ResultsStayExplained == ConvSpec => []ResultsFollowCalls
  <1>1. ConvInv => ResultsFollowCalls
    <2> SUFFICES ASSUME ConvInv, NEW i \in DOMAIN messages, messages[i].role = "tool"
                 PROVE  \/ \E j \in 1..(i - 1) :
                              messages[j].role = "assistant" /\ messages[j].call = messages[i].call
                        \/ maxSize > 0 /\ AtTheCut(i)
      BY DEF ResultsFollowCalls
    <2>1. messages \in Seq(Message) /\ Len(messages) \in Nat /\ i \in 1..Len(messages)
      BY DEF ConvInv, Well
    <2>2. PICK l \in 0..(i - 1) : Anchors(messages, l, i, messages[i].call)
      BY <2>1 DEF ConvInv, Well, Threaded, AnchorAt
    <2>3. CASE l > 0 /\ messages[l].role = "assistant" /\ messages[l].call = messages[i].call
      <3>1. l \in 1..(i - 1)
        BY <2>1, <2>2, <2>3
      <3> QED BY <2>3, <3>1
    <2>4. CASE maxSize > 0 /\ \A x \in 1..l : messages[x].role = "system"
      <3>1. l \in 0..Len(messages) /\ (l + 1 = i \/ l + 1 \in (l + 1)..(i - 1))
        BY <2>1, <2>2
      <3>2. messages[l + 1].role = "tool"
        BY <2>2, <3>1 DEF Anchors
      <3>3. sysHead(messages) = l
        BY <2>1, <2>4, <3>1, <3>2, SysHeadUnique
      <3>4. \A j \in (l + 1)..i : j = i \/ j \in (l + 1)..(i - 1)
        BY <2>1, <2>2
      <3>5. AtTheCut(i)
        BY <2>2, <3>3, <3>4 DEF AtTheCut, Anchors
      <3> QED BY <2>4, <3>5
    <2> QED BY <2>2, <2>3, <2>4 DEF Anchors
  <1> QED BY <1>1, ConvInvariant, PTL

(* While a Run is under way, the window of BufferMemory holds, and the     *)
(* call that the loop has just written is the last message in it, also     *)
(* when an earlier Run was cut short and left too many messages.           *)
THEOREM WindowIsKept == ConvSpec => []WindowKept
  <1>1. ConvInv => WindowKept
    BY DEF ConvInv, WindowKept, WindowBounded, InWindow
  <1> QED BY <1>1, ConvInvariant, PTL

-------------------------------------------------------------------------------
\* The conversation: the token budget.

\* What a message counts against the budget.
Weight(ms, i) == IF Full(ms, i) THEN ms[i].tokens ELSE 0

(* A result that has its content weighs what it holds.                     *)
LEMMA WeightIs ==
    ASSUME NEW ms \in Seq(Message), NEW i \in 1..Len(ms)
    PROVE  Weight(ms, i) \in Nat
  <1>1. ms[i] \in Message
    OBVIOUS
  <1> QED BY <1>1 DEF Weight, Full, Message

(* TokensFrom is the sum that its recursion describes.                     *)
LEMMA TokensAre ==
    ASSUME NEW ms \in Seq(Message)
    PROVE  /\ TokensFrom(ms, Len(ms) + 1) = 0
           /\ \A i \in 1..Len(ms) : TokensFrom(ms, i) = TokensFrom(ms, i + 1) + Weight(ms, i)
  <1> DEFINE N == Len(ms)
             D == 1..(N + 1)
             Step(f, i) == IF i > N THEN 0 ELSE f[i + 1] + Weight(ms, i)
             From(f, m) == DOMAIN f = D /\ f = [i \in D |-> f[i]]
                              /\ \A i \in m..(N + 1) : f[i] = Step(f, i)
             S == {m \in D : \E f : From(f, m)}
             Solves(f) == f = [i \in D |-> Step(f, i)]
  <1>0. N \in Nat /\ D \subseteq Nat
    OBVIOUS
  <1>1. N + 1 \in S
    <2> DEFINE f == [i \in D |-> 0]
    <2>1. \A i \in (N + 1)..(N + 1) : i = N + 1 /\ i > N /\ i \in D
      BY <1>0
    <2>2. \A i \in (N + 1)..(N + 1) : f[i] = Step(f, i)
      BY <2>1
    <2>3. From(f, N + 1)
      BY <2>2
    <2> QED BY <1>0, <2>3
  <1>2. PICK m \in S : \A y \in S : m <= y
    BY <1>0, <1>1, LeastNumber
  <1>3. PICK f : From(f, m)
    BY <1>2
  <1>4. ASSUME m # 1 PROVE FALSE
    <2> DEFINE g == [f EXCEPT ![m - 1] = Step(f, m - 1)]
    <2>1. m - 1 \in D /\ m \in D /\ m \in Nat
      BY <1>0, <1>2, <1>4
    <2>2. DOMAIN g = D /\ g = [i \in D |-> g[i]] /\ g[m - 1] = Step(f, m - 1)
          /\ \A i \in D : i # m - 1 => g[i] = f[i]
      BY <1>3, <2>1
    <2> HIDE DEF g
    <2>3. ASSUME NEW i \in (m - 1)..(N + 1) PROVE g[i] = Step(g, i)
      <3>1. i \in D /\ (~(i > N) => i + 1 \in D /\ i + 1 # m - 1)
        BY <1>0, <2>1, <2>3
      <3>2. Step(f, i) = Step(g, i)
        BY <2>2, <3>1
      <3>3. CASE i = m - 1
        BY <2>2, <3>2, <3>3
      <3>4. CASE i # m - 1
        <4>1. i \in m..(N + 1)
          BY <1>0, <2>1, <2>3, <3>4
        <4>2. f[i] = Step(f, i) /\ g[i] = f[i]
          BY <1>3, <2>2, <3>1, <3>4, <4>1
        <4> QED BY <3>2, <4>2
      <3> QED BY <3>3, <3>4
    <2>4. From(g, m - 1)
      BY <2>2, <2>3
    <2>5. m - 1 \in S
      BY <2>1, <2>4
    <2>6. m <= m - 1
      BY <1>2, <2>5
    <2> HIDE DEF S
    <2> QED BY <2>1, <2>6
  <1>5. Solves(f)
    BY <1>3, <1>4
  <1> DEFINE sum == CHOOSE h : Solves(h)
  <1>6. Solves(sum)
    BY <1>5
  <1> HIDE DEF From, S
  <1>7. \A i : TokensFrom(ms, i) = sum[i]
    BY DEF TokensFrom, Weight
  <1> HIDE DEF sum
  <1>8. \A i \in D : sum[i] = Step(sum, i)
    BY <1>6
  <1>9. N + 1 \in D /\ N + 1 > N /\ \A i \in 1..N : i \in D /\ ~(i > N)
    BY <1>0
  <1>10. sum[N + 1] = 0 /\ \A i \in 1..N : sum[i] = sum[i + 1] + Weight(ms, i)
    BY <1>8, <1>9
  <1> QED BY <1>7, <1>10

(* It is a number, and never grows from one message to the next.           *)
LEMMA TokensFall ==
    ASSUME NEW ms \in Seq(Message)
    PROVE  /\ \A i \in 1..(Len(ms) + 1) : TokensFrom(ms, i) \in Nat
           /\ \A i, j \in 1..(Len(ms) + 1) : i <= j => TokensFrom(ms, j) <= TokensFrom(ms, i)
  <1> DEFINE N == Len(ms)
             T(i) == TokensFrom(ms, i)
             Good(i) == T(i) \in Nat /\ \A j \in i..(N + 1) : T(j) \in Nat /\ T(j) <= T(i)
             S == {m \in 0..(N + 1) : m > 0 /\ ~Good(m)}
  <1>1. N \in Nat /\ T(N + 1) = 0
        /\ \A i \in 1..N : T(i) = T(i + 1) + Weight(ms, i) /\ Weight(ms, i) \in Nat
    BY TokensAre, WeightIs
  <1> HIDE DEF T
  <1>2. ASSUME S # {} PROVE FALSE
    <2>1. N + 1 \in Nat /\ S \subseteq 0..(N + 1)
      BY <1>1
    <2>2. PICK m \in S : \A y \in S : y <= m
      BY <1>2, <2>1, GreatestNumber
    <2>3. m # N + 1
      <3>1. \A j \in (N + 1)..(N + 1) : j = N + 1
        BY <1>1
      <3>2. Good(N + 1)
        BY <1>1, <3>1
      <3> QED BY <2>2, <3>2
    <2>4. m \in 1..N /\ m + 1 \in 0..(N + 1) /\ m + 1 > 0 /\ ~(m + 1 <= m)
      BY <1>1, <2>2, <2>3
    <2>5. Good(m + 1)
      BY <2>2, <2>4
    <2>6. T(m) = T(m + 1) + Weight(ms, m) /\ Weight(ms, m) \in Nat
      BY <1>1, <2>4
    <2>7. \A j \in m..(N + 1) : j = m \/ j \in (m + 1)..(N + 1)
      BY <1>1, <2>4
    <2>8. Good(m)
      BY <2>5, <2>6, <2>7
    <2> QED BY <2>2, <2>8
  <1>3. \A i \in 1..(N + 1) : Good(i)
    <2>1. \A i \in 1..(N + 1) : i \in 0..(N + 1) /\ i > 0
      BY <1>1
    <2> QED BY <1>2, <2>1
  <1>4. \A i, j \in 1..(N + 1) : i <= j => j \in i..(N + 1)
    BY <1>1
  <1> QED BY <1>3, <1>4 DEF T

\* Every tool result of t is one of ms, in the same order.
TakenBy(t, ms, h) ==
    /\ \A x \in 1..Len(t) : t[x].role = "tool" => h[x] \in 1..Len(ms) /\ t[x] = ms[h[x]]
    /\ \A x, y \in 1..Len(t) :
          t[x].role = "tool" /\ t[y].role = "tool" /\ x < y => h[x] < h[y]

Taken(t, ms) == \E h : TakenBy(t, ms, h)

\* The results that have their content are the newest ones.
Newest(ms) ==
    \A i, j \in 1..Len(ms) : i < j /\ Full(ms, i) /\ ms[j].role = "tool" => Full(ms, j)

(* What holds fewer results weighs no more, and the newest stay the newest.*)
LEMMA TakenWeighs ==
    ASSUME NEW ms \in Seq(Message), NEW t \in Seq(Message), Taken(t, ms)
    PROVE  /\ TokensFrom(t, 1) <= TokensFrom(ms, 1)
           /\ Newest(ms) => Newest(t)
  <1> DEFINE N == Len(ms)
             M == Len(t)
             W(y) == TokensFrom(ms, y)
             V(x) == TokensFrom(t, x)
  <1>1. PICK h : TakenBy(t, ms, h)
    BY DEF Taken
  <1>2. ASSUME Newest(ms) PROVE Newest(t)
    <2> SUFFICES ASSUME NEW i \in 1..M, NEW j \in 1..M, i < j, Full(t, i), t[j].role = "tool"
                 PROVE  Full(t, j)
      BY DEF Newest
    <2>1. /\ h[i] \in 1..N /\ t[i] = ms[h[i]] /\ h[j] \in 1..N /\ t[j] = ms[h[j]]
          /\ h[i] < h[j]
      BY <1>1 DEF TakenBy, Full
    <2> QED BY <1>2, <2>1 DEF Newest, Full
  <1>3. N \in Nat /\ M \in Nat /\ V(M + 1) = 0
    BY TokensAre
  <1>8. \A x \in 1..M : V(x) = V(x + 1) + Weight(t, x) /\ Weight(t, x) \in Nat
    BY TokensAre, WeightIs
  <1>9. \A y \in 1..N : W(y) = W(y + 1) + Weight(ms, y)
    BY TokensAre
  <1>10. (\A y \in 1..(N + 1) : W(y) \in Nat) /\ \A x \in 1..(M + 1) : V(x) \in Nat
    BY TokensFall
  <1>11. \A y, z \in 1..(N + 1) : y <= z => W(z) <= W(y)
    BY TokensFall
  <1> HIDE DEF W, V
  <1> DEFINE Above(x, y) == \A z \in x..M : t[z].role = "tool" => y <= h[z]
             Good(x) == \A y \in 1..(N + 1) : Above(x, y) => V(x) <= W(y)
             S == {m \in 0..(M + 1) : m > 0 /\ ~Good(m)}
  <1>4. ASSUME S # {} PROVE FALSE
    <2>1. M + 1 \in Nat /\ S \subseteq 0..(M + 1)
      BY <1>3
    <2>2. PICK m \in S : \A y \in S : y <= m
      BY <1>4, <2>1, GreatestNumber
    <2>3. m # M + 1
      <3>1. \A y \in 1..(N + 1) : 0 <= W(y)
        BY <1>10
      <3>2. Good(M + 1)
        BY <1>3, <3>1
      <3> QED BY <2>2, <3>2
    <2>4. m \in 1..M /\ m + 1 \in 0..(M + 1) /\ m + 1 > 0 /\ ~(m + 1 <= m)
      <3>1. m \in 0..(M + 1) /\ m > 0
        BY <2>2
      <3> HIDE DEF S
      <3> QED BY <1>3, <2>3, <3>1
    <2>5. Good(m + 1)
      BY <2>2, <2>4
    <2>6. ASSUME NEW y \in 1..(N + 1), Above(m, y) PROVE V(m) <= W(y)
      <3>1. V(m) = V(m + 1) + Weight(t, m) /\ V(m + 1) \in Nat /\ W(y) \in Nat
        <4>1. m + 1 \in 1..(M + 1)
          BY <1>3, <2>4
        <4> QED BY <1>8, <1>10, <2>4, <4>1
      <3>2. \A z \in (m + 1)..M : z \in m..M /\ z \in 1..M /\ m < z
        BY <1>3, <2>4
      <3>3. CASE t[m].role # "tool"
        <4>1. Weight(t, m) = 0
          BY <3>3 DEF Weight, Full
        <4>2. Above(m + 1, y)
          BY <2>6, <3>2
        <4>3. V(m + 1) <= W(y)
          BY <2>5, <4>2
        <4> QED BY <3>1, <4>1, <4>3
      <3>4. CASE t[m].role = "tool"
        <4>1. h[m] \in 1..N /\ t[m] = ms[h[m]]
          BY <1>1, <2>4, <3>4 DEF TakenBy
        <4>2. m \in m..M
          BY <2>4
        <4>3. y <= h[m]
          BY <2>6, <3>4, <4>2
        <4>4. \A z \in (m + 1)..M : t[z].role = "tool" => h[z] \in 1..N /\ h[m] < h[z]
          BY <1>1, <2>4, <3>2, <3>4 DEF TakenBy
        <4>5. h[m] + 1 \in 1..(N + 1) /\ h[m] \in 1..(N + 1)
          BY <1>3, <4>1
        <4>6. Above(m + 1, h[m] + 1)
          <5>1. ASSUME NEW z \in (m + 1)..M, t[z].role = "tool" PROVE h[m] + 1 <= h[z]
            BY <1>3, <4>1, <4>4, <5>1
          <5> QED BY <5>1
        <4>7. V(m + 1) <= W(h[m] + 1)
          BY <2>5, <4>5, <4>6
        <4>8. W(h[m]) = W(h[m] + 1) + Weight(ms, h[m]) /\ W(h[m]) <= W(y)
          BY <1>9, <1>11, <4>1, <4>3, <4>5
        <4>9. Weight(t, m) = Weight(ms, h[m])
          BY <4>1 DEF Weight, Full
        <4>10. W(h[m]) \in Nat /\ W(h[m] + 1) \in Nat /\ Weight(t, m) \in Nat
          BY <1>8, <1>10, <2>4, <4>5
        <4> QED BY <3>1, <4>7, <4>8, <4>9, <4>10
      <3> QED BY <3>3, <3>4
    <2> QED BY <2>2, <2>6
  <1>5. Good(1)
    <2>1. 1 \in 0..(M + 1)
      BY <1>3
    <2> QED BY <1>4, <2>1
  <1>6. 1 \in 1..(N + 1) /\ Above(1, 1)
    <2>1. \A z \in 1..M : t[z].role = "tool" => h[z] \in 1..N
      BY <1>1 DEF TakenBy
    <2> QED BY <1>3, <2>1
  <1>7. V(1) <= W(1)
    BY <1>5, <1>6
  <1> QED BY <1>2, <1>7 DEF V, W

(* L3 keeps a result iff it fits the budget together with the newer ones.  *)
LEMMA CompactLeaves ==
    ASSUME NEW ms \in Seq(Message)
    PROVE  LET t == CompactStaleToolResults(ms)
           IN  /\ t \in Seq(Message) /\ Len(t) = Len(ms)
               /\ \A i \in 1..Len(ms) :
                     /\ t[i].role = ms[i].role
                     /\ Full(t, i) <=> Full(ms, i) /\ TokensFrom(ms, i) <= Budget
                     /\ Full(t, i) => t[i] = ms[i]
  <1> DEFINE N == Len(ms)
             t == CompactStaleToolResults(ms)
             over == {i \in 1..N : Full(ms, i) /\ TokensFrom(ms, i) > Budget}
             empty(i) == [ms[i] EXCEPT !.tokens = Cleared, !.fails = FALSE]
             gone(i) == Full(ms, i) /\ \E j \in over : i <= j
  <1>1. N \in Nat /\ DOMAIN ms = 1..N /\ Budget \in Nat
    BY ConversationAssumption
  <1>2. t = [i \in 1..N |-> IF gone(i) THEN empty(i) ELSE ms[i]]
    BY <1>1 DEF CompactStaleToolResults
  <1> HIDE DEF t
  <1>3. ASSUME NEW i \in 1..N
        PROVE  /\ t[i] \in Message /\ t[i].role = ms[i].role
               /\ Full(t, i) <=> Full(ms, i) /\ ~gone(i)
               /\ Full(t, i) => t[i] = ms[i]
    <2>1. ms[i] \in Message
      OBVIOUS
    <2>2. empty(i) \in Message /\ empty(i).role = ms[i].role /\ empty(i).tokens = Cleared
      BY <2>1 DEF Message
    <2>3. t[i] = IF gone(i) THEN empty(i) ELSE ms[i]
      BY <1>2
    <2> HIDE DEF gone, empty
    <2> QED BY <2>1, <2>2, <2>3 DEF Full
  <1>4. ASSUME NEW i \in 1..N, Full(ms, i) PROVE gone(i) <=> ~(TokensFrom(ms, i) <= Budget)
    <2>1. i \in 1..(N + 1) /\ TokensFrom(ms, i) \in Nat /\ i <= i
      BY <1>1, TokensFall
    <2>2. ASSUME gone(i) PROVE ~(TokensFrom(ms, i) <= Budget)
      <3>1. PICK j \in over : i <= j
        BY <2>2
      <3>2. j \in 1..(N + 1) /\ TokensFrom(ms, j) > Budget
        BY <1>1, <3>1
      <3>3. TokensFrom(ms, j) <= TokensFrom(ms, i) /\ TokensFrom(ms, j) \in Nat
        BY <2>1, <3>1, <3>2, TokensFall
      <3> QED BY <1>1, <2>1, <3>2, <3>3
    <2>3. ASSUME ~(TokensFrom(ms, i) <= Budget) PROVE gone(i)
      <3>1. TokensFrom(ms, i) > Budget
        BY <1>1, <2>1, <2>3
      <3>2. i \in over
        BY <1>4, <3>1
      <3> QED BY <1>4, <2>1, <3>2
    <2> QED BY <2>2, <2>3
  <1>5. t \in Seq(Message) /\ Len(t) = N
    <2>1. t = [i \in 1..N |-> t[i]]
      BY <1>2
    <2>2. \A i \in 1..N : t[i] \in Message
      BY <1>3
    <2> QED BY <1>1, <2>1, <2>2
  <1> HIDE DEF gone
  <1> QED BY <1>3, <1>4, <1>5 DEF t

(* So what it leaves fits the budget.                                      *)
LEMMA CompactFits ==
    ASSUME NEW ms \in Seq(Message)
    PROVE  LET t == CompactStaleToolResults(ms)
           IN  /\ t \in Seq(Message)
               /\ TokensFrom(t, 1) <= Budget
               /\ Newest(ms) => Newest(t)
  <1> DEFINE N == Len(ms)
             t == CompactStaleToolResults(ms)
             W(y) == TokensFrom(ms, y)
             V(x) == TokensFrom(t, x)
  <1>1. /\ t \in Seq(Message) /\ Len(t) = N /\ N \in Nat /\ Budget \in Nat
        /\ \A i \in 1..N :
              /\ t[i].role = ms[i].role
              /\ Full(t, i) <=> Full(ms, i) /\ W(i) <= Budget
              /\ Full(t, i) => t[i] = ms[i]
    BY CompactLeaves, ConversationAssumption
  <1> HIDE DEF t
  <1>2. /\ V(N + 1) = 0 /\ W(N + 1) = 0
        /\ \A x \in 1..N : V(x) = V(x + 1) + Weight(t, x) /\ Weight(t, x) \in Nat
        /\ \A x \in 1..N : W(x) = W(x + 1) + Weight(ms, x) /\ Weight(ms, x) \in Nat
        /\ \A y \in 1..(N + 1) : W(y) \in Nat /\ V(y) \in Nat
        /\ \A y, z \in 1..(N + 1) : y <= z => W(z) <= W(y)
    BY <1>1, TokensAre, TokensFall, WeightIs
  <1> HIDE DEF V, W
  <1>3. ASSUME Newest(ms) PROVE Newest(t)
    <2> SUFFICES ASSUME NEW i \in 1..N, NEW j \in 1..N, i < j, Full(t, i), t[j].role = "tool"
                 PROVE  Full(t, j)
      BY <1>1 DEF Newest
    <2>1. Full(ms, i) /\ W(i) <= Budget /\ ms[j].role = "tool"
      BY <1>1
    <2>2. Full(ms, j)
      BY <1>3, <2>1 DEF Newest
    <2>3. i \in 1..(N + 1) /\ j \in 1..(N + 1) /\ i <= j
      BY <1>1
    <2>4. W(j) <= W(i) /\ W(i) \in Nat /\ W(j) \in Nat
      BY <1>2, <2>3
    <2>5. W(j) <= Budget
      BY <1>1, <2>1, <2>4
    <2> QED BY <1>1, <2>2, <2>5
  <1> DEFINE Good(x) == V(x) <= Budget /\ V(x) <= W(x)
             S == {m \in 0..(N + 1) : m > 0 /\ ~Good(m)}
  <1>4. ASSUME S # {} PROVE FALSE
    <2>1. N + 1 \in Nat /\ S \subseteq 0..(N + 1)
      BY <1>1
    <2>2. PICK m \in S : \A y \in S : y <= m
      BY <1>4, <2>1, GreatestNumber
    <2>3. m # N + 1
      <3>1. Good(N + 1)
        BY <1>1, <1>2
      <3> QED BY <2>2, <3>1
    <2>4. m \in 1..N /\ m + 1 \in 0..(N + 1) /\ m + 1 > 0 /\ ~(m + 1 <= m)
      BY <1>1, <2>2, <2>3
    <2>5. Good(m + 1)
      BY <2>2, <2>4
    <2>6. /\ V(m) = V(m + 1) + Weight(t, m) /\ W(m) = W(m + 1) + Weight(ms, m)
          /\ V(m + 1) \in Nat /\ W(m + 1) \in Nat /\ W(m) \in Nat /\ Weight(ms, m) \in Nat
      <3>1. m \in 1..(N + 1) /\ m + 1 \in 1..(N + 1)
        BY <1>1, <2>4
      <3> QED BY <1>2, <2>4, <3>1
    <2>7. CASE Full(t, m)
      <3>1. Weight(t, m) = Weight(ms, m) /\ W(m) <= Budget
        BY <1>1, <2>4, <2>7 DEF Weight, Full
      <3>2. Good(m)
        BY <1>1, <2>5, <2>6, <3>1
      <3> QED BY <2>2, <3>2
    <2>8. CASE ~Full(t, m)
      <3>1. Weight(t, m) = 0
        BY <2>8 DEF Weight
      <3>2. Good(m)
        BY <1>1, <2>5, <2>6, <3>1
      <3> QED BY <2>2, <3>2
    <2> QED BY <2>7, <2>8
  <1>5. Good(1)
    <2>1. 1 \in 0..(N + 1) /\ 1 > 0
      BY <1>1
    <2> QED BY <1>4, <2>1
  <1> QED BY <1>1, <1>3, <1>5 DEF V, t

(* The window and the two other rewrites take results away only.           *)
LEMMA RewritesTake ==
    ASSUME NEW ms \in Seq(Message)
    PROVE  /\ Taken(ms, ms)
           /\ Taken(PruneConsecutiveFailures(ms), ms)
           /\ \A drop \in 1..Len(ms) : Taken(trimPreservingSystem(ms, drop), ms)
  <1> DEFINE N == Len(ms)
  <1>1. N \in Nat
    OBVIOUS
  <1>2. Taken(ms, ms)
    <2> DEFINE h == [x \in 1..N |-> x]
    <2>1. TakenBy(ms, ms, h)
      BY DEF TakenBy
    <2> QED BY <2>1 DEF Taken
  <1>3. Taken(PruneConsecutiveFailures(ms), ms)
    <2> DEFINE p == PruneConsecutiveFailures(ms)
    <2>1. PICK h : LeftOf(ms, 1, p, h)
      BY PruneLeft
    <2>2. p \in Seq(Message) /\ Len(p) \in Nat
      BY <2>1 DEF LeftOf
    <2> HIDE DEF p
    <2>3. /\ h \in [1..(Len(p) + 1) -> 1..(N + 1)] /\ h[Len(p) + 1] = N + 1
          /\ \A x, y \in 1..(Len(p) + 1) : x < y => h[x] < h[y]
          /\ \A x \in 1..Len(p) : p[x] = ms[h[x]]
      BY <2>1 DEF LeftOf
    <2>4. \A x \in 1..Len(p) : x \in 1..(Len(p) + 1) /\ Len(p) + 1 \in 1..(Len(p) + 1) /\ x < Len(p) + 1
      BY <2>2
    <2>5. \A x \in 1..Len(p) : h[x] \in 1..(N + 1) /\ h[x] < N + 1
      BY <2>3, <2>4
    <2>6. \A x \in 1..Len(p) : h[x] \in 1..N
      BY <1>1, <2>5
    <2>7. TakenBy(p, ms, h)
      BY <2>3, <2>4, <2>6 DEF TakenBy
    <2> QED BY <2>7 DEF Taken, p
  <1>4. ASSUME NEW drop \in 1..N PROVE Taken(trimPreservingSystem(ms, drop), ms)
    <2> DEFINE t == trimPreservingSystem(ms, drop)
               s == sysHead(ms)
               h == [x \in 1..Len(t) |-> x + drop]
    <2>1. s \in Nat /\ s <= N /\ drop \in Nat
      BY <1>1, SysHeadIs
    <2>2. /\ t \in Seq(Message)
          /\ drop >= N - s => Len(t) = s
          /\ drop < N - s => Len(t) = N - drop /\ \A x \in (s + 1)..Len(t) : t[x] = ms[x + drop]
          /\ s <= Len(t) /\ \A x \in 1..s : t[x].role = "system"
      BY TrimIs
    <2> HIDE DEF t, s
    <2>3. Len(t) \in Nat /\ \A x \in 1..Len(t) : h[x] = x + drop
      BY <2>2
    <2> HIDE DEF h
    <2>4. ASSUME NEW x \in 1..Len(t), t[x].role = "tool" PROVE h[x] \in 1..N /\ t[x] = ms[h[x]]
      <3>1. x \notin 1..s
        BY <2>2, <2>4
      <3>2. drop < N - s /\ x \in (s + 1)..Len(t)
        BY <1>1, <2>1, <2>2, <2>3, <3>1
      <3>3. Len(t) = N - drop /\ t[x] = ms[x + drop]
        BY <2>2, <3>2
      <3> QED BY <1>1, <2>1, <2>3, <3>2, <3>3
    <2>5. \A x, y \in 1..Len(t) : x < y => h[x] < h[y]
      BY <2>1, <2>3
    <2>6. TakenBy(t, ms, h)
      BY <2>4, <2>5 DEF TakenBy
    <2> QED BY <2>6 DEF Taken, t
  <1> QED BY <1>2, <1>3, <1>4

(* So does adding what is no result.                                       *)
LEMMA NoResultTakes ==
    ASSUME NEW ms \in Seq(Message), NEW m \in Message, m.role # "tool"
    PROVE  ms \o <<m>> \in Seq(Message) /\ Taken(ms \o <<m>>, ms)
  <1> DEFINE N == Len(ms)
             t == ms \o <<m>>
             h == [x \in 1..(N + 1) |-> x]
  <1>1. /\ N \in Nat /\ t \in Seq(Message) /\ Len(t) = N + 1 /\ t[N + 1] = m
        /\ \A x \in 1..N : t[x] = ms[x]
    OBVIOUS
  <1> HIDE DEF t
  <1>2. \A x \in 1..(N + 1) : h[x] = x /\ (x = N + 1 \/ x \in 1..N)
    BY <1>1
  <1> HIDE DEF h
  <1>3. TakenBy(t, ms, h)
    BY <1>1, <1>2 DEF TakenBy
  <1> QED BY <1>1, <1>3 DEF Taken, t

(* L4, too, keeps the results behind the last call only.                   *)
LEMMA CompressTakes ==
    ASSUME NEW ms, Well(ms)
    PROVE  Taken(Compress(ms), ms)
  <1> DEFINE N == Len(ms)
             s == sysHead(ms)
             p == SubSeq(ms, 1, s)
             head == p \o <<Plain("user")>>
             A == {i \in DOMAIN ms : ms[i].role = "assistant"}
             last == CHOOSE i \in A : \A j \in A : j <= i
             recent == IF A = {} THEN <<>> ELSE SubSeq(ms, last, N)
             t == head \o recent
  <1>1. /\ ms \in Seq(Message) /\ N \in Nat /\ s \in 0..N /\ DOMAIN ms = 1..N
        /\ \A i \in 1..s : ms[i].role = "system"
    BY SysHeadIs DEF Well
  <1>2. Compress(ms) = t
    BY DEF Compress
  <1>3. Plain("user") \in Message /\ Plain("user").role = "user"
    BY MessagesAre
  <1> HIDE DEF s
  <1>4. /\ head \in Seq(Message) /\ Len(head) = s + 1 /\ s \in Nat
        /\ \A x \in 1..(s + 1) : head[x].role # "tool"
    <2>1. 1 \in 1..(N + 1) /\ s \in 0..N /\ 1 <= s + 1 /\ (s - 1) + 1 = s
          /\ \A x \in 1..s : x + (1 - 1) = x
      BY <1>1
    <2>2. p \in Seq(Message) /\ Len(p) = s /\ \A x \in 1..s : p[x] = ms[x]
      BY <1>1, <2>1, PartIs
    <2> HIDE DEF p
    <2>3. /\ head \in Seq(Message) /\ Len(head) = s + 1
          /\ head[s + 1] = Plain("user")
          /\ \A x \in 1..s : head[x] = p[x]
      BY <1>1, <1>3, <2>2
    <2>4. \A x \in 1..(s + 1) : x = s + 1 \/ x \in 1..s
      BY <1>1
    <2> QED BY <1>1, <1>3, <2>2, <2>3, <2>4
  <1> HIDE DEF head
  <1>5. \E d \in Int : /\ recent \in Seq(Message) /\ Len(recent) \in Nat
                       /\ \A x \in 1..Len(recent) : x + d \in 1..N /\ recent[x] = ms[x + d]
    <2>1. CASE A = {}
      <3>1. recent = <<>>
        BY <2>1
      <3> HIDE DEF recent
      <3>2. recent \in Seq(Message) /\ Len(recent) = 0
        BY <3>1
      <3>3. 0 \in Int /\ Len(recent) \in Nat /\ \A x \in 1..Len(recent) : FALSE
        BY <3>2
      <3> QED BY <3>2, <3>3
    <2>2. CASE A # {}
      <3>1. A \subseteq 0..N
        BY <1>1
      <3>2. \E i \in A : \A j \in A : j <= i
        BY <1>1, <2>2, <3>1, GreatestNumber
      <3>3. last \in A
        BY <3>2
      <3>4. last \in 1..N /\ recent = SubSeq(ms, last, N)
        BY <1>1, <2>2, <3>3
      <3> HIDE DEF last, recent
      <3>5. last \in 1..(N + 1) /\ N \in 0..N /\ last <= N + 1
        BY <1>1, <3>4
      <3>6. /\ recent \in Seq(Message) /\ Len(recent) = (N - last) + 1
            /\ \A x \in 1..((N - last) + 1) : recent[x] = ms[x + (last - 1)]
        BY <1>1, <3>4, <3>5, PartIs
      <3>7. last - 1 \in Int /\ Len(recent) \in Nat
            /\ \A x \in 1..Len(recent) : x + (last - 1) \in 1..N
        BY <1>1, <3>4, <3>6
      <3>8. \A x \in 1..Len(recent) :
               x + (last - 1) \in 1..N /\ recent[x] = ms[x + (last - 1)]
        BY <3>6, <3>7
      <3> QED BY <3>6, <3>7, <3>8
    <2> QED BY <2>1, <2>2
  <1> HIDE DEF recent
  <1>6. PICK d \in Int : /\ recent \in Seq(Message) /\ Len(recent) \in Nat
                         /\ \A x \in 1..Len(recent) : x + d \in 1..N /\ recent[x] = ms[x + d]
    BY <1>5
  <1> DEFINE L == Len(recent)
             h == [x \in 1..Len(t) |-> (x - (s + 1)) + d]
  <1>7. /\ t \in Seq(Message) /\ Len(t) = (s + 1) + L
        /\ \A x \in 1..((s + 1) + L) : t[x] = IF x <= s + 1 THEN head[x] ELSE recent[x - (s + 1)]
    <2>1. head \in Seq(Message) /\ recent \in Seq(Message)
      BY <1>4, <1>6
    <2>2. /\ t \in Seq(Message) /\ Len(t) = Len(head) + Len(recent)
          /\ \A x \in 1..(Len(head) + Len(recent)) :
                t[x] = IF x <= Len(head) THEN head[x] ELSE recent[x - Len(head)]
      BY <2>1, ConcatProperties
    <2> HIDE DEF t
    <2> QED BY <1>4, <2>2
  <1> HIDE DEF t
  <1>8. \A x \in 1..Len(t) : h[x] = (x - (s + 1)) + d
    OBVIOUS
  <1> HIDE DEF h
  <1>9. ASSUME NEW x \in 1..Len(t), t[x].role = "tool" PROVE h[x] \in 1..N /\ t[x] = ms[h[x]]
    <2>1. x \notin 1..(s + 1)
      BY <1>4, <1>7, <1>9
    <2>2. ~(x <= s + 1) /\ x - (s + 1) \in 1..L /\ x \in 1..((s + 1) + L)
      BY <1>4, <1>6, <1>7, <2>1
    <2> QED BY <1>6, <1>7, <1>8, <2>2
  <1>10. \A x, y \in 1..Len(t) : x < y => h[x] < h[y]
    <2> SUFFICES ASSUME NEW x \in 1..Len(t), NEW y \in 1..Len(t), x < y PROVE h[x] < h[y]
      OBVIOUS
    <2>1. h[x] = (x - (s + 1)) + d /\ h[y] = (y - (s + 1)) + d
      BY <1>8
    <2>2. x \in Int /\ y \in Int /\ s \in Int /\ d \in Int
      BY <1>4, <1>7
    <2> QED BY <2>1, <2>2
  <1>11. TakenBy(t, ms, h)
    BY <1>9, <1>10 DEF TakenBy
  <1> QED BY <1>2, <1>11 DEF Taken

(* An Add leaves no more than everything together.                         *)
LEMMA AddTakes ==
    ASSUME NEW ms, NEW new, ms \o new \in Seq(Message), maxSize \in Nat
    PROVE  Taken(Add(ms, new), ms \o new)
  <1> DEFINE all == ms \o new
             t == Add(ms, new)
             N == Len(all)
             drop == N - maxSize
  <1>1. all \in Seq(Message) /\ N \in Nat
    OBVIOUS
  <1>2. t = IF maxSize = 0 \/ N <= maxSize THEN all ELSE trimPreservingSystem(all, drop)
    BY DEF Add
  <1> HIDE DEF all, t
  <1> SUFFICES Taken(t, all)
    BY DEF all, t
  <1>3. CASE maxSize = 0 \/ N <= maxSize
    BY <1>1, <1>2, <1>3, RewritesTake
  <1>4. CASE ~(maxSize = 0 \/ N <= maxSize)
    <2>1. drop \in 1..N /\ t = trimPreservingSystem(all, drop)
      BY <1>1, <1>2, <1>4
    <2> QED BY <1>1, <2>1, RewritesTake
  <1> QED BY <1>3, <1>4

(* Numbers that are listed once each are as many as the list is long.      *)
LEMMA CountedBy ==
    ASSUME NEW S, NEW n \in Nat, NEW f \in [1..n -> S],
           \A x, y \in 1..n : x < y => f[x] # f[y],
           \A i \in S : \E x \in 1..n : f[x] = i
    PROVE  Cardinality(S) = n
  <1>1. \A x, y \in 1..n : f[x] = f[y] => x = y
    OBVIOUS
  <1>2. f \in Bijection(1..n, S)
    BY <1>1 DEF Bijection, Injection, IsInjective, Surjection
  <1>3. ExistsBijection(1..n, S)
    BY <1>2 DEF ExistsBijection
  <1> QED BY <1>3, FS_CountingElements

(* L1 leaves, in order, exactly the messages of no superseded pair.        *)
LEMMA PruneIsExact ==
    ASSUME NEW ms \in Seq(Message)
    PROVE  LET kept == {i \in DOMAIN ms : ~Superseded(ms, i) /\ ~Superseded(ms, i - 1)}
               pruned == PruneConsecutiveFailures(ms)
           IN  /\ Len(pruned) = Cardinality(kept)
               /\ \A i \in kept : pruned[Cardinality({j \in kept : j <= i})] = ms[i]
  <1> DEFINE N == Len(ms)
             kept == {i \in DOMAIN ms : ~Superseded(ms, i) /\ ~Superseded(ms, i - 1)}
             p == PruneConsecutiveFailures(ms)
             M == Len(p)
  <1>1. N \in Nat /\ DOMAIN ms = 1..N
    OBVIOUS
  <1>2. PICK h : LeftOf(ms, 1, p, h)
    BY PruneLeft
  <1>3. p \in Seq(Message) /\ M \in Nat
    BY <1>2 DEF LeftOf
  <1>4. \A i : i \in kept <=> i \in 1..N /\ ~Dropped(ms, i)
    BY <1>1 DEF Dropped
  <1> HIDE DEF p, kept
  <1>5. /\ h \in [1..(M + 1) -> 1..(N + 1)] /\ h[M + 1] = N + 1
        /\ \A x, y \in 1..(M + 1) : x < y => h[x] < h[y]
        /\ \A x \in 1..M : p[x] = ms[h[x]]
        /\ \A y \in 1..N : (\E x \in 1..M : h[x] = y) \/ Dropped(ms, y)
        /\ \A x \in 1..M : ~Dropped(ms, h[x])
    BY <1>2 DEF LeftOf
  <1>6. \A x \in 1..M : x \in 1..(M + 1) /\ M + 1 \in 1..(M + 1) /\ x < M + 1
    BY <1>3
  <1>7. \A x \in 1..M : h[x] \in 1..(N + 1) /\ h[x] < N + 1
    BY <1>5, <1>6
  <1>8. \A x \in 1..M : h[x] \in kept /\ h[x] \in Nat
    BY <1>1, <1>4, <1>5, <1>7
  <1>9. \A x, y \in 1..M : x < y => h[x] < h[y]
    BY <1>5, <1>6
  <1>10. \A i \in kept : \E x \in 1..M : h[x] = i
    BY <1>4, <1>5
  <1>11. ASSUME NEW m \in 0..M, NEW T, T \subseteq kept,
                \A x \in 1..m : h[x] \in T, \A i \in T : \E x \in 1..m : h[x] = i
         PROVE  Cardinality(T) = m
    <2> DEFINE g == [x \in 1..m |-> h[x]]
    <2>1. m \in Nat /\ \A x \in 1..m : x \in 1..M
      BY <1>3
    <2>2. g \in [1..m -> T] /\ \A x \in 1..m : g[x] = h[x]
      BY <1>11
    <2> HIDE DEF g
    <2>3. \A x, y \in 1..m : x < y => g[x] # g[y]
      <3>1. \A x, y \in 1..m : x < y => h[x] < h[y] /\ h[x] \in Nat /\ h[y] \in Nat
        BY <1>8, <1>9, <2>1
      <3> QED BY <2>2, <3>1
    <2>4. \A i \in T : \E x \in 1..m : g[x] = i
      BY <1>11, <2>2
    <2> QED BY <2>1, <2>2, <2>3, <2>4, CountedBy
  <1>12. M = Cardinality(kept)
    <2>1. M \in 0..M
      BY <1>3
    <2> QED BY <1>8, <1>10, <1>11, <2>1
  <1>13. ASSUME NEW i \in kept PROVE p[Cardinality({j \in kept : j <= i})] = ms[i]
    <2>1. PICK m \in 1..M : h[m] = i
      BY <1>10
    <2> DEFINE T == {j \in kept : j <= i}
    <2>2. m \in 0..M /\ \A x \in 1..m : x \in 1..M /\ (x = m \/ x < m)
      BY <1>3, <2>1
    <2>3. \A x \in 1..m : h[x] \in kept /\ h[x] <= i
      <3>1. \A x \in 1..m : h[x] \in kept /\ h[x] \in Nat /\ (x = m \/ h[x] < h[m])
        BY <1>8, <1>9, <2>1, <2>2
      <3>2. i \in Nat
        BY <1>8, <2>1
      <3> QED BY <2>1, <3>1, <3>2
    <2>4. ASSUME NEW j \in T PROVE \E x \in 1..m : h[x] = j
      <3>1. PICK x \in 1..M : h[x] = j
        BY <1>10
      <3>2. h[x] <= h[m] /\ h[x] \in Nat /\ h[m] \in Nat
        BY <1>8, <2>1, <3>1
      <3>3. ~(m < x)
        BY <1>9, <2>1, <3>2
      <3>4. x \in 1..m
        BY <1>3, <2>1, <3>3
      <3> QED BY <3>1, <3>4
    <2>5. Cardinality(T) = m
      <3>1. T \subseteq kept /\ \A x \in 1..m : h[x] \in T
        BY <2>3
      <3> HIDE DEF T
      <3> QED BY <1>11, <2>2, <2>4, <3>1
    <2> QED BY <1>5, <2>1, <2>5
  <1> QED BY <1>12, <1>13 DEF kept, p

\* The inductive invariant of the rewrites: the results that still have their
\* content are the newest ones, whatever the loop is doing, and they fit the
\* budget when the Run has rewritten the memory and is not in the middle of a
\* call.
RewriteInv ==
    /\ Newest(messages)
    /\ at \in {"evaluating", "planning"} /\ rewrote => TokensFrom(messages, 1) <= Budget

(* It holds of a new session.                                              *)
LEMMA RewriteInvInit == ConvInit => RewriteInv
  <1> SUFFICES ASSUME ConvInit PROVE RewriteInv
    OBVIOUS
  <1>1. messages = <<>> \/ messages = <<Plain("system")>>
    BY DEF ConvInit
  <1>2. Len(messages) = 0 \/ Len(messages) = 1
    BY <1>1
  <1>3. ASSUME NEW i \in 1..Len(messages), NEW j \in 1..Len(messages) PROVE ~(i < j)
    <2> DEFINE n == Len(messages)
    <2>1. n = 0 \/ n = 1
      BY <1>2
    <2>2. i \in 1..n /\ j \in 1..n
      OBVIOUS
    <2> HIDE DEF n
    <2> QED BY <2>1, <2>2
  <1> QED BY <1>3 DEF ConvInit, RewriteInv, Newest

(* A message that is no result, or one that has its content, is newer than *)
(* all others.                                                             *)
LEMMA NewestKeeps ==
    ASSUME NEW ms \in Seq(Message), Newest(ms), NEW m \in Message,
           m.role = "tool" => m.tokens # Cleared
    PROVE  ms \o <<m>> \in Seq(Message) /\ Newest(ms \o <<m>>)
  <1> DEFINE N == Len(ms)
             t == ms \o <<m>>
  <1>1. /\ N \in Nat /\ t \in Seq(Message) /\ Len(t) = N + 1 /\ t[N + 1] = m
        /\ \A x \in 1..N : t[x] = ms[x]
    OBVIOUS
  <1> HIDE DEF t
  <1> SUFFICES ASSUME NEW i \in 1..(N + 1), NEW j \in 1..(N + 1), i < j,
                      Full(t, i), t[j].role = "tool"
               PROVE  Full(t, j)
    BY <1>1 DEF Newest, t
  <1>2. i \in 1..N /\ (j = N + 1 \/ j \in 1..N)
    BY <1>1
  <1> QED BY <1>1, <1>2 DEF Newest, Full

(* What an Add leaves of messages that are all known to be in order.       *)
LEMMA AddFits ==
    ASSUME NEW ms, NEW new, Well(ms \o new), maxSize \in Nat, Newest(ms \o new)
    PROVE  /\ Add(ms, new) \in Seq(Message)
           /\ Newest(Add(ms, new))
           /\ TokensFrom(Add(ms, new), 1) <= TokensFrom(ms \o new, 1)
  <1>1. Add(ms, new) \in Seq(Message) /\ ms \o new \in Seq(Message)
    BY AddKeeps DEF Well
  <1>2. Taken(Add(ms, new), ms \o new)
    BY <1>1, AddTakes
  <1> QED BY <1>1, <1>2, TakenWeighs

(* A rewrite puts the memory back within the budget.                       *)
LEMMA RewriteFits ==
    ASSUME NEW ms, Well(ms), Newest(ms), maxSize \in Nat
    PROVE  LET new == CompactStaleToolResults(PruneConsecutiveFailures(ms))
           IN  /\ Newest(new)
               /\ Newest(Add(<<>>, new))
               /\ TokensFrom(Add(<<>>, new), 1) <= Budget
  <1> DEFINE p == PruneConsecutiveFailures(ms)
             new == CompactStaleToolResults(p)
             t == Add(<<>>, new)
  <1>1. ms \in Seq(Message) /\ p \in Seq(Message) /\ Well(p)
    BY PruneKeeps DEF Well
  <1>2. Newest(p)
    BY <1>1, RewritesTake, TakenWeighs
  <1> HIDE DEF p
  <1>3. new \in Seq(Message) /\ TokensFrom(new, 1) <= Budget /\ Newest(new)
    BY <1>1, <1>2, CompactFits
  <1>4. Well(new)
    BY <1>1, CompactKeeps
  <1> HIDE DEF new
  <1>5. <<>> \o new = new
    BY <1>4, WellEmpty
  <1>6. t \in Seq(Message) /\ Newest(t) /\ TokensFrom(t, 1) <= TokensFrom(new, 1)
    BY <1>3, <1>4, <1>5, AddFits
  <1> HIDE DEF t
  <1>7. TokensFrom(t, 1) \in Nat /\ TokensFrom(new, 1) \in Nat /\ Budget \in Nat
    <2>1. 1 \in 1..(Len(t) + 1) /\ 1 \in 1..(Len(new) + 1)
      BY <1>3, <1>6
    <2> QED BY <1>3, <1>6, <2>1, TokensFall, ConversationAssumption
  <1>8. TokensFrom(t, 1) <= Budget
    BY <1>3, <1>6, <1>7
  <1> QED BY <1>3, <1>6, <1>8 DEF t, new, p

(* What the loop says next weighs nothing.                                 *)
LEMMA NotesFit ==
    ASSUME NEW ms, Well(ms), Newest(ms), maxSize \in Nat, NEW new \in Notes
    PROVE  /\ Newest(ms \o new)
           /\ Newest(Add(ms, new))
           /\ TokensFrom(Add(ms, new), 1) <= TokensFrom(ms, 1)
  <1> DEFINE u == Plain("user")
             a == Plain("assistant")
  <1>1. u \in Message /\ u.role # "tool" /\ a \in Message /\ a.role # "tool"
    BY MessagesAre
  <1> HIDE DEF u, a
  <1>2. ms \in Seq(Message)
    BY DEF Well
  <1>3. ASSUME NEW t \in Seq(Message), NEW m \in Message, m.role # "tool", Newest(t)
        PROVE  /\ t \o <<m>> \in Seq(Message) /\ Newest(t \o <<m>>)
               /\ TokensFrom(t \o <<m>>, 1) <= TokensFrom(t, 1)
    <2>1. t \o <<m>> \in Seq(Message) /\ Taken(t \o <<m>>, t)
      BY <1>3, NoResultTakes
    <2> QED BY <1>3, <2>1, TakenWeighs
  <1> DEFINE all == ms \o new
  <1>4. all \in Seq(Message) /\ Newest(all) /\ TokensFrom(all, 1) <= TokensFrom(ms, 1)
    <2>1. CASE new = <<u>>
      BY <1>1, <1>2, <1>3, <2>1
    <2>2. CASE new = <<a, u>>
      <3> DEFINE one == ms \o <<a>>
                 two == one \o <<u>>
      <3>1. one \in Seq(Message) /\ Newest(one) /\ TokensFrom(one, 1) <= TokensFrom(ms, 1)
        BY <1>1, <1>2, <1>3
      <3>2. all = two
        BY <1>1, <1>2, <2>2
      <3> HIDE DEF one
      <3>3. two \in Seq(Message) /\ Newest(two) /\ TokensFrom(two, 1) <= TokensFrom(one, 1)
        BY <1>1, <1>3, <3>1
      <3> HIDE DEF two, all
      <3>4. TokensFrom(ms, 1) \in Nat /\ TokensFrom(one, 1) \in Nat /\ TokensFrom(two, 1) \in Nat
        <4>1. 1 \in 1..(Len(ms) + 1) /\ 1 \in 1..(Len(one) + 1) /\ 1 \in 1..(Len(two) + 1)
          BY <1>2, <3>1, <3>3
        <4> QED BY <1>2, <3>1, <3>3, <4>1, TokensFall
      <3>5. TokensFrom(two, 1) <= TokensFrom(ms, 1)
        BY <3>1, <3>3, <3>4
      <3> QED BY <3>2, <3>3, <3>5
    <2> QED BY <2>1, <2>2 DEF Notes, u, a
  <1>5. Well(all)
    BY NotesKeep
  <1> DEFINE t == Add(ms, new)
  <1>6. t \in Seq(Message) /\ Newest(t) /\ TokensFrom(t, 1) <= TokensFrom(all, 1)
    BY <1>4, <1>5, AddFits
  <1> HIDE DEF all, t
  <1>7. TokensFrom(ms, 1) \in Nat /\ TokensFrom(all, 1) \in Nat /\ TokensFrom(t, 1) \in Nat
    <2>1. 1 \in 1..(Len(ms) + 1) /\ 1 \in 1..(Len(all) + 1) /\ 1 \in 1..(Len(t) + 1)
      BY <1>2, <1>4, <1>6
    <2> QED BY <1>2, <1>4, <1>6, <2>1, TokensFall
  <1>8. TokensFrom(t, 1) <= TokensFrom(ms, 1)
    BY <1>4, <1>6, <1>7
  <1> QED BY <1>4, <1>6, <1>8 DEF t, all

(* Nor does a summary of the past.                                         *)
LEMMA CompressFits ==
    ASSUME NEW ms, Well(ms), Newest(ms), maxSize \in Nat
    PROVE  LET new == Compress(ms)
           IN  /\ Newest(new)
               /\ Newest(Add(<<>>, new))
               /\ TokensFrom(Add(<<>>, new), 1) <= TokensFrom(ms, 1)
  <1> DEFINE new == Compress(ms)
             t == Add(<<>>, new)
  <1>1. ms \in Seq(Message) /\ new \in Seq(Message) /\ Well(new) /\ <<>> \o new = new
    BY CompressKeeps, WellEmpty DEF Well
  <1>2. Newest(new) /\ TokensFrom(new, 1) <= TokensFrom(ms, 1)
    BY <1>1, CompressTakes, TakenWeighs
  <1> HIDE DEF new
  <1>3. t \in Seq(Message) /\ Newest(t) /\ TokensFrom(t, 1) <= TokensFrom(new, 1)
    BY <1>1, <1>2, AddFits
  <1> HIDE DEF t
  <1>4. TokensFrom(ms, 1) \in Nat /\ TokensFrom(new, 1) \in Nat /\ TokensFrom(t, 1) \in Nat
    <2>1. 1 \in 1..(Len(ms) + 1) /\ 1 \in 1..(Len(new) + 1) /\ 1 \in 1..(Len(t) + 1)
      BY <1>1, <1>3
    <2> QED BY <1>1, <1>3, <2>1, TokensFall
  <1>5. TokensFrom(t, 1) <= TokensFrom(ms, 1)
    BY <1>2, <1>3, <1>4
  <1> QED BY <1>2, <1>3, <1>5 DEF t, new

(* No step breaks it.                                                      *)
LEMMA RewriteInvStep == ConvInv /\ RewriteInv /\ [ConvNext]_convVars => RewriteInv'
  <1> SUFFICES ASSUME ConvInv, RewriteInv, [ConvNext]_convVars PROVE RewriteInv'
    OBVIOUS
  <1> DEFINE Fits(ms) == TokensFrom(ms, 1) <= Budget
             Settled == at \in {"evaluating", "planning"} /\ rewrote
             StepKeeps == /\ Newest(messages')
                          /\ at' \in {"evaluating", "planning"} /\ rewrote' => Fits(messages')
  <1>0. /\ maxSize \in Nat /\ calls \in Nat /\ Well(messages) /\ messages \in Seq(Message)
        /\ at = "executing" => current \in Message /\ Open(messages, current.call)
        /\ Newest(messages)
        /\ Settled => Fits(messages)
    BY DEF ConvInv, RewriteInv, Well
  <1>1. ASSUME NEW ms \in Seq(Message), NEW t \in Seq(Message),
               TokensFrom(t, 1) <= TokensFrom(ms, 1), Fits(ms)
        PROVE  Fits(t)
    <2>1. 1 \in 1..(Len(ms) + 1) /\ 1 \in 1..(Len(t) + 1)
      OBVIOUS
    <2>2. TokensFrom(ms, 1) \in Nat /\ TokensFrom(t, 1) \in Nat /\ Budget \in Nat
      BY <2>1, TokensFall, ConversationAssumption
    <2> QED BY <1>1, <2>2
  <1>2. ASSUME NEW m \in Message, m.role \in {"user", "assistant"}
        PROVE  Newest(messages \o <<m>>) /\ Newest(Add(messages, <<m>>))
    <2>1. Well(messages \o <<m>>)
      BY <1>0, <1>2, AppendKeeps
    <2>2. Newest(messages \o <<m>>)
      BY <1>0, <1>2, NewestKeeps
    <2> QED BY <1>0, <2>1, <2>2, AddFits
  <1>3. Plain("user") \in Message /\ Plain("user").role = "user"
        /\ Plain("assistant") \in Message /\ Plain("assistant").role = "assistant"
    BY MessagesAre
  <1>4. ASSUME NEW fails \in BOOLEAN, NEW n \in 0..MaxTokens, at = "executing"
        PROVE  LET m == ResultOf(current.call, current.tool, fails, n)
                   all == Add(messages, <<m>>)
                   new == CompactStaleToolResults(PruneConsecutiveFailures(all))
               IN  /\ Newest(messages \o <<m>>) /\ Newest(all) /\ Newest(new)
                   /\ <<>> \o new = new
                   /\ Newest(Add(<<>>, new)) /\ Fits(Add(<<>>, new))
    <2> DEFINE m == ResultOf(current.call, current.tool, fails, n)
               all == Add(messages, <<m>>)
               new == CompactStaleToolResults(PruneConsecutiveFailures(all))
    <2>1. m \in Message /\ m.role = "tool" /\ m.call = current.call
      BY <1>0, <1>4, MessagesAre
    <2>2. m.tokens # Cleared
      <3>1. m.tokens = n /\ n >= 0
        BY DEF ResultOf
      <3>2. \A k \in Nat : k # Cleared
        BY DEF Cleared
      <3>3. n \in Nat
        BY ConversationAssumption
      <3> QED BY <3>1, <3>2, <3>3
    <2> HIDE DEF m
    <2>3. Well(messages \o <<m>>) /\ Well(all) /\ <<>> \o new = new
      BY <1>0, <1>4, <2>1, ResultKeeps
    <2>4. Newest(messages \o <<m>>)
      BY <1>0, <2>1, <2>2, NewestKeeps
    <2>5. Newest(all)
      BY <1>0, <2>3, <2>4, AddFits
    <2> HIDE DEF all
    <2>6. Newest(new) /\ Newest(Add(<<>>, new)) /\ Fits(Add(<<>>, new))
      BY <1>0, <2>3, <2>5, RewriteFits
    <2> QED BY <2>3, <2>4, <2>5, <2>6 DEF m, all
  <1>5. /\ Newest(Compress(messages)) /\ Newest(Add(<<>>, Compress(messages)))
        /\ <<>> \o Compress(messages) = Compress(messages)
        /\ Fits(messages) => Fits(Add(<<>>, Compress(messages)))
    <2> DEFINE new == Compress(messages)
               t == Add(<<>>, new)
    <2>1. Well(new) /\ <<>> \o new = new
      BY <1>0, CompressKeeps, WellEmpty
    <2>2. t \in Seq(Message)
      BY <1>0, <2>1, AddKeeps DEF Well
    <2>3. Newest(new) /\ Newest(t) /\ TokensFrom(t, 1) <= TokensFrom(messages, 1)
      BY <1>0, CompressFits
    <2>4. Fits(messages) => Fits(t)
      BY <1>0, <1>1, <2>2, <2>3
    <2> QED BY <2>1, <2>3, <2>4
  <1>6. Newest(<<>>)
    <2>1. Len(<<>>) = 0 /\ \A i \in 1..0 : FALSE
      OBVIOUS
    <2> QED BY <2>1 DEF Newest
  <1>7. StartRun => StepKeeps
    BY <1>2, <1>3 DEF StartRun
  <1>8. Note => StepKeeps
    <2> SUFFICES ASSUME Note PROVE StepKeeps
      OBVIOUS
    <2>1. PICK new \in Notes : messages' = Add(messages, new)
      BY DEF Note
    <2>2. Newest(messages') /\ TokensFrom(messages', 1) <= TokensFrom(messages, 1)
      BY <1>0, <2>1, NotesFit
    <2>3. messages' \in Seq(Message)
      BY <1>0, <2>1, NotesKeep, AddKeeps DEF Well
    <2>4. Fits(messages) => Fits(messages')
      BY <1>0, <1>1, <2>2, <2>3
    <2>5. at = "planning" /\ at' = at /\ rewrote' = rewrote
      BY DEF Note
    <2> QED BY <1>0, <2>2, <2>4, <2>5
  <1>9. ASSUME NEW t \in Tools, CallTool(t) PROVE StepKeeps
    <2>1. /\ calls' = calls + 1 /\ current' = CallOf(calls', t)
          /\ messages' = Add(messages, <<current'>>) /\ at' = "executing"
      BY <1>9 DEF CallTool
    <2>2. calls' \in Nat
      BY <1>0, <2>1
    <2>3. current' \in Message /\ current'.role = "assistant"
      BY <2>1, <2>2, MessagesAre
    <2> QED BY <1>2, <2>1, <2>3
  <1>10. Retry => StepKeeps
    BY <1>0 DEF Retry
  <1>11. ASSUME NEW fails \in BOOLEAN, NEW n \in 0..MaxTokens, Result(fails, n) PROVE StepKeeps
    BY <1>4, <1>11 DEF Result, Rewritten
  <1>12. Continue => StepKeeps
    BY <1>0 DEF Continue
  <1>13. Refused => StepKeeps
    BY <1>0 DEF Refused
  <1>14. CompressContext => StepKeeps
    BY <1>0, <1>5 DEF CompressContext
  <1>15. Finish => StepKeeps
    BY <1>0, <1>2, <1>3 DEF Finish
  <1>16. CutShort => StepKeeps
    <2> SUFFICES ASSUME CutShort PROVE Newest(messages')
      BY DEF CutShort
    <2>1. CASE messages' \in AddCutShort(<<>>, Compress(messages))
      BY <1>5, <1>6, <2>1 DEF AddCutShort
    <2>2. ASSUME NEW new \in Notes, messages' \in AddCutShort(messages, new)
          PROVE  Newest(messages')
      BY <1>0, <2>2, NotesFit DEF AddCutShort
    <2>3. ASSUME NEW fails \in BOOLEAN, NEW n \in 0..MaxTokens, at = "executing",
                 LET m == ResultOf(current.call, current.tool, fails, n)
                     ms == Add(messages, <<m>>)
                 IN  messages' \in AddCutShort(messages, <<m>>)
                        \cup AddCutShort(<<>>, CompactStaleToolResults(PruneConsecutiveFailures(ms)))
          PROVE  Newest(messages')
      BY <1>0, <1>4, <1>6, <2>3 DEF AddCutShort
    <2> QED BY <2>1, <2>2, <2>3 DEF CutShort
  <1>17. UNCHANGED convVars => StepKeeps
    BY <1>0 DEF convVars
  <1>18. StepKeeps
    BY <1>7, <1>8, <1>9, <1>10, <1>11, <1>12, <1>13, <1>14, <1>15, <1>16, <1>17 DEF ConvNext
  <1>19. Newest(messages') => Newest(messages)'
    BY DEF Newest, Full
  <1>20. Fits(messages') => (TokensFrom(messages, 1) <= Budget)'
    BY DEF TokensFrom, Full
  <1> QED BY <1>18, <1>19, <1>20 DEF RewriteInv

(* After a tool call, the results that the model sees in full fit the      *)
(* budget and are the newest ones; L3 clears no other; and L1 drops the    *)
(* failures that another one of the same tool follows, and nothing else    *)
(* (memory/compressor.go), in every conversation that Runs, retries,       *)
(* windows, compressions and cut handlers can produce.                     *)
THEOREM RewritesAreExact == ConvSpec => []RewriteExact
  <1>1. ConvInv /\ RewriteInv => RewriteExact
    <2> SUFFICES ASSUME ConvInv, RewriteInv PROVE RewriteExact
      OBVIOUS
    <2>1. messages \in Seq(Message) /\ DOMAIN messages = 1..Len(messages)
      BY DEF ConvInv, Well
    <2>2. BudgetRespected
      BY <2>1 DEF BudgetRespected, RewriteInv, Newest
    <2>3. CompactExact
      BY <2>1, CompactLeaves DEF CompactExact
    <2>4. PruneExact
      BY <2>1, PruneIsExact DEF PruneExact
    <2> QED BY <2>2, <2>3, <2>4 DEF RewriteExact
  <1>2. ConvInv /\ RewriteInv /\ [ConvNext]_convVars => RewriteInv'
    BY RewriteInvStep
  <1> QED BY <1>1, <1>2, ConvInvariant, RewriteInvInit, PTL DEF ConvSpec

-------------------------------------------------------------------------------
\* The conversation: what the providers are sent of it.

\* Only calls and results have the id of a call, and a result always does.
Named(ms) ==
    \A x \in 1..Len(ms) : /\ ms[x].role \in {"system", "user"} => ms[x].call = 0
                          /\ ms[x].role = "tool" => ms[x].call # 0

(* Parts and concatenations of such messages are such messages.            *)
LEMMA PartNamed ==
    ASSUME NEW ms \in Seq(Message), Named(ms), NEW a \in 1..(Len(ms) + 1), NEW b \in 0..Len(ms),
           a <= b + 1
    PROVE  SubSeq(ms, a, b) \in Seq(Message) /\ Named(SubSeq(ms, a, b))
  <1> DEFINE t == SubSeq(ms, a, b)
  <1>1. /\ t \in Seq(Message) /\ Len(t) = (b - a) + 1
        /\ \A x \in 1..((b - a) + 1) : t[x] = ms[x + (a - 1)]
    BY PartIs
  <1>2. Len(ms) \in Nat
    OBVIOUS
  <1>3. \A x \in 1..((b - a) + 1) : x + (a - 1) \in 1..Len(ms)
    BY <1>2
  <1> HIDE DEF t
  <1>4. ASSUME NEW x \in 1..Len(t)
        PROVE  /\ t[x].role \in {"system", "user"} => t[x].call = 0
               /\ t[x].role = "tool" => t[x].call # 0
    <2> DEFINE y == x + (a - 1)
    <2>1. y \in 1..Len(ms) /\ t[x] = ms[y]
      BY <1>1, <1>3
    <2> HIDE DEF y
    <2> QED BY <2>1 DEF Named
  <1> QED BY <1>1, <1>4 DEF Named, t

(* See PartNamed.                                                          *)
LEMMA ConcatNamed ==
    ASSUME NEW a \in Seq(Message), Named(a), NEW b \in Seq(Message), Named(b)
    PROVE  a \o b \in Seq(Message) /\ Named(a \o b)
  <1> DEFINE t == a \o b
  <1>1. /\ t \in Seq(Message) /\ Len(t) = Len(a) + Len(b) /\ Len(a) \in Nat /\ Len(b) \in Nat
        /\ \A x \in 1..(Len(a) + Len(b)) : t[x] = IF x <= Len(a) THEN a[x] ELSE b[x - Len(a)]
    BY ConcatProperties
  <1> HIDE DEF t
  <1>2. ASSUME NEW x \in 1..Len(t)
        PROVE  /\ t[x].role \in {"system", "user"} => t[x].call = 0
               /\ t[x].role = "tool" => t[x].call # 0
    <2>1. CASE x <= Len(a)
      <3>1. x \in 1..Len(a) /\ t[x] = a[x]
        BY <1>1, <2>1
      <3> QED BY <3>1 DEF Named
    <2>2. CASE ~(x <= Len(a))
      <3>1. x - Len(a) \in 1..Len(b) /\ t[x] = b[x - Len(a)]
        BY <1>1, <2>2
      <3> QED BY <3>1 DEF Named
    <2> QED BY <2>1, <2>2
  <1> QED BY <1>1, <1>2 DEF Named, t

(* A single message.                                                       *)
LEMMA OneNamed ==
    ASSUME NEW m \in Message, m.role \in {"system", "user"} => m.call = 0,
           m.role = "tool" => m.call # 0
    PROVE  <<m>> \in Seq(Message) /\ Named(<<m>>)
  <1>1. <<m>> \in Seq(Message) /\ Len(<<m>>) = 1 /\ <<m>>[1] = m
    OBVIOUS
  <1>2. \A x \in 1..1 : x = 1
    OBVIOUS
  <1>3. ASSUME NEW x \in 1..Len(<<m>>) PROVE <<m>>[x] = m
    BY <1>1, <1>2
  <1> QED BY <1>1, <1>3 DEF Named

(* No message.                                                             *)
LEMMA EmptyNamed == <<>> \in Seq(Message) /\ Named(<<>>)
  <1>1. Len(<<>>) = 0 /\ \A x \in 1..0 : FALSE
    OBVIOUS
  <1> QED BY <1>1 DEF Named

(* The window and the rewrites make no ids up and take none away.          *)
LEMMA RewritesName ==
    ASSUME NEW ms \in Seq(Message), Named(ms)
    PROVE  /\ \A drop \in 1..Len(ms) : Named(trimPreservingSystem(ms, drop))
           /\ Named(PruneConsecutiveFailures(ms))
           /\ Named(CompactStaleToolResults(ms))
           /\ Named(Compress(ms))
  <1> DEFINE N == Len(ms)
             s == sysHead(ms)
             head == SubSeq(ms, 1, s)
  <1>1. N \in Nat /\ s \in 0..N /\ DOMAIN ms = 1..N
    BY SysHeadIs
  <1>2. head \in Seq(Message) /\ Named(head)
    <2>1. 1 \in 1..(N + 1) /\ 1 <= s + 1
      BY <1>1
    <2> QED BY <1>1, <2>1, PartNamed
  <1>3. ASSUME NEW drop \in 1..N PROVE Named(trimPreservingSystem(ms, drop))
    <2> DEFINE t == trimPreservingSystem(ms, drop)
               rest == SubSeq(ms, s + drop + 1, N)
    <2>1. t = IF drop >= N - s THEN head ELSE head \o rest
      BY DEF trimPreservingSystem
    <2>2. CASE drop >= N - s
      BY <1>2, <2>1, <2>2
    <2>3. CASE ~(drop >= N - s)
      <3>1. s + drop + 1 \in 1..(N + 1) /\ N \in 0..N /\ s + drop + 1 <= N + 1
        BY <1>1, <2>3
      <3>2. rest \in Seq(Message) /\ Named(rest)
        BY <3>1, PartNamed
      <3> HIDE DEF head, rest
      <3>3. Named(head \o rest)
        BY <1>2, <3>2, ConcatNamed
      <3> QED BY <2>1, <2>3, <3>3
    <2> QED BY <2>2, <2>3
  <1>4. Named(PruneConsecutiveFailures(ms))
    <2> DEFINE p == PruneConsecutiveFailures(ms)
    <2>1. PICK h : LeftOf(ms, 1, p, h)
      BY PruneLeft
    <2> HIDE DEF p
    <2>2. ASSUME NEW x \in 1..Len(p)
          PROVE  /\ p[x].role \in {"system", "user"} => p[x].call = 0
                 /\ p[x].role = "tool" => p[x].call # 0
      <3>1. Len(p) \in Nat /\ h \in [1..(Len(p) + 1) -> 1..(N + 1)]
        BY <2>1 DEF LeftOf
      <3>2. x \in 1..(Len(p) + 1) /\ Len(p) + 1 \in 1..(Len(p) + 1) /\ x < Len(p) + 1
        BY <3>1
      <3>3. h[x] \in 1..(N + 1) /\ h[x] < h[Len(p) + 1] /\ h[Len(p) + 1] = N + 1 /\ p[x] = ms[h[x]]
        BY <2>1, <3>1, <3>2 DEF LeftOf
      <3>4. h[x] \in 1..N
        BY <1>1, <3>3
      <3> QED BY <3>3, <3>4 DEF Named
    <2> QED BY <2>2 DEF Named, p
  <1>5. Named(CompactStaleToolResults(ms))
    <2> DEFINE t == CompactStaleToolResults(ms)
    <2>1. ASSUME NEW i \in 1..N PROVE t[i].role = ms[i].role /\ t[i].call = ms[i].call
      <3>1. ms[i] \in Message
        OBVIOUS
      <3>2. t[i] = ms[i] \/ t[i] = [ms[i] EXCEPT !.tokens = Cleared, !.fails = FALSE]
        BY <1>1 DEF CompactStaleToolResults
      <3> QED BY <3>1, <3>2 DEF Message
    <2>2. Len(t) = N
      BY CompactLeaves
    <2> HIDE DEF t
    <2>3. ASSUME NEW x \in 1..Len(t)
          PROVE  /\ t[x].role \in {"system", "user"} => t[x].call = 0
                 /\ t[x].role = "tool" => t[x].call # 0
      BY <2>1, <2>2 DEF Named
    <2> QED BY <2>3 DEF Named, t
  <1>6. Named(Compress(ms))
    <2> DEFINE A == {i \in DOMAIN ms : ms[i].role = "assistant"}
               last == CHOOSE i \in A : \A j \in A : j <= i
               recent == IF A = {} THEN <<>> ELSE SubSeq(ms, last, N)
               u == Plain("user")
    <2>1. Compress(ms) = head \o <<u>> \o recent
      BY DEF Compress
    <2>2. recent \in Seq(Message) /\ Named(recent)
      <3>1. CASE A = {}
        <4>1. recent = <<>>
          BY <3>1
        <4> HIDE DEF recent
        <4> QED BY <4>1, EmptyNamed
      <3>2. CASE A # {}
        <4>1. A \subseteq 0..N
          BY <1>1
        <4>2. \E i \in A : \A j \in A : j <= i
          <5> HIDE DEF A
          <5> QED BY <1>1, <3>2, <4>1, GreatestNumber
        <4>3. last \in A
          BY <4>2
        <4>4. last \in 1..(N + 1) /\ N \in 0..N /\ last <= N + 1 /\ recent = SubSeq(ms, last, N)
          <5>1. recent = SubSeq(ms, last, N)
            BY <3>2
          <5>2. last \in 1..N
            BY <1>1, <4>3
          <5> HIDE DEF last
          <5> QED BY <1>1, <5>1, <5>2
        <4> HIDE DEF last, recent
        <4> QED BY <4>4, PartNamed
      <3> QED BY <3>1, <3>2
    <2>3. u \in Message /\ u.role = "user" /\ u.call = 0
      <3>1. u.call = 0
        BY DEF Plain
      <3> QED BY <3>1, MessagesAre
    <2> HIDE DEF u, head, recent
    <2>4. <<u>> \in Seq(Message) /\ Named(<<u>>)
      BY <2>3, OneNamed
    <2> DEFINE o == <<u>>
    <2> HIDE DEF o
    <2>5. head \o o \in Seq(Message) /\ Named(head \o o)
      BY <1>2, <2>4, ConcatNamed DEF o
    <2> DEFINE ho == head \o o
    <2> HIDE DEF ho
    <2>6. ho \in Seq(Message) /\ Named(ho)
      BY <2>5 DEF ho
    <2>7. Named(ho \o recent)
      BY <2>2, <2>6, ConcatNamed
    <2> QED BY <2>1, <2>7 DEF ho, o
  <1> QED BY <1>3, <1>4, <1>5, <1>6

(* An Add neither.                                                         *)
LEMMA AddNamed ==
    ASSUME NEW ms, NEW new, ms \o new \in Seq(Message), Named(ms \o new), maxSize \in Nat
    PROVE  Named(Add(ms, new))
  <1> DEFINE all == ms \o new
             N == Len(all)
             drop == N - maxSize
  <1>1. Add(ms, new) = IF maxSize = 0 \/ N <= maxSize THEN all ELSE trimPreservingSystem(all, drop)
    BY DEF Add
  <1>2. all \in Seq(Message) /\ Named(all) /\ N \in Nat
    OBVIOUS
  <1> HIDE DEF all
  <1>3. CASE maxSize = 0 \/ N <= maxSize
    BY <1>1, <1>2, <1>3
  <1>4. CASE ~(maxSize = 0 \/ N <= maxSize)
    <2>1. drop \in 1..N
      BY <1>2, <1>4
    <2> QED BY <1>1, <1>2, <1>4, <2>1, RewritesName
  <1> QED BY <1>3, <1>4

\* The inductive invariant: the ids are where they belong, and the call that may
\* get a result has one.
NamedInv == /\ Named(messages)
            /\ at \in {"executing", "evaluating"} => current.call # 0

(* It holds of a new session.                                              *)
LEMMA NamedInvInit == ConvInit => NamedInv
  <1> SUFFICES ASSUME ConvInit PROVE NamedInv
    OBVIOUS
  <1> DEFINE m == Plain("system")
  <1>1. m \in Message /\ m.role = "system" /\ m.call = 0
    <2>1. m.call = 0
      BY DEF Plain
    <2> QED BY <2>1, MessagesAre
  <1>2. at = "idle" /\ (messages = <<>> \/ messages = <<m>>)
    BY DEF ConvInit
  <1> HIDE DEF m
  <1>3. Named(messages)
    BY <1>1, <1>2, EmptyNamed, OneNamed
  <1> QED BY <1>2, <1>3 DEF NamedInv

(* No step breaks it.                                                      *)
LEMMA NamedInvStep == ConvInv /\ NamedInv /\ [ConvNext]_convVars => NamedInv'
  <1> SUFFICES ASSUME ConvInv, NamedInv, [ConvNext]_convVars PROVE NamedInv'
    OBVIOUS
  <1> DEFINE StepKeeps == /\ Named(messages')
                          /\ at' \in {"executing", "evaluating"} => current'.call # 0
             u == Plain("user")
             a == Plain("assistant")
  <1>0. /\ maxSize \in Nat /\ calls \in Nat /\ messages \in Seq(Message) /\ Named(messages)
        /\ at \in {"executing", "evaluating"} => current \in Message /\ current.call # 0
        /\ Well(messages)
    BY DEF ConvInv, NamedInv, Well
  <1>1. /\ u \in Message /\ u.role = "user" /\ u.call = 0
        /\ a \in Message /\ a.role = "assistant"
    <2>1. u.call = 0
      BY DEF Plain
    <2> QED BY <2>1, MessagesAre
  <1> HIDE DEF u, a
  <1>2. ASSUME NEW ms \in Seq(Message), Named(ms), NEW m \in Message,
               m.role \in {"system", "user"} => m.call = 0, m.role = "tool" => m.call # 0
        PROVE  /\ ms \o <<m>> \in Seq(Message) /\ Named(ms \o <<m>>)
               /\ Named(Add(ms, <<m>>))
    <2> DEFINE o == <<m>>
    <2>1. o \in Seq(Message) /\ Named(o)
      BY <1>2, OneNamed
    <2> HIDE DEF o
    <2>2. ms \o o \in Seq(Message) /\ Named(ms \o o)
      BY <1>2, <2>1, ConcatNamed
    <2>3. Named(Add(ms, o))
      BY <1>0, <2>2, AddNamed
    <2> QED BY <2>2, <2>3 DEF o
  <1>3. ASSUME NEW new \in Notes PROVE Named(messages \o new) /\ Named(Add(messages, new))
    <2> DEFINE two == <<a, u>>
               one == <<u>>
               ao == <<a>>
    <2>1. one \in Seq(Message) /\ Named(one) /\ ao \in Seq(Message) /\ Named(ao)
      BY <1>1, OneNamed
    <2>2. two = ao \o one
      BY <1>1
    <2>3. new = one \/ new = two
      BY DEF Notes, u, a
    <2> HIDE DEF one, ao, two
    <2>4. ao \o one \in Seq(Message) /\ Named(ao \o one)
      BY <2>1, ConcatNamed
    <2>5. new \in Seq(Message) /\ Named(new)
      BY <2>1, <2>2, <2>3, <2>4
    <2>6. messages \o new \in Seq(Message) /\ Named(messages \o new)
      BY <1>0, <2>5, ConcatNamed
    <2> QED BY <1>0, <2>6, AddNamed
  <1>4. ASSUME NEW new \in Seq(Message), Named(new)
        PROVE  <<>> \o new = new /\ Named(Add(<<>>, new))
    <2>1. <<>> \o new = new
      OBVIOUS
    <2> QED BY <1>0, <1>4, <2>1, AddNamed
  <1>5. /\ Named(Compress(messages)) /\ Named(Add(<<>>, Compress(messages)))
        /\ <<>> \o Compress(messages) = Compress(messages)
    <2>1. Named(Compress(messages))
      BY <1>0, RewritesName
    <2>2. Compress(messages) \in Seq(Message)
      BY <1>0, CompressKeeps DEF Well
    <2> QED BY <1>4, <2>1, <2>2
  <1>6. ASSUME NEW fails \in BOOLEAN, NEW n \in 0..MaxTokens, at = "executing"
        PROVE  LET m == ResultOf(current.call, current.tool, fails, n)
                   all == Add(messages, <<m>>)
                   new == CompactStaleToolResults(PruneConsecutiveFailures(all))
               IN  /\ Named(messages \o <<m>>) /\ Named(all) /\ Named(new)
                   /\ <<>> \o new = new /\ Named(Add(<<>>, new))
    <2> DEFINE m == ResultOf(current.call, current.tool, fails, n)
               all == Add(messages, <<m>>)
               p == PruneConsecutiveFailures(all)
               new == CompactStaleToolResults(p)
    <2>1. m \in Message /\ m.role = "tool" /\ m.call = current.call /\ m.call # 0
      BY <1>0, <1>6, MessagesAre
    <2> HIDE DEF m
    <2>2. Named(messages \o <<m>>) /\ Named(all)
      BY <1>0, <1>2, <2>1
    <2>3. Open(messages, m.call)
      BY <1>6, <2>1 DEF ConvInv
    <2>4. Well(all) /\ Well(new)
      BY <1>0, <2>1, <2>3, ResultKeeps
    <2>5. all \in Seq(Message) /\ new \in Seq(Message)
      BY <2>4 DEF Well
    <2> HIDE DEF all
    <2>6. Named(p) /\ p \in Seq(Message)
      BY <2>2, <2>4, <2>5, RewritesName, PruneKeeps DEF Well
    <2> HIDE DEF p
    <2>7. Named(new)
      BY <2>6, RewritesName
    <2> HIDE DEF new
    <2>8. <<>> \o new = new /\ Named(Add(<<>>, new))
      BY <1>4, <2>5, <2>7
    <2> QED BY <2>2, <2>7, <2>8 DEF m, all, p, new
  <1>7. StartRun => StepKeeps
    BY <1>0, <1>1, <1>2 DEF StartRun, u
  <1>8. Note => StepKeeps
    BY <1>0, <1>3 DEF Note
  <1>9. ASSUME NEW t \in Tools, CallTool(t) PROVE StepKeeps
    <2>1. /\ calls' = calls + 1 /\ current' = CallOf(calls', t)
          /\ messages' = Add(messages, <<current'>>)
      BY <1>9 DEF CallTool
    <2>2. calls' \in Nat /\ calls' # 0
      BY <1>0, <2>1
    <2>3. current' \in Message /\ current'.role = "assistant"
      BY <2>1, <2>2, MessagesAre
    <2>4. current'.call = calls'
      BY <2>1 DEF CallOf, Plain
    <2> DEFINE m == current'
    <2> HIDE DEF m
    <2>5. m \in Message /\ m.role = "assistant"
      BY <2>3 DEF m
    <2>6. Named(Add(messages, <<m>>))
      BY <1>0, <1>2, <2>5
    <2>7. Named(messages')
      BY <2>1, <2>6 DEF m
    <2> QED BY <2>2, <2>4, <2>7
  <1>10. Retry => StepKeeps
    BY <1>0 DEF Retry
  <1>11. ASSUME NEW fails \in BOOLEAN, NEW n \in 0..MaxTokens, Result(fails, n) PROVE StepKeeps
    <2>1. at = "executing" /\ current' = current
      BY <1>11 DEF Result
    <2>2. Named(messages')
      BY <1>6, <1>11, <2>1 DEF Result, Rewritten
    <2> QED BY <1>0, <2>1, <2>2
  <1>12. Continue => StepKeeps
    BY <1>0 DEF Continue
  <1>13. Refused => StepKeeps
    BY <1>0 DEF Refused
  <1>14. CompressContext => StepKeeps
    BY <1>0, <1>5 DEF CompressContext
  <1>15. Finish => StepKeeps
    <2> SUFFICES ASSUME Finish PROVE StepKeeps
      OBVIOUS
    <2>1. at' = "idle" /\ (messages' = messages \/ messages' = Add(messages, <<a>>))
      BY DEF Finish, a
    <2>2. Named(Add(messages, <<a>>))
      BY <1>0, <1>1, <1>2
    <2> QED BY <1>0, <2>1, <2>2
  <1>16. CutShort => StepKeeps
    <2> SUFFICES ASSUME CutShort PROVE Named(messages')
      BY DEF CutShort
    <2>1. CASE messages' \in AddCutShort(<<>>, Compress(messages))
      BY <1>5, <2>1, EmptyNamed DEF AddCutShort
    <2>2. ASSUME NEW new \in Notes, messages' \in AddCutShort(messages, new)
          PROVE  Named(messages')
      BY <1>0, <1>3, <2>2 DEF AddCutShort
    <2>3. ASSUME NEW fails \in BOOLEAN, NEW n \in 0..MaxTokens, at = "executing",
                 LET m == ResultOf(current.call, current.tool, fails, n)
                     ms == Add(messages, <<m>>)
                 IN  messages' \in AddCutShort(messages, <<m>>)
                        \cup AddCutShort(<<>>, CompactStaleToolResults(PruneConsecutiveFailures(ms)))
          PROVE  Named(messages')
      <3> DEFINE m == ResultOf(current.call, current.tool, fails, n)
                 all == Add(messages, <<m>>)
                 new == CompactStaleToolResults(PruneConsecutiveFailures(all))
      <3>1. /\ Named(messages \o <<m>>) /\ Named(all) /\ Named(new)
            /\ <<>> \o new = new /\ Named(Add(<<>>, new)) /\ Named(messages) /\ Named(<<>>)
        BY <1>0, <1>6, <2>3, EmptyNamed
      <3>2. messages' \in {messages, messages \o <<m>>, all} \cup {<<>>, <<>> \o new, Add(<<>>, new)}
        BY <2>3 DEF AddCutShort
      <3> HIDE DEF m, all, new
      <3> QED BY <3>1, <3>2
    <2> QED BY <2>1, <2>2, <2>3 DEF CutShort
  <1>17. UNCHANGED convVars => StepKeeps
    BY <1>0 DEF convVars
  <1>18. StepKeeps
    BY <1>7, <1>8, <1>9, <1>10, <1>11, <1>12, <1>13, <1>14, <1>15, <1>16, <1>17 DEF ConvNext
  <1>19. Named(messages') => Named(messages)'
    BY DEF Named
  <1> QED BY <1>18, <1>19 DEF NamedInv

(* What the clients see of such a conversation is in order.                *)
LEMMA SentIsSendable ==
    ASSUME ConvInv, NamedInv, NEW reasoned \in BOOLEAN
    PROVE  /\ Sendable(Sent(reasoned)) /\ ~AnthropicRefuses(Sent(reasoned))
           /\ \A i \in 2..Len(Sent(reasoned)) : Sent(reasoned)[i].role # "system"
  <1> DEFINE t == Sent(reasoned)
             N == Len(messages)
             ids(i) == IF messages[i].call = 0 THEN <<>> ELSE <<messages[i].call>>
  <1>1. /\ messages \in Seq(Message) /\ N \in Nat /\ DOMAIN messages = 1..N
        /\ \A i \in 2..N : messages[i].role # "system"
        /\ Named(messages)
    BY DEF ConvInv, NamedInv, Well, OneSystem
  <1>2. ASSUME NEW i \in 1..N
        PROVE  messages[i].role \in Roles /\ messages[i].call \in Nat
    <2>1. messages[i] \in Message
      BY <1>1
    <2> QED BY <2>1 DEF Message, Roles
  <1>3. \A i \in 1..N :
           t[i] = [role |-> messages[i].role, text |-> messages[i].call = 0 \/ reasoned, ids |-> ids(i)]
    BY <1>1 DEF Sent
  <1>4. DOMAIN t = 1..N /\ t = [i \in 1..N |-> t[i]]
    BY <1>1 DEF Sent
  <1> HIDE DEF t
  <1>5. ASSUME NEW i \in 1..N
        PROVE  /\ ids(i) \in Seq(Nat) /\ (messages[i].call = 0 => ids(i) = <<>>)
               /\ (messages[i].call # 0 => ids(i) # <<>> /\ ids(i)[1] = messages[i].call)
    <2>1. ASSUME NEW c \in Nat PROVE <<c>> \in Seq(Nat) /\ <<c>> # <<>> /\ <<c>>[1] = c /\ <<>> \in Seq(Nat)
      OBVIOUS
    <2> QED BY <1>2, <2>1
  <1> HIDE DEF ids
  <1>6. ASSUME NEW i \in 1..N
        PROVE  /\ t[i] \in ChatMsg /\ t[i].role = messages[i].role /\ t[i].ids = ids(i)
    <2> DEFINE b == messages[i].call = 0 \/ reasoned
               r == messages[i].role
               d == ids(i)
    <2>1. t[i] = [role |-> r, text |-> b, ids |-> d]
      BY <1>3
    <2>2. b \in BOOLEAN /\ r \in Roles /\ d \in Seq(Nat)
      BY <1>2, <1>5
    <2> HIDE DEF b, r, d
    <2>3. t[i] \in ChatMsg /\ t[i].role = r /\ t[i].ids = d
      BY <2>1, <2>2 DEF ChatMsg
    <2> QED BY <2>3 DEF r, d
  <1>7. t \in Seq(ChatMsg) /\ Len(t) = N
    <2> DEFINE U == ChatMsg
    <2> HIDE DEF U
    <2>1. t \in [1..N -> U]
      BY <1>4, <1>6 DEF U
    <2>2. t \in Seq(U) /\ Len(t) = N
      BY <1>1, <2>1, SeqDef
    <2> QED BY <2>2 DEF U
  <1>8. Sendable(t)
    <2>1. ASSUME NEW i \in 1..N
          PROVE  /\ t[i].role \in {"system", "user"} => t[i].ids = <<>>
                 /\ t[i].role = "tool" => t[i].ids # <<>>
      BY <1>1, <1>5, <1>6 DEF Named
    <2> QED BY <1>7, <2>1 DEF Sendable
  <1>9. ~AnthropicRefuses(t)
    <2>1. ASSUME NEW i \in DOMAIN t PROVE /\ ~(t[i].role = "tool" /\ t[i].ids[1] = NoId)
                                          /\ t[i].role \in Roles
      <3>1. i \in 1..N
        BY <1>4
      <3> QED BY <1>1, <1>2, <1>5, <1>6, <3>1 DEF Named, NoId
    <2> QED BY <2>1 DEF AnthropicRefuses, Roles
  <1>10. \A i \in 2..N : i \in 1..N
    OBVIOUS
  <1>11. \A i \in 2..N : t[i].role # "system"
    BY <1>1, <1>6, <1>10
  <1> QED BY <1>7, <1>8, <1>9, <1>11 DEF t

(* Whatever trims, rewrites, retries and cut handlers a conversation has   *)
(* gone through, of any length, both clients can make a request of it, and *)
(* the two requests say the same: modelMessagesToAnthropic loses, adds and *)
(* moves no block, and keeps the results of a call in one message.         *)
THEOREM RequestsAreFaithful == ConvSpec => []RequestFaithful
  <1>1. ConvInv /\ NamedInv => RequestFaithful
    <2> SUFFICES ASSUME ConvInv, NamedInv, NEW reasoned \in BOOLEAN
                 PROVE  /\ ~AnthropicRefuses(Sent(reasoned))
                        /\ RequestFaithfulTo(Sent(reasoned))
      BY DEF RequestFaithful
    <2> DEFINE t == Sent(reasoned)
    <2>1. Sendable(t) /\ ~AnthropicRefuses(t) /\ \A i \in 2..Len(t) : t[i].role # "system"
      BY SentIsSendable
    <2> HIDE DEF t
    <2>2. RequestFaithfulTo(t)
      BY <2>1, RequestsFaithful
    <2> QED BY <2>1, <2>2 DEF t
  <1>2. ConvInv /\ NamedInv /\ [ConvNext]_convVars => NamedInv'
    BY NamedInvStep
  <1> QED BY <1>1, <1>2, ConvInvariant, NamedInvInit, PTL DEF ConvSpec

-------------------------------------------------------------------------------
\* The long tool results.

\* The characters of a tool's output, of the notice and of an error.
Char == {"output", "notice", "absent", "error"} \X Nat \X Nat
Texts == Seq(Char)

(* What is kept of a text: its ends, within the budget.                    *)
LEMMA KeepIsEnds ==
    ASSUME NEW content \in Texts, NEW budget \in Nat, 2 <= budget, budget <= Len(content),
           NEW between \in Texts
    PROVE  LET t == Keep(content, budget, between)
           IN  /\ t \in Texts /\ Len(t) = budget + Len(between)
               /\ t[1] = content[1] /\ t[Len(t)] = content[Len(content)]
  <1> DEFINE N == Len(content)
             B == Len(between)
             h == (budget * 80) \div 100
             r == budget - h
             first == SubSeq(content, 1, h)
             last == SubSeq(content, N - r + 1, N)
             mid == first \o between
             t == mid \o last
  <1>1. content \in Seq(Char) /\ between \in Seq(Char) /\ N \in Nat /\ B \in Nat
    BY DEF Texts
  <1>2. h \in 1..(budget - 1) /\ r \in 1..budget /\ r + h = budget
    <2>1. h \in Nat /\ 1 <= h /\ h < budget
      OBVIOUS
    <2> HIDE DEF h
    <2> QED BY <2>1
  <1> HIDE DEF h, r
  <1>3. first \in Seq(Char) /\ Len(first) = h /\ first[1] = content[1]
    <2>1. 1 \in Int /\ h \in Int /\ \A i \in 1..h : content[i] \in Char
      BY <1>1, <1>2
    <2>2. /\ first \in Seq(Char) /\ Len(first) = (IF 1 <= h THEN h - 1 + 1 ELSE 0)
          /\ \A i \in 1..(h - 1 + 1) : first[i] = content[1 + i - 1]
      BY <2>1, SubSeqProperties
    <2>3. 1 \in 1..(h - 1 + 1) /\ 1 + 1 - 1 = 1 /\ 1 <= h /\ h - 1 + 1 = h
      BY <1>2
    <2> QED BY <2>2, <2>3
  <1>4. last \in Seq(Char) /\ Len(last) = r /\ last[r] = content[N]
    <2>1. N - r + 1 \in Int /\ N \in Int /\ \A i \in (N - r + 1)..N : content[i] \in Char
      BY <1>1, <1>2
    <2>2. /\ last \in Seq(Char)
          /\ Len(last) = (IF N - r + 1 <= N THEN N - (N - r + 1) + 1 ELSE 0)
          /\ \A i \in 1..(N - (N - r + 1) + 1) : last[i] = content[(N - r + 1) + i - 1]
      BY <2>1, SubSeqProperties
    <2>3. r \in 1..(N - (N - r + 1) + 1) /\ (N - r + 1) + r - 1 = N
          /\ N - r + 1 <= N /\ N - (N - r + 1) + 1 = r
      BY <1>1, <1>2
    <2> QED BY <2>2, <2>3
  <1> HIDE DEF first, last
  <1>5. mid \in Seq(Char) /\ Len(mid) = h + B /\ mid[1] = content[1]
    <2>1. /\ mid \in Seq(Char) /\ Len(mid) = Len(first) + Len(between)
          /\ \A x \in 1..(Len(first) + Len(between)) :
                mid[x] = IF x <= Len(first) THEN first[x] ELSE between[x - Len(first)]
      BY <1>1, <1>3, ConcatProperties
    <2>2. 1 \in 1..(h + B) /\ 1 <= h
      BY <1>1, <1>2
    <2> QED BY <1>3, <2>1, <2>2
  <1> HIDE DEF mid
  <1>6. /\ t \in Seq(Char) /\ Len(t) = (h + B) + r
        /\ t[1] = content[1] /\ t[(h + B) + r] = content[N]
    <2>1. /\ t \in Seq(Char) /\ Len(t) = Len(mid) + Len(last)
          /\ \A x \in 1..(Len(mid) + Len(last)) :
                t[x] = IF x <= Len(mid) THEN mid[x] ELSE last[x - Len(mid)]
      <3>1. mid \in Seq(Char) /\ last \in Seq(Char)
        BY <1>4, <1>5
      <3> QED BY <3>1, ConcatProperties
    <2>2. /\ 1 \in 1..((h + B) + r) /\ 1 <= h + B
          /\ (h + B) + r \in 1..((h + B) + r) /\ ~((h + B) + r <= h + B)
          /\ ((h + B) + r) - (h + B) = r
      BY <1>1, <1>2
    <2> HIDE DEF t
    <2> QED BY <1>4, <1>5, <2>1, <2>2
  <1>7. (h + B) + r = budget + B
    BY <1>1, <1>2
  <1>8. Keep(content, budget, between) = t
    BY DEF Keep, h, r, first, last, mid
  <1> HIDE DEF t
  <1> QED BY <1>6, <1>7, <1>8 DEF Texts

(* What is shown of a content fits the limit; of a longer one, both ends.  *)
LEMMA ShownFits ==
    ASSUME NEW content \in Texts, maxLen \in MaxLens
    PROVE  LET t == Shown(content)
           IN  /\ t \in Texts /\ Len(t) <= maxLen
               /\ ~Cut(content) => t = content
               /\ Cut(content) => /\ t # <<>> /\ content # <<>> /\ t # content
                                  /\ t[1] = content[1] /\ t[Len(t)] = content[Len(content)]
  <1> DEFINE N == Len(content)
             t == Shown(content)
  <1>1. N \in Nat /\ maxLen \in Nat /\ 2 <= maxLen /\ NoticeLen \in Nat
    BY TruncatedAssumption DEF Texts
  <1>2. CASE ~Cut(content)
    BY <1>1, <1>2 DEF Shown, Cut
  <1>3. ASSUME NEW budget \in Nat, 2 <= budget, NEW between \in Texts, Cut(content),
               budget + Len(between) = maxLen, t = Keep(content, budget, between)
        PROVE  /\ t \in Texts /\ Len(t) = maxLen
               /\ t[1] = content[1] /\ t[Len(t)] = content[N]
    <2>1. Len(between) \in Nat
      BY DEF Texts
    <2>2. budget <= N
      BY <1>1, <1>3, <2>1 DEF Cut
    <2> HIDE DEF t
    <2> QED BY <1>3, <2>2, KeepIsEnds
  <1>4. CASE Cut(content)
    <2>1. <<>> \in Texts /\ Len(<<>>) = 0
      BY DEF Texts
    <2>2. Notice \in Texts /\ Len(Notice) = NoticeLen
      <3>1. Notice \in [1..NoticeLen -> Char]
        BY <1>1 DEF Notice, Char
      <3> QED BY <1>1, <3>1 DEF Texts
    <2>3. /\ t \in Texts /\ Len(t) = maxLen
          /\ t[1] = content[1] /\ t[Len(t)] = content[N]
      <3>1. CASE maxLen < NoticeLen + 2
        <4>1. t = Keep(content, maxLen, <<>>)
          BY <1>4, <3>1 DEF Shown
        <4>2. maxLen \in Nat /\ maxLen + Len(<<>>) = maxLen
          BY <1>1, <2>1
        <4> HIDE DEF t
        <4> QED BY <1>1, <1>3, <1>4, <2>1, <4>1, <4>2
      <3>2. CASE ~(maxLen < NoticeLen + 2)
        <4>1. t = Keep(content, maxLen - NoticeLen, Notice)
          BY <1>4, <3>2 DEF Shown
        <4>2. maxLen - NoticeLen \in Nat /\ 2 <= maxLen - NoticeLen
              /\ (maxLen - NoticeLen) + NoticeLen = maxLen
          BY <1>1, <3>2
        <4> QED BY <1>3, <1>4, <2>2, <4>1, <4>2
      <3> QED BY <3>1, <3>2
    <2> HIDE DEF t
    <2>4. N > maxLen
      BY <1>4 DEF Cut
    <2>5. t # <<>> /\ content # <<>> /\ t # content
      BY <1>1, <2>1, <2>3, <2>4
    <2> QED BY <1>1, <1>4, <2>3, <2>5 DEF t
  <1> QED BY <1>2, <1>4

Entry == [id : Nat, of : Nat, full : Texts, kept : BOOLEAN, text : Seq(Char \cup {LoopWarning})]

\* A tool message: what it was made from, and, perhaps behind the warning, what
\* is shown of that.
WrittenFrom(r, n) ==
    /\ r.id \in 1..n
    /\ r.full \in Texts
    /\ r.text = Shown(r.full) \/ r.text = <<LoopWarning>> \o Shown(r.full)

\* A beginning of a text, character by character.
Begins(s, t) == Len(s) <= Len(t) /\ \A i \in 1..Len(s) : s[i] = t[i]

\* What was kept of a cut result of the call id.
Traced(rs, id, content, n) ==
    \E k \in 1..n :
        /\ rs[k].id = id /\ Cut(rs[k].full)
        /\ Begins(content, rs[k].full)
        /\ rs[k].kept => content = rs[k].full

\* What is left of an output of a tool, after Stores that may have failed.
Original(rs, content, n) ==
    \E k \in 1..n :
        /\ rs[k].of = 0
        /\ Begins(content, rs[k].full)
        /\ (\A m \in 1..n : rs[m].kept) => content = rs[k].full

\* The inductive invariant of the long results.  What the store holds can be
\* traced back to a cut result and to an output of a tool: this is why a chain
\* of fetches ends there.
TruncInv ==
    /\ maxLen \in MaxLens
    /\ results \in Seq(Entry)
    /\ planned \in 0..Len(results)
    /\ contents \in [Calls -> Texts]
    /\ \A n \in 1..Len(results) : WrittenFrom(results[n], planned)
    /\ \A id \in Calls : contents[id] # NoContent =>
          /\ Traced(results, id, contents[id], Len(results))
          /\ Original(results, contents[id], Len(results))
    /\ \A n \in 1..Len(results) :
          /\ Cut(results[n].full) /\ results[n].kept
          /\ \A k \in 1..Len(results) : k > n => results[k].id # results[n].id
          => contents[results[n].id] = results[n].full
    /\ \A n \in 1..Len(results) :
          results[n].of # 0 /\ results[n].full # NotFound
             => /\ Traced(results, results[n].of, results[n].full, n - 1)
                /\ Original(results, results[n].full, n - 1)

(* Being a beginning of a text: as the library's IsPrefix has it, of       *)
(* SubSeq, and one beginning of another.                                   *)
LEMMA BeginsIs ==
    ASSUME NEW s \in Texts, NEW t \in Texts
    PROVE  /\ IsPrefix(s, t) <=> Begins(s, t)
           /\ Begins(s, s)
           /\ \A u \in Texts : Begins(s, t) /\ Begins(t, u) => Begins(s, u)
           /\ \A n \in 0..Len(t) : SubSeq(t, 1, n) \in Texts /\ Begins(SubSeq(t, 1, n), t)
  <1>1. s \in Seq(Char) /\ t \in Seq(Char) /\ Len(s) \in Nat /\ Len(t) \in Nat
    BY DEF Texts
  <1>2. ASSUME NEW x \in Seq(Char), NEW n \in 0..Len(x)
        PROVE  /\ SubSeq(x, 1, n) \in Seq(Char) /\ Len(SubSeq(x, 1, n)) = n
               /\ \A i \in 1..n : SubSeq(x, 1, n)[i] = x[i]
    OBVIOUS
  <1>3. ASSUME NEW n \in 0..Len(t)
        PROVE  SubSeq(t, 1, n) \in Texts /\ Begins(SubSeq(t, 1, n), t)
    <2> DEFINE x == SubSeq(t, 1, n)
    <2>1. x \in Seq(Char) /\ Len(x) = n /\ \A i \in 1..n : x[i] = t[i]
      BY <1>1, <1>2
    <2>2. n <= Len(t)
      BY <1>1
    <2> HIDE DEF x
    <2>3. x \in Texts /\ Begins(x, t)
      BY <2>1, <2>2 DEF Texts, Begins
    <2> QED BY <2>3 DEF x
  <1>4. ASSUME NEW u \in Texts, Begins(s, t), Begins(t, u) PROVE Begins(s, u)
    <2>1. Len(u) \in Nat
      BY DEF Texts
    <2>2. Len(s) <= Len(u) /\ \A i \in 1..Len(s) : i \in 1..Len(t)
      BY <1>1, <1>4, <2>1 DEF Begins
    <2> QED BY <1>4, <2>2 DEF Begins
  <1>5. Begins(s, s)
    BY <1>1 DEF Begins
  <1>6. ASSUME Len(s) <= Len(t) PROVE IsPrefix(s, t) <=> Begins(s, t)
    <2> DEFINE x == SubSeq(s, 1, Len(s))
               y == SubSeq(t, 1, Len(s))
    <2>1. /\ x \in Seq(Char) /\ Len(x) = Len(s) /\ \A i \in 1..Len(s) : x[i] = s[i]
          /\ y \in Seq(Char) /\ Len(y) = Len(s) /\ \A i \in 1..Len(s) : y[i] = t[i]
      BY <1>1, <1>2, <1>6
    <2>2. IsPrefix(s, t) <=> x = y
      BY <1>6 DEF IsPrefix
    <2> HIDE DEF x, y
    <2>3. (x = y) <=> \A i \in 1..Len(s) : x[i] = y[i]
      BY <1>1, <2>1, SeqEqual
    <2>4. (x = y) <=> \A i \in 1..Len(s) : s[i] = t[i]
      BY <2>1, <2>3
    <2> QED BY <1>6, <2>2, <2>4 DEF Begins
  <1>7. ASSUME ~(Len(s) <= Len(t)) PROVE IsPrefix(s, t) <=> Begins(s, t)
    BY <1>7 DEF IsPrefix, Begins
  <1> QED BY <1>3, <1>4, <1>5, <1>6, <1>7

(* A message without the warning is what is shown of its content, and it   *)
(* differs from the content iff that was cut.                              *)
LEMMA BodyIs ==
    ASSUME NEW r, NEW n, WrittenFrom(r, n), maxLen \in MaxLens
    PROVE  Body(r) = Shown(r.full) /\ (WasCut(r) <=> Cut(r.full))
  <1> DEFINE s == Shown(r.full)
  <1>1. r.full \in Texts /\ (r.text = s \/ r.text = <<LoopWarning>> \o s)
    BY DEF WrittenFrom
  <1>2. s \in Texts /\ (~Cut(r.full) => s = r.full) /\ (Cut(r.full) => s # r.full)
    BY <1>1, ShownFits
  <1> HIDE DEF s
  <1>3. \A c \in Char : c # LoopWarning
    BY DEF Char, LoopWarning
  <1>4. CASE r.text = <<LoopWarning>> \o s
    <2> DEFINE w == <<LoopWarning>> \o s
    <2>1. s \in Seq(Char \cup {LoopWarning}) /\ LoopWarning \in Char \cup {LoopWarning}
      BY <1>2 DEF Texts
    <2>2. w # <<>> /\ Head(w) = LoopWarning /\ Tail(w) = s
      BY <2>1
    <2> QED BY <1>2, <1>4, <2>2 DEF Body, WasCut, s
  <1>5. CASE r.text = s
    <2>1. s # <<>> => Head(s) \in Char
      BY <1>2 DEF Texts
    <2> QED BY <1>2, <1>3, <1>5, <2>1 DEF Body, WasCut, s
  <1> QED BY <1>1, <1>4, <1>5

(* The invariant gives what is claimed.                                    *)
LEMMA TruncInvKept == TruncInv => ResultsKept
  <1> SUFFICES ASSUME TruncInv PROVE ResultsKept
    OBVIOUS
  <1>1. /\ maxLen \in MaxLens /\ DOMAIN results = 1..Len(results) /\ Len(results) \in Nat
        /\ \A n \in 1..Len(results) : WrittenFrom(results[n], planned)
    BY DEF TruncInv
  <1>2. \A n \in 1..Len(results) :
           /\ Body(results[n]) = Shown(results[n].full)
           /\ WasCut(results[n]) <=> Cut(results[n].full)
    BY <1>1, BodyIs
  <1>3. CutWithinLimit
    <2> SUFFICES ASSUME NEW n \in 1..Len(results), results[n].of = 0
                 PROVE  LET r == results[n]
                        IN  /\ Len(Body(r)) <= maxLen
                            /\ WasCut(r) => Head(Body(r)) = Head(r.full) /\ Last(Body(r)) = Last(r.full)
      BY <1>1 DEF CutWithinLimit
    <2> DEFINE f == results[n].full
               t == Shown(f)
    <2>1. f \in Texts
      BY <1>1 DEF WrittenFrom
    <2>2. /\ t \in Texts /\ Len(t) <= maxLen
          /\ Cut(f) => /\ t # <<>> /\ f # <<>>
                       /\ t[1] = f[1] /\ t[Len(t)] = f[Len(f)]
      BY <1>1, <2>1, ShownFits
    <2>3. \A x \in Texts : x # <<>> => Head(x) = x[1] /\ Last(x) = x[Len(x)]
      BY DEF Texts, Last
    <2> HIDE DEF t
    <2>4. Cut(f) => Head(t) = Head(f) /\ Last(t) = Last(f)
      BY <2>1, <2>2, <2>3
    <2>5. Body(results[n]) = t /\ (WasCut(results[n]) <=> Cut(f))
      BY <1>2 DEF t
    <2> QED BY <2>2, <2>4, <2>5
  <1>4. NoticeLoads
    BY <1>1, <1>2 DEF NoticeLoads, TruncInv
  <1>5. FetchedIsOriginal
    <2> SUFFICES ASSUME NEW n \in 1..Len(results), results[n].of # 0, results[n].full # NotFound
                 PROVE  LET r == results[n]
                            before == 1 .. (n - 1)
                        IN  /\ \E k \in before : /\ results[k].id = r.of /\ WasCut(results[k])
                                                 /\ IsPrefix(r.full, results[k].full)
                                                 /\ results[k].kept => r.full = results[k].full
                            /\ \E k \in before : /\ results[k].of = 0 /\ IsPrefix(r.full, results[k].full)
                                                 /\ (\A m \in before : results[m].kept)
                                                       => r.full = results[k].full
      BY <1>1 DEF FetchedIsOriginal
    <2> DEFINE f == results[n].full
    <2>1. Traced(results, results[n].of, f, n - 1) /\ Original(results, f, n - 1)
      BY DEF TruncInv
    <2>2. \A k \in 1..(n - 1) : /\ k \in 1..Len(results)
                                /\ Begins(f, results[k].full) => IsPrefix(f, results[k].full)
      <3>1. \A k \in 1..(n - 1) : k \in 1..Len(results)
        BY <1>1
      <3>2. \A k \in 1..Len(results) : results[k].full \in Texts
        BY <1>1 DEF WrittenFrom
      <3> QED BY <3>1, <3>2, BeginsIs
    <2> HIDE DEF f
    <2>3. \E k \in 1..(n - 1) : /\ results[k].id = results[n].of /\ WasCut(results[k])
                                /\ IsPrefix(f, results[k].full)
                                /\ results[k].kept => f = results[k].full
      BY <1>2, <2>1, <2>2 DEF Traced
    <2>4. \E k \in 1..(n - 1) : /\ results[k].of = 0 /\ IsPrefix(f, results[k].full)
                                /\ (\A m \in 1..(n - 1) : results[m].kept)
                                      => f = results[k].full
      BY <2>1, <2>2 DEF Original
    <2> QED BY <2>3, <2>4 DEF f
  <1> QED BY <1>3, <1>4, <1>5 DEF ResultsKept

(* A new agent has no results.                                             *)
LEMMA TruncInvInit == TruncInit => TruncInv
  <1> SUFFICES ASSUME TruncInit PROVE TruncInv
    OBVIOUS
  <1>1. results = <<>> /\ results \in Seq(Entry) /\ Len(results) = 0 /\ planned = 0
        /\ maxLen \in MaxLens /\ contents = [id \in Calls |-> NoContent]
    BY DEF TruncInit
  <1>2. NoContent \in Texts
    <2>1. <<"absent", 0, 0>> \in Char
      BY DEF Char
    <2> QED BY <2>1 DEF NoContent, Texts
  <1>3. \A n \in 1..Len(results) : FALSE
    BY <1>1
  <1> QED BY <1>1, <1>2, <1>3 DEF TruncInv

(* Recording an execution, a fetch among them, keeps it.                   *)
LEMMA RecordKeeps ==
    ASSUME TruncInv, UNCHANGED maxLen,
           NEW id \in Calls, NEW of \in Nat, NEW content \in Texts, NEW ok \in BOOLEAN,
           NEW warn \in BOOLEAN, Record(id, of, content, ok, warn), Len(results) < MaxExecutions,
           planned' \in 0..(Len(results) + 1), planned <= planned', id \in 1..planned',
           Cut(content) => content # NotFound,
           of # 0 /\ content # NotFound => /\ Traced(results, of, content, Len(results))
                                          /\ Original(results, content, Len(results))
    PROVE  TruncInv'
  <1> DEFINE N == Len(results)
             text == (IF warn THEN <<LoopWarning>> ELSE <<>>) \o Shown(content)
             e == [id |-> id, of |-> of, full |-> content, kept |-> ok, text |-> text]
             rs == results'
             cs == contents'
  <1>1. /\ results \in Seq(Entry) /\ N \in Nat /\ maxLen \in MaxLens /\ planned \in Nat
        /\ contents \in [Calls -> Texts]
        /\ rs = Append(results, e) /\ cs \in Stored(content, id, ok)
    BY DEF TruncInv, Record
  <1>2. /\ text \in Seq(Char \cup {LoopWarning})
        /\ text = Shown(content) \/ text = <<LoopWarning>> \o Shown(content)
    <2>1. Shown(content) \in Seq(Char)
      BY <1>1, ShownFits DEF Texts
    <2>2. Shown(content) \in Seq(Char \cup {LoopWarning})
          /\ <<LoopWarning>> \in Seq(Char \cup {LoopWarning})
      BY <2>1
    <2>3. <<>> \o Shown(content) = Shown(content)
          /\ <<LoopWarning>> \o Shown(content) \in Seq(Char \cup {LoopWarning})
      BY <2>2
    <2>4. CASE warn
      BY <2>3, <2>4
    <2>5. CASE ~warn
      BY <2>2, <2>3, <2>5
    <2> QED BY <2>4, <2>5
  <1>3. e \in Entry /\ e.id = id /\ e.of = of /\ e.full = content /\ e.kept = ok /\ e.text = text
    BY <1>2 DEF Entry, Calls
  <1> HIDE DEF text, e
  <1>4. /\ rs \in Seq(Entry) /\ Len(rs) = N + 1 /\ rs[N + 1] = e
        /\ \A n \in 1..N : rs[n] = results[n]
    BY <1>1, <1>3
  <1> HIDE DEF rs, cs
  <1> DEFINE Left(c) == /\ Cut(content) /\ c \in Texts /\ Begins(c, content)
                        /\ ok => c = content
                        /\ cs = [contents EXCEPT ![id] = c]
  <1>5. \/ cs = contents /\ ~(Cut(content) /\ ok)
        \/ \E c : Left(c)
    <2>1. CASE ~Cut(content)
      BY <1>1, <2>1 DEF Stored
    <2>2. CASE Cut(content) /\ ok
      <3>1. cs = [contents EXCEPT ![id] = content]
        BY <1>1, <2>2 DEF Stored, StoreContent
      <3>2. Left(content)
        BY <2>2, <3>1, BeginsIs
      <3> QED BY <3>2
    <2>3. CASE Cut(content) /\ ~ok
      <3>1. cs \in {contents}
                    \cup {[contents EXCEPT ![id] = SubSeq(content, 1, n)] : n \in 0 .. Len(content)}
        BY <1>1, <2>3 DEF Stored, StoreContent
      <3>2. ASSUME NEW n \in 0 .. Len(content), cs = [contents EXCEPT ![id] = SubSeq(content, 1, n)]
            PROVE  Left(SubSeq(content, 1, n))
        BY <2>3, <3>2, BeginsIs
      <3> QED BY <2>3, <3>1, <3>2
    <2> QED BY <2>1, <2>2, <2>3
  <1>6. /\ cs \in [Calls -> Texts]
        /\ \A i \in Calls : i # id => cs[i] = contents[i]
    BY <1>5, <1>1
  <1>7. \A n \in 1..(N + 1) : n = N + 1 \/ n \in 1..N
    BY <1>1
  <1>8. ASSUME NEW n \in 1..(N + 1) PROVE WrittenFrom(rs[n], planned')
    <2>1. CASE n = N + 1
      BY <1>2, <1>3, <1>4, <2>1 DEF WrittenFrom
    <2>2. CASE n \in 1..N
      <3>1. WrittenFrom(results[n], planned) /\ planned' \in Nat
        BY <1>1, <2>2 DEF TruncInv
      <3>2. \A i \in 1..planned : i \in 1..planned'
        BY <1>1, <3>1
      <3> QED BY <1>4, <2>2, <3>1, <3>2 DEF WrittenFrom
    <2> QED BY <1>7, <2>1, <2>2
  <1>9. ASSUME NEW c, NEW i, NEW m \in 0..N, Traced(results, i, c, m)
        PROVE  Traced(rs, i, c, m) /\ Traced(rs, i, c, N + 1)
    <2>1. \A k \in 1..m : k \in 1..N /\ k \in 1..(N + 1) /\ rs[k] = results[k]
      BY <1>1, <1>4
    <2> QED BY <1>9, <2>1 DEF Traced
  <1>10. ASSUME NEW c, NEW m \in 0..N, Original(results, c, m)
        PROVE  Original(rs, c, m) /\ Original(rs, c, N + 1)
    <2>1. \A k \in 1..m : k \in 1..(N + 1) /\ rs[k] = results[k]
      BY <1>1, <1>4
    <2> QED BY <1>10, <2>1 DEF Original
  <1>11. ASSUME NEW i \in Calls, cs[i] # NoContent
         PROVE  Traced(rs, i, cs[i], N + 1) /\ Original(rs, cs[i], N + 1)
    <2>0. N + 1 \in 1..(N + 1) /\ N \in 0..N
      BY <1>1
    <2>1. CASE cs[i] = contents[i]
      <3>1. Traced(results, i, cs[i], N) /\ Original(results, cs[i], N)
        BY <1>11, <2>1 DEF TruncInv
      <3> QED BY <1>9, <1>10, <2>0, <3>1
    <2>2. CASE i = id /\ \E c : Left(c)
      <3>1. PICK c : Left(c)
        BY <2>2
      <3>2. /\ cs[i] = c /\ Cut(content) /\ c \in Texts /\ Begins(c, content)
            /\ ok => c = content
        BY <1>1, <2>2, <3>1
      <3>3. Traced(rs, i, c, N + 1)
        BY <1>3, <1>4, <2>0, <2>2, <3>2 DEF Traced
      <3>4. CASE of = 0
        <4>1. (\A m \in 1..(N + 1) : rs[m].kept) => c = content
          BY <1>3, <1>4, <2>0, <3>2
        <4> QED BY <1>3, <1>4, <2>0, <3>2, <3>3, <3>4, <4>1 DEF Original
      <3>5. CASE of # 0
        <4>1. Original(rs, content, N)
          BY <1>10, <2>0, <3>2, <3>5
        <4>2. PICK k \in 1..N : /\ rs[k].of = 0 /\ Begins(content, rs[k].full)
                                /\ (\A m \in 1..N : rs[m].kept) => content = rs[k].full
          BY <4>1 DEF Original
        <4>3. k \in 1..(N + 1) /\ \A m \in 1..N : m \in 1..(N + 1)
          BY <1>1
        <4>4. rs[k].full \in Texts
          BY <1>8, <4>3 DEF WrittenFrom
        <4>5. Begins(c, rs[k].full)
          BY <3>2, <4>2, <4>4, BeginsIs
        <4>6. (\A m \in 1..(N + 1) : rs[m].kept) => c = rs[k].full
          BY <1>3, <1>4, <2>0, <3>2, <4>2, <4>3
        <4> QED BY <3>2, <3>3, <4>2, <4>3, <4>5, <4>6 DEF Original
      <3> QED BY <3>4, <3>5
    <2> QED BY <1>5, <1>6, <2>1, <2>2
  <1>12. ASSUME NEW n \in 1..(N + 1), Cut(rs[n].full), rs[n].kept,
                \A k \in 1..(N + 1) : k > n => rs[k].id # rs[n].id
         PROVE  cs[rs[n].id] = rs[n].full
    <2>1. CASE n = N + 1
      <3>1. Cut(content) /\ ok /\ rs[n].id = id /\ rs[n].full = content
        BY <1>3, <1>4, <1>12, <2>1
      <3> QED BY <1>5, <1>1, <3>1
    <2>2. CASE n \in 1..N
      <3>1. rs[n] = results[n] /\ N + 1 \in 1..(N + 1) /\ N + 1 > n
        BY <1>1, <1>4, <2>2
      <3>2. results[n].id # id
        BY <1>3, <1>4, <1>12, <3>1
      <3>3. cs[results[n].id] = contents[results[n].id]
        <4>1. results[n].id \in 1..planned /\ planned \in 0..N /\ MaxExecutions \in Nat
          BY <2>2, TruncatedAssumption DEF TruncInv, WrittenFrom
        <4>2. results[n].id \in Calls
          BY <1>1, <4>1 DEF Calls
        <4> QED BY <1>6, <3>2, <4>2
      <3>4. \A k \in 1..N : k > n => results[k].id # results[n].id
        <4>1. \A k \in 1..N : k \in 1..(N + 1) /\ rs[k] = results[k]
          BY <1>1, <1>4
        <4> QED BY <1>12, <3>1, <4>1
      <3>5. contents[results[n].id] = results[n].full
        BY <1>12, <2>2, <3>1, <3>4 DEF TruncInv
      <3> QED BY <3>1, <3>3, <3>5
    <2> QED BY <1>7, <2>1, <2>2
  <1>13. ASSUME NEW n \in 1..(N + 1), rs[n].of # 0, rs[n].full # NotFound
         PROVE  Traced(rs, rs[n].of, rs[n].full, n - 1) /\ Original(rs, rs[n].full, n - 1)
    <2>1. CASE n = N + 1
      <3>1. /\ Traced(results, of, content, N) /\ Original(results, content, N)
            /\ N \in 0..N /\ n - 1 = N
        BY <1>1, <1>3, <1>4, <1>13, <2>1
      <3>2. Traced(rs, of, content, n - 1) /\ Original(rs, content, n - 1)
        BY <1>9, <1>10, <3>1
      <3> QED BY <1>3, <1>4, <2>1, <3>2
    <2>2. CASE n \in 1..N
      <3>1. rs[n] = results[n] /\ n - 1 \in 0..N
        BY <1>1, <1>4, <2>2
      <3>2. Traced(results, rs[n].of, rs[n].full, n - 1) /\ Original(results, rs[n].full, n - 1)
        BY <1>13, <2>2, <3>1 DEF TruncInv
      <3> QED BY <1>9, <1>10, <3>1, <3>2
    <2> QED BY <1>7, <2>1, <2>2
  <1>14. ASSUME NEW x PROVE (Cut(x) <=> Cut(x)') /\ Shown(x) = Shown(x)'
    BY DEF Cut, Shown, Keep
  <1>15. \A n \in 1..(N + 1) : WrittenFrom(rs[n], planned') => WrittenFrom(results[n], planned)'
    BY <1>14 DEF WrittenFrom, rs
  <1>16. maxLen' \in MaxLens /\ results' \in Seq(Entry) /\ Len(results') = N + 1
         /\ contents' \in [Calls -> Texts] /\ planned' \in 0..Len(results')
    BY <1>1, <1>4, <1>6 DEF rs, cs
  <1> HIDE DEF N
  <1>17. \A n \in 1..Len(results') : WrittenFrom(results[n], planned)'
    BY <1>8, <1>15, <1>16
  <1>18. \A i \in Calls : contents'[i] # NoContent
            => /\ Traced(results, i, contents[i], Len(results))'
               /\ Original(results, contents[i], Len(results))'
    BY <1>11, <1>14, <1>16 DEF Traced, Original, rs, cs
  <1>19. \A n \in 1..Len(results') :
            /\ Cut(results[n].full)' /\ results'[n].kept
            /\ \A k \in 1..Len(results') : k > n => results'[k].id # results'[n].id
            => contents'[results'[n].id] = results'[n].full
    BY <1>12, <1>14, <1>16 DEF Cut, rs, cs
  <1>20. \A n \in 1..Len(results') :
            results'[n].of # 0 /\ results'[n].full # NotFound
               => /\ Traced(results, results[n].of, results[n].full, n - 1)'
                  /\ Original(results, results[n].full, n - 1)'
    BY <1>13, <1>14, <1>16 DEF Traced, Original, rs
  <1> QED BY <1>16, <1>17, <1>18, <1>19, <1>20 DEF TruncInv

(* No execution breaks it.                                                 *)
LEMMA TruncInvStep == TruncInv /\ [TruncNext]_truncVars => TruncInv'
  <1> SUFFICES ASSUME TruncInv, [TruncNext]_truncVars PROVE TruncInv'
    OBVIOUS
  <1>1. /\ results \in Seq(Entry) /\ Len(results) \in Nat /\ maxLen \in MaxLens
        /\ planned \in 0..Len(results) /\ contents \in [Calls -> Texts]
        /\ MaxExecutions \in Nat /\ Lengths \subseteq Nat /\ maxLen \in Nat /\ 2 <= maxLen
    BY TruncatedAssumption DEF TruncInv
  <1>2. ASSUME NEW retry \in BOOLEAN, Len(results) < MaxExecutions, retry => planned > 0,
               planned' = Id(retry)
        PROVE  /\ Id(retry) \in Calls /\ planned' \in 0..(Len(results) + 1)
               /\ planned <= planned' /\ Id(retry) \in 1..planned'
    BY <1>1, <1>2 DEF Id, Calls
  <1>3. ASSUME NEW c, Cut(c) PROVE c # NotFound
    <2>1. Len(NotFound) = 1 /\ ~(1 > maxLen)
      BY <1>1 DEF NotFound
    <2> QED BY <1>3, <2>1 DEF Cut
  <1>4. ASSUME NEW retry \in BOOLEAN, NEW warn \in BOOLEAN, NEW len \in Lengths, NEW ok \in Works,
               ExecuteTool(retry, len, ok, warn)
        PROVE  TruncInv'
    <2> DEFINE c == Output(Len(results) + 1, len)
    <2>1. ok \in BOOLEAN /\ len \in Nat
      BY <1>1 DEF Works
    <2>2. c \in Texts /\ Len(c) = len
      <3>1. c \in [1..len -> Char]
        BY <1>1, <2>1 DEF Output, Char
      <3> QED BY <2>1, <3>1 DEF Texts
    <2>3. /\ Len(results) < MaxExecutions /\ (retry => planned > 0)
          /\ planned' = Id(retry) /\ UNCHANGED maxLen /\ Record(Id(retry), 0, c, ok, warn)
      BY <1>4 DEF ExecuteTool
    <2> DEFINE i == Id(retry)
    <2>4. i \in Calls /\ planned' \in 0..(Len(results) + 1) /\ planned <= planned' /\ i \in 1..planned'
      BY <1>2, <2>3
    <2>5. Record(i, 0, c, ok, warn) /\ UNCHANGED maxLen /\ Len(results) < MaxExecutions
      BY <2>3
    <2>6. /\ 0 \in Nat /\ (Cut(c) => c # NotFound)
          /\ 0 # 0 /\ c # NotFound => /\ Traced(results, 0, c, Len(results))
                                     /\ Original(results, c, Len(results))
      BY <1>3
    <2> HIDE DEF c, i
    <2> QED BY <2>1, <2>2, <2>4, <2>5, <2>6, RecordKeeps
  <1>5. ASSUME NEW retry \in BOOLEAN, NEW warn \in BOOLEAN, NEW id \in Calls, NEW found \in Works,
               NEW ok \in Works, FetchFullResult(retry, id, found, ok, warn)
        PROVE  TruncInv'
    <2> DEFINE c == IF Load(id) = NoContent \/ ~found THEN NotFound ELSE Load(id)
    <2>1. ok \in BOOLEAN /\ id \in Nat
      <3>1. ok \in BOOLEAN
        BY DEF Works
      <3>2. id \in Nat
        BY <1>1 DEF Calls
      <3> QED BY <3>1, <3>2
    <2>2. /\ Len(results) < MaxExecutions /\ (retry => planned > 0)
          /\ planned' = Id(retry) /\ UNCHANGED maxLen /\ Record(Id(retry), id, c, ok, warn)
      BY <1>5 DEF FetchFullResult
    <2>3. NotFound \in Texts
      <3>1. <<"error", 0, 1>> \in Char
        BY DEF Char
      <3> QED BY <3>1 DEF NotFound, Texts
    <2>4. contents[id] # NoContent => /\ Traced(results, id, contents[id], Len(results))
                                      /\ Original(results, contents[id], Len(results))
      BY DEF TruncInv
    <2>5. /\ c \in Texts
          /\ Cut(c) => c # NotFound
          /\ id # 0 /\ c # NotFound => /\ Traced(results, id, c, Len(results))
                                      /\ Original(results, c, Len(results))
      <3>1. CASE Load(id) = NoContent \/ ~found
        <4>1. c = NotFound
          BY <3>1
        <4> HIDE DEF c
        <4> QED BY <1>3, <2>3, <4>1
      <3>2. CASE ~(Load(id) = NoContent \/ ~found)
        <4>1. c = contents[id] /\ contents[id] # NoContent
          BY <3>2 DEF Load
        <4> HIDE DEF c
        <4> QED BY <1>1, <1>3, <2>4, <4>1
      <3> QED BY <3>1, <3>2
    <2> DEFINE i == Id(retry)
    <2>6. i \in Calls /\ planned' \in 0..(Len(results) + 1) /\ planned <= planned' /\ i \in 1..planned'
      BY <1>2, <2>2
    <2>7. Record(i, id, c, ok, warn) /\ UNCHANGED maxLen /\ Len(results) < MaxExecutions
      BY <2>2
    <2> HIDE DEF c, i
    <2> QED BY <2>1, <2>5, <2>6, <2>7, RecordKeeps
  <1>6. CASE UNCHANGED truncVars
    <2>1. UNCHANGED maxLen /\ UNCHANGED results /\ UNCHANGED contents /\ UNCHANGED planned
      BY <1>6 DEF truncVars
    <2>2. ASSUME NEW x PROVE (Cut(x) <=> Cut(x)') /\ Shown(x) = Shown(x)'
      BY <2>1 DEF Cut, Shown, Keep
    <2> QED BY <2>1, <2>2 DEF TruncInv, WrittenFrom, Traced, Original, Cut
  <1> QED BY <1>4, <1>5, <1>6 DEF TruncNext

(* A long output of a tool is shown within the limit with both its ends,   *)
(* and its id leads to the whole of it if its Store worked; what a chain   *)
(* of fetches finds is the beginning of one output of a tool, and all of   *)
(* it unless a Store failed (TruncateToolResult, ContentStore,             *)
(* fetch_full_result), for all limits and lengths.                         *)
THEOREM LongResultsAreKept == TruncSpec => []ResultsKept
  BY TruncInvInit, TruncInvStep, TruncInvKept, PTL DEF TruncSpec

===============================================================================
