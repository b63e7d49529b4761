-------------------------- MODULE ModelCallsProofs --------------------------
(***************************************************************************)
(* The safety of what a model call goes through, for every value of the    *)
(* constants: the rate limiters, the metrics, the retries, the streams,    *)
(* the skills' own calls, the vector store and the merging of searches.    *)
(***************************************************************************)
EXTENDS RateLimiter, MetricsWindow, Stream, ProviderReply, Retry, Retrieval, HybridRetriever,
        SkillContext, RequestsProofs, SequenceTheorems, FiniteSetTheorems, TLAPS

-------------------------------------------------------------------------------
\* Arithmetic of rings.

(* Adding less than once around is at most one turn.                       *)
LEMMA ModSum ==
    ASSUME NEW m \in Nat \ {0}, NEW a \in 0..(m - 1), NEW b \in 0..m
    PROVE  (a + b) % m = IF a + b < m THEN a + b ELSE a + b - m
  OBVIOUS

-------------------------------------------------------------------------------
\* The sliding window.

Ring == [requests : [0..(MaxReqs - 1) -> Int], head : 0..(MaxReqs - 1), count : 0..MaxReqs]

\* The ring w holds the latest admissions of the log, in order from its head,
\* and those it does not hold have left the window.
HoldsLatest(w, l, t) ==
    /\ w.count <= Len(l)
    /\ \A i \in 0..(w.count - 1) : w.requests[Slot(w, i)] = l[Len(l) - w.count + 1 + i]
    /\ \A j \in 1..(Len(l) - w.count) : l[j] <= t - Window

SWInv ==
    /\ now \in Nat
    /\ win \in Ring
    /\ windowLog \in Seq(Int)
    /\ HoldsLatest(win, windowLog, now)
    /\ WindowRespected

(* Where the i-th request of a ring is.                                    *)
LEMMA SlotIs ==
    ASSUME NEW w \in Ring, NEW i \in 0..MaxReqs
    PROVE  /\ Slot(w, i) = IF w.head + i < MaxReqs THEN w.head + i ELSE w.head + i - MaxReqs
           /\ Slot(w, i) \in 0..(MaxReqs - 1)
  <1>1. MaxReqs \in Nat \ {0} /\ w.head \in 0..(MaxReqs - 1)
    BY WindowAssumption DEF Ring
  <1>2. Slot(w, i) = IF w.head + i < MaxReqs THEN w.head + i ELSE w.head + i - MaxReqs
    BY <1>1, ModSum DEF Slot
  <1> QED BY <1>1, <1>2

(* cleanup passes over the expired requests at the head and no further.    *)
LEMMA ExpiredCountIs ==
    ASSUME NEW w \in Ring
    PROVE  /\ expiredCount(w) \in 0..w.count
           /\ \A i \in 0..(expiredCount(w) - 1) : Expired(w, i)
           /\ expiredCount(w) = w.count \/ ~Expired(w, expiredCount(w))
  <1> DEFINE live == {i \in 0..(w.count - 1) : ~Expired(w, i)}
             Right(n) == /\ \A i \in 0..(n - 1) : Expired(w, i)
                         /\ n = w.count \/ ~Expired(w, n)
  <1>1. w.count \in Nat
    BY WindowAssumption DEF Ring
  <1>2. \E n \in 0..w.count : Right(n)
    <2>1. CASE live = {}
      BY <1>1, <2>1
    <2>2. CASE live # {}
      <3>1. live \subseteq Nat
        BY <1>1
      <3> HIDE DEF live
      <3>2. PICK n \in live : \A i \in live : n <= i
        BY <2>2, <3>1, LeastNumber
      <3> USE DEF live
      <3>3. \A i \in 0..(n - 1) : Expired(w, i)
        BY <1>1, <3>2
      <3>4. n \in 0..w.count /\ ~Expired(w, n)
        BY <1>1, <3>2
      <3> QED BY <3>3, <3>4
    <2> QED BY <2>1, <2>2
  <1>3. expiredCount(w) = CHOOSE n \in 0..w.count : Right(n)
    BY DEF expiredCount
  <1> HIDE DEF Right
  <1>4. expiredCount(w) \in 0..w.count /\ Right(expiredCount(w))
    BY <1>2, <1>3
  <1> QED BY <1>4 DEF Right

(* What cleanup keeps is the rest of the ring, in order.                   *)
LEMMA CleanupIs ==
    ASSUME NEW w \in Ring
    PROVE  LET n == expiredCount(w)
               v == cleanup(w)
           IN  /\ v \in Ring /\ v.count = w.count - n
               /\ \A i \in 0..(v.count - 1) : v.requests[Slot(v, i)] = w.requests[Slot(w, n + i)]
  <1> DEFINE n == expiredCount(w)
             v == cleanup(w)
             kept == [s \in 0..(MaxReqs - 1) |-> IF \E i \in 0..(n - 1) : s = Slot(w, i)
                                                 THEN ZeroTime ELSE w.requests[s]]
  <1>1. /\ MaxReqs \in Nat \ {0} /\ w.count \in 0..MaxReqs /\ w.head \in 0..(MaxReqs - 1)
        /\ w.requests \in [0..(MaxReqs - 1) -> Int] /\ n \in 0..w.count
    BY WindowAssumption, ExpiredCountIs DEF Ring
  <1>2. v = [requests |-> kept, head |-> Slot(w, n), count |-> w.count - n]
    BY DEF cleanup
  <1>3. Slot(w, n) \in 0..(MaxReqs - 1)
    <2>1. n \in 0..MaxReqs
      BY <1>1
    <2> HIDE DEF n
    <2> QED BY <2>1, SlotIs
  <1>4. kept \in [0..(MaxReqs - 1) -> Int]
    BY <1>1 DEF ZeroTime
  <1> HIDE DEF v, n, kept
  <1>5. v \in Ring /\ v.count = w.count - n /\ v.head = Slot(w, n) /\ v.requests = kept
    BY <1>1, <1>2, <1>3, <1>4 DEF Ring
  <1>6. ASSUME NEW i \in 0..(v.count - 1)
        PROVE  v.requests[Slot(v, i)] = w.requests[Slot(w, n + i)]
    <2>1. /\ n + i \in 0..(MaxReqs - 1) /\ n + i \in 0..MaxReqs
          /\ i \in 0..MaxReqs /\ i \in Nat /\ n \in 0..MaxReqs
      BY <1>1, <1>5
    <2>2. /\ Slot(w, n + i) = IF w.head + (n + i) < MaxReqs THEN w.head + (n + i)
                                ELSE w.head + (n + i) - MaxReqs
          /\ Slot(w, n + i) \in 0..(MaxReqs - 1)
      BY <2>1, SlotIs
    <2>3. Slot(v, i) = Slot(w, n + i)
      <3>1. Slot(w, n) = IF w.head + n < MaxReqs THEN w.head + n ELSE w.head + n - MaxReqs
        BY <2>1, SlotIs
      <3>2. Slot(v, i) = IF v.head + i < MaxReqs THEN v.head + i ELSE v.head + i - MaxReqs
        BY <1>5, <2>1, SlotIs
      <3> QED BY <1>1, <1>5, <2>1, <2>2, <3>1, <3>2
    <2>4. ASSUME NEW k \in 0..(n - 1) PROVE Slot(w, n + i) # Slot(w, k)
      <3>1. k \in 0..MaxReqs
        BY <1>1
      <3>2. Slot(w, k) = IF w.head + k < MaxReqs THEN w.head + k ELSE w.head + k - MaxReqs
        BY <3>1, SlotIs
      <3> QED BY <1>1, <2>1, <2>2, <3>1, <3>2
    <2> QED BY <1>5, <2>2, <2>3, <2>4 DEF kept
  <1> QED BY <1>5, <1>6 DEF v, n

(* A request that is added to a ring with room comes last.                 *)
LEMMA AddIs ==
    ASSUME NEW w \in Ring, w.count < MaxReqs, NEW t \in Int
    PROVE  LET v == addRequest(w, t)
           IN  /\ v \in Ring /\ v.count = w.count + 1
               /\ \A i \in 0..(w.count - 1) : v.requests[Slot(v, i)] = w.requests[Slot(w, i)]
               /\ v.requests[Slot(v, w.count)] = t
  <1> DEFINE v == addRequest(w, t)
             last == Slot(w, w.count)
  <1>1. /\ MaxReqs \in Nat \ {0} /\ w.count \in 0..(MaxReqs - 1) /\ w.count \in 0..MaxReqs
        /\ w.head \in 0..(MaxReqs - 1) /\ w.requests \in [0..(MaxReqs - 1) -> Int]
    BY WindowAssumption DEF Ring
  <1>2. v = [w EXCEPT !.requests[last] = t, !.count = w.count + 1]
    BY DEF addRequest
  <1>3. /\ last = IF w.head + w.count < MaxReqs THEN w.head + w.count
                  ELSE w.head + w.count - MaxReqs
        /\ last \in 0..(MaxReqs - 1)
    BY <1>1, SlotIs
  <1> HIDE DEF v, last
  <1>4. /\ v.requests = [w.requests EXCEPT ![last] = t]
        /\ v.head = w.head /\ v.count = w.count + 1
    BY <1>2 DEF Ring
  <1>5. v \in Ring
    <2>1. v.requests \in [0..(MaxReqs - 1) -> Int]
      BY <1>1, <1>3, <1>4
    <2>2. v.head \in 0..(MaxReqs - 1) /\ v.count \in 0..MaxReqs
      BY <1>1, <1>4
    <2>3. v = [requests |-> v.requests, head |-> v.head, count |-> v.count]
      BY <1>2 DEF Ring
    <2> QED BY <2>1, <2>2, <2>3 DEF Ring
  <1>6. \A i : Slot(v, i) = Slot(w, i)
    BY <1>4 DEF Slot
  <1>7. ASSUME NEW i \in 0..(w.count - 1)
        PROVE  v.requests[Slot(v, i)] = w.requests[Slot(w, i)]
    <2>1. i \in 0..MaxReqs
      BY <1>1
    <2>2. /\ Slot(w, i) = IF w.head + i < MaxReqs THEN w.head + i ELSE w.head + i - MaxReqs
          /\ Slot(w, i) \in 0..(MaxReqs - 1)
      BY <2>1, SlotIs
    <2>3. Slot(w, i) # last
      <3> DEFINE h == w.head
                 c == w.count
                 a == Slot(w, i)
      <3>1. h \in Nat /\ c \in Nat /\ MaxReqs \in Nat /\ i \in Nat
        BY <1>1
      <3>2. i < c /\ c < MaxReqs
        BY <1>1
      <3>3. (h + i < MaxReqs => a = h + i) /\ (~(h + i < MaxReqs) => a = h + i - MaxReqs)
        BY <2>2
      <3>4. (h + c < MaxReqs => last = h + c) /\ (~(h + c < MaxReqs) => last = h + c - MaxReqs)
        BY <1>3
      <3> HIDE DEF h, c, a
      <3>5. a # last
        BY <3>1, <3>2, <3>3, <3>4
      <3> QED BY <3>5 DEF a
    <2> QED BY <1>1, <1>4, <1>6, <2>2, <2>3
  <1>8. v.requests[Slot(v, w.count)] = t
    BY <1>1, <1>3, <1>4, <1>6 DEF last
  <1> QED BY <1>4, <1>5, <1>7, <1>8 DEF v

(* Between two requests, cleanup drops only what has left the window, and  *)
(* stops at a request that has not.                                        *)
LEMMA CleanupHolds ==
    ASSUME SWInv
    PROVE  /\ cleanup(win) \in Ring
           /\ HoldsLatest(cleanup(win), windowLog, now)
           /\ cleanup(win).count > 0 =>
                 windowLog[Len(windowLog) - cleanup(win).count + 1] > now - Window
  <1> DEFINE n == expiredCount(win)
             v == cleanup(win)
             L == Len(windowLog)
             d == L - win.count
  <1>1. /\ v \in Ring /\ v.count = win.count - n
        /\ \A i \in 0..(v.count - 1) : v.requests[Slot(v, i)] = win.requests[Slot(win, n + i)]
    BY CleanupIs DEF SWInv
  <1>2. /\ n \in 0..win.count
        /\ \A i \in 0..(n - 1) : win.requests[Slot(win, i)] <= now - Window
        /\ n = win.count \/ ~(win.requests[Slot(win, n)] <= now - Window)
    BY ExpiredCountIs DEF SWInv, Expired
  <1>3. /\ win.count \in Nat /\ L \in Nat /\ d \in Nat /\ now \in Nat /\ Window \in Nat
        /\ \A i \in 0..(win.count - 1) : win.requests[Slot(win, i)] = windowLog[d + 1 + i]
        /\ \A j \in 1..d : windowLog[j] <= now - Window
        /\ \A j \in 1..L : windowLog[j] \in Int
    BY WindowAssumption DEF SWInv, HoldsLatest, Ring
  <1> HIDE DEF n, v, L, d
  <1>4. L - v.count = d + n /\ v.count <= L
    BY <1>1, <1>2, <1>3 DEF d
  <1>5. ASSUME NEW i \in 0..(v.count - 1) PROVE v.requests[Slot(v, i)] = windowLog[d + n + 1 + i]
    <2>1. n + i \in 0..(win.count - 1) /\ d + 1 + (n + i) = d + n + 1 + i
      BY <1>1, <1>2, <1>3
    <2> QED BY <1>1, <1>3, <2>1
  <1>6. ASSUME NEW j \in 1..(d + n) PROVE windowLog[j] <= now - Window
    <2>1. CASE j <= d
      BY <1>2, <1>3, <2>1
    <2>2. CASE ~(j <= d)
      <3>1. j - d - 1 \in 0..(n - 1) /\ j - d - 1 \in 0..(win.count - 1) /\ d + 1 + (j - d - 1) = j
        BY <1>2, <1>3, <2>2
      <3> QED BY <1>2, <1>3, <3>1
    <2> QED BY <2>1, <2>2
  <1>7. ASSUME v.count > 0 PROVE windowLog[L - v.count + 1] > now - Window
    <2>1. n \in 0..(win.count - 1) /\ L - v.count + 1 = d + 1 + n /\ L - v.count + 1 \in 1..L
      BY <1>1, <1>2, <1>3, <1>4, <1>7
    <2> QED BY <1>2, <1>3, <2>1
  <1>8. HoldsLatest(v, windowLog, now)
    BY <1>4, <1>5, <1>6 DEF HoldsLatest, L
  <1> QED BY <1>1, <1>7, <1>8 DEF v, L

(* A critical section of Allow, of Wait or of Count keeps SWInv.           *)
LEMMA WindowTryKeeps ==
    ASSUME SWInv, NEW ok \in BOOLEAN, WindowTry(ok)
    PROVE  SWInv'
  <1> DEFINE w == cleanup(win)
             L == Len(windowLog)
  <1>1. /\ w \in Ring /\ HoldsLatest(w, windowLog, now)
        /\ now \in Nat /\ windowLog \in Seq(Int) /\ WindowRespected
    BY CleanupHolds DEF SWInv
  <1>2. CASE ~ok
    BY <1>1, <1>2 DEF WindowTry, SWInv, WindowRespected
  <1>3. CASE ok
    <2>1. /\ w.count < MaxReqs /\ now' \in Nat /\ now <= now'
          /\ win' = addRequest(w, now') /\ windowLog' = Append(windowLog, now')
      BY <1>1, <1>3 DEF WindowTry, Later
    <2>2. /\ L \in Nat /\ Len(windowLog') = L + 1 /\ windowLog' \in Seq(Int)
          /\ windowLog'[L + 1] = now' /\ \A j \in 1..L : windowLog'[j] = windowLog[j]
          /\ \A j \in 1..L : windowLog[j] \in Int
      BY <1>1, <2>1
    <2> HIDE DEF w, L
    <2>3. /\ win' \in Ring /\ win'.count = w.count + 1
          /\ \A i \in 0..(w.count - 1) : win'.requests[Slot(win', i)] = w.requests[Slot(w, i)]
          /\ win'.requests[Slot(win', w.count)] = now'
      BY <1>1, <2>1, AddIs
    <2>4. /\ w.count \in Nat /\ w.count <= L /\ Window \in Nat /\ MaxReqs \in Nat
          /\ \A i \in 0..(w.count - 1) : w.requests[Slot(w, i)] = windowLog[L - w.count + 1 + i]
          /\ \A j \in 1..(L - w.count) : windowLog[j] <= now - Window
      BY <1>1, WindowAssumption DEF HoldsLatest, Ring, L
    <2>10. /\ L \in Nat /\ Len(windowLog') = L + 1 /\ win'.count = w.count + 1
           /\ w.count \in Nat /\ w.count <= L /\ Window \in Nat /\ MaxReqs \in Nat
      BY <2>2, <2>3, <2>4
    <2>5. Len(windowLog') - win'.count = L - w.count
      BY <2>10
    <2>6. ASSUME NEW i \in 0..(win'.count - 1)
          PROVE  win'.requests[Slot(win', i)] = windowLog'[L - w.count + 1 + i]
      <3>1. CASE i = w.count
        BY <2>2, <2>3, <2>4, <3>1
      <3>2. CASE i # w.count
        <4>1. i \in 0..(w.count - 1) /\ L - w.count + 1 + i \in 1..L
          BY <2>10, <3>2
        <4> QED BY <2>2, <2>3, <2>4, <4>1
      <3> QED BY <3>1, <3>2
    <2>7. ASSUME NEW j \in 1..(L - w.count) PROVE windowLog'[j] <= now' - Window
      <3>1. j \in 1..L
        BY <2>2, <2>4
      <3>2. windowLog'[j] = windowLog[j] /\ windowLog[j] \in Int /\ windowLog[j] <= now - Window
        BY <2>2, <2>4, <3>1
      <3>3. now \in Nat /\ now' \in Nat /\ now <= now' /\ Window \in Nat
        BY <1>1, <2>1, <2>10
      <3> QED BY <3>2, <3>3
    <2>8. HoldsLatest(win', windowLog', now')
      <3>1. win'.count <= Len(windowLog')
        BY <2>2, <2>3, <2>4
      <3> QED BY <2>5, <2>6, <2>7, <3>1 DEF HoldsLatest
    <2>9. WindowRespected'
      <3> SUFFICES ASSUME NEW j \in 1..(Len(windowLog') - MaxReqs)
                   PROVE  windowLog'[j + MaxReqs] - windowLog'[j] >= Window
        BY DEF WindowRespected
      <3>0. j \in Nat /\ 1 <= j /\ j <= L + 1 - MaxReqs
        BY <2>2, <2>4
      <3>1. CASE j + MaxReqs = L + 1
        <4>1. j \in 1..(L - w.count) /\ j \in 1..L
          BY <2>1, <2>10, <3>0, <3>1
        <4>2. /\ windowLog'[j + MaxReqs] = now' /\ windowLog'[j] = windowLog[j]
              /\ windowLog[j] \in Int /\ windowLog[j] <= now - Window
          BY <2>2, <2>4, <3>1, <4>1
        <4> QED BY <1>1, <2>1, <2>10, <4>2
      <3>2. CASE j + MaxReqs # L + 1
        <4>1. j \in 1..(L - MaxReqs) /\ j + MaxReqs \in 1..L /\ j \in 1..L
          BY <2>10, <3>0, <3>2
        <4> QED BY <1>1, <2>2, <4>1 DEF WindowRespected, L
      <3> QED BY <3>1, <3>2
    <2> QED BY <2>1, <2>2, <2>3, <2>8, <2>9 DEF SWInv
  <1> QED BY <1>2, <1>3

(* Time, and what happens elsewhere.                                       *)
LEMMA WindowIdle ==
    ASSUME SWInv, UNCHANGED swVars, now' \in Nat, now <= now'
    PROVE  SWInv'
  <1>1. \A j \in 1..(Len(windowLog) - win.count) : windowLog[j] \in Int
    BY DEF SWInv, Ring
  <1>2. \A j \in 1..(Len(windowLog) - win.count) : windowLog[j] <= now' - Window
    BY <1>1, WindowAssumption DEF SWInv, HoldsLatest
  <1>3. HoldsLatest(win, windowLog, now')
    BY <1>2 DEF SWInv, HoldsLatest
  <1> QED BY <1>3 DEF SWInv, swVars, WindowRespected

(* SWInv is what the window limiter promises.                              *)
LEMMA WindowInvExact == SWInv => WindowExact
  <1> SUFFICES ASSUME SWInv PROVE WindowExact
    OBVIOUS
  <1>1. /\ win.count \in Nat /\ Len(windowLog) \in Nat /\ MaxReqs \in Nat \ {0}
        /\ cleanup(win) \in Ring
    <2>1. win \in Ring /\ windowLog \in Seq(Int)
      BY DEF SWInv
    <2>2. win.count \in Nat /\ MaxReqs \in Nat \ {0}
      BY <2>1, WindowAssumption DEF Ring
    <2> QED BY <2>1, <2>2, CleanupHolds
  <1>2. RingIsLog
    BY <1>1 DEF SWInv, HoldsLatest, RingIsLog
  <1>3. RefusesOnlyWhenFull
    <2> SUFFICES ASSUME cleanup(win).count >= MaxReqs
                 PROVE  /\ Len(windowLog) >= MaxReqs
                        /\ windowLog[Len(windowLog) - MaxReqs + 1] > now - Window
      BY DEF RefusesOnlyWhenFull
    <2>1. cleanup(win).count = MaxReqs
      BY <1>1 DEF Ring
    <2> QED BY <1>1, <2>1, CleanupHolds DEF HoldsLatest
  <1> QED BY <1>2, <1>3 DEF SWInv, WindowExact

(* The window limiter on its own, called at any time, for every window and *)
(* every number of requests: no window holds too many admissions, and no   *)
(* caller is held back without reason.                                     *)
THEOREM WindowIsExact == SWSpec => []WindowExact
  <1>1. now = 0 /\ SWInit => SWInv
    BY WindowAssumption DEF SWInit, SWInv, Ring, HoldsLatest, WindowRespected, ZeroTime
  <1>2. SWInv /\ [SWNext]_<<now, swVars>> => SWInv'
    <2> SUFFICES ASSUME SWInv, [SWNext]_<<now, swVars>> PROVE SWInv'
      OBVIOUS
    <2>1. CASE UNCHANGED <<now, swVars>> \/ (Tick /\ UNCHANGED swVars)
      BY <2>1, WindowIdle DEF SWInv, Tick
    <2>2. CASE Count
      BY <2>2, CleanupHolds DEF Count, SWInv, WindowRespected
    <2> QED BY <2>1, <2>2, WindowTryKeeps DEF SWNext
  <1> QED BY <1>1, <1>2, WindowInvExact, PTL DEF SWSpec

-------------------------------------------------------------------------------
\* The token bucket.

\* Where the tokens went.  The first account bounds what was handed out since
\* any admission i by the capacity and what has flowed in; the second says that
\* since some admission that found the bucket full nothing was lost.
Account(i) == Capacity * Unit + (lastRefill - bucketLog[i]) * Rate
                 - (Len(bucketLog) - i + 1) * Unit

TBInv ==
    /\ now \in Nat /\ lastRefill \in Nat /\ lastRefill <= now
    /\ tokens \in 0..(Capacity * Unit)
    /\ bucketLog \in Seq(Nat)
    /\ \A i \in 1..Len(bucketLog) : tokens <= Account(i)
    /\ tokens = Capacity * Unit \/ \E i \in 1..Len(bucketLog) : tokens >= Account(i)
    /\ BucketRespected

(* What refill finds in the bucket.                                        *)
LEMMA RefilledIs ==
    ASSUME TBInv
    PROVE  /\ Capacity * Unit \in Nat /\ Unit \in Nat \ {0} /\ Unit <= Capacity * Unit
           /\ (now - lastRefill) * Rate \in Nat /\ Rate \in Nat
           /\ refilled \in 0..(Capacity * Unit)
           /\ refilled <= tokens + (now - lastRefill) * Rate
           /\ refilled = Capacity * Unit \/ refilled = tokens + (now - lastRefill) * Rate
  <1>1. Capacity \in Nat /\ Unit \in Nat /\ Rate \in Nat /\ Capacity >= 1 /\ Unit >= 1
    BY BucketAssumption
  <1>2. Capacity * Unit \in Nat /\ Unit <= Capacity * Unit
    BY <1>1
  <1>3. (now - lastRefill) * Rate \in Nat
    BY <1>1 DEF TBInv
  <1> QED BY <1>1, <1>2, <1>3 DEF TBInv, refilled

(* An account moves with the clock by what flows in.                       *)
LEMMA AccountFlows ==
    ASSUME NEW a \in Int, NEW b \in Int, NEW c \in Int, NEW r \in Int
    PROVE  (a - c) * r = (b - c) * r + (a - b) * r
  OBVIOUS

(* A critical section of Allow or Wait keeps TBInv.                        *)
LEMMA TakeTokenKeeps ==
    ASSUME TBInv, NEW ok \in BOOLEAN, TakeToken(ok)
    PROVE  TBInv'
  <1> DEFINE n == Len(bucketLog)
             full == Capacity * Unit
             flow == (now - lastRefill) * Rate
  <1>1. /\ full \in Nat /\ Unit \in Nat /\ Unit <= full /\ Unit > 0 /\ flow \in Nat /\ Rate \in Nat
        /\ refilled \in Nat /\ refilled <= full /\ refilled <= tokens + flow
        /\ refilled = full \/ refilled = tokens + flow
    BY RefilledIs
  <1>2. /\ now \in Nat /\ lastRefill \in Nat /\ lastRefill <= now /\ n \in Nat
        /\ tokens \in Nat /\ \A i \in 1..n : bucketLog[i] \in Nat
    BY BucketAssumption DEF TBInv
  <1>3. \A i \in 1..n : (now - bucketLog[i]) * Rate = (lastRefill - bucketLog[i]) * Rate + flow
    BY <1>1, <1>2, AccountFlows
  <1>4. \A i \in 1..n : (lastRefill - bucketLog[i]) * Rate \in Int /\ (n - i + 1) * Unit \in Int
    BY <1>1, <1>2
  <1>5. /\ \A i \in 1..n : tokens <= Account(i)
        /\ tokens = full \/ \E i \in 1..n : tokens >= Account(i)
    BY DEF TBInv
  <1>6. \A i \in 1..n : Account(i) = full + (lastRefill - bucketLog[i]) * Rate - (n - i + 1) * Unit
    BY DEF Account
  <1> HIDE DEF n, full, flow
  <1>7. /\ \A i \in 1..n : refilled <= full + (now - bucketLog[i]) * Rate - (n - i + 1) * Unit
        /\ \/ refilled = full
           \/ \E i \in 1..n : refilled >= full + (now - bucketLog[i]) * Rate - (n - i + 1) * Unit
    BY <1>1, <1>2, <1>3, <1>4, <1>5, <1>6
  <1>8. CASE ~ok
    <2>1. /\ refilled < Unit /\ tokens' = refilled /\ lastRefill' = now
          /\ UNCHANGED <<now, bucketLog>>
      BY <1>8 DEF TakeToken
    <2>2. \A i \in 1..n : Account(i)' = full + (now - bucketLog[i]) * Rate - (n - i + 1) * Unit
      BY <2>1 DEF Account, n, full
    <2>3. /\ \A i \in 1..Len(bucketLog') : tokens' <= Account(i)'
          /\ \E i \in 1..Len(bucketLog') : tokens' >= Account(i)'
      BY <1>1, <1>7, <2>1, <2>2 DEF n
    <2> QED BY <1>1, <1>2, <2>1, <2>3 DEF TBInv, BucketRespected, full
  <1>9. CASE ok
    <2>1. /\ refilled >= Unit /\ tokens' = refilled - Unit /\ lastRefill' = now /\ now' = now
          /\ bucketLog' = Append(bucketLog, now)
      BY <1>9 DEF TakeToken
    <2>2. /\ Len(bucketLog') = n + 1 /\ bucketLog' \in Seq(Nat) /\ bucketLog'[n + 1] = now
          /\ \A i \in 1..n : bucketLog'[i] = bucketLog[i]
      BY <1>2, <2>1 DEF TBInv, n
    <2> DEFINE In(i) == (now - bucketLog[i]) * Rate
               Out(i) == (n - i + 1) * Unit
    <2>3. \A i \in 1..n : /\ In(i) \in Int /\ Out(i) \in Int
                          /\ (n + 1 - i + 1) * Unit = Out(i) + Unit
                          /\ refilled <= full + In(i) - Out(i)
      BY <1>1, <1>2, <1>7
    <2>4. refilled = full \/ \E i \in 1..n : refilled >= full + In(i) - Out(i)
      BY <1>7
    <2>5. \A i \in 1..n : Account(i)' = full + In(i) - (Out(i) + Unit)
      <3> SUFFICES ASSUME NEW i \in 1..n
                   PROVE  Account(i)' = full + In(i) - (Out(i) + Unit)
        OBVIOUS
      <3>1. Account(i)' = full + (lastRefill' - bucketLog'[i]) * Rate
                             - (Len(bucketLog') - i + 1) * Unit
        BY DEF Account, full
      <3>2. /\ lastRefill' - bucketLog'[i] = now - bucketLog[i]
            /\ Len(bucketLog') - i + 1 = n + 1 - i + 1
        BY <1>2, <2>1, <2>2
      <3>3. Account(i)' = full + In(i) - (n + 1 - i + 1) * Unit
        BY <3>1, <3>2
      <3> HIDE DEF In, Out
      <3> QED BY <2>3, <3>3
    <2>6. ASSUME NEW k \in Nat, k = n + 1 PROVE Account(k)' = full - Unit
      <3>1. Account(k)' = full + (lastRefill' - bucketLog'[k]) * Rate
                             - (Len(bucketLog') - k + 1) * Unit
        BY DEF Account, full
      <3>2. lastRefill' - bucketLog'[k] = 0 /\ Len(bucketLog') - k + 1 = 1
        <4>1. lastRefill' = now /\ bucketLog'[k] = now /\ Len(bucketLog') = k
          BY <2>1, <2>2, <2>6
        <4>2. now - now = 0 /\ k - k + 1 = 1
          BY ONLY <1>2, <2>6
        <4> QED BY ONLY <4>1, <4>2
      <3>3. 0 * Rate = 0 /\ 1 * Unit = Unit
        BY <1>1
      <3> QED BY <1>1, <3>1, <3>2, <3>3
    <2> HIDE DEF In, Out
    <2>7. /\ \A i \in 1..(n + 1) : tokens' <= Account(i)'
          /\ \E i \in 1..(n + 1) : tokens' >= Account(i)'
      <3>0. PICK k \in Nat : k = n + 1
        BY <1>2
      <3>1. \A i \in 1..n : tokens' <= Account(i)'
        BY <1>1, <2>1, <2>3, <2>5
      <3>2. tokens' <= Account(k)' /\ (refilled = full => tokens' >= Account(k)')
        BY <1>1, <2>1, <2>6, <3>0
      <3>3. \A i \in 1..(n + 1) : i \in 1..n \/ i = k
        BY <1>2, <3>0
      <3>4. ASSUME NEW i \in 1..n, refilled >= full + In(i) - Out(i)
            PROVE  \E l \in 1..(n + 1) : tokens' >= Account(l)'
        <4>1. tokens' >= Account(i)' /\ i \in 1..(n + 1)
          BY <1>1, <1>2, <2>1, <2>3, <2>5, <3>4
        <4> QED BY <4>1
      <3>5. k \in 1..(n + 1)
        BY <1>2, <3>0
      <3>6. \A i \in 1..(n + 1) : tokens' <= Account(i)'
        BY <3>1, <3>2, <3>3
      <3> QED BY <2>4, <3>2, <3>4, <3>5, <3>6
    <2>8. BucketRespected'
      <3> SUFFICES ASSUME NEW i \in 1..(n + 1), NEW j \in 1..(n + 1), i <= j
                   PROVE  (j - i + 1) * Unit <= full + (bucketLog'[j] - bucketLog'[i]) * Rate
        BY <2>2 DEF BucketRespected, full
      <3>1. CASE j \in 1..n
        <4>1. i \in 1..n
          BY <1>2, <3>1
        <4> QED BY <2>2, <3>1, <4>1 DEF TBInv, BucketRespected, n, full
      <3>2. CASE j = n + 1 /\ i \in 1..n
        <4>1. Out(i) + Unit <= full + In(i)
          BY <1>1, <2>1, <2>3, <3>2
        <4>2. bucketLog'[j] - bucketLog'[i] = now - bucketLog[i] /\ j - i + 1 = n + 1 - i + 1
          BY <1>2, <2>2, <3>2
        <4>3. (j - i + 1) * Unit = Out(i) + Unit
          BY <2>3, <3>2, <4>2
        <4> QED BY <4>1, <4>2, <4>3 DEF In
      <3>3. CASE j = n + 1 /\ i = n + 1
        <4>1. bucketLog'[j] - bucketLog'[i] = 0 /\ j - i + 1 = 1
          BY <1>2, <2>2, <3>3
        <4>2. 0 * Rate = 0 /\ 1 * Unit = Unit
          BY <1>1
        <4> QED BY <1>1, <4>1, <4>2
      <3> QED BY <1>2, <3>1, <3>2, <3>3
    <2>9. tokens' \in 0..full
      BY <1>1, <2>1
    <2> QED BY <1>2, <2>1, <2>2, <2>7, <2>8, <2>9 DEF TBInv, full
  <1> QED BY <1>8, <1>9

(* Time, and what happens elsewhere.                                       *)
LEMMA BucketIdle ==
    ASSUME TBInv, UNCHANGED tbVars, now' \in Nat, now <= now'
    PROVE  TBInv'
  BY DEF TBInv, tbVars, Account, BucketRespected

(* TBInv is what the bucket promises.                                      *)
LEMMA BucketInvExact == TBInv => BucketExact
  <1> SUFFICES ASSUME TBInv, refilled < Unit
               PROVE  \E i \in 1..Len(bucketLog) :
                         Capacity * Unit + (now - bucketLog[i]) * Rate
                            < (Len(bucketLog) - i + 2) * Unit
    BY DEF TBInv, BucketExact, RefusesOnlyWhenEmpty
  <1> DEFINE n == Len(bucketLog)
             full == Capacity * Unit
             flow == (now - lastRefill) * Rate
  <1>1. /\ full \in Nat /\ Unit \in Nat /\ Unit <= full /\ Unit > 0 /\ flow \in Nat /\ Rate \in Nat
        /\ refilled \in Nat /\ refilled \in {full, tokens + flow}
        /\ refilled <= tokens + flow /\ tokens \in Nat /\ tokens <= full
    BY RefilledIs DEF TBInv
  <1>2. refilled = tokens + flow /\ tokens # full
    BY <1>1
  <1>3. PICK i \in 1..n : tokens >= Account(i)
    BY <1>2 DEF TBInv
  <1>4. /\ now \in Nat /\ lastRefill \in Nat /\ n \in Nat /\ bucketLog[i] \in Nat
    BY DEF TBInv
  <1>5. (now - bucketLog[i]) * Rate = (lastRefill - bucketLog[i]) * Rate + flow
    BY <1>1, <1>4, AccountFlows
  <1>6. (n - i + 2) * Unit = (n - i + 1) * Unit + Unit
    BY <1>1, <1>4
  <1>7. (lastRefill - bucketLog[i]) * Rate \in Int /\ (n - i + 1) * Unit \in Int
    BY <1>1, <1>4
  <1>8. tokens >= full + (lastRefill - bucketLog[i]) * Rate - (n - i + 1) * Unit
    BY <1>3 DEF Account
  <1> HIDE DEF full, flow
  <1>9. full + (now - bucketLog[i]) * Rate < (n - i + 2) * Unit
    BY <1>1, <1>2, <1>5, <1>6, <1>7, <1>8
  <1> QED BY <1>9 DEF full

(* The token bucket on its own, for every capacity and rate.               *)
THEOREM BucketIsExact == TBSpec => []BucketExact
  <1>1. now = 0 /\ TBInit => TBInv
    BY BucketAssumption DEF TBInit, TBInv, BucketRespected
  <1>2. TBInv /\ [TBNext]_<<now, tbVars>> => TBInv'
    <2> SUFFICES ASSUME TBInv, [TBNext]_<<now, tbVars>> PROVE TBInv'
      OBVIOUS
    <2>1. CASE UNCHANGED <<now, tbVars>> \/ (Tick /\ UNCHANGED tbVars)
      BY <2>1, BucketIdle DEF TBInv, Tick
    <2> QED BY <2>1, TakeTokenKeeps DEF TBNext
  <1> QED BY <1>1, <1>2, BucketInvExact, PTL DEF TBSpec

-------------------------------------------------------------------------------
\* The combined limiter.

(* Any number of callers that share the combined limiter get no more and   *)
(* no less than both limiters allow, however their critical sections       *)
(* interleave and whoever wakes for whose place.                           *)
THEOREM LimitersAreExact == RLSpec => []LimitersExact
  <1>1. RLInit => SWInv /\ TBInv
    BY WindowAssumption, BucketAssumption
       DEF RLInit, SWInit, SWInv, Ring, HoldsLatest, WindowRespected, ZeroTime,
           TBInit, TBInv, BucketRespected
  <1>2. SWInv /\ TBInv /\ [RLNext]_rlVars => SWInv' /\ TBInv'
    <2> SUFFICES ASSUME SWInv, TBInv, [RLNext]_rlVars PROVE SWInv' /\ TBInv'
      OBVIOUS
    <2>0. now \in Nat
      BY DEF SWInv
    <2>1. CASE UNCHANGED <<swVars, tbVars>> /\ now' \in Nat /\ now <= now'
      BY <2>1, WindowIdle, BucketIdle
    <2>2. ASSUME NEW ok \in BOOLEAN, TakeToken(ok), UNCHANGED swVars PROVE SWInv' /\ TBInv'
      <3>1. now' \in Nat /\ now <= now'
        BY <2>0, <2>2 DEF TakeToken
      <3> QED BY <2>2, <3>1, WindowIdle, TakeTokenKeeps
    <2>3. ASSUME NEW ok \in BOOLEAN, WindowTry(ok), UNCHANGED tbVars PROVE SWInv' /\ TBInv'
      <3>1. now' \in Nat /\ now <= now'
        BY <2>0, <2>3 DEF WindowTry, Later
      <3> QED BY <2>3, <3>1, BucketIdle, WindowTryKeeps
    <2>4. CASE UNCHANGED rlVars
      BY <2>0, <2>1, <2>4 DEF rlVars
    <2>5. CASE TimePasses
      BY <2>0, <2>1, <2>5 DEF TimePasses, Tick
    <2>6. ASSUME NEW c \in Callers, Request(c) \/ Wake(c) \/ Cancel(c) PROVE SWInv' /\ TBInv'
      BY <2>0, <2>1, <2>6 DEF Request, Wake, Cancel
    <2>7. ASSUME NEW c \in Callers, Allow(c) PROVE SWInv' /\ TBInv'
      BY <2>2, <2>3, <2>7 DEF Allow
    <2>8. ASSUME NEW c \in Callers, WaitRound(c) PROVE SWInv' /\ TBInv'
      BY <2>2, <2>3, <2>8 DEF WaitRound
    <2> QED BY <2>4, <2>5, <2>6, <2>7, <2>8 DEF RLNext, CallerStep
  <1>3. SWInv /\ TBInv => LimitersExact
    BY WindowInvExact, BucketInvExact DEF LimitersExact
  <1> QED BY <1>1, <1>2, <1>3, PTL DEF RLSpec

-------------------------------------------------------------------------------
\* Streams.

(* Chunks that move from one sequence to the next.                         *)
LEMMA MoveFirst ==
    ASSUME NEW S, NEW s \in Seq(S), NEW m \in Seq(S), m # <<>>
    PROVE  /\ Append(s, Head(m)) \o Tail(m) = s \o m
           /\ Append(s, Head(m)) \in Seq(S) /\ Tail(m) \in Seq(S) /\ Head(m) \in S
  <1> DEFINE a == Append(s, Head(m)) \o Tail(m)
             b == s \o m
  <1>1. Head(m) \in S /\ Tail(m) \in Seq(S) /\ Append(s, Head(m)) \in Seq(S)
    OBVIOUS
  <1>2. a \in Seq(S) /\ b \in Seq(S) /\ Len(a) = Len(b)
    BY <1>1
  <1>3. \A i \in 1..Len(a) : a[i] = b[i]
    BY <1>1
  <1> HIDE DEF a, b
  <1>4. a = b
    BY <1>2, <1>3, SeqEqual
  <1> QED BY <1>1, <1>4 DEF a, b

(* A chunk that is put at the end.                                         *)
LEMMA MoveLast ==
    ASSUME NEW S, NEW s \in Seq(S), NEW m \in Seq(S), NEW c \in S
    PROVE  s \o Append(m, c) = Append(s \o m, c) /\ Append(s \o m, c) \in Seq(S)
  <1> DEFINE a == s \o Append(m, c)
             b == Append(s \o m, c)
  <1>1. a \in Seq(S) /\ b \in Seq(S) /\ Len(a) = Len(b)
    OBVIOUS
  <1>2. \A i \in 1..Len(a) : a[i] = b[i]
    OBVIOUS
  <1> HIDE DEF a, b
  <1>3. a = b
    BY <1>1, <1>2, SeqEqual
  <1> QED BY <1>1, <1>3 DEF a, b

IsPrefixOf(a, s) == \E n \in 0..Len(s) : a = SubSeq(s, 1, n)

(* The first part of a sequence is a prefix of it, and stays one when the  *)
(* sequence gets longer.                                                   *)
LEMMA PartIsPrefix ==
    ASSUME NEW S, NEW a \in Seq(S), NEW b \in Seq(S)
    PROVE  IsPrefixOf(a, a \o b)
  <1> DEFINE n == Len(a)
             p == SubSeq(a \o b, 1, n)
  <1>1. n \in 0..Len(a \o b)
    OBVIOUS
  <1>2. p \in Seq(S) /\ Len(p) = n /\ \A i \in 1..n : p[i] = a[i]
    OBVIOUS
  <1> HIDE DEF p
  <1>3. a = p
    BY <1>2, SeqEqual
  <1> QED BY <1>1, <1>3 DEF IsPrefixOf, p

(* A prefix stays one when the sequence grows.                             *)
LEMMA PrefixStays ==
    ASSUME NEW S, NEW a \in Seq(S), NEW s \in Seq(S), NEW c \in S, IsPrefixOf(a, s)
    PROVE  IsPrefixOf(a, Append(s, c))
  <1>1. PICK n \in 0..Len(s) : a = SubSeq(s, 1, n)
    BY DEF IsPrefixOf
  <1> DEFINE p == SubSeq(s, 1, n)
             q == SubSeq(Append(s, c), 1, n)
  <1>2. p \in Seq(S) /\ q \in Seq(S) /\ Len(p) = Len(q) /\ \A i \in 1..Len(p) : p[i] = q[i]
    OBVIOUS
  <1>3. n \in 0..Len(Append(s, c))
    OBVIOUS
  <1> HIDE DEF p, q
  <1>4. p = q
    BY <1>2, SeqEqual
  <1> QED BY <1>1, <1>3, <1>4 DEF IsPrefixOf, p, q

\* Where the chunks are: all that were sent are on the path, as long as the
\* relay passes them on; afterwards a prefix.
StreamInv ==
    /\ relayed \in BOOLEAN
    /\ msgCh \in [Hops -> Seq(Nat)]
    /\ received \in Seq(Nat) /\ sent \in Seq(Nat) /\ chunk \in Nat
    /\ relay \in {"next", "send", "fail", "closing", "ended"}
    /\ ~relayed => relay = "ended" /\ received \o msgCh[1] = sent
    /\ relayed /\ relay \in {"next", "fail"} => (received \o msgCh[2]) \o msgCh[1] = sent
    /\ relayed /\ relay = "send" => Append(received \o msgCh[2], chunk) \o msgCh[1] = sent
    /\ relayed => IsPrefixOf(received \o msgCh[2], sent)

(* The provider's goroutine sends one chunk.                               *)
LEMMA SentKeeps ==
    ASSUME StreamInv, NEW c \in Nat, Send(1, c), sent' = Append(sent, c),
           UNCHANGED <<relay, chunk, received, relayed>>
    PROVE  StreamInv'
  <1>1. /\ msgCh'[1] = Append(msgCh[1], c) /\ msgCh'[2] = msgCh[2]
        /\ msgCh' \in [Hops -> Seq(Nat)]
    BY DEF StreamInv, Send, Hops
  <1>2. /\ msgCh[1] \in Seq(Nat) /\ msgCh[2] \in Seq(Nat) /\ received \in Seq(Nat)
        /\ sent \in Seq(Nat) /\ sent' \in Seq(Nat) /\ chunk \in Nat
        /\ received \o msgCh[2] \in Seq(Nat) /\ Append(received \o msgCh[2], chunk) \in Seq(Nat)
    BY DEF StreamInv, Hops
  <1>3. /\ received \o msgCh'[1] = Append(received \o msgCh[1], c)
        /\ (received \o msgCh[2]) \o msgCh'[1] = Append((received \o msgCh[2]) \o msgCh[1], c)
        /\ Append(received \o msgCh[2], chunk) \o msgCh'[1]
             = Append(Append(received \o msgCh[2], chunk) \o msgCh[1], c)
    <2>1. ASSUME NEW s \in Seq(Nat)
          PROVE  s \o Append(msgCh[1], c) = Append(s \o msgCh[1], c)
      <3> DEFINE m == msgCh[1]
      <3>1. m \in Seq(Nat)
        BY <1>2
      <3> HIDE DEF m
      <3>2. s \o Append(m, c) = Append(s \o m, c)
        BY <3>1, MoveLast
      <3> QED BY <3>2 DEF m
    <2> QED BY <1>1, <1>2, <2>1, Zenon
  <1>4. relayed => IsPrefixOf(received \o msgCh[2], sent')
    BY <1>2, PrefixStays DEF StreamInv
  <1> QED BY <1>1, <1>2, <1>3, <1>4 DEF StreamInv

(* The relay takes a chunk, passes it on, or ends.                         *)
LEMMA RelayKeeps ==
    ASSUME StreamInv, RelayStep, UNCHANGED relayed
    PROVE  StreamInv'
  <1>1. /\ msgCh[1] \in Seq(Nat) /\ msgCh[2] \in Seq(Nat) /\ received \in Seq(Nat)
        /\ sent \in Seq(Nat) /\ chunk \in Nat /\ relayed
        /\ received \o msgCh[2] \in Seq(Nat) /\ Append(received \o msgCh[2], chunk) \in Seq(Nat)
        /\ UNCHANGED <<received, sent>>
    BY DEF StreamInv, Hops, RelayStep, RelayNext, RelaySends, RelayFails, RelayCloses
  <1>2. CASE RelayNext
    <2>1. PICK res \in Results, c \in 0..MaxDeltas :
            /\ Next(1, res, c)
            /\ relay' = CASE res = "chunk" -> "send"
                          [] res = "error" -> "fail"
                          [] res = "end" -> "closing"
            /\ chunk' = c
      BY <1>2 DEF RelayNext
    <2>2. c \in Nat /\ relay = "next"
      BY <1>2, StreamAssumption DEF RelayNext
    <2>3. CASE res = "chunk"
      <3>1. /\ msgCh[1] # <<>> /\ c = Head(msgCh[1])
            /\ msgCh' = [msgCh EXCEPT ![1] = Tail(msgCh[1])] /\ relay' = "send"
        BY <2>1, <2>3 DEF Next
      <3>2. msgCh'[1] = Tail(msgCh[1]) /\ msgCh'[2] = msgCh[2] /\ msgCh' \in [Hops -> Seq(Nat)]
        BY <1>1, <3>1, MoveFirst DEF StreamInv, Hops
      <3>3. Append(received \o msgCh[2], c) \o Tail(msgCh[1]) = sent
        <4>1. \A s \in Seq(Nat) : Append(s, c) \o Tail(msgCh[1]) = s \o msgCh[1]
          <5> DEFINE m == msgCh[1]
          <5>1. m \in Seq(Nat) /\ m # <<>> /\ c = Head(m)
            BY <1>1, <3>1
          <5> HIDE DEF m
          <5>2. \A s \in Seq(Nat) : Append(s, Head(m)) \o Tail(m) = s \o m
            BY <5>1, MoveFirst
          <5> QED BY <5>1, <5>2 DEF m
        <4>2. (received \o msgCh[2]) \o msgCh[1] = sent
          BY <1>1, <2>2 DEF StreamInv
        <4> QED BY <1>1, <4>1, <4>2, Zenon
      <3> QED BY <1>1, <2>1, <2>2, <3>1, <3>2, <3>3 DEF StreamInv
    <2>4. CASE res # "chunk"
      <3>1. UNCHANGED msgCh /\ relay' \in {"fail", "closing"}
        BY <2>1, <2>4 DEF Next, Results
      <3> QED BY <1>1, <2>1, <2>2, <3>1 DEF StreamInv
    <2> QED BY <2>3, <2>4
  <1>3. CASE RelaySends
    <2>1. CASE Send(2, chunk) /\ relay' = "next"
      <3>1. /\ msgCh'[2] = Append(msgCh[2], chunk) /\ msgCh'[1] = msgCh[1]
            /\ msgCh' \in [Hops -> Seq(Nat)]
        BY <1>1, <2>1 DEF StreamInv, Send, Hops
      <3>2. received \o msgCh'[2] = Append(received \o msgCh[2], chunk)
        <4>1. received \o Append(msgCh[2], chunk) = Append(received \o msgCh[2], chunk)
          <5> DEFINE m == msgCh[2]
          <5>1. m \in Seq(Nat)
            BY <1>1
          <5> HIDE DEF m
          <5>2. received \in Seq(Nat) /\ chunk \in Nat
            BY <1>1
          <5>3. received \o Append(m, chunk) = Append(received \o m, chunk)
            BY <5>1, <5>2, MoveLast
          <5> QED BY <5>3 DEF m
        <4> QED BY <3>1, <4>1
      <3>3. (received \o msgCh'[2]) \o msgCh'[1] = sent
        BY <1>1, <1>3, <3>1, <3>2 DEF StreamInv, RelaySends
      <3>4. IsPrefixOf(received \o msgCh'[2], sent)
        BY <1>1, <3>1, <3>2, <3>3, PartIsPrefix
      <3> QED BY <1>1, <1>3, <2>1, <3>1, <3>3, <3>4 DEF StreamInv, RelaySends
    <2>2. CASE relay' = "closing" /\ UNCHANGED msgCh
      BY <1>1, <1>3, <2>2 DEF StreamInv, RelaySends
    <2> QED BY <1>3, <2>1, <2>2 DEF RelaySends
  <1>4. CASE RelayFails \/ RelayCloses
    <2>1. relay' \in {"closing", "ended"} /\ UNCHANGED <<msgCh, chunk>>
      BY <1>4 DEF RelayFails, RelayCloses
    <2> QED BY <1>1, <2>1 DEF StreamInv
  <1> QED BY <1>2, <1>3, <1>4 DEF RelayStep

(* The loop collects a chunk, or stops.                                    *)
LEMMA CollectKeeps ==
    ASSUME StreamInv, Collect, UNCHANGED relayed
    PROVE  StreamInv'
  <1>1. /\ msgCh[1] \in Seq(Nat) /\ msgCh[2] \in Seq(Nat) /\ received \in Seq(Nat)
        /\ UNCHANGED <<sent, chunk, relay>>
    BY DEF StreamInv, Hops, Collect
  <1>2. PICK res \in Results, c \in 0..MaxDeltas :
          /\ Next(LastHop, res, c)
          /\ IF res = "chunk" THEN received' = Append(received, c) ELSE UNCHANGED received
    BY DEF Collect
  <1>3. CASE res # "chunk"
    <2>1. UNCHANGED <<msgCh, received>>
      BY <1>2, <1>3 DEF Next
    <2> QED BY <1>1, <2>1 DEF StreamInv
  <1>4. CASE res = "chunk"
    <2>1. /\ msgCh[LastHop] # <<>> /\ received' = Append(received, Head(msgCh[LastHop]))
          /\ msgCh' = [msgCh EXCEPT ![LastHop] = Tail(msgCh[LastHop])]
      BY <1>2, <1>4 DEF Next
    <2>2. LastHop \in Hops /\ msgCh[LastHop] \in Seq(Nat)
      BY DEF LastHop, Hops, StreamInv
    <2>3. /\ received' \o Tail(msgCh[LastHop]) = received \o msgCh[LastHop]
          /\ received' \in Seq(Nat) /\ Tail(msgCh[LastHop]) \in Seq(Nat)
      <3> DEFINE m == msgCh[LastHop]
      <3>1. m \in Seq(Nat) /\ m # <<>> /\ received' = Append(received, Head(m))
        BY <2>1, <2>2
      <3> HIDE DEF m
      <3>2. /\ Append(received, Head(m)) \o Tail(m) = received \o m
            /\ Append(received, Head(m)) \in Seq(Nat) /\ Tail(m) \in Seq(Nat)
        BY <1>1, <3>1, MoveFirst
      <3> QED BY <3>1, <3>2 DEF m
    <2>4. /\ msgCh' \in [Hops -> Seq(Nat)]
          /\ received' \o msgCh'[LastHop] = received \o msgCh[LastHop]
          /\ \A h \in Hops : h # LastHop => msgCh'[h] = msgCh[h]
      BY <2>1, <2>2, <2>3 DEF StreamInv
    <2>5. CASE relayed
      <3>1. LastHop = 2 /\ msgCh'[1] = msgCh[1]
        BY <2>4, <2>5 DEF LastHop, Hops
      <3>2. received' \o msgCh'[2] = received \o msgCh[2]
        BY <2>4, <3>1
      <3> QED BY <1>1, <2>3, <2>4, <2>5, <3>1, <3>2 DEF StreamInv
    <2>6. CASE ~relayed
      BY <1>1, <2>3, <2>4, <2>6 DEF StreamInv, LastHop, Hops
    <2> QED BY <2>5, <2>6
  <1> QED BY <1>3, <1>4

(* Chunks reach the loop in the order the provider sent them, none lost in *)
(* the middle and none twice, through one channel or two, for every        *)
(* capacity and any number of chunks.                                      *)
THEOREM ChunksAreInOrder == StreamSpec => []ChunksInOrder
  <1>1. StreamInit => StreamInv
    <2> SUFFICES ASSUME StreamInit PROVE StreamInv
      OBVIOUS
    <2>1. << >> \in Seq(Nat) /\ << >> \o << >> = << >>
      OBVIOUS
    <2>2. IsPrefixOf(<< >>, << >> \o << >>)
      BY <2>1, PartIsPrefix
    <2> QED BY <2>1, <2>2 DEF StreamInit, StreamInv, Hops
  <1>2. StreamInv /\ [StreamNext]_streamVars => StreamInv'
    <2> SUFFICES ASSUME StreamInv, [StreamNext]_streamVars PROVE StreamInv'
      OBVIOUS
    <2>1. CASE UNCHANGED <<relayed, msgCh, relay, chunk, received, sent>>
      BY <2>1 DEF StreamInv
    <2>2. CASE Produce /\ UNCHANGED relayed
      <3>1. CASE SendDelta
        <4>1. Len(sent) + 1 \in Nat
          BY DEF StreamInv
        <4> QED BY <2>2, <3>1, <4>1, SentKeeps DEF SendDelta
      <3>2. CASE Finalize
        BY <2>2, <3>2, SentKeeps DEF Finalize, Done
      <3> QED BY <2>1, <2>2, <3>1, <3>2
              DEF Produce, ReadDelta, ProducerFails, ReadEnd, ProducerCloses
    <2> QED BY <2>1, <2>2, RelayKeeps, CollectKeeps DEF StreamNext, StreamExpire, streamVars
  <1>3. StreamInv => ChunksInOrder
    <2> SUFFICES ASSUME StreamInv PROVE ChunksInOrder
      OBVIOUS
    <2> DEFINE a == received \o msgCh[2]
    <2>1. a \in Seq(Nat) /\ a \o << >> = a /\ a \o <<chunk>> = Append(a, chunk)
      BY DEF StreamInv, Hops
    <2> QED BY <2>1 DEF StreamInv, ChunksInOrder, IsPrefixOf
  <1> QED BY <1>1, <1>2, <1>3, PTL DEF StreamSpec
-------------------------------------------------------------------------------
\* The retries.

\* The first n + 1 values of the growth.
Grows(f, n) ==
    /\ f \in [0..n -> Nat]
    /\ f[0] = BaseDelay
    /\ \A i \in 1..n : f[i] = Multiplier * f[i - 1]

(* Two growths agree as far as both go: there is no least number at which  *)
(* they differ.                                                            *)
LEMMA GrowthUnique ==
    ASSUME NEW m \in Nat, NEW n \in Nat, NEW f, NEW g, Grows(f, m), Grows(g, n)
    PROVE  \A i \in Nat : i <= m /\ i <= n => f[i] = g[i]
  <1> DEFINE Bad == {i \in Nat : i <= m /\ i <= n /\ f[i] # g[i]}
  <1>1. ASSUME Bad # {}
        PROVE  FALSE
    <2>1. PICK x \in Bad : \A y \in Bad : x <= y
      BY <1>1, LeastNumber
    <2>2. x # 0
      BY <2>1 DEF Grows
    <2>3. x - 1 \in Nat /\ x - 1 <= m /\ x - 1 <= n /\ x - 1 \notin Bad
      BY <2>1, <2>2
    <2>4. f[x - 1] = g[x - 1]
      BY <2>3
    <2>5. f[x] = Multiplier * f[x - 1] /\ g[x] = Multiplier * g[x - 1]
      BY <2>1, <2>2 DEF Grows
    <2> QED BY <2>1, <2>4, <2>5
  <1> QED BY <1>1

(* There is a growth of every length: there is no least length without.    *)
LEMMA GrowthExists ==
    ASSUME NEW n \in Nat
    PROVE  \E f : Grows(f, n)
  <1> DEFINE Bad == {k \in Nat : ~ \E f : Grows(f, k)}
  <1>1. ASSUME Bad # {}
        PROVE  FALSE
    <2>1. PICK x \in Bad : \A y \in Bad : x <= y
      BY <1>1, LeastNumber
    <2>2. x # 0
      <3>1. Grows([i \in 0..0 |-> BaseDelay], 0)
        BY BackoffAssumption DEF Grows
      <3> QED BY <2>1, <3>1
    <2>3. x - 1 \in Nat /\ x - 1 \notin Bad
      BY <2>1, <2>2
    <2>4. PICK f : Grows(f, x - 1)
      BY <2>3
    <2> DEFINE g == [i \in 0..x |-> IF i = x THEN Multiplier * f[x - 1] ELSE f[i]]
    <2>5. Multiplier * f[x - 1] \in Nat
      BY <2>3, <2>4, BackoffAssumption DEF Grows
    <2>6. g \in [0..x -> Nat] /\ g[0] = BaseDelay
      BY <2>2, <2>3, <2>4, <2>5 DEF Grows
    <2>7. \A i \in 1..x : g[i] = Multiplier * g[i - 1]
      BY <2>2, <2>3, <2>4 DEF Grows
    <2>8. Grows(g, x)
      BY <2>6, <2>7 DEF Grows
    <2> QED BY <2>1, <2>8
  <1> QED BY <1>1

(* What Growth computes: the recursive definition has a solution.          *)
LEMMA GrowthIs ==
    /\ Growth \in [Nat -> Nat]
    /\ Growth[0] = BaseDelay
    /\ \A n \in Nat : Growth[n + 1] = Multiplier * Growth[n]
  <1> DEFINE part(n) == CHOOSE f : Grows(f, n)
             G == [n \in Nat |-> part(n)[n]]
             Solves(h) == h = [n \in Nat |-> IF n = 0 THEN BaseDelay ELSE Multiplier * h[n - 1]]
  <1>1. \A n \in Nat : Grows(part(n), n)
    BY GrowthExists
  <1> HIDE DEF part
  <1>2. G \in [Nat -> Nat]
    BY <1>1 DEF Grows
  <1>3. G[0] = BaseDelay
    BY <1>1 DEF Grows
  <1>4. ASSUME NEW n \in Nat, n # 0
        PROVE  G[n] = Multiplier * G[n - 1]
    <2>1. n - 1 \in Nat /\ Grows(part(n), n) /\ Grows(part(n - 1), n - 1)
      BY <1>1, <1>4
    <2>2. part(n)[n - 1] = part(n - 1)[n - 1]
      BY <2>1, GrowthUnique
    <2>3. part(n)[n] = Multiplier * part(n)[n - 1]
      BY <2>1, <1>4 DEF Grows
    <2> QED BY <2>1, <2>2, <2>3
  <1>5. Solves(G)
    BY <1>2, <1>3, <1>4
  <1> HIDE DEF G
  <1>6. Growth = CHOOSE h : Solves(h)
    BY DEF Growth
  <1>7. Solves(Growth)
    BY <1>5, <1>6
  <1>8. Growth = [n \in Nat |-> IF n = 0 THEN BaseDelay ELSE Multiplier * Growth[n - 1]]
    BY <1>7
  <1> HIDE DEF Solves
  <1>9. Growth[0] = BaseDelay /\ \A n \in Nat : Growth[n + 1] = Multiplier * Growth[n]
    BY <1>8
  <1> DEFINE Bad == {n \in Nat : Growth[n] \notin Nat}
  <1>10. ASSUME Bad # {}
         PROVE  FALSE
    <2>1. PICK x \in Bad : \A y \in Bad : x <= y
      BY <1>10, LeastNumber
    <2>2. x # 0
      BY <1>9, <2>1, BackoffAssumption
    <2>3. x - 1 \in Nat /\ x - 1 \notin Bad /\ (x - 1) + 1 = x
      BY <2>1, <2>2
    <2>4. Growth[x] = Multiplier * Growth[x - 1] /\ Growth[x - 1] \in Nat
      BY <1>9, <2>3
    <2> QED BY <2>1, <2>4, BackoffAssumption
  <1> QED BY <1>8, <1>9, <1>10

(* A product grows with its factors, and multiplying by a positive number  *)
(* makes nothing smaller.                                                  *)
LEMMA ProductGrows ==
    ASSUME NEW a \in Nat, NEW b \in Nat, NEW m \in Nat, a <= b
    PROVE  m * a <= m * b /\ m * a \in Nat /\ (m # 0 => a <= m * a)
  OBVIOUS

(* A delay that is at least the nominal one is followed by one that is at  *)
(* least the next nominal one, and at most a quarter above the cap.        *)
LEMMA NextDelayIs ==
    ASSUME NEW n \in Nat, NEW d \in Nat, Nominal(n) <= d, NEW e \in nextDelay(d)
    PROVE  e \in Nat /\ Nominal(n + 1) <= e /\ 4 * e <= 5 * MaxDelay
  <1> DEFINE next == IF d * Multiplier > MaxDelay THEN MaxDelay ELSE d * Multiplier
  <1>1. MaxDelay \in Nat /\ Multiplier \in Nat /\ BaseDelay \in Nat /\ d * Multiplier \in Nat
    BY BackoffAssumption
  <1>2. PICK k \in Noise : e = next + (next * k) \div 400
    BY DEF nextDelay
  <1>3. k \in 0..99 /\ next \in Nat /\ next <= MaxDelay
    BY <1>1, BackoffAssumption
  <1>4. Nominal(n + 1) <= next
    <2> DEFINE g == Growth[n]
               h == Growth[n + 1]
    <2>1. g \in Nat /\ h = Multiplier * g /\ h \in Nat
      BY GrowthIs, <1>1
    <2>2. Nominal(n) = (IF g > MaxDelay THEN MaxDelay ELSE g)
          /\ Nominal(n + 1) = (IF h > MaxDelay THEN MaxDelay ELSE h)
      BY DEF Nominal
    <2> HIDE DEF g, h
    <2>3. CASE g <= d
      <3>1. h <= d * Multiplier
        BY <1>1, <2>1, <2>3, ProductGrows
      <3> QED BY <1>1, <2>1, <2>2, <3>1
    <2>4. CASE MaxDelay <= d /\ Multiplier # 0
      <3>1. d <= d * Multiplier
        BY <1>1, <2>4, ProductGrows
      <3> QED BY <1>1, <2>1, <2>2, <2>4, <3>1
    <2>5. CASE Multiplier = 0
      BY <1>1, <2>1, <2>2, <2>5
    <2> QED BY <1>1, <2>1, <2>2, <2>3, <2>4, <2>5
  <1> HIDE DEF next
  <1>5. 400 * ((next * k) \div 400) <= next * k /\ (next * k) \div 400 \in Nat
    <2>1. next * k \in Nat
      BY <1>3
    <2> DEFINE p == next * k
    <2> HIDE DEF p
    <2>2. p \in Nat => 400 * (p \div 400) <= p /\ p \div 400 \in Nat
      OBVIOUS
    <2> QED BY <2>1, <2>2 DEF p
  <1>6. next * k <= next * 99
    BY <1>3, ProductGrows
  <1> DEFINE q == (next * k) \div 400
             p == next * k
  <1>7. 400 * q <= p /\ q \in Nat /\ p <= next * 99 /\ p \in Nat
    BY <1>3, <1>5, <1>6
  <1> HIDE DEF q, p
  <1>8. 4 * q <= next
    BY <1>3, <1>7
  <1>9. e = next + q
    BY <1>2 DEF q
  <1>10. Nominal(n + 1) \in Nat
    <2>1. Growth[n + 1] \in Nat
      BY GrowthIs
    <2> QED BY <2>1, <1>1 DEF Nominal
  <1> QED BY <1>1, <1>3, <1>4, <1>7, <1>8, <1>9, <1>10

\* While Do runs, every outcome was retryable, there was one per attempt and a
\* wait between any two, and the delay in hand is as long as the next wait
\* should be.
RetryInv ==
    /\ MaxRetries \in Int
    /\ log \in Seq(Outcomes)
    /\ waits \in Seq(Nat)
    /\ delay \in Nat
    /\ attempt \in Nat
    /\ verdict \in {"running", "ok", "failed", "expired", "exhausted"}
    /\ verdict = "running" =>
         /\ attempt = 0 \/ attempt <= MaxRetries + 1
         /\ Len(log) = attempt
         /\ Len(waits) = IF attempt = 0 THEN 0 ELSE attempt - 1
         /\ ~helper => \A i \in 1..Len(log) : log[i] \in {"declared_retryable", "other"}
         /\ Nominal(attempt) <= delay
         /\ attempt # 0 => 4 * delay <= 5 * MaxDelay
    /\ VerdictExact
    /\ WaitsExponential

(* A backoff starts with RetryInv.                                         *)
LEMMA RetryInvInit == RetryInit => RetryInv
  <1> SUFFICES ASSUME RetryInit PROVE RetryInv
    OBVIOUS
  <1>1. Nominal(0) <= BaseDelay
    BY GrowthIs, BackoffAssumption DEF Nominal
  <1>2. VerdictExact /\ WaitsExponential
    BY DEF RetryInit, VerdictExact, WaitsExponential
  <1> QED BY <1>1, <1>2, BackoffAssumption DEF RetryInit, RetryInv

(* A call keeps RetryInv, whatever the function returns.                   *)
LEMMA CallKeeps ==
    ASSUME RetryInv, NEW e \in Outcomes, Call(e)
    PROVE  RetryInv'
  <1> DEFINE final == IF helper THEN e # "nil" ELSE ~isRetryable(e)
  <1>1. /\ verdict = "running" /\ attempt <= MaxRetries
        /\ waits' = IF attempt > 0 THEN Append(waits, delay) ELSE waits
        /\ log' = Append(log, e)
        /\ UNCHANGED <<MaxRetries, helper, expired>>
    BY DEF Call
  <1>2. /\ MaxRetries \in Int /\ log \in Seq(Outcomes) /\ waits \in Seq(Nat) /\ delay \in Nat
        /\ attempt \in Nat /\ Len(log) = attempt
        /\ Len(waits) = IF attempt = 0 THEN 0 ELSE attempt - 1
        /\ ~helper => \A i \in 1..Len(log) : log[i] \in {"declared_retryable", "other"}
        /\ Nominal(attempt) <= delay
        /\ attempt # 0 => 4 * delay <= 5 * MaxDelay
        /\ WaitsExponential
    BY <1>1 DEF RetryInv
  <1>3. /\ log' \in Seq(Outcomes) /\ Len(log') = attempt + 1 /\ log'[Len(log')] = e /\ log' # <<>>
        /\ \A i \in 1..(Len(log') - 1) : log'[i] = log[i]
    BY <1>1, <1>2
  <1>4. waits' \in Seq(Nat) /\ Len(waits') = attempt
    BY <1>1, <1>2
  <1>5. WaitsExponential'
    <2>1. SUFFICES ASSUME NEW n \in 1..attempt
                   PROVE  Nominal(n) <= waits'[n] /\ 4 * waits'[n] <= 5 * MaxDelay
      BY <1>4 DEF WaitsExponential, Nominal
    <2>2. CASE n = attempt
      BY <1>1, <1>2, <2>1, <2>2
    <2>3. CASE n # attempt
      <3>1. waits'[n] = waits[n] /\ n \in DOMAIN waits
        BY <1>1, <1>2, <2>1, <2>3
      <3> QED BY <1>2, <3>1 DEF WaitsExponential
    <2> QED BY <2>2, <2>3
  <1>6. CASE final
    <2>1. verdict' = (IF e = "nil" THEN "ok" ELSE "failed") /\ UNCHANGED <<attempt, delay>>
      BY <1>6 DEF Call
    <2>2. VerdictExact'
      BY <1>1, <1>2, <1>3, <1>6, <2>1 DEF VerdictExact, isRetryable, Outcomes, Errors
    <2> QED BY <1>1, <1>2, <1>3, <1>4, <1>5, <2>1, <2>2 DEF RetryInv
  <1>7. CASE ~final
    <2>1. attempt' = attempt + 1 /\ delay' \in nextDelay(delay) /\ verdict' = "running"
      BY <1>1, <1>7 DEF Call
    <2>2. delay' \in Nat /\ Nominal(attempt + 1) <= delay' /\ 4 * delay' <= 5 * MaxDelay
      BY <1>2, <2>1, NextDelayIs
    <2>3. ~helper => \A i \in 1..Len(log') : log'[i] \in {"declared_retryable", "other"}
      BY <1>2, <1>3, <1>7 DEF isRetryable
    <2>4. VerdictExact'
      BY <1>1, <1>3, <1>4, <2>1, <2>3 DEF VerdictExact
    <2>5. Nominal(attempt)' <= delay'
      BY <2>1, <2>2 DEF Nominal
    <2> QED BY <1>1, <1>2, <1>3, <1>4, <1>5, <2>1, <2>2, <2>3, <2>4, <2>5 DEF RetryInv
  <1> QED BY <1>6, <1>7

(* Every step keeps RetryInv.                                              *)
LEMMA RetryInvStep == RetryInv /\ [RetryNext]_retryVars => RetryInv'
  <1> SUFFICES ASSUME RetryInv, [RetryNext]_retryVars
               PROVE  RetryInv'
    OBVIOUS
  <1>1. CASE RetryExpire \/ UNCHANGED retryVars
    BY <1>1 DEF RetryExpire, retryVars, RetryInv, VerdictExact, WaitsExponential, Nominal
  <1>2. CASE StopWaiting
    <2>1. VerdictExact' /\ WaitsExponential'
      BY <1>2 DEF StopWaiting, RetryInv, VerdictExact, WaitsExponential, Nominal
    <2> QED BY <1>2, <2>1 DEF StopWaiting, RetryInv
  <1>3. CASE GiveUp
    <2>1. VerdictExact' /\ WaitsExponential'
      BY <1>3 DEF GiveUp, RetryInv, VerdictExact, WaitsExponential, Nominal
    <2> QED BY <1>3, <2>1 DEF GiveUp, RetryInv
  <1>4. ASSUME NEW e \in Outcomes, Call(e)
        PROVE  RetryInv'
    BY <1>4, CallKeeps
  <1> QED BY <1>1, <1>2, <1>3, <1>4 DEF RetryNext, RetryStep

(* ExponentialBackoff.Do stops at the first success and at the first error *)
(* that is not retryable and gives up after exactly MaxRetries + 1 calls;  *)
(* its waits grow exponentially, and no jitter adds more than a quarter of *)
(* the cap: for every base delay, cap, multiplier and number of retries.   *)
THEOREM RetriesAreExact == RetrySpec => []RetryExact
  <1>1. RetryInv => RetryExact
    BY DEF RetryInv, RetryExact
  <1> QED BY <1>1, RetryInvInit, RetryInvStep, PTL DEF RetrySpec

-------------------------------------------------------------------------------
\* The vector store.

(* A list of the numbers up to n that increases is 1, 2, ..., n.           *)
LEMMA IncreasingIsIdentity ==
    ASSUME NEW n \in Nat, NEW f \in [1..n -> 1..n],
           \A i, j \in 1..n : i < j => f[i] < f[j]
    PROVE  \A i \in 1..n : f[i] = i
  <1> DEFINE L == {i \in 0..n : i > 0 => f[i] >= i}
             H == {i \in 0..n : i > 0 => f[i] <= i}
  <1>1. 0 \in L /\ n \in H
    <2>1. n > 0 => f[n] <= n
      OBVIOUS
    <2> QED BY <2>1
  <1>2. ASSUME NEW i \in 0..(n - 1), i \in L PROVE i + 1 \in L
    <2>1. i + 1 \in 1..n /\ f[i + 1] \in 1..n
      OBVIOUS
    <2>2. CASE i = 0
      BY <2>1, <2>2
    <2>3. CASE i > 0
      <3>1. i \in 1..n /\ f[i] \in 1..n /\ i < i + 1
        BY <2>3
      <3>2. f[i] >= i /\ f[i] < f[i + 1]
        BY <1>2, <2>1, <2>3, <3>1
      <3> QED BY <2>1, <3>1, <3>2
    <2> QED BY <2>2, <2>3
  <1>3. ASSUME NEW i \in 1..n, i \in H PROVE i - 1 \in H
    <2>1. f[i] \in 1..n /\ f[i] <= i
      BY <1>3
    <2>2. CASE i = 1
      BY <2>2
    <2>3. CASE i > 1
      <3>1. i - 1 \in 1..n /\ f[i - 1] \in 1..n /\ i - 1 < i
        BY <2>3
      <3>2. f[i - 1] < f[i]
        BY <3>1
      <3> QED BY <2>1, <3>1, <3>2
    <2> QED BY <2>2, <2>3
  <1>4. \A i \in 0..n : i \in L
    <2> HIDE DEF L
    <2> QED BY <1>1, <1>2, Upward
  <1>5. \A i \in 0..n : i \in H
    <2> HIDE DEF H
    <2> QED BY <1>1, <1>3, Downward
  <1>6. ASSUME NEW i \in 1..n PROVE f[i] = i
    <2>1. i \in 0..n /\ i > 0 /\ f[i] \in 1..n
      OBVIOUS
    <2>2. f[i] >= i /\ f[i] <= i
      BY <1>4, <1>5, <2>1
    <2> QED BY <2>1, <2>2
  <1> QED BY <1>6

(* The embedder returns the vector of each text in the text's place, in    *)
(* whichever order the answer has them.                                    *)
LEMMA VectorsInPlace ==
    ASSUME NEW texts \in Seq(Nat), NEW order \in Bijection(DOMAIN texts, DOMAIN texts)
    PROVE  byIndex([i \in DOMAIN texts |-> [index |-> order[i], vec |-> texts[order[i]]]]) = texts
  <1> DEFINE n == Len(texts)
             D == 1..n
             Entry(j) == [index |-> j, vec |-> texts[j]]
             data == [i \in D |-> Entry(order[i])]
             Sorted(s) == \A i, j \in D : i < j => s[i].index < s[j].index
  <1>1. n \in Nat /\ DOMAIN texts = D /\ texts = [i \in D |-> texts[i]]
    OBVIOUS
  <1>2. order \in [D -> D] /\ \A j \in D : \E i \in D : order[i] = j
    BY <1>1 DEF Bijection, Surjection
  <1>3. \A d : d \in Range(data) <=> \E j \in D : d = Entry(j)
    <2>1. \A d : d \in Range(data) <=> \E i \in D : d = Entry(order[i])
      BY DEF Range
    <2> HIDE DEF Entry, data
    <2> QED BY <1>2, <2>1
  <1>4. \A j : Entry(j).index = j /\ Entry(j).vec = texts[j]
    OBVIOUS
  <1> HIDE DEF Entry
  <1>5. DOMAIN data = D
    OBVIOUS
  <1> HIDE DEF data
  <1> DEFINE sorted == CHOOSE s \in [D -> Range(data)] : Sorted(s)
             first == [i \in D |-> Entry(i)]
  <1>6. first \in [D -> Range(data)] /\ Sorted(first)
    <2>1. first \in [D -> Range(data)]
      BY ONLY <1>3
    <2>2. \A i \in D : first[i].index = i
      BY ONLY <1>4
    <2> HIDE DEF first
    <2> QED BY <2>1, <2>2
  <1>7. sorted \in [D -> Range(data)] /\ Sorted(sorted)
    <2> HIDE DEF first, Sorted
    <2> QED BY <1>6
  <1>8. byIndex(data) = [i \in D |-> sorted[i].vec]
    BY <1>5 DEF byIndex
  <1> HIDE DEF sorted
  <1>9. \A i \in D : sorted[i].index \in D /\ sorted[i].vec = texts[sorted[i].index]
    <2> TAKE i \in D
    <2>1. sorted[i] \in Range(data)
      BY ONLY <1>7, i \in D
    <2>2. PICK j \in D : sorted[i] = Entry(j)
      BY ONLY <1>3, <2>1
    <2> QED BY ONLY <1>4, <2>2
  <1> DEFINE f == [i \in D |-> sorted[i].index]
  <1>10. \A i \in D : f[i] = i
    <2>1. f \in [1..n -> 1..n] /\ \A i, j \in 1..n : i < j => f[i] < f[j]
      BY <1>7, <1>9
    <2> HIDE DEF f
    <2> QED BY <1>1, <2>1, IncreasingIsIdentity
  <1>11. \A i \in D : sorted[i].vec = texts[i]
    BY <1>9, <1>10
  <1>12. [i \in D |-> sorted[i].vec] = texts
    BY <1>1, <1>11
  <1>13. data = [i \in DOMAIN texts |-> [index |-> order[i], vec |-> texts[order[i]]]]
    BY <1>1 DEF data, Entry
  <1> QED BY <1>8, <1>12, <1>13

JobType ==
    [kind : {"idle", "upsert", "search"}, docs : Seq([id : Nat, text : Nat]), query : Nat, reach : Int]
DocKeys == {"doc", "id"} \X Nat
Hits == [key : DocKeys, text : Nat, dist : Nat]

\* The id of a collection is never used again, and only a deletion makes room
\* for another collection.
ServerInv ==
    /\ made \in Nat /\ coll \in {NoColl, made} /\ drops \in Nat
    /\ drops = 0 => coll = made /\ made <= 1
    /\ DOMAIN stored \subseteq DocKeys
    /\ \A k \in DOMAIN stored : stored[k].text \in Nat
    /\ \A p \in promised : p[1] \in 1..made

\* A caller that has its vectors has those of its own texts, and one that sends
\* has the id of a collection that was there.
CallersInv ==
    /\ storeOf \in [Workers -> Stores]
    /\ collID \in [Stores -> 0..made]
    /\ useID \in [Workers -> 0..made]
    /\ job \in [Workers -> JobType]
    /\ pos \in [Workers -> {"idle", "embed", "ensure", "list", "create", "send"}]
    /\ vecs \in [Workers -> Seq(Nat)]
    /\ got \in [Workers -> Seq(Hits)]
    /\ \A c \in Workers :
          pos[c] \in {"ensure", "list", "create", "send"} => vecs[c] = TextsOf(job[c])
    /\ \A c \in Workers : pos[c] = "send" => useID[c] # NoColl

RetrievalInv == ServerInv /\ CallersInv /\ VectorsFit /\ NoSilentLoss /\ HitsFit

(* The texts of a job.                                                     *)
LEMMA TextsAre ==
    ASSUME NEW j \in JobType
    PROVE  /\ TextsOf(j) \in Seq(Nat)
           /\ j.kind = "search" => TextsOf(j)[1] = j.query
           /\ j.kind # "search" => /\ DOMAIN TextsOf(j) = DOMAIN j.docs
                                   /\ \A i \in DOMAIN j.docs : TextsOf(j)[i] = j.docs[i].text
  <1>1. j.docs \in Seq([id : Nat, text : Nat]) /\ j.query \in Nat
    BY DEF JobType
  <1>2. CASE j.kind = "search"
    BY <1>1, <1>2 DEF TextsOf
  <1>3. CASE j.kind # "search"
    <2> DEFINE d == j.docs
               t == [i \in DOMAIN d |-> d[i].text]
    <2>1. TextsOf(j) = t
      BY <1>3 DEF TextsOf
    <2>2. d \in Seq([id : Nat, text : Nat])
      BY <1>1
    <2> HIDE DEF d
    <2>3. Len(d) \in Nat /\ DOMAIN d = 1..Len(d) /\ \A i \in 1..Len(d) : d[i].text \in Nat
      <3>1. /\ Len(d) \in Nat /\ DOMAIN d = 1..Len(d)
            /\ \A i \in 1..Len(d) : d[i] \in [id : Nat, text : Nat]
        <4> DEFINE R == [id : Nat, text : Nat]
        <4>1. d \in Seq(R)
          BY <2>2
        <4> HIDE DEF R
        <4>2. Len(d) \in Nat /\ DOMAIN d = 1..Len(d) /\ \A i \in 1..Len(d) : d[i] \in R
          BY <4>1
        <4> QED BY <4>2 DEF R
      <3> QED BY <3>1
    <2>4. t \in Seq(Nat)
      <3>1. Len(d) \in Nat /\ t \in [1..Len(d) -> Nat]
        BY <2>3
      <3> HIDE DEF t
      <3> QED BY <3>1, SeqDef
    <2> QED BY <1>3, <2>1, <2>4 DEF d
  <1> QED BY <1>2, <1>3

(* RetrievalInv holds before the first call.                               *)
LEMMA RetrievalInvInit == RetrievalInit => RetrievalInv
  <1> SUFFICES ASSUME RetrievalInit PROVE RetrievalInv
    OBVIOUS
  <1>1. Idle \in JobType
    BY DEF Idle, JobType, NoReach
  <1>2. ServerInv /\ VectorsFit /\ NoSilentLoss /\ HitsFit
    BY DEF RetrievalInit, ServerInv, VectorsFit, NoSilentLoss, HitsFit, NoColl
  <1>3. CallersInv
    BY <1>1 DEF RetrievalInit, CallersInv, NoColl
  <1> QED BY <1>2, <1>3 DEF RetrievalInv

(* A call begins.                                                          *)
LEMMA BeginJobKeeps == ASSUME RetrievalInv, NEW c \in Workers, BeginJob(c) PROVE RetrievalInv'
  <1>1. /\ job' = [job EXCEPT ![c] = job'[c]] /\ job'[c] \in JobType
        /\ pos' = [pos EXCEPT ![c] = "embed"] /\ got' = [got EXCEPT ![c] = <<>>]
        /\ UNCHANGED <<storeOf, server, collID, mu, vecs, useID, promised>>
    <2>1. \/ \E b \in Batches : job' = [job EXCEPT ![c] = Upserting(b)]
          \/ \E q \in Queries, r \in Reaches \cup {NoReach} :
                job' = [job EXCEPT ![c] = Searching(q, r)]
      BY DEF BeginJob
    <2>2. \A b \in Batches : Upserting(b) \in JobType
      BY RetrievalAssumption DEF JobType, NoReach, Upserting
    <2>3. \A q \in Queries, r \in Reaches \cup {NoReach} : Searching(q, r) \in JobType
      <3>1. \A q \in Queries, r \in Reaches \cup {NoReach} : q \in Nat /\ r \in Int
        BY RetrievalAssumption DEF NoReach
      <3>2. \A q \in Nat, r \in Int : Searching(q, r) \in JobType
        BY DEF JobType, Searching
      <3> QED BY <3>1, <3>2
    <2>4. PICK j \in JobType : job' = [job EXCEPT ![c] = j]
      BY <2>1, <2>2, <2>3
    <2>5. job'[c] = j
      BY <2>4 DEF RetrievalInv, CallersInv
    <2> QED BY <2>4, <2>5 DEF BeginJob, Go
  <1>2. ServerInv' /\ VectorsFit' /\ NoSilentLoss'
    BY <1>1 DEF RetrievalInv, ServerInv, VectorsFit, NoSilentLoss, server
  <1>3. CallersInv'
    <2>1. \A x \in Workers : x # c => job'[x] = job[x] /\ pos'[x] = pos[x]
      BY <1>1 DEF RetrievalInv, CallersInv
    <2>2. pos'[c] = "embed"
      BY <1>1 DEF RetrievalInv, CallersInv
    <2>3. \A x \in Workers : x # c => TextsOf(job'[x]) = TextsOf(job[x])
      BY <2>1
    <2>4. \A x \in Workers : pos'[x] \in {"ensure", "list", "create", "send"} => vecs'[x] = TextsOf(job'[x])
      BY <1>1, <2>1, <2>2, <2>3 DEF RetrievalInv, CallersInv
    <2>5. \A x \in Workers : pos'[x] = "send" => useID'[x] # NoColl
      BY <1>1, <2>1, <2>2 DEF RetrievalInv, CallersInv
    <2>6. /\ job' \in [Workers -> JobType] /\ got' \in [Workers -> Seq(Hits)]
          /\ pos' \in [Workers -> {"idle", "embed", "ensure", "list", "create", "send"}]
      <3> DEFINE j == job'[c]
      <3>1. job' = [job EXCEPT ![c] = j] /\ j \in JobType
        BY <1>1
      <3> HIDE DEF j
      <3>2. <<>> \in Seq(Hits)
        OBVIOUS
      <3> QED BY <1>1, <3>1, <3>2 DEF RetrievalInv, CallersInv
    <2> QED BY <1>1, <2>4, <2>5, <2>6 DEF RetrievalInv, CallersInv, server
  <1>4. HitsFit'
    <2>1. \A x \in Workers : x # c => job'[x] = job[x] /\ got'[x] = got[x]
      BY <1>1 DEF RetrievalInv, CallersInv
    <2>2. got'[c] = <<>>
      BY <1>1 DEF RetrievalInv, CallersInv
    <2> QED BY <2>1, <2>2 DEF RetrievalInv, HitsFit, Limit
  <1> QED BY <1>2, <1>3, <1>4 DEF RetrievalInv

(* The vectors come.                                                       *)
LEMMA EmbedKeeps == ASSUME RetrievalInv, NEW c \in Workers, Embed(c) PROVE RetrievalInv'
  <1> DEFINE texts == TextsOf(job[c])
  <1>1. texts \in Seq(Nat)
    BY TextsAre DEF RetrievalInv, CallersInv
  <1>2. vecs' = [vecs EXCEPT ![c] = texts]
    <2> HIDE DEF texts
    <2>1. PICK order \in Bijection(DOMAIN texts, DOMAIN texts) :
             vecs' = [vecs EXCEPT ![c] =
                byIndex([i \in DOMAIN texts |-> [index |-> order[i], vec |-> texts[order[i]]]])]
      BY DEF Embed, texts
    <2> QED BY <1>1, <2>1, VectorsInPlace
  <1>3. /\ pos' = [pos EXCEPT ![c] = "ensure"] /\ pos[c] = "embed"
        /\ UNCHANGED <<storeOf, server, collID, mu, job, useID, got, jobs, promised>>
    BY DEF Embed, Go
  <1>4. ServerInv' /\ VectorsFit' /\ NoSilentLoss' /\ HitsFit'
    BY <1>3 DEF RetrievalInv, ServerInv, VectorsFit, NoSilentLoss, HitsFit, server, Limit
  <1>5. CallersInv'
    <2> HIDE DEF texts
    <2>1. \A x \in Workers : x # c => vecs'[x] = vecs[x] /\ pos'[x] = pos[x]
      BY <1>2, <1>3 DEF RetrievalInv, CallersInv
    <2>2. pos'[c] = "ensure" /\ vecs'[c] = texts
      BY <1>2, <1>3 DEF RetrievalInv, CallersInv
    <2>3. \A x \in Workers : TextsOf(job'[x]) = TextsOf(job[x])
      BY <1>3
    <2>4. \A x \in Workers : pos'[x] \in {"ensure", "list", "create", "send"} => vecs'[x] = TextsOf(job'[x])
      BY <2>1, <2>2, <2>3 DEF RetrievalInv, CallersInv, texts
    <2>5. \A x \in Workers : pos'[x] = "send" => useID'[x] # NoColl
      BY <1>3, <2>1, <2>2 DEF RetrievalInv, CallersInv
    <2> QED BY <1>1, <1>2, <1>3, <2>4, <2>5 DEF RetrievalInv, CallersInv, server
  <1> QED BY <1>4, <1>5 DEF RetrievalInv

\* What a step leaves alone that is only about finding the collection.
Finding ==
    /\ UNCHANGED <<storeOf, job, vecs, got, promised, drops>>
    /\ pos' \in [Workers -> {"idle", "embed", "ensure", "list", "create", "send"}]
    /\ \A x \in Workers :
          /\ pos'[x] \in {"ensure", "list", "create", "send"}
                => pos[x] \in {"ensure", "list", "create", "send"}
          /\ pos'[x] = "send" => useID'[x] # NoColl
    /\ collID' \in [Stores -> 0..made'] /\ useID' \in [Workers -> 0..made']

(* Finding the collection disturbs nothing that callers hold.              *)
LEMMA FindingKeeps == ASSUME RetrievalInv, Finding PROVE CallersInv' /\ HitsFit'
  <1>1. \A x \in Workers : TextsOf(job'[x]) = TextsOf(job[x]) /\ vecs'[x] = vecs[x]
    BY DEF Finding
  <1>2. CallersInv'
    BY <1>1 DEF Finding, RetrievalInv, CallersInv
  <1>3. HitsFit'
    BY DEF Finding, RetrievalInv, HitsFit, Limit
  <1> QED BY <1>2, <1>3

(* ensureCollection asks what the store remembers.                         *)
LEMMA LockKeeps == ASSUME RetrievalInv, NEW c \in Workers, Lock(c) PROVE RetrievalInv'
  <1>1. UNCHANGED <<storeOf, server, collID, job, vecs, got, jobs, promised>> /\ pos[c] = "ensure"
    BY DEF Lock
  <1>2. ServerInv' /\ VectorsFit' /\ NoSilentLoss'
    BY <1>1 DEF RetrievalInv, ServerInv, VectorsFit, NoSilentLoss, server
  <1>3. Finding
    <2>1. storeOf[c] \in Stores /\ collID[storeOf[c]] \in 0..made /\ made' = made
      BY <1>1 DEF RetrievalInv, CallersInv, server
    <2>2. CASE collID[storeOf[c]] # NoColl
      <3>1. useID' = [useID EXCEPT ![c] = collID[storeOf[c]]] /\ pos' = [pos EXCEPT ![c] = "send"]
        BY <2>2 DEF Lock, Go
      <3>2. useID' \in [Workers -> 0..made'] /\ collID' \in [Stores -> 0..made']
            /\ \A x \in Workers : useID'[x] = IF x = c THEN collID[storeOf[c]] ELSE useID[x]
        BY <1>1, <2>1, <3>1 DEF RetrievalInv, CallersInv
      <3>3. pos' \in [Workers -> {"idle", "embed", "ensure", "list", "create", "send"}]
            /\ \A x \in Workers : pos'[x] = IF x = c THEN "send" ELSE pos[x]
        BY <3>1 DEF RetrievalInv, CallersInv
      <3> QED BY <1>1, <2>2, <3>2, <3>3 DEF RetrievalInv, CallersInv, Finding, server
    <2>3. CASE collID[storeOf[c]] = NoColl
      <3>1. UNCHANGED useID /\ pos' = [pos EXCEPT ![c] = "list"]
        BY <2>3 DEF Lock, Go
      <3>2. pos' \in [Workers -> {"idle", "embed", "ensure", "list", "create", "send"}]
            /\ \A x \in Workers : pos'[x] = IF x = c THEN "list" ELSE pos[x]
        BY <3>1 DEF RetrievalInv, CallersInv
      <3> QED BY <1>1, <2>1, <3>1, <3>2 DEF RetrievalInv, CallersInv, Finding, server
    <2> QED BY <2>2, <2>3
  <1> QED BY <1>2, <1>3, FindingKeeps DEF RetrievalInv

(* A collection that is remembered has been made.                          *)
LEMMA RememberFinds ==
    ASSUME RetrievalInv, NEW c \in Workers, NEW id \in 1..made', Remember(c, id),
           made' \in Nat, made <= made', pos[c] \in {"list", "create"},
           UNCHANGED <<storeOf, job, vecs, got, promised, drops>>
    PROVE  Finding
  <1>1. collID' = [collID EXCEPT ![storeOf[c]] = id] /\ useID' = [useID EXCEPT ![c] = id]
        /\ pos' = [pos EXCEPT ![c] = "send"]
    BY DEF Remember, Go
  <1>2. id \in 0..made' /\ id # NoColl /\ made \in Nat /\ \A n \in 0..made : n \in 0..made'
    BY DEF NoColl, RetrievalInv, ServerInv
  <1>3. collID' \in [Stores -> 0..made'] /\ useID' \in [Workers -> 0..made']
        /\ \A x \in Workers : useID'[x] = IF x = c THEN id ELSE useID[x]
    BY <1>1, <1>2 DEF RetrievalInv, CallersInv
  <1>4. pos' \in [Workers -> {"idle", "embed", "ensure", "list", "create", "send"}]
        /\ \A x \in Workers : pos'[x] = IF x = c THEN "send" ELSE pos[x]
    BY <1>1 DEF RetrievalInv, CallersInv
  <1> QED BY <1>2, <1>3, <1>4 DEF RetrievalInv, CallersInv, Finding

(* The server lists its collections.                                       *)
LEMMA ListKeeps == ASSUME RetrievalInv, NEW c \in Workers, List(c) PROVE RetrievalInv'
  <1>1. UNCHANGED <<storeOf, server, job, vecs, got, jobs, promised>> /\ pos[c] = "list"
    BY DEF List
  <1>2. ServerInv' /\ VectorsFit' /\ NoSilentLoss'
    BY <1>1 DEF RetrievalInv, ServerInv, VectorsFit, NoSilentLoss, server
  <1>3. made' = made /\ made \in Nat /\ drops' = drops /\ coll \in {NoColl, made}
    BY <1>1 DEF RetrievalInv, ServerInv, server
  <1>4. Finding
    <2>1. CASE coll # NoColl
      <3>1. coll \in 1..made' /\ Remember(c, coll)
        BY <1>3, <2>1 DEF List, NoColl
      <3>2. made' \in Nat /\ made <= made'
        BY <1>3
      <3> QED BY <1>1, <1>3, <3>1, <3>2, RememberFinds
    <2>2. CASE coll = NoColl
      <3>1. UNCHANGED <<collID, useID>> /\ pos' = [pos EXCEPT ![c] = "create"]
        BY <2>2 DEF List, Go
      <3>2. pos' \in [Workers -> {"idle", "embed", "ensure", "list", "create", "send"}]
            /\ \A x \in Workers : pos'[x] = IF x = c THEN "create" ELSE pos[x]
        BY <3>1 DEF RetrievalInv, CallersInv
      <3> QED BY <1>1, <1>3, <3>1, <3>2 DEF RetrievalInv, CallersInv, Finding
    <2> QED BY <2>1, <2>2
  <1> QED BY <1>2, <1>4, FindingKeeps DEF RetrievalInv

(* The server makes the collection, whether or not its answer arrives.     *)
LEMMA CreateCollectionKeeps ==
    ASSUME RetrievalInv, NEW c \in Workers, CreateCollection(c)
    PROVE  RetrievalInv'
  <1>1. /\ UNCHANGED <<storeOf, drops, job, vecs, got, jobs, promised>> /\ pos[c] = "create"
        /\ coll = NoColl /\ made' = made + 1 /\ coll' = made' /\ stored' = << >>
    BY DEF CreateCollection
  <1>2. made \in Nat /\ made' \in Nat /\ made <= made' /\ coll' \in 1..made'
        /\ \A n \in 1..made : n \in 1..made' /\ n # coll'
    BY <1>1 DEF RetrievalInv, ServerInv
  <1>3. VectorsFit' /\ NoSilentLoss'
    BY <1>1, <1>2 DEF RetrievalInv, ServerInv, VectorsFit, NoSilentLoss
  <1>4. ServerInv'
    <2>1. drops = 0 => made = 0
      BY <1>1 DEF RetrievalInv, ServerInv, NoColl
    <2>2. drops' = 0 => coll' = made' /\ made' <= 1
      BY <1>1, <1>2, <2>1
    <2>3. DOMAIN stored' = {} /\ \A p \in promised' : p[1] \in 1..made'
      BY <1>1, <1>2 DEF RetrievalInv, ServerInv
    <2> QED BY <1>1, <1>2, <2>2, <2>3 DEF RetrievalInv, ServerInv
  <1>5. Finding
    <2>1. CASE Remember(c, coll')
      BY <1>1, <1>2, <2>1, RememberFinds
    <2>2. CASE ~Remember(c, coll')
      <3>1. UNCHANGED <<collID, useID>> /\ pos' = [pos EXCEPT ![c] = "idle"]
        BY <2>2 DEF CreateCollection, Go
      <3>2. pos' \in [Workers -> {"idle", "embed", "ensure", "list", "create", "send"}]
            /\ \A x \in Workers : pos'[x] = IF x = c THEN "idle" ELSE pos[x]
        BY <3>1 DEF RetrievalInv, CallersInv
      <3>3. \A n \in 0..made : n \in 0..made'
        BY <1>2
      <3>4. collID' \in [Stores -> 0..made'] /\ useID' \in [Workers -> 0..made']
        BY <3>1, <3>3 DEF RetrievalInv, CallersInv
      <3> QED BY <1>1, <3>1, <3>2, <3>4 DEF RetrievalInv, CallersInv, Finding
    <2> QED BY <2>1, <2>2
  <1> QED BY <1>3, <1>4, <1>5, FindingKeeps DEF RetrievalInv

(* A call that fails disturbs nothing.                                     *)
LEMMA JobFailsKeeps == ASSUME RetrievalInv, NEW c \in Workers, JobFails(c) PROVE RetrievalInv'
  <1>1. /\ UNCHANGED <<storeOf, server, collID, job, vecs, useID, got, jobs, promised>>
        /\ pos' = [pos EXCEPT ![c] = "idle"]
    BY DEF JobFails, Go
  <1>2. ServerInv' /\ VectorsFit' /\ NoSilentLoss'
    BY <1>1 DEF RetrievalInv, ServerInv, VectorsFit, NoSilentLoss, server
  <1>3. pos' \in [Workers -> {"idle", "embed", "ensure", "list", "create", "send"}]
        /\ \A x \in Workers : pos'[x] = IF x = c THEN "idle" ELSE pos[x]
    BY <1>1 DEF RetrievalInv, CallersInv
  <1>4. Finding
    BY <1>1, <1>3 DEF RetrievalInv, CallersInv, Finding, server
  <1> QED BY <1>2, <1>4, FindingKeeps DEF RetrievalInv

(* The collection is deleted: what was promised is of another one now.     *)
LEMMA DropKeeps == ASSUME RetrievalInv, Drop PROVE RetrievalInv'
  <1>1. /\ UNCHANGED <<storeOf, made, collID, mu, job, pos, vecs, useID, got, jobs, promised>>
        /\ coll' = NoColl /\ stored' = << >> /\ drops' = drops + 1
    BY DEF Drop
  <1>2. ServerInv' /\ VectorsFit' /\ NoSilentLoss'
    <2>1. drops \in Nat /\ drops' # 0 /\ drops' \in Nat
      BY <1>1 DEF RetrievalInv, ServerInv
    <2>2. made \in Nat /\ \A n \in 1..made : n # NoColl
      BY DEF RetrievalInv, ServerInv, NoColl
    <2> QED BY <1>1, <2>1, <2>2 DEF RetrievalInv, ServerInv, VectorsFit, NoSilentLoss
  <1>3. CallersInv'
    <2>1. \A x \in Workers : TextsOf(job'[x]) = TextsOf(job[x])
      BY <1>1
    <2> QED BY <1>1, <2>1 DEF RetrievalInv, CallersInv
  <1>4. HitsFit'
    BY <1>1 DEF RetrievalInv, HitsFit, Limit
  <1> QED BY <1>2, <1>3, <1>4 DEF RetrievalInv

(* An upsert stores each document with its own vector, and what it         *)
(* acknowledges is there.                                                  *)
LEMMA UpsertKeeps == ASSUME RetrievalInv, NEW c \in Workers, Upsert(c) PROVE RetrievalInv'
  <1> DEFINE docs == job[c].docs
             key == Keys(docs)
             place(k) == CHOOSE i \in DOMAIN docs : key[i] = k
             written == {key[i] : i \in DOMAIN docs}
             new == [k \in written |-> [text |-> docs[place(k)].text, vec |-> vecs[c][place(k)]]]
             R == [id : Nat, text : Nat]
  <1>1. /\ job[c] \in JobType /\ job[c].kind = "upsert" /\ pos[c] = "send"
        /\ vecs[c] = TextsOf(job[c]) /\ useID[c] \in 0..made /\ useID[c] # NoColl
        /\ UNCHANGED <<storeOf, coll, made, drops, collID, mu, job, vecs, useID, got, jobs>>
        /\ pos' = [pos EXCEPT ![c] = "idle"]
    BY DEF Upsert, Go, RetrievalInv, CallersInv
  <1>2. /\ docs \in Seq(R)
        /\ DOMAIN key = DOMAIN docs /\ \A i \in DOMAIN docs : key[i] \in DocKeys
    <2>1. docs \in Seq(R)
      BY <1>1 DEF JobType
    <2>2. \A i \in DOMAIN docs : i \in Nat /\ docs[i].id \in Nat
      <3> HIDE DEF docs, R
      <3>1. \A i \in DOMAIN docs : i \in Nat /\ docs[i] \in R
        BY <2>1
      <3> QED BY <3>1 DEF R
    <2>3. DOMAIN key = DOMAIN docs
      BY DEF Keys
    <2>4. \A i \in DOMAIN docs :
             key[i] = IF docs[i].id = Anonymous THEN <<"doc", i>> ELSE <<"id", docs[i].id>>
      BY DEF Keys
    <2> HIDE DEF docs, key
    <2> QED BY <2>1, <2>2, <2>3, <2>4 DEF DocKeys
  <1>3. \A i \in DOMAIN docs : docs[i].text \in Nat /\ vecs[c][i] = docs[i].text
    <2>1. \A i \in DOMAIN docs : docs[i].text \in Nat
      <3> HIDE DEF docs, R
      <3>1. \A i \in DOMAIN docs : docs[i] \in R
        BY <1>2
      <3> QED BY <3>1 DEF R
    <2>2. \A i \in DOMAIN docs : vecs[c][i] = docs[i].text
      BY <1>1, TextsAre
    <2> QED BY <2>1, <2>2
  <1>4. /\ stored' = IF useID[c] # coll THEN stored
                     ELSE [k \in DOMAIN stored \cup DOMAIN new |->
                              IF k \in DOMAIN new THEN new[k] ELSE stored[k]]
        /\ promised' \in
              IF useID[c] = coll
              THEN {promised, promised \cup {<<useID[c], key[i]>> : i \in DOMAIN docs}}
              ELSE {promised}
    BY DEF Upsert, Acknowledged
  <1> HIDE DEF docs, key
  <1>5. \A k \in written : place(k) \in DOMAIN docs
    OBVIOUS
  <1> HIDE DEF place
  <1>6. DOMAIN new = written /\ \A k \in written : new[k].text = docs[place(k)].text /\ new[k].vec = vecs[c][place(k)]
    OBVIOUS
  <1>7. \A k \in written : k \in DocKeys /\ new[k].text \in Nat /\ new[k].vec = new[k].text
    <2>1. \A k \in written : k \in DocKeys
      BY <1>2
    <2> HIDE DEF new, written
    <2> QED BY <1>3, <1>5, <1>6, <2>1
  <1>8. /\ \A k \in DOMAIN stored' :
              \/ k \in DOMAIN stored /\ stored'[k] = stored[k]
              \/ k \in written /\ stored'[k] = new[k]
        /\ DOMAIN stored \subseteq DOMAIN stored'
        /\ useID[c] = coll => written \subseteq DOMAIN stored'
    <2> HIDE DEF new, written
    <2> QED BY <1>4, <1>6
  <1>9. \A p \in promised' :
           \/ p \in promised
           \/ useID[c] = coll /\ p[1] = useID[c] /\ p[2] \in written
    <2>1. \A i \in DOMAIN docs : <<useID[c], key[i]>>[1] = useID[c] /\ <<useID[c], key[i]>>[2] \in written
      OBVIOUS
    <2>2. \A p \in promised' : p \in promised \/ (useID[c] = coll /\ \E i \in DOMAIN docs : p = <<useID[c], key[i]>>)
      BY <1>4
    <2> HIDE DEF written
    <2> QED BY <2>1, <2>2
  <1> HIDE DEF new, written
  <1>10. VectorsFit' /\ NoSilentLoss'
    <2>1. VectorsFit'
      BY <1>7, <1>8 DEF RetrievalInv, VectorsFit
    <2>2. NoSilentLoss'
      BY <1>1, <1>8, <1>9 DEF RetrievalInv, NoSilentLoss
    <2> QED BY <2>1, <2>2
  <1>11. ServerInv'
    <2>1. DOMAIN stored' \subseteq DocKeys /\ \A k \in DOMAIN stored' : stored'[k].text \in Nat
      BY <1>7, <1>8 DEF RetrievalInv, ServerInv
    <2>2. useID[c] \in 1..made
      BY <1>1 DEF RetrievalInv, ServerInv, NoColl
    <2>3. \A p \in promised' : p[1] \in 1..made'
      BY <1>1, <1>9, <2>2 DEF RetrievalInv, ServerInv
    <2> QED BY <1>1, <2>1, <2>3 DEF RetrievalInv, ServerInv
  <1>12. CallersInv' /\ HitsFit'
    <2>1. pos' \in [Workers -> {"idle", "embed", "ensure", "list", "create", "send"}]
          /\ \A x \in Workers : pos'[x] = IF x = c THEN "idle" ELSE pos[x]
      BY <1>1 DEF RetrievalInv, CallersInv
    <2>2. \A x \in Workers : TextsOf(job'[x]) = TextsOf(job[x]) /\ vecs'[x] = vecs[x]
      BY <1>1
    <2>3. CallersInv'
      BY <1>1, <2>1, <2>2 DEF RetrievalInv, CallersInv
    <2>4. HitsFit'
      BY <1>1 DEF RetrievalInv, HitsFit, Limit
    <2> QED BY <2>3, <2>4
  <1> QED BY <1>10, <1>11, <1>12 DEF RetrievalInv

\* A hit of a search that job j asked for.
Fits(h, j) ==
    /\ h.dist \in {j.query - h.text, -(j.query - h.text)}
    /\ j.reach # NoReach => h.dist <= j.reach

(* A search returns what it was asked for.                                 *)
LEMMA SearchStoreKeeps ==
    ASSUME RetrievalInv, NEW c \in Workers, SearchStore(c)
    PROVE  RetrievalInv'
  <1> DEFINE j == job[c]
             q == vecs[c][1]
             hits(near) == [i \in DOMAIN near |->
                               [key |-> near[i], text |-> stored[near[i]].text,
                                dist |-> Dist(q, near[i])]]
             close(near) == {h \in Range(hits(near)) : h.dist <= j.reach}
  <1>1. /\ j \in JobType /\ j.kind = "search" /\ pos[c] = "send" /\ q = j.query /\ q \in Nat
        /\ UNCHANGED <<storeOf, server, collID, mu, job, vecs, useID, jobs, promised>>
        /\ pos' = [pos EXCEPT ![c] = "idle"]
    <2>1. j \in JobType /\ j.kind = "search" /\ pos[c] = "send" /\ vecs[c] = TextsOf(j)
      BY DEF SearchStore, RetrievalInv, CallersInv
    <2>2. q = j.query /\ j.query \in Nat
      BY <2>1, TextsAre DEF JobType
    <2> QED BY <2>1, <2>2 DEF SearchStore, Go
  <1>2. PICK near \in Nearest(q) :
           got' = [got EXCEPT ![c] = IF j.reach = NoReach THEN hits(near)
                                     ELSE SelectIn(hits(near), close(near))]
    BY DEF SearchStore
  <1> DEFINE l == hits(near)
             back == IF j.reach = NoReach THEN l ELSE SelectIn(l, close(near))
  <1>3. PICK n \in 0..Limit : near \in [1..n -> DOMAIN stored]
    BY DEF Nearest
  <1>4. Limit \in Nat
    BY RetrievalAssumption DEF Limit
  <1>5. /\ \A i \in 1..n : l[i] \in Hits /\ l[i].dist \in {j.query - l[i].text, -(j.query - l[i].text)}
        /\ l \in [1..n -> Hits]
    <2>1. DOMAIN near = 1..n
      BY <1>3
    <2>2. \A k \in DOMAIN stored : k \in DocKeys /\ stored[k].text \in Nat /\ stored[k].vec = stored[k].text
      BY DEF RetrievalInv, ServerInv, VectorsFit
    <2>3. \A k \in DOMAIN stored : Dist(q, k) \in Nat
              /\ Dist(q, k) \in {j.query - stored[k].text, -(j.query - stored[k].text)}
      BY <1>1, <2>2 DEF Dist
    <2>4. ASSUME NEW i \in 1..n
          PROVE  l[i] \in Hits /\ l[i].dist \in {j.query - l[i].text, -(j.query - l[i].text)}
      <3> DEFINE k == near[i]
      <3>1. k \in DOMAIN stored
        BY <1>3
      <3>2. l[i] = [key |-> k, text |-> stored[k].text, dist |-> Dist(q, k)]
        BY <2>1
      <3> HIDE DEF l, k, q, j
      <3>3. l[i].text = stored[k].text /\ l[i].dist = Dist(q, k)
        BY <3>2
      <3>4. l[i] \in Hits
        BY <2>2, <2>3, <3>1, <3>2 DEF Hits
      <3> QED BY <2>3, <3>1, <3>3, <3>4
    <2>5. l = [i \in 1..n |-> l[i]]
      BY <2>1
    <2> HIDE DEF l
    <2> QED BY <2>4, <2>5
  <1>6. l \in Seq(Hits) /\ Len(l) = n /\ n \in Nat
    <2> HIDE DEF l
    <2> QED BY <1>4, <1>5, SeqDef
  <1>7. \A h \in Range(l) : h.dist \in {j.query - h.text, -(j.query - h.text)}
    <2>1. \A h \in Range(l) : \E i \in 1..n : h = l[i]
      <3> HIDE DEF l
      <3> QED BY <1>6 DEF Range
    <2> HIDE DEF l
    <2> QED BY <1>5, <2>1
  <1>8. back \in Seq(Hits) /\ Len(back) <= Limit /\ \A i \in DOMAIN back : Fits(back[i], j)
    <2> DEFINE C == close(near)
    <2>1. l \in Seq(Range(l) \cap Hits)
      <3> HIDE DEF l
      <3>1. l \in [1..n -> Range(l) \cap Hits]
        BY <1>5, <1>6 DEF Range
      <3> QED BY <1>6, <3>1, SeqDef
    <2>2. \A h \in C : h \in Range(l) /\ h.dist <= j.reach
      OBVIOUS
    <2> HIDE DEF l, C, j
    <2>3. CASE j.reach = NoReach
      <3>1. back = l
        BY <2>3
      <3>2. \A i \in DOMAIN l : l[i] \in Range(l)
        BY DEF Range
      <3> HIDE DEF back
      <3> QED BY <1>3, <1>4, <1>6, <1>7, <2>3, <3>1, <3>2 DEF Fits
    <2>4. CASE j.reach # NoReach
      <3> DEFINE sel == SelectIn(l, C)
      <3>1. back = sel
        BY <2>4 DEF C
      <3>2. sel \in Seq(Hits \cap C) /\ Len(sel) <= Len(l)
        BY <1>6, SelectType
      <3> HIDE DEF back, sel
      <3>3. sel \in Seq(Hits) /\ \A i \in DOMAIN sel : sel[i] \in C
        BY <3>2
      <3>4. Len(sel) <= Limit
        <4>1. Len(sel) \in Nat
          BY <3>3
        <4> QED BY <1>3, <1>4, <1>6, <3>2, <4>1
      <3>5. \A i \in DOMAIN sel : Fits(sel[i], j)
        BY <1>7, <2>2, <3>3 DEF Fits
      <3> QED BY <3>1, <3>3, <3>4, <3>5
    <2> QED BY <2>3, <2>4
  <1> HIDE DEF back, l
  <1>9. got' \in [Workers -> Seq(Hits)] /\ \A x \in Workers : got'[x] = IF x = c THEN back ELSE got[x]
    BY <1>2, <1>8 DEF back, l, RetrievalInv, CallersInv
  <1>10. HitsFit'
    <2>1. \A x \in Workers : \A i \in DOMAIN got'[x] :
             Fits(got'[x][i], job[x]) /\ Len(got'[x]) <= Limit
      BY <1>8, <1>9 DEF RetrievalInv, HitsFit, Fits
    <2> QED BY <1>1, <2>1 DEF HitsFit, Fits, Limit
  <1>11. CallersInv'
    <2>1. pos' \in [Workers -> {"idle", "embed", "ensure", "list", "create", "send"}]
          /\ \A x \in Workers : pos'[x] = IF x = c THEN "idle" ELSE pos[x]
      BY <1>1 DEF RetrievalInv, CallersInv
    <2>2. \A x \in Workers : TextsOf(job'[x]) = TextsOf(job[x]) /\ vecs'[x] = vecs[x]
      BY <1>1
    <2> QED BY <1>1, <1>9, <2>1, <2>2 DEF RetrievalInv, CallersInv, server
  <1>12. ServerInv' /\ VectorsFit' /\ NoSilentLoss'
    BY <1>1 DEF RetrievalInv, ServerInv, VectorsFit, NoSilentLoss, server
  <1> QED BY <1>10, <1>11, <1>12 DEF RetrievalInv

(* A document is stored under the embedding of its own text, what was      *)
(* upserted without an error stays as long as its collection, the stores   *)
(* of a name share one collection until it is deleted, and a search        *)
(* returns documents with their own texts within its reach: for any number *)
(* of callers and stores, batches and queries, limits and reaches.         *)
THEOREM RetrievalIsExact == RetrievalSpec => []RetrievalExact
  <1>1. RetrievalInv => RetrievalExact
    <2> SUFFICES ASSUME RetrievalInv PROVE OneCollection
      BY DEF RetrievalInv, RetrievalExact
    <2>1. \A s \in Stores : collID[s] \in 0..made
      BY DEF RetrievalInv, CallersInv
    <2>2. made \in Nat /\ (drops = 0 => coll = made /\ made <= 1)
      BY DEF RetrievalInv, ServerInv
    <2> QED BY <2>1, <2>2 DEF OneCollection, NoColl
  <1>2. ASSUME RetrievalInv, [RetrievalNext]_retrievalVars PROVE RetrievalInv'
    <2>1. CASE UNCHANGED retrievalVars
      <3>1. UNCHANGED <<storeOf, coll, made, stored, collID, mu, job, pos, vecs, useID, got,
                        jobs, drops, promised>>
        BY <2>1 DEF retrievalVars
      <3>2. ServerInv' /\ VectorsFit' /\ NoSilentLoss' /\ HitsFit'
        BY <1>2, <3>1 DEF RetrievalInv, ServerInv, VectorsFit, NoSilentLoss, HitsFit, Limit
      <3>3. CallersInv'
        BY <1>2, <3>1 DEF RetrievalInv, CallersInv, TextsOf
      <3> QED BY <3>2, <3>3 DEF RetrievalInv
    <2>2. CASE Drop
      BY <1>2, <2>2, DropKeeps
    <2>3. ASSUME NEW c \in Workers,
                 \/ BeginJob(c) \/ Embed(c) \/ Lock(c) \/ List(c) \/ CreateCollection(c)
                 \/ Upsert(c) \/ SearchStore(c) \/ JobFails(c)
          PROVE  RetrievalInv'
      BY <1>2, <2>3, BeginJobKeeps, EmbedKeeps, LockKeeps, ListKeeps, CreateCollectionKeeps,
         UpsertKeeps, SearchStoreKeeps, JobFailsKeeps
    <2> QED BY <1>2, <2>1, <2>2, <2>3 DEF RetrievalNext
  <1> QED BY <1>1, <1>2, RetrievalInvInit, PTL DEF RetrievalSpec

-------------------------------------------------------------------------------
\* Skill calls.

SkillMessage == [role : Roles, content : BOOLEAN, ids : Seq(Nat)]

Conclusion == Message("assistant", TRUE, <<>>)

SkillType ==
    /\ messages \in Seq(SkillMessage) /\ Len(messages) >= 2
    /\ step \in 0..MaxIter /\ calls \in Seq(Nat)
    /\ answer \in {"empty", "text", "error"} /\ ended \in BOOLEAN

\* The conversation starts with the skill's instructions and the task; behind
\* these are replies and results, and only replies have calls.
SkillShape ==
    /\ messages[1].role = "system" /\ messages[2].role = "user"
    /\ \A p \in 3..Len(messages) : messages[p].role \in {"assistant", "tool"}
    /\ \A p \in 1..Len(messages) :
         /\ messages[p].role \in {"system", "user"} => messages[p].ids = <<>>
         /\ messages[p].role = "tool" => messages[p].ids # <<>>

\* All calls of the reply at p are answered, and if another message follows it
\* is the next reply.
Closed(p) ==
    LET n == Len(messages[p].ids)
    IN  /\ AnsweredUpTo(messages, p, n)
        /\ \/ p + n = Len(messages) /\ calls = <<>>
           \/ p + n < Len(messages) /\ messages[p + n + 1].role = "assistant"

\* The reply at p is the latest: n of its calls are answered, the others are
\* still to be.
Open(p, n) ==
    /\ calls # <<>> /\ n \in Nat
    /\ AnsweredUpTo(messages, p, n) /\ p + n = Len(messages)
    /\ messages[p].ids = [k \in 1..n |-> messages[p].ids[k]] \o calls

SkillReplies ==
    \A p \in 1..Len(messages) :
      messages[p].role = "assistant" => Closed(p) \/ \E n \in Nat : Open(p, n)

\* What the loop has decided so far.
SkillAnswer ==
    /\ ~ended => answer = "empty" /\ messages[Len(messages)] # Conclusion
    /\ ended => /\ answer = "text" <=> messages[Len(messages)] = Conclusion
                /\ answer = "empty" => step = MaxIter

SkillInv == SkillType /\ SkillShape /\ SkillReplies /\ SkillAnswer

LEMMA SkillInvInit == NewContext => SkillInv
  <1> SUFFICES ASSUME NewContext PROVE SkillInv
    OBVIOUS
  <1> DEFINE s == Message("system", TRUE, <<>>)
             u == Message("user", TRUE, <<>>)
             E == <<>>
  <1>0. E \in Seq(Nat)
    OBVIOUS
  <1>1. /\ s.role = "system" /\ u.role = "user" /\ s.ids = E /\ u.ids = E
    BY DEF Message
  <1>2. s \in SkillMessage /\ u \in SkillMessage
    <2> HIDE DEF E
    <2>1. s = [role |-> "system", content |-> TRUE, ids |-> E]
          /\ u = [role |-> "user", content |-> TRUE, ids |-> E]
      BY DEF Message, E
    <2> HIDE DEF s, u
    <2> QED BY <1>0, <2>1 DEF SkillMessage, Roles
  <1>3. u # Conclusion
    BY DEF Conclusion, Message
  <1>4. messages = <<s, u>>
    BY DEF NewContext
  <1> HIDE DEF s, u
  <1>5. messages \in Seq(SkillMessage) /\ Len(messages) = 2 /\ messages[1] = s /\ messages[2] = u
    <2> HIDE DEF SkillMessage
    <2> QED BY <1>2, <1>4
  <1>6. step = 0 /\ calls = E /\ answer = "empty" /\ ended = FALSE
    BY DEF NewContext
  <1> HIDE DEF E
  <1>7. \A p \in 1..2 : p = 1 \/ p = 2
    OBVIOUS
  <1>8. SkillType
    <2>1. step \in 0..MaxIter
      BY <1>6, SkillAssumption
    <2>2. 2 >= 2
      OBVIOUS
    <2> QED BY <1>0, <1>5, <1>6, <2>1, <2>2, Zenon DEF SkillType
  <1>9. SkillShape
    BY <1>1, <1>5, <1>7 DEF SkillShape, E
  <1>10. SkillReplies
    BY <1>1, <1>5, <1>7 DEF SkillReplies
  <1>11. SkillAnswer
    BY <1>3, <1>5, <1>6 DEF SkillAnswer
  <1> QED BY <1>8, <1>9, <1>10, <1>11 DEF SkillInv

(* What a message more leaves as it was.                                   *)
LEMMA MessageAdded ==
    ASSUME SkillType, NEW m \in SkillMessage, messages' = Append(messages, m)
    PROVE  /\ messages' \in Seq(SkillMessage) /\ Len(messages') = Len(messages) + 1
           /\ messages'[Len(messages) + 1] = m /\ Len(messages) \in Nat
           /\ \A p \in 1..Len(messages) : messages'[p] = messages[p]
           /\ \A p \in 1..Len(messages), n \in Nat :
                AnsweredUpTo(messages, p, n) => AnsweredUpTo(messages', p, n)
  <1>1. messages \in Seq(SkillMessage)
    BY DEF SkillType
  <1>2. /\ messages' \in Seq(SkillMessage) /\ Len(messages') = Len(messages) + 1
        /\ messages'[Len(messages) + 1] = m /\ Len(messages) \in Nat
        /\ \A p \in 1..Len(messages) : messages'[p] = messages[p]
    <2> HIDE DEF SkillMessage
    <2> QED BY <1>1
  <1>3. ASSUME NEW p \in 1..Len(messages), NEW n \in Nat, AnsweredUpTo(messages, p, n)
        PROVE  AnsweredUpTo(messages', p, n)
    <2>1. p + n <= Len(messages) /\ p + n <= Len(messages')
      BY <1>2, <1>3 DEF AnsweredUpTo
    <2>2. \A k \in 1..n : p + k \in 1..Len(messages)
      BY <1>2, <2>1
    <2>3. \A k \in 1..n : messages'[p + k] = messages[p + k]
      BY <1>2, <2>2
    <2>4. messages'[p] = messages[p]
      BY <1>2
    <2> QED BY <1>3, <2>1, <2>3, <2>4 DEF AnsweredUpTo
  <1> QED BY <1>2, <1>3

(* One call more is answered.                                              *)
LEMMA NextCall ==
    ASSUME NEW ids \in Seq(Nat), NEW c \in Seq(Nat), c # <<>>, NEW n \in Nat,
           ids = [k \in 1..n |-> ids[k]] \o c
    PROVE  /\ Head(c) \in Nat /\ Tail(c) \in Seq(Nat) /\ ids[n + 1] = Head(c)
           /\ Tail(c) = <<>> => Len(ids) = n + 1
           /\ ids = [k \in 1..(n + 1) |-> ids[k]] \o Tail(c)
  <1> DEFINE a == [k \in 1..n |-> ids[k]]
             d == Tail(c)
             b == [k \in 1..(n + 1) |-> ids[k]]
  <1>1. /\ Len(c) \in Nat \ {0} /\ d \in Seq(Nat) /\ Len(d) = Len(c) - 1
        /\ Head(c) = c[1] /\ Head(c) \in Nat /\ \A k \in 1..Len(d) : d[k] = c[k + 1]
    OBVIOUS
  <1>2. a \in Seq(Nat) /\ Len(a) = n
    <2> DEFINE q == a \o c
    <2>1. DOMAIN a = 1..n /\ Len(a) = n
      OBVIOUS
    <2>2. Len(q) = Len(a) + Len(c) /\ DOMAIN q = 1..Len(q)
      OBVIOUS
    <2>3. ids = q
      OBVIOUS
    <2>4. \A k \in 1..n : k \in DOMAIN ids
      <3> HIDE DEF q, a
      <3> QED BY <1>1, <2>1, <2>2, <2>3
    <2>5. \A k \in 1..n : ids[k] \in Nat
      BY <2>4
    <2>6. a \in [1..n -> Nat]
      BY <2>5
    <2> HIDE DEF a
    <2> QED BY <2>1, <2>6, SeqDef
  <1>3. ids = a \o c
    OBVIOUS
  <1> HIDE DEF a
  <1>4. Len(ids) = n + Len(c) /\ \A k \in 1..Len(c) : ids[n + k] = c[k]
    <2> DEFINE q == a \o c
    <2>0. a \in Seq(Nat) /\ c \in Seq(Nat)
      BY <1>2
    <2>1. Len(q) = Len(a) + Len(c) /\ \A k \in 1..Len(c) : q[Len(a) + k] = c[k]
      BY ONLY <2>0
    <2> HIDE DEF q
    <2>2. ids = q
      BY <1>3 DEF q
    <2> QED BY <1>2, <2>1, <2>2
  <1>5. ids[n + 1] = Head(c)
    BY <1>1, <1>4
  <1>6. d = <<>> => Len(ids) = n + 1
    <2> SUFFICES ASSUME d = <<>> PROVE Len(ids) = n + 1
      OBVIOUS
    <2> HIDE DEF d
    <2>1. Len(d) = 0 /\ Len(d) = Len(c) - 1 /\ Len(c) \in Nat
      BY <1>1
    <2>2. Len(c) = 1
      BY ONLY <2>1
    <2> QED BY <1>4, <2>2
  <1> HIDE DEF d
  <1>7. b \in Seq(Nat) /\ Len(b) = n + 1 /\ \A k \in 1..(n + 1) : b[k] = ids[k]
    <2>1. \A k \in 1..(n + 1) : k \in 1..Len(ids)
      BY <1>1, <1>4
    <2>2. \A k \in 1..(n + 1) : ids[k] \in Nat
      BY <2>1
    <2>3. b \in [1..(n + 1) -> Nat] /\ n + 1 \in Nat /\ \A k \in 1..(n + 1) : b[k] = ids[k]
      BY <2>2
    <2> HIDE DEF b
    <2> QED BY <2>3, SeqDef
  <1> HIDE DEF b
  <1>8. /\ b \o d \in Seq(Nat) /\ Len(b \o d) = Len(b) + Len(d)
        /\ \A k \in 1..Len(b) : (b \o d)[k] = b[k]
        /\ \A k \in 1..Len(d) : (b \o d)[Len(b) + k] = d[k]
    <2>1. b \in Seq(Nat) /\ d \in Seq(Nat)
      BY <1>1, <1>7
    <2> QED BY ONLY <2>1
  <1>9. Len(b \o d) = Len(ids)
    BY <1>1, <1>4, <1>7, <1>8
  <1>10. ASSUME NEW k \in 1..Len(ids) PROVE ids[k] = (b \o d)[k]
    <2>1. CASE k <= n + 1
      <3>1. k \in 1..(n + 1)
        BY <2>1
      <3> QED BY <1>7, <1>8, <3>1
    <2>2. CASE k > n + 1
      <3> DEFINE x == k - (n + 1)
      <3>1. x \in 1..Len(d) /\ k = (n + 1) + x /\ k = n + (x + 1) /\ x + 1 \in 1..Len(c)
        BY <1>1, <1>4, <2>2
      <3> HIDE DEF x
      <3>2. (b \o d)[k] = d[x]
        BY <1>7, <1>8, <3>1
      <3>3. ids[k] = c[x + 1]
        BY <1>4, <3>1
      <3> QED BY <1>1, <3>1, <3>2, <3>3
    <2>3. k <= n + 1 \/ k > n + 1
      BY <1>4, <1>1
    <2> QED BY <2>1, <2>2, <2>3
  <1>11. ids = b \o d
    <2> DEFINE q == b \o d
    <2>1. q \in Seq(Nat) /\ Len(q) = Len(ids) /\ \A k \in 1..Len(ids) : ids[k] = q[k]
      BY <1>8, <1>9, <1>10
    <2> HIDE DEF q
    <2>2. ids = q
      BY <2>1, SeqEqual
    <2> QED BY <2>2 DEF q
  <1> QED BY <1>1, <1>5, <1>6, <1>11 DEF b, d

(* The model replies: every earlier reply has all its answers.             *)
LEMMA ReplyKeeps ==
    ASSUME SkillInv, NEW ids \in CallLists, NEW content \in BOOLEAN, Reply(ids, content)
    PROVE  SkillInv'
  <1> DEFINE m == Message("assistant", content, ids)
             N == Len(messages)
  <1>0. ids \in Seq(Nat)
    <2>1. \A x \in CallIds : x \in Nat
      BY SkillAssumption
    <2>2. CASE ids = <<>>
      BY <2>2
    <2>3. ASSUME NEW x \in CallIds, ids = <<x>> PROVE ids \in Seq(Nat)
      BY <2>1, <2>3
    <2>4. ASSUME NEW x \in CallIds, NEW y \in CallIds, ids = <<x, y>> PROVE ids \in Seq(Nat)
      BY <2>1, <2>4
    <2>5. ids = <<>> \/ (\E x \in CallIds : ids = <<x>>) \/ \E x \in CallIds, y \in CallIds : ids = <<x, y>>
      BY DEF CallLists
    <2> QED BY <2>2, <2>3, <2>4, <2>5
  <1>1. m.role = "assistant" /\ m.ids = ids /\ m.content = content /\ m \in SkillMessage
    BY <1>0 DEF Message, SkillMessage, Roles
  <1>2. /\ SkillType /\ ~ended /\ calls = <<>> /\ step < MaxIter /\ step' = step + 1
        /\ messages' = Append(messages, m) /\ calls' = ids
    BY DEF SkillInv, Reply, MayIterate
  <1>3. /\ answer' = IF ids = <<>> /\ content THEN "text" ELSE answer
        /\ ended' = (ids = <<>> /\ content)
    BY DEF Reply
  <1>4. m = Conclusion <=> ids = <<>> /\ content = TRUE
    BY <1>1 DEF Conclusion, Message
  <1> HIDE DEF m
  <1>5. /\ messages' \in Seq(SkillMessage) /\ Len(messages') = N + 1 /\ messages'[N + 1] = m /\ N \in Nat
        /\ \A p \in 1..N : messages'[p] = messages[p]
        /\ \A p \in 1..N, n \in Nat :
             AnsweredUpTo(messages, p, n) => AnsweredUpTo(messages', p, n)
    BY <1>1, <1>2, MessageAdded
  <1>6. N >= 2 /\ step \in 0..MaxIter /\ answer \in {"empty", "text", "error"}
    BY <1>2 DEF SkillType
  <1>7. SkillType'
    <2>1. step' \in 0..MaxIter /\ Len(messages') >= 2
      BY <1>2, <1>5, <1>6, SkillAssumption
    <2>2. answer' \in {"empty", "text", "error"}
      BY <1>3, <1>6
    <2>3. ended' \in BOOLEAN
      BY <1>3
    <2> QED BY <1>0, <1>2, <1>5, <2>1, <2>2, <2>3 DEF SkillType
  <1>8. SkillShape'
    <2>1. /\ 1 \in 1..N /\ 2 \in 1..N /\ \A p \in 3..(N + 1) : p = N + 1 \/ p \in 3..N
          /\ \A p \in 3..N : p \in 1..N /\ \A q \in 1..(N + 1) : q = N + 1 \/ q \in 1..N
      BY <1>5, <1>6
    <2>2. \A q \in 1..(N + 1) : q = N + 1 \/ q \in 1..N
      BY <1>5
    <2>3. SkillShape
      BY DEF SkillInv
    <2>4. messages'[1] = messages[1] /\ messages'[2] = messages[2]
      BY ONLY <1>5, <2>1
    <2>5. \A p \in 3..(N + 1) : messages'[p].role \in {"assistant", "tool"}
      <3> TAKE p \in 3..(N + 1)
      <3>1. CASE p = N + 1
        BY ONLY <1>1, <1>5, <3>1
      <3>2. CASE p \in 3..N
        <4>1. messages'[p] = messages[p]
          BY ONLY <1>5, <2>1, <3>2
        <4> QED BY ONLY <1>5, <2>3, <3>2, <4>1 DEF SkillShape
      <3> QED BY <2>1, <3>1, <3>2
    <2>6. \A p \in 1..(N + 1) :
            /\ messages'[p].role \in {"system", "user"} => messages'[p].ids = <<>>
            /\ messages'[p].role = "tool" => messages'[p].ids # <<>>
      <3> TAKE p \in 1..(N + 1)
      <3>1. CASE p = N + 1
        BY ONLY <1>1, <1>5, <3>1
      <3>2. CASE p \in 1..N
        BY ONLY <1>5, <2>3, <3>2 DEF SkillShape
      <3> QED BY <2>2, <3>1, <3>2
    <2> QED BY ONLY <1>5, <2>3, <2>4, <2>5, <2>6 DEF SkillShape
  <1>9. SkillReplies'
    <2> SUFFICES ASSUME NEW p \in 1..(N + 1), messages'[p].role = "assistant"
                 PROVE  Closed(p)' \/ \E n \in Nat : Open(p, n)'
      BY <1>5 DEF SkillReplies
    <2>1. CASE p \in 1..N
      <3> DEFINE n == Len(messages[p].ids)
      <3>1. messages'[p] = messages[p] /\ messages[p].ids \in Seq(Nat)
        <4>1. messages'[p] = messages[p]
          BY <1>5, <2>1
        <4>2. messages[p] \in SkillMessage
          BY <1>2, <2>1 DEF SkillType
        <4> QED BY <4>1, <4>2 DEF SkillMessage
      <3>2. Closed(p)
        BY <1>2, <2>1, <3>1 DEF SkillInv, SkillReplies, Open
      <3>3. n \in Nat
        BY <3>1
      <3>4. AnsweredUpTo(messages', p, n)
        BY <1>5, <2>1, <3>2, <3>3 DEF Closed
      <3>5. p + n = N \/ (p + n < N /\ messages[p + n + 1].role = "assistant")
        BY <3>2 DEF Closed
      <3>6. p + n < N + 1 /\ messages'[p + n + 1].role = "assistant"
        <4>1. CASE p + n = N
          <5>1. N \in Nat /\ messages'[N + 1].role = "assistant"
            BY <1>1, <1>5
          <5> HIDE DEF n, N
          <5>2. p + n + 1 = N + 1 /\ p + n < N + 1
            BY ONLY <4>1, <5>1
          <5> QED BY ONLY <5>1, <5>2
        <4>2. CASE p + n < N /\ messages[p + n + 1].role = "assistant"
          <5>0. N \in Nat
            BY <1>5
          <5> HIDE DEF n, N
          <5>1. p \in 1..N /\ n \in Nat /\ p + n < N
            BY ONLY <2>1, <3>3, <4>2
          <5>2. p + n + 1 \in 1..N /\ p + n < N + 1
            BY ONLY <5>0, <5>1
          <5> QED BY <1>5, <4>2, <5>2
        <4> QED BY <3>5, <4>1, <4>2
      <3>7. Closed(p)'
        BY <1>5, <3>1, <3>4, <3>6 DEF Closed
      <3> QED BY <3>7
    <2>2. CASE p = N + 1
      <3>1. messages'[p].ids = ids /\ p = Len(messages')
        BY <1>1, <1>5, <2>2
      <3>2. AnsweredUpTo(messages', p, 0)
        BY <1>5, <2>2 DEF AnsweredUpTo
      <3>3. CASE ids = <<>>
        <4>1. Len(messages'[p].ids) = 0 /\ p + 0 = Len(messages') /\ calls' = <<>>
          BY <1>2, <1>5, <2>2, <3>1, <3>3
        <4>2. Closed(p)'
          BY <3>2, <4>1 DEF Closed
        <4> QED BY <4>2
      <3>4. CASE ids # <<>>
        <4>1. calls' # <<>> /\ p + 0 = Len(messages')
          BY <1>2, <1>5, <2>2, <3>4
        <4>2. ids = [k \in 1..0 |-> ids[k]] \o ids
          <5>1. [k \in 1..0 |-> ids[k]] = <<>>
            OBVIOUS
          <5>2. <<>> \o ids = ids
            BY <1>0
          <5> QED BY <5>1, <5>2
        <4>3. messages'[p].ids = [k \in 1..0 |-> messages'[p].ids[k]] \o calls'
          BY <1>2, <3>1, <4>2
        <4>4. Open(p, 0)'
          BY <3>2, <4>1, <4>3 DEF Open
        <4> QED BY <4>4
      <3> QED BY <3>3, <3>4
    <2>3. p \in 1..N \/ p = N + 1
      BY <1>5
    <2> QED BY <2>1, <2>2, <2>3
  <1>10. SkillAnswer'
    <2>1. answer = "empty" /\ messages'[Len(messages')] = m
      BY <1>2, <1>5 DEF SkillInv, SkillAnswer
    <2>2. CASE ids = <<>> /\ content
      <3>1. ended' = TRUE /\ answer' = "text" /\ m = Conclusion
        BY <1>3, <1>4, <2>2
      <3> QED BY <2>1, <3>1 DEF SkillAnswer, Conclusion, Message
    <2>3. CASE ~(ids = <<>> /\ content)
      <3>1. ended' = FALSE /\ answer' = "empty" /\ m # Conclusion
        BY <1>3, <1>4, <2>1, <2>3
      <3> QED BY <2>1, <3>1 DEF SkillAnswer, Conclusion, Message
    <2> QED BY <2>2, <2>3
  <1> QED BY <1>7, <1>8, <1>9, <1>10 DEF SkillInv

(* A call is answered: the reply it is a call of stays open until its last *)
(* call, then it is closed.                                                *)
LEMMA ExecuteKeeps ==
    ASSUME SkillInv, NEW known \in BOOLEAN, Execute(known)
    PROVE  SkillInv'
  <1> DEFINE c == <<Head(calls)>>
             m == Message("tool", TRUE, c)
             N == Len(messages)
  <1>1. /\ SkillType /\ ~ended /\ calls # <<>> /\ calls \in Seq(Nat)
        /\ messages' = Append(messages, m) /\ calls' = Tail(calls)
        /\ UNCHANGED <<step, answer, ended>>
    BY DEF SkillInv, SkillType, Execute, ToolMessage
  <1>2. Head(calls) \in Nat /\ Tail(calls) \in Seq(Nat)
    BY <1>1
  <1>3. c \in Seq(Nat) /\ c # <<>>
    BY <1>2
  <1> HIDE DEF c
  <1>4. m.role = "tool" /\ m.ids = c /\ m \in SkillMessage /\ m # Conclusion
    BY <1>3 DEF Message, SkillMessage, Roles, Conclusion
  <1> HIDE DEF m
  <1>5. /\ messages' \in Seq(SkillMessage) /\ Len(messages') = N + 1 /\ messages'[N + 1] = m /\ N \in Nat
        /\ \A p \in 1..N : messages'[p] = messages[p]
        /\ \A p \in 1..N, n \in Nat :
             AnsweredUpTo(messages, p, n) => AnsweredUpTo(messages', p, n)
    BY <1>1, <1>4, MessageAdded
  <1>6. N >= 2
    BY <1>1 DEF SkillType
  <1>7. SkillType'
    <2>1. Len(messages') >= 2
      BY <1>5, <1>6
    <2> QED BY <1>1, <1>2, <1>5, <2>1 DEF SkillType
  <1>8. SkillShape'
    <2>1. /\ 1 \in 1..N /\ 2 \in 1..N /\ \A p \in 3..(N + 1) : p = N + 1 \/ p \in 3..N
          /\ \A p \in 3..N : p \in 1..N
      BY <1>5, <1>6
    <2>2. \A q \in 1..(N + 1) : q = N + 1 \/ q \in 1..N
      BY <1>5
    <2>3. SkillShape
      BY DEF SkillInv
    <2>4. messages'[1] = messages[1] /\ messages'[2] = messages[2]
      BY ONLY <1>5, <2>1
    <2>5. \A p \in 3..(N + 1) : messages'[p].role \in {"assistant", "tool"}
      <3> TAKE p \in 3..(N + 1)
      <3>1. CASE p = N + 1
        BY ONLY <1>4, <1>5, <3>1
      <3>2. CASE p \in 3..N
        <4>1. messages'[p] = messages[p]
          BY ONLY <1>5, <2>1, <3>2
        <4> QED BY ONLY <1>5, <2>3, <3>2, <4>1 DEF SkillShape
      <3> QED BY <2>1, <3>1, <3>2
    <2>6. \A p \in 1..(N + 1) :
            /\ messages'[p].role \in {"system", "user"} => messages'[p].ids = <<>>
            /\ messages'[p].role = "tool" => messages'[p].ids # <<>>
      <3> TAKE p \in 1..(N + 1)
      <3>1. CASE p = N + 1
        BY ONLY <1>3, <1>4, <1>5, <3>1
      <3>2. CASE p \in 1..N
        BY ONLY <1>5, <2>3, <3>2 DEF SkillShape
      <3> QED BY <2>2, <3>1, <3>2
    <2> QED BY ONLY <1>5, <2>3, <2>4, <2>5, <2>6 DEF SkillShape
  <1>9. SkillReplies'
    <2> SUFFICES ASSUME NEW p \in 1..(N + 1), messages'[p].role = "assistant"
                 PROVE  Closed(p)' \/ \E n \in Nat : Open(p, n)'
      BY <1>5 DEF SkillReplies
    <2> DEFINE ids == messages[p].ids
    <2>1. p \in 1..N
      <3>1. p # N + 1
        BY <1>4, <1>5
      <3> QED BY <1>5, <3>1
    <2>2. messages'[p] = messages[p] /\ ids \in Seq(Nat)
      <3>1. messages'[p] = messages[p]
        BY <1>5, <2>1
      <3>2. messages[p] \in SkillMessage
        BY <1>1, <2>1 DEF SkillType
      <3> QED BY <3>1, <3>2 DEF SkillMessage
    <2>3. Closed(p) \/ \E n \in Nat : Open(p, n)
      BY <2>1, <2>2 DEF SkillInv, SkillReplies
    <2>4. CASE Closed(p)
      <3> DEFINE n == Len(ids)
      <3>1. n \in Nat
        BY <2>2
      <3>2. p + n < N /\ messages[p + n + 1].role = "assistant"
        BY <1>1, <2>4 DEF Closed
      <3>3. p + n + 1 \in 1..N /\ p + n < N + 1
        BY <1>5, <2>1, <3>1, <3>2
      <3>4. AnsweredUpTo(messages', p, n)
        BY <1>5, <2>1, <2>4, <3>1 DEF Closed
      <3>5. messages'[p + n + 1].role = "assistant"
        BY <1>5, <3>2, <3>3
      <3>6. Closed(p)'
        BY <1>5, <2>2, <3>3, <3>4, <3>5 DEF Closed
      <3> QED BY <3>6
    <2>5. ASSUME NEW n \in Nat, Open(p, n)
          PROVE  Closed(p)' \/ Open(p, n + 1)'
      <3>1. AnsweredUpTo(messages, p, n) /\ p + n = N /\ ids = [k \in 1..n |-> ids[k]] \o calls
        BY <2>5 DEF Open
      <3> HIDE DEF ids
      <3>2. /\ ids[n + 1] = Head(calls)
            /\ Tail(calls) = <<>> => Len(ids) = n + 1
            /\ ids = [k \in 1..(n + 1) |-> ids[k]] \o Tail(calls)
        BY ONLY <1>1, <2>2, <3>1, NextCall, n \in Nat
      <3>3. p + (n + 1) = N + 1 /\ n + 1 \in Nat
        BY <2>1, <3>1, <1>5
      <3>4. AnsweredUpTo(messages', p, n + 1)
        <4>1. AnsweredUpTo(messages', p, n)
          BY <1>5, <2>1, <3>1
        <4>2. messages'[p + (n + 1)].role = "tool" /\ messages'[p + (n + 1)].ids = <<ids[n + 1]>>
          BY <1>4, <1>5, <3>2, <3>3 DEF c
        <4>3. messages'[p].ids = ids
          BY <2>2 DEF ids
        <4>4. \A k \in 1..(n + 1) : k = n + 1 \/ k \in 1..n
          OBVIOUS
        <4>5. p + (n + 1) <= Len(messages')
          BY <1>5, <3>3
        <4> QED BY <4>1, <4>2, <4>3, <4>4, <4>5 DEF AnsweredUpTo
      <3>5. CASE Tail(calls) = <<>>
        <4>1. Len(messages'[p].ids) = n + 1 /\ p + (n + 1) = Len(messages') /\ calls' = <<>>
          BY <1>1, <1>5, <2>2, <3>2, <3>3, <3>5 DEF ids
        <4> QED BY <3>4, <4>1 DEF Closed
      <3>6. CASE Tail(calls) # <<>>
        <4>1. calls' # <<>> /\ p + (n + 1) = Len(messages')
          BY <1>1, <1>5, <3>3, <3>6
        <4>2. messages'[p].ids = [k \in 1..(n + 1) |-> messages'[p].ids[k]] \o calls'
          BY <1>1, <2>2, <3>2 DEF ids
        <4> QED BY <3>3, <3>4, <4>1, <4>2 DEF Open
      <3> QED BY <3>5, <3>6
    <2>6. \A n \in Nat : n + 1 \in Nat
      OBVIOUS
    <2> QED BY <2>3, <2>4, <2>5, <2>6
  <1>10. SkillAnswer'
    <2>1. answer' = "empty" /\ ~ended' /\ messages'[Len(messages')] = m
      BY <1>1, <1>5 DEF SkillInv, SkillAnswer
    <2> QED BY <1>4, <2>1 DEF SkillAnswer, Conclusion, Message
  <1> QED BY <1>7, <1>8, <1>9, <1>10 DEF SkillInv

LEMMA SkillInvStep == SkillInv /\ [SkillStep]_skillVars => SkillInv'
  <1> SUFFICES ASSUME SkillInv, [SkillStep]_skillVars PROVE SkillInv'
    OBVIOUS
  <1>1. ASSUME UNCHANGED <<messages, calls>> PROVE SkillShape' /\ SkillReplies'
    <2>1. SkillShape'
      BY <1>1 DEF SkillInv, SkillShape
    <2>2. ASSUME NEW p PROVE (Closed(p)' <=> Closed(p)) /\ \A n : Open(p, n)' <=> Open(p, n)
      <3>1. Closed(p)' <=> Closed(p)
        BY <1>1 DEF Closed
      <3>2. ASSUME NEW n PROVE Open(p, n)' <=> Open(p, n)
        BY <1>1 DEF Open
      <3> QED BY <3>1, <3>2
    <2>3. SkillReplies'
      <3>1. SkillReplies
        BY DEF SkillInv
      <3> QED BY ONLY <1>1, <2>2, <3>1 DEF SkillReplies
    <2> QED BY <2>1, <2>3
  <1>2. ASSUME ReplyFails PROVE SkillInv'
    <2>1. /\ ~ended /\ step < MaxIter /\ step' = step + 1 /\ answer' = "error" /\ ended' = TRUE
          /\ UNCHANGED <<messages, calls>>
      BY <1>2 DEF ReplyFails, MayIterate
    <2>2. SkillType'
      <3>1. step' \in 0..MaxIter
        BY <2>1, SkillAssumption DEF SkillInv, SkillType
      <3> QED BY <2>1, <3>1 DEF SkillInv, SkillType
    <2>3. SkillAnswer'
      BY <2>1 DEF SkillInv, SkillAnswer, Conclusion, Message
    <2> QED BY <1>1, <2>1, <2>2, <2>3 DEF SkillInv
  <1>3. ASSUME RunsOut PROVE SkillInv'
    <2>1. /\ ~ended /\ ~(step < MaxIter) /\ ended' = TRUE
          /\ UNCHANGED <<messages, step, calls, answer>>
      BY <1>3 DEF RunsOut, MayIterate
    <2>2. SkillType'
      BY <2>1 DEF SkillInv, SkillType
    <2>3. step = MaxIter
      BY <2>1, SkillAssumption DEF SkillInv, SkillType
    <2>4. SkillAnswer'
      BY <2>1, <2>3 DEF SkillInv, SkillAnswer, Conclusion, Message
    <2> QED BY <1>1, <2>1, <2>2, <2>4 DEF SkillInv
  <1>4. ASSUME UNCHANGED skillVars PROVE SkillInv'
    <2>1. UNCHANGED <<messages, step, calls, answer, ended>>
      BY <1>4 DEF skillVars
    <2>2. SkillType' /\ SkillAnswer'
      BY <2>1 DEF SkillInv, SkillType, SkillAnswer, Conclusion, Message
    <2> QED BY <1>1, <2>1, <2>2 DEF SkillInv
  <1> QED BY <1>2, <1>3, <1>4, ReplyKeeps, ExecuteKeeps DEF SkillStep

(* The results behind a reply, where those counted are all there are.      *)
LEMMA AnswersAtIs ==
    ASSUME SkillInv, NEW p \in 1..Len(messages), NEW n \in Nat, AnsweredUpTo(messages, p, n),
           p + n = Len(messages) \/ messages[p + n + 1].role # "tool"
    PROVE  AnswersAt(p) = [k \in 1..n |-> messages[p].ids[k]]
  <1> DEFINE N == Len(messages)
             End(j) == /\ \A i \in (p + 1)..(p + j) : messages[i].role = "tool"
                       /\ p + j = N \/ messages[p + j + 1].role # "tool"
             e == CHOOSE j \in 0..(N - p) : End(j)
  <1>1. N \in Nat
    BY DEF SkillInv, SkillType
  <1>2. n \in 0..(N - p) /\ \A k \in 1..n : messages[p + k].role = "tool" /\ messages[p + k].ids = <<messages[p].ids[k]>>
    <2>1. p + n <= N
      BY DEF AnsweredUpTo
    <2>2. n \in 0..(N - p)
      BY <1>1, <2>1
    <2> QED BY <2>2 DEF AnsweredUpTo
  <1>3. End(n)
    <2>1. ASSUME NEW i \in (p + 1)..(p + n) PROVE messages[i].role = "tool"
      <3>1. i - p \in 1..n /\ p + (i - p) = i
        BY <1>1
      <3> QED BY <1>2, <3>1
    <2> QED BY <2>1
  <1>4. e \in 0..(N - p) /\ End(e)
    <2> HIDE DEF End
    <2> QED BY <1>2, <1>3
  <1> HIDE DEF e
  <1>5. e = n
    <2>1. ASSUME e < n PROVE FALSE
      <3>1. p + e + 1 \in (p + 1)..(p + n) /\ p + e # N
        BY <1>1, <1>2, <1>4, <2>1
      <3> QED BY <1>3, <1>4, <3>1
    <2>2. ASSUME n < e PROVE FALSE
      <3>1. p + n + 1 \in (p + 1)..(p + e) /\ p + n # N
        BY <1>1, <1>2, <1>4, <2>2
      <3> QED BY <1>3, <1>4, <3>1
    <2> QED BY <1>1, <1>2, <1>4, <2>1, <2>2
  <1>6. AnswersAt(p) = [i \in 1..e |-> messages[p + i].ids[1]]
    BY DEF AnswersAt, e
  <1>7. \A k \in 1..n : messages[p + k].ids[1] = messages[p].ids[k]
    <2> SUFFICES ASSUME NEW k \in 1..n PROVE messages[p + k].ids[1] = messages[p].ids[k]
      OBVIOUS
    <2>1. messages[p + k].ids = <<messages[p].ids[k]>>
      BY <1>2
    <2> QED BY <2>1
  <1> QED BY <1>5, <1>6, <1>7

(* The calls of every reply are answered behind it, or are being answered. *)
LEMMA CallsAreAnswered == SkillInv => SkillCallsAnswered
  <1> SUFFICES ASSUME SkillInv, NEW p \in 1..Len(messages), messages[p].role = "assistant"
               PROVE  IF calls # <<>> /\ p = Len(messages) - Len(AnswersAt(p))
                      THEN messages[p].ids = AnswersAt(p) \o calls
                      ELSE messages[p].ids = AnswersAt(p)
    BY DEF SkillCallsAnswered
  <1> DEFINE ids == messages[p].ids
             N == Len(messages)
  <1>1. N \in Nat /\ ids \in Seq(Nat)
    <2>1. N \in Nat /\ messages[p] \in SkillMessage
      BY DEF SkillInv, SkillType
    <2> QED BY <2>1 DEF SkillMessage
  <1>2. Closed(p) \/ \E n \in Nat : Open(p, n)
    BY DEF SkillInv, SkillReplies
  <1>3. CASE Closed(p)
    <2> DEFINE n == Len(ids)
    <2>1. /\ n \in Nat /\ AnsweredUpTo(messages, p, n)
          /\ (p + n = N /\ calls = <<>>) \/ (p + n < N /\ messages[p + n + 1].role = "assistant")
      BY <1>1, <1>3 DEF Closed
    <2>2. AnswersAt(p) = [k \in 1..n |-> ids[k]]
      BY <2>1, AnswersAtIs
    <2>3. [k \in 1..n |-> ids[k]] = ids
      <3>1. DOMAIN ids = 1..n /\ ids = [k \in DOMAIN ids |-> ids[k]]
        BY <1>1
      <3> HIDE DEF ids, n
      <3> QED BY <3>1
    <2>4. AnswersAt(p) = ids
      BY <2>2, <2>3
    <2>5. ~(calls # <<>> /\ p = N - Len(ids))
      BY <1>1, <2>1
    <2> QED BY <2>4, <2>5
  <1>4. ASSUME NEW n \in Nat, Open(p, n)
        PROVE  calls # <<>> /\ p = N - Len(AnswersAt(p)) /\ ids = AnswersAt(p) \o calls
    <2>1. /\ calls # <<>> /\ AnsweredUpTo(messages, p, n) /\ p + n = N
          /\ ids = [k \in 1..n |-> ids[k]] \o calls
      BY <1>4 DEF Open
    <2>2. AnswersAt(p) = [k \in 1..n |-> ids[k]]
      BY <2>1, AnswersAtIs
    <2>3. Len([k \in 1..n |-> ids[k]]) = n
      OBVIOUS
    <2> HIDE DEF ids
    <2>4. p = N - n
      BY <1>1, <2>1
    <2> QED BY <2>1, <2>2, <2>3, <2>4
  <1> QED BY <1>2, <1>3, <1>4

(* Whenever the model is asked, its providers can make sense of it.        *)
LEMMA RequestsAreAccepted == SkillInv => SkillRequestAccepted
  <1> DEFINE N == Len(messages)
             ms == [i \in DOMAIN messages |->
                       [role |-> messages[i].role, text |-> messages[i].content,
                        ids |-> messages[i].ids]]
  <1> SUFFICES ASSUME SkillInv, calls = <<>> PROVE RequestFaithfulTo(ms) /\ AnsweredInPlace(ms)
    BY DEF SkillRequestAccepted
  <1>1. /\ N \in Nat /\ DOMAIN messages = 1..N
        /\ \A i \in 1..N : messages[i] \in SkillMessage
    BY DEF SkillInv, SkillType
  <1>2. \A i \in 1..N : messages[i].role \in Roles /\ messages[i].content \in BOOLEAN
                        /\ messages[i].ids \in Seq(Nat)
    BY <1>1 DEF SkillMessage
  <1>3. \A i \in 1..N : /\ ms[i].role = messages[i].role /\ ms[i].ids = messages[i].ids
                        /\ ms[i] \in ChatMsg
    <2> SUFFICES ASSUME NEW i \in 1..N
                 PROVE  /\ ms[i].role = messages[i].role /\ ms[i].ids = messages[i].ids
                        /\ ms[i] \in ChatMsg
      OBVIOUS
    <2>1. ms[i] = [role |-> messages[i].role, text |-> messages[i].content, ids |-> messages[i].ids]
      BY <1>1
    <2> HIDE DEF ms
    <2> QED BY <1>2, <2>1 DEF ChatMsg
  <1>4. ms = [i \in 1..N |-> ms[i]]
    BY <1>1
  <1> HIDE DEF ms
  <1>5. ms \in Seq(ChatMsg) /\ Len(ms) = N
    <2>1. ms \in [1..N -> ChatMsg]
      <3> HIDE DEF ChatMsg
      <3> QED BY <1>3, <1>4
    <2> QED BY <1>1, <2>1, SeqDef
  <1>6. Sendable(ms)
    BY <1>3, <1>5 DEF Sendable, SkillInv, SkillShape
  <1>7. \A i \in 2..N : ms[i].role # "system"
    <2>1. \A i \in 2..N : i \in 1..N /\ (i = 2 \/ i \in 3..N)
      BY <1>1
    <2>2. messages[2].role = "user" /\ \A i \in 3..N : messages[i].role \in {"assistant", "tool"}
      BY DEF SkillInv, SkillShape
    <2> QED BY <1>3, <2>1, <2>2
  <1>8. ASSUME NEW p \in 1..N, ms[p].role = "assistant" PROVE AllAnswered(ms, p)
    <2> DEFINE n == Len(messages[p].ids)
    <2>1. ms[p].role = messages[p].role /\ ms[p].ids = messages[p].ids /\ n \in Nat
      BY <1>2, <1>3
    <2>2. Closed(p)
      BY <1>8, <2>1 DEF SkillInv, SkillReplies, Open
    <2>3. /\ p + n <= N
          /\ \A k \in 1..n : messages[p + k].role = "tool" /\ messages[p + k].ids = <<messages[p].ids[k]>>
          /\ p + n = N \/ (p + n < N /\ messages[p + n + 1].role = "assistant")
      BY <2>2 DEF Closed, AnsweredUpTo
    <2>4. \A k \in 1..n : p + k \in 1..N
      <3>1. p \in 1..N /\ n \in Nat /\ N \in Nat /\ p + n <= N
        BY <1>1, <2>1, <2>3
      <3> HIDE DEF n, N
      <3> QED BY ONLY <3>1
    <2>5. p + n < N => p + n + 1 \in 1..N
      BY <1>1, <2>1
    <2>6. AnsweredUpTo(ms, p, n)
      BY <1>3, <1>5, <2>1, <2>3, <2>4 DEF AnsweredUpTo
    <2>7. p + n = Len(ms) \/ ms[p + n + 1].role # "tool"
      BY <1>3, <1>5, <2>3, <2>5
    <2> QED BY <2>1, <2>6, <2>7 DEF AllAnswered
  <1>9. RequestFaithfulTo(ms)
    BY <1>5, <1>6, <1>7, RequestsFaithful
  <1>10. AnsweredInPlace(ms)
    BY <1>5, <1>6, <1>8, AnswersFound
  <1> QED BY <1>9, <1>10

(* A skill call, whatever its model replies and its tools return, for every *)
(* number of iterations (Context.Run): each reply's calls are answered once *)
(* each, in order, right behind it before the model is asked again; what    *)
(* the providers are then sent says what the conversation says, with the    *)
(* answers where Anthropic looks for them; and the answer is the model's    *)
(* last word, an error, or empty once the iterations have run out.          *)
THEOREM SkillCallsAreExact == SkillSpec => []SkillExact
  <1>1. SkillInv => AnswerExplained
    BY DEF SkillInv, SkillAnswer, AnswerExplained, Conclusion, Last
  <1>2. SkillInv => SkillExact
    BY <1>1, CallsAreAnswered, RequestsAreAccepted DEF SkillExact
  <1> QED BY <1>2, SkillInvInit, SkillInvStep, PTL DEF SkillSpec

-------------------------------------------------------------------------------
\* Streamed replies.

\* The accumulators there are: OpenAI's text has none.
Accumulated == {i \in DOMAIN reply : given[i].started /\ ~(provider = "openai" /\ reply[i].kind = "text")}

\* The text that has been sent, block by block.
TextSent(g) ==
    [i \in DOMAIN reply |->
        IF reply[i].kind = "text" THEN [n \in 1..g[i].parts |-> <<i, n>>] ELSE <<>>]

\* The calls among the accumulators, whether they can be read, and what they are.
Called == SelectIn(SelectIn(Indices, DOMAIN blocks), ToolBlocks)
Readable == \A n \in DOMAIN Called : Parsed(Called[n], Len(blocks[Called[n]])) # {}
CallsRead == [n \in DOMAIN Called |-> CallOfBlock(Called[n], Len(blocks[Called[n]]))]

ReplyType ==
    /\ provider \in {"anthropic", "openai"} /\ reply \in Seq(Block)
    /\ given \in [DOMAIN reply -> [started : BOOLEAN, parts : Nat]]
    /\ \A i \in DOMAIN reply : /\ given[i].parts <= reply[i].parts
                               /\ ~given[i].started => given[i].parts = 0

\* Blocks come in turn, but for OpenAI's calls.
InTurn ==
    \A i \in DOMAIN reply : given[i].started =>
      \A j \in 1..(i - 1) : BlockSent(j) \/ (reply[i].kind = "tool_use" /\ reply[j].kind = "tool_use")

\* Every accumulator of a call holds as many parts as were sent.
Received ==
    /\ DOMAIN blocks = Accumulated
    /\ \A i \in DOMAIN blocks : /\ blocks[i] \in Seq(Nat)
                                /\ reply[i].kind = "tool_use" => Len(blocks[i]) = given[i].parts

\* The text that was sent has been passed on, in the order of the reply.
Passed == deltas = FlattenSeq(TextSent(given))

\* What the goroutine has made of it.
Concluded ==
    /\ outcome = "open" => ending \in {"open", "broken"}
    /\ ending = "whole" => /\ \A i \in DOMAIN reply : BlockSent(i)
                           /\ outcome = "done" \/ (outcome = "error" /\ ~Readable)
    /\ outcome = "done" => Readable /\ toolCalls = CallsRead

ReplyInv == ReplyType /\ InTurn /\ Received /\ Passed /\ Concluded

(* The blocks of a reply.                                                  *)
LEMMA ReplyParts ==
    ASSUME reply \in Seq(Block)
    PROVE  /\ Len(reply) \in Nat /\ DOMAIN reply = 1..Len(reply)
           /\ \A i \in DOMAIN reply : reply[i].parts \in Nat /\ reply[i].kind \in {"text", "tool_use"}
  <1>1. \A i \in DOMAIN reply : reply[i] \in Block
    OBVIOUS
  <1>2. \A b \in Block : b.parts \in Nat /\ b.kind \in {"text", "tool_use"}
    BY ReplyAssumption DEF Block
  <1>3. Len(reply) \in Nat /\ DOMAIN reply = 1..Len(reply)
    OBVIOUS
  <1> HIDE DEF Block
  <1> QED BY <1>1, <1>2, <1>3

(* The text that has been sent is a sequence of parts for each block.      *)
LEMMA TextSentType ==
    ASSUME reply \in Seq(Block), NEW g,
           \A i \in DOMAIN reply : g[i].parts \in Nat
    PROVE  /\ TextSent(g) \in Seq(Seq(Nat \X Nat)) /\ Len(TextSent(g)) = Len(reply)
           /\ DOMAIN reply = 1..Len(reply) /\ Len(reply) \in Nat
           /\ \A i \in 1..Len(reply) :
                TextSent(g)[i] = IF reply[i].kind = "text" THEN [n \in 1..g[i].parts |-> <<i, n>>] ELSE <<>>
  <1> DEFINE N == Len(reply)
             T == Nat \X Nat
             U == Seq(T)
             t == TextSent(g)
  <1>1. N \in Nat /\ DOMAIN reply = 1..N
    OBVIOUS
  <1>2. \A i \in 1..N : t[i] = IF reply[i].kind = "text" THEN [n \in 1..g[i].parts |-> <<i, n>>] ELSE <<>>
    BY <1>1 DEF TextSent
  <1>3. ASSUME NEW i \in 1..N PROVE t[i] \in U
    <2> DEFINE m == g[i].parts
               x == [n \in 1..m |-> <<i, n>>]
    <2>1. m \in Nat
      BY <1>1
    <2>2. x \in [1..m -> T]
      BY <1>1, <2>1
    <2>3. x \in Seq(T) /\ <<>> \in Seq(T)
      <3> HIDE DEF x, T
      <3> QED BY <2>1, <2>2, SeqDef
    <2>4. t[i] = IF reply[i].kind = "text" THEN x ELSE <<>>
      BY <1>2
    <2> HIDE DEF x, T, t
    <2> QED BY <2>3, <2>4
  <1>4. t = [i \in 1..N |-> t[i]]
    BY <1>1 DEF TextSent
  <1> HIDE DEF t, U
  <1>5. t \in [1..N -> U]
    BY <1>3, <1>4
  <1>6. t \in Seq(U) /\ Len(t) = N
    BY <1>1, <1>5, SeqDef
  <1> QED BY <1>1, <1>2, <1>6 DEF t, U

LEMMA ReplyInvInit == ReplyInit => ReplyInv
  <1> SUFFICES ASSUME ReplyInit PROVE ReplyInv
    OBVIOUS
  <1>1. reply \in Seq(Block) /\ provider \in {"anthropic", "openai"}
    <2> DEFINE fits(b) == (b.kind = "text" \/ b.parts = 0) => b.args = "object"
               F == {b \in Block : fits(b)}
    <2>1. reply \in BoundedSeq(F, MaxBlocks) /\ provider \in {"anthropic", "openai"}
      BY DEF ReplyInit, Replies
    <2>2. PICK m \in 0..MaxBlocks : reply \in [1..m -> F]
      BY <2>1 DEF BoundedSeq, SeqOf
    <2>3. reply \in [1..m -> Block]
      BY <2>2
    <2> QED BY <2>1, <2>3, SeqDef, ReplyAssumption
  <1>2. /\ given = [i \in DOMAIN reply |-> [started |-> FALSE, parts |-> 0]]
        /\ blocks = << >> /\ deltas = <<>> /\ outcome = "open" /\ ending = "open"
    BY DEF ReplyInit
  <1>3. /\ given \in [DOMAIN reply -> [started : BOOLEAN, parts : Nat]]
        /\ \A i \in DOMAIN reply : given[i].parts = 0 /\ ~given[i].started
    BY <1>2
  <1>4. \A i \in DOMAIN reply : reply[i].parts \in Nat
    BY <1>1, ReplyParts
  <1>5. ReplyType
    BY <1>1, <1>3, <1>4 DEF ReplyType
  <1>6. InTurn /\ Concluded
    BY <1>2, <1>3 DEF InTurn, Concluded
  <1>7. Received
    <2>1. Accumulated = {}
      BY <1>3 DEF Accumulated
    <2>2. DOMAIN blocks = {}
      BY <1>2
    <2> QED BY <2>1, <2>2 DEF Received
  <1>8. Passed
    <2> DEFINE t == TextSent(given)
               T == Nat \X Nat
    <2>1. /\ t \in Seq(Seq(T)) /\ Len(t) = Len(reply) /\ DOMAIN reply = 1..Len(reply) /\ Len(reply) \in Nat
          /\ \A i \in 1..Len(reply) : t[i] = IF reply[i].kind = "text" THEN [n \in 1..given[i].parts |-> <<i, n>>] ELSE <<>>
      BY <1>1, <1>3, TextSentType
    <2>2. \A i \in 1..Len(t) : t[i] = <<>>
      <3>1. \A i : [n \in 1..0 |-> <<i, n>>] = <<>>
        OBVIOUS
      <3> TAKE i \in 1..Len(t)
      <3> HIDE DEF t, T
      <3>2. i \in 1..Len(reply) /\ given[i].parts = 0
        BY ONLY <1>3, <2>1, i \in 1..Len(t)
      <3>3. t[i] = IF reply[i].kind = "text" THEN [n \in 1..0 |-> <<i, n>>] ELSE <<>>
        BY ONLY <2>1, <3>2
      <3> QED BY ONLY <3>1, <3>3
    <2> HIDE DEF t, T
    <2>3. FlattenSeq(t) = <<>>
      BY <2>1, <2>2, FlattenNothing
    <2> QED BY <1>2, <2>3 DEF Passed, t
  <1> QED BY <1>5, <1>6, <1>7, <1>8 DEF ReplyInv

(* A part of a block is sent.                                              *)
LEMMA PartSent ==
    ASSUME ReplyType, NEW i \in DOMAIN reply, given[i].started, ~BlockSent(i),
           given' = [given EXCEPT ![i].parts = @ + 1]
    PROVE  /\ given' \in [DOMAIN reply -> [started : BOOLEAN, parts : Nat]]
           /\ given'[i].started /\ given'[i].parts = given[i].parts + 1
           /\ given'[i].parts <= reply[i].parts
           /\ \A j \in DOMAIN reply : j # i => given'[j] = given[j]
  <1> DEFINE R == [started : BOOLEAN, parts : Nat]
             r == given[i]
             s == [r EXCEPT !.parts = r.parts + 1]
  <1>1. r \in R /\ given \in [DOMAIN reply -> R] /\ r.started /\ r.parts <= reply[i].parts
    BY DEF ReplyType
  <1>2. s \in R /\ s.started /\ s.parts = r.parts + 1
    <2> HIDE DEF r
    <2> QED BY <1>1
  <1>3. given' = [given EXCEPT ![i] = s]
    OBVIOUS
  <1> HIDE DEF R, s, r
  <1>4. given' \in [DOMAIN reply -> R] /\ given'[i] = s /\ \A j \in DOMAIN reply : j # i => given'[j] = given[j]
    BY <1>1, <1>2, <1>3
  <1>5. reply[i].parts \in Nat /\ r.parts # reply[i].parts /\ r.parts \in Nat
    <2>1. reply[i].parts \in Nat
      BY ReplyParts DEF ReplyType
    <2> QED BY <1>1, <2>1 DEF BlockSent, R, r
  <1>6. s.parts <= reply[i].parts
    BY <1>1, <1>2, <1>5
  <1> QED BY <1>2, <1>4, <1>6 DEF R, r

(* The blocks stay in turn, and there are the same accumulators to be had. *)
LEMMA PartKeeps ==
    ASSUME ReplyInv, UNCHANGED <<provider, reply>>, NEW i \in DOMAIN reply,
           given[i].started, ~BlockSent(i), given' = [given EXCEPT ![i].parts = @ + 1]
    PROVE  ReplyType' /\ InTurn' /\ Accumulated' = Accumulated
  <1>1. /\ given' \in [DOMAIN reply -> [started : BOOLEAN, parts : Nat]]
        /\ given'[i].started /\ given'[i].parts = given[i].parts + 1
        /\ given'[i].parts <= reply[i].parts
        /\ \A j \in DOMAIN reply : j # i => given'[j] = given[j]
    BY PartSent DEF ReplyInv
  <1>2. ReplyType
    BY DEF ReplyInv
  <1>3. \A j \in DOMAIN reply : /\ given'[j].parts <= reply[j].parts
                                /\ ~given'[j].started => given'[j].parts = 0
                                /\ given'[j].started <=> given[j].started
    BY <1>1, <1>2 DEF ReplyType
  <1>4. ReplyType'
    BY <1>1, <1>2, <1>3 DEF ReplyType
  <1>5. InTurn'
    <2> SUFFICES ASSUME NEW k \in DOMAIN reply, given'[k].started, NEW j \in 1..(k - 1)
                 PROVE  BlockSent(j)' \/ (reply[k].kind = "tool_use" /\ reply[j].kind = "tool_use")
      BY DEF InTurn
    <2>1. BlockSent(j) \/ (reply[k].kind = "tool_use" /\ reply[j].kind = "tool_use")
      BY <1>3 DEF ReplyInv, InTurn
    <2>2. j \in DOMAIN reply
      <3>1. DOMAIN reply = 1..Len(reply) /\ Len(reply) \in Nat
        BY <1>2, ReplyParts DEF ReplyType
      <3> QED BY <3>1
    <2>3. CASE BlockSent(j)
      <3>1. given'[j] = given[j]
        BY <1>1, <2>2, <2>3
      <3> QED BY <2>3, <3>1 DEF BlockSent
    <2> QED BY <2>1, <2>3
  <1>6. Accumulated' = Accumulated
    BY <1>3 DEF Accumulated
  <1> QED BY <1>4, <1>5, <1>6

(* The goroutine goes on with the next event.                              *)
LEMMA StillOpen ==
    ASSUME Concluded, outcome = "open", UNCHANGED <<outcome, ending>>
    PROVE  Concluded'
  BY DEF Concluded

(* Text is passed on behind all that was: no later block has begun.        *)
LEMMA TextDeltaKeeps ==
    ASSUME ReplyInv, UNCHANGED <<provider, reply>>, NEW i \in DOMAIN reply, TextDelta(i)
    PROVE  ReplyInv'
  <1> DEFINE T == Nat \X Nat
             t == TextSent(given)
             u == TextSent(given')
             m == given[i].parts
             x == <<i, m + 1>>
  <1>0. /\ outcome = "open" /\ given[i].started /\ ~BlockSent(i) /\ reply[i].kind = "text"
        /\ given' = [given EXCEPT ![i].parts = @ + 1]
        /\ deltas' = IF provider = "openai" \/ i \in DOMAIN blocks
                     THEN Append(deltas, <<i, given'[i].parts>>) ELSE deltas
        /\ UNCHANGED <<blocks, outcome, ending>>
    BY DEF TextDelta
  <1>1. ReplyType' /\ InTurn' /\ Accumulated' = Accumulated
    BY <1>0, PartKeeps
  <1>2. /\ given' \in [DOMAIN reply -> [started : BOOLEAN, parts : Nat]]
        /\ given'[i].started /\ given'[i].parts = m + 1
        /\ \A j \in DOMAIN reply : j # i => given'[j] = given[j]
    BY <1>0, PartSent DEF ReplyInv
  <1>3. /\ reply \in Seq(Block) /\ given \in [DOMAIN reply -> [started : BOOLEAN, parts : Nat]]
        /\ provider \in {"anthropic", "openai"} /\ DOMAIN blocks = Accumulated /\ deltas = FlattenSeq(t)
    BY DEF ReplyInv, ReplyType, Received, Passed
  <1>4. m \in Nat /\ \A j \in DOMAIN reply : given[j].parts \in Nat /\ given'[j].parts \in Nat
    BY <1>2, <1>3
  <1>5. Received'
    <2>1. \A j \in DOMAIN blocks : j \in DOMAIN reply /\ (reply[j].kind = "tool_use" => given'[j] = given[j])
      BY <1>0, <1>2, <1>3 DEF Accumulated
    <2> QED BY <1>0, <1>1, <2>1 DEF ReplyInv, Received
  <1>6. deltas' = Append(deltas, x)
    <2>1. provider = "openai" \/ i \in DOMAIN blocks
      BY <1>0, <1>3 DEF Accumulated
    <2> QED BY <1>0, <1>2, <2>1
  <1>7. /\ t \in Seq(Seq(T)) /\ Len(t) = Len(reply) /\ DOMAIN reply = 1..Len(reply) /\ Len(reply) \in Nat
        /\ \A j \in 1..Len(reply) : t[j] = IF reply[j].kind = "text" THEN [n \in 1..given[j].parts |-> <<j, n>>] ELSE <<>>
    BY <1>3, <1>4, TextSentType
  <1>8. /\ u \in Seq(Seq(T)) /\ Len(u) = Len(reply)
        /\ \A j \in 1..Len(reply) : u[j] = IF reply[j].kind = "text" THEN [n \in 1..given'[j].parts |-> <<j, n>>] ELSE <<>>
    BY <1>3, <1>4, TextSentType
  <1> HIDE DEF t, u
  <1>9. u[i] = Append(t[i], x)
    <2>1. t[i] = [n \in 1..m |-> <<i, n>>] /\ u[i] = [n \in 1..(m + 1) |-> <<i, n>>]
      BY <1>0, <1>2, <1>7, <1>8
    <2>2. Append([n \in 1..m |-> <<i, n>>], <<i, m + 1>>) = [n \in 1..(m + 1) |-> <<i, n>>]
      <3> HIDE DEF m
      <3> DEFINE b == [n \in 1..m |-> <<i, n>>]
      <3>1. m \in Nat
        BY <1>4
      <3>2. b \in Seq({<<i, n>> : n \in Nat}) /\ Len(b) = m /\ \A n \in 1..m : b[n] = <<i, n>>
        BY ONLY <3>1
      <3> HIDE DEF b
      <3> DEFINE y == <<i, m + 1>>
                 c == [n \in 1..(m + 1) |-> <<i, n>>]
      <3>3. y = <<i, m + 1>> /\ y \in {<<i, n>> : n \in Nat}
        BY ONLY <3>1
      <3>4. c \in Seq({<<i, n>> : n \in Nat}) /\ Len(c) = m + 1 /\ \A n \in 1..(m + 1) : c[n] = <<i, n>>
        BY ONLY <3>1
      <3> HIDE DEF y, c
      <3>5. /\ Append(b, y) \in Seq({<<i, n>> : n \in Nat}) /\ Len(Append(b, y)) = m + 1
            /\ Append(b, y)[m + 1] = y /\ \A n \in 1..m : Append(b, y)[n] = b[n]
        BY ONLY <3>1, <3>2, <3>3
      <3>6. \A n \in 1..(m + 1) : n = m + 1 \/ n \in 1..m
        BY ONLY <3>1
      <3>7. \A n \in 1..(m + 1) : Append(b, y)[n] = c[n]
        BY ONLY <3>2, <3>3, <3>4, <3>5, <3>6
      <3>8. Append(b, y) = c
        BY ONLY <3>4, <3>5, <3>7, SeqEqual
      <3> QED BY ONLY <3>8 DEF b, c, y
    <2> QED BY <2>1, <2>2
  <1>10. \A j \in 1..Len(reply) : j # i => u[j] = t[j]
    <2> TAKE j \in 1..Len(reply)
    <2> HAVE j # i
    <2>1. given'[j].parts = given[j].parts
      BY <1>2, <1>7
    <2> QED BY ONLY <1>7, <1>8, <2>1, j \in 1..Len(reply)
  <1>11. ASSUME NEW j \in (i + 1)..Len(reply) PROVE t[j] = <<>>
    <2>1. j \in 1..Len(reply) /\ i \in 1..(j - 1) /\ j \in DOMAIN reply
      BY <1>7
    <2>2. ~given[j].started
      BY <1>0, <2>1 DEF ReplyInv, InTurn
    <2>3. given[j].parts = 0
      BY <2>1, <2>2 DEF ReplyInv, ReplyType
    <2>4. [n \in 1..0 |-> <<j, n>>] = <<>>
      OBVIOUS
    <2> QED BY <1>7, <2>1, <2>3, <2>4
  <1>12. x \in T /\ i \in 1..Len(reply)
    <2>1. i \in Nat
      BY <1>7
    <2> QED BY <1>4, <1>7, <2>1
  <1>13. FlattenSeq(u) = Append(FlattenSeq(t), x)
    <2>1. t \in Seq(Seq(T)) /\ u \in Seq(Seq(T)) /\ Len(u) = Len(t) /\ Len(t) = Len(reply)
      BY <1>7, <1>8
    <2>2. /\ i \in 1..Len(t) /\ x \in T /\ u[i] = Append(t[i], x)
          /\ \A j \in 1..Len(t) : j # i => u[j] = t[j]
          /\ \A j \in (i + 1)..Len(t) : t[j] = <<>>
      BY <1>9, <1>10, <1>11, <1>12, <2>1
    <2> HIDE DEF T, x
    <2>3. Grown(T, t, u, i, x)
      BY <2>1, <2>2 DEF Grown
    <2> QED BY ONLY <2>3, FlattenGrows
  <1>14. u = TextSent(given)'
    BY DEF u, TextSent
  <1>15. Passed'
    BY <1>3, <1>6, <1>13, <1>14 DEF Passed
  <1>16. Concluded'
    BY <1>0, StillOpen DEF ReplyInv
  <1> QED BY <1>1, <1>5, <1>15, <1>16 DEF ReplyInv

(* Parts of a call are added to its accumulator.                           *)
LEMMA ArgsDeltaKeeps ==
    ASSUME ReplyInv, UNCHANGED <<provider, reply>>, NEW i \in DOMAIN reply, ArgsDelta(i)
    PROVE  ReplyInv'
  <1> DEFINE m == given[i].parts
  <1>0. /\ outcome = "open" /\ given[i].started /\ ~BlockSent(i) /\ reply[i].kind = "tool_use"
        /\ given' = [given EXCEPT ![i].parts = @ + 1]
        /\ blocks' = [blocks EXCEPT ![i] = Append(@, given'[i].parts)]
        /\ UNCHANGED <<deltas, outcome, ending>>
    BY DEF ArgsDelta, accumulate
  <1>1. ReplyType' /\ InTurn' /\ Accumulated' = Accumulated
    BY <1>0, PartKeeps
  <1>2. /\ given' \in [DOMAIN reply -> [started : BOOLEAN, parts : Nat]]
        /\ given'[i].started /\ given'[i].parts = m + 1
        /\ \A j \in DOMAIN reply : j # i => given'[j] = given[j]
    BY <1>0, PartSent DEF ReplyInv
  <1>3. DOMAIN blocks = Accumulated /\ i \in Accumulated /\ m \in Nat
    BY <1>0 DEF ReplyInv, ReplyType, Received, Accumulated
  <1>4. blocks[i] \in Seq(Nat) /\ Len(blocks[i]) = m
    BY <1>0, <1>3 DEF ReplyInv, Received
  <1>5. Received'
    <2> DEFINE b == Append(blocks[i], m + 1)
    <2>1. b \in Seq(Nat) /\ Len(b) = m + 1
      BY <1>3, <1>4
    <2>2. blocks' = [blocks EXCEPT ![i] = b]
      BY <1>0, <1>2
    <2> HIDE DEF b, m
    <2>3. DOMAIN blocks' = Accumulated /\ blocks'[i] = b
          /\ \A j \in Accumulated : j # i => blocks'[j] = blocks[j]
      BY <1>3, <2>2
    <2>4. \A j \in Accumulated : j \in DOMAIN reply
      BY DEF Accumulated
    <2>5. \A j \in Accumulated : /\ blocks'[j] \in Seq(Nat)
                                 /\ reply[j].kind = "tool_use" => Len(blocks'[j]) = given'[j].parts
      BY <1>2, <1>3, <2>1, <2>3, <2>4 DEF ReplyInv, Received
    <2> QED BY <1>1, <2>3, <2>5 DEF Received
  <1>6. Passed'
    <2>1. TextSent(given)' = TextSent(given)
      BY <1>0, <1>2 DEF TextSent
    <2> QED BY <1>0, <2>1 DEF ReplyInv, Passed
  <1>7. Concluded'
    BY <1>0, StillOpen DEF ReplyInv
  <1> QED BY <1>1, <1>5, <1>6, <1>7 DEF ReplyInv

(* A block begins: those before it are complete, or calls like it.         *)
LEMMA BlockStartKeeps ==
    ASSUME ReplyInv, UNCHANGED <<provider, reply>>, NEW i \in DOMAIN reply, BlockStart(i)
    PROVE  ReplyInv'
  <1> DEFINE R == [started : BOOLEAN, parts : Nat]
             r == given[i]
             s == [r EXCEPT !.started = TRUE]
             plain == provider = "openai" /\ reply[i].kind = "text"
  <1>0. /\ outcome = "open" /\ MayBegin(i) /\ ~given[i].started
        /\ given' = [given EXCEPT ![i] = s]
        /\ blocks' = IF plain THEN blocks
                     ELSE [j \in DOMAIN blocks \cup {i} |-> IF j = i THEN <<>> ELSE blocks[j]]
        /\ UNCHANGED <<deltas, outcome, ending>>
    BY DEF BlockStart, MayBegin
  <1>1. /\ r \in R /\ given \in [DOMAIN reply -> R] /\ r.parts = 0
        /\ provider \in {"anthropic", "openai"} /\ reply \in Seq(Block)
    BY <1>0 DEF ReplyInv, ReplyType
  <1>2. s \in R /\ s.started /\ s.parts = 0
    <2> HIDE DEF r
    <2> QED BY <1>1
  <1> HIDE DEF s
  <1>3. given' \in [DOMAIN reply -> R] /\ given'[i] = s /\ \A j \in DOMAIN reply : j # i => given'[j] = given[j]
    <2> HIDE DEF R, r
    <2> QED BY <1>0, <1>1, <1>2
  <1>4. \A j \in DOMAIN reply : given'[j].parts = given[j].parts
    BY <1>1, <1>2, <1>3
  <1>5. ReplyType'
    <2>1. \A j \in DOMAIN reply : given'[j].parts <= reply[j].parts /\ (~given'[j].started => given'[j].parts = 0)
      BY <1>2, <1>3, <1>4 DEF ReplyInv, ReplyType
    <2> QED BY <1>1, <1>3, <2>1 DEF ReplyType
  <1>6. InTurn'
    <2> SUFFICES ASSUME NEW k \in DOMAIN reply, given'[k].started, NEW j \in 1..(k - 1)
                 PROVE  BlockSent(j)' \/ (reply[k].kind = "tool_use" /\ reply[j].kind = "tool_use")
      BY DEF InTurn
    <2>1. BlockSent(j) \/ (reply[k].kind = "tool_use" /\ reply[j].kind = "tool_use")
      <3>1. CASE k = i
        BY <1>0, <3>1 DEF MayBegin
      <3>2. CASE k # i
        <4>1. given[k].started
          BY <1>3, <3>2
        <4> QED BY <4>1 DEF ReplyInv, InTurn
      <3> QED BY <3>1, <3>2
    <2>2. j \in DOMAIN reply
      <3>1. DOMAIN reply = 1..Len(reply) /\ Len(reply) \in Nat
        BY <1>1, ReplyParts
      <3> QED BY <3>1
    <2>3. CASE BlockSent(j)
      <3>1. j # i
        BY <1>0, <2>3 DEF BlockSent
      <3>2. given'[j] = given[j]
        BY <1>3, <2>2, <3>1
      <3> QED BY <2>3, <3>2 DEF BlockSent
    <2> QED BY <2>1, <2>3
  <1>7. Received'
    <2>1. DOMAIN blocks = Accumulated /\ i \notin DOMAIN blocks
      BY <1>0 DEF ReplyInv, Received, Accumulated
    <2>2. \A j \in DOMAIN reply : given'[j].started <=> (j = i \/ given[j].started)
      BY <1>2, <1>3
    <2>3. CASE plain
      <3>1. Accumulated' = Accumulated /\ blocks' = blocks
        BY <1>0, <2>2, <2>3 DEF Accumulated
      <3>2. \A j \in DOMAIN blocks : j \in DOMAIN reply
        BY <2>1 DEF Accumulated
      <3> QED BY <1>4, <2>1, <3>1, <3>2 DEF ReplyInv, Received
    <2>4. CASE ~plain
      <3> DEFINE e == <<>>
      <3>1. Accumulated' = Accumulated \cup {i}
        BY <1>0, <2>2, <2>4 DEF Accumulated
      <3>0. e \in Seq(Nat) /\ Len(e) = 0
        OBVIOUS
      <3>2. blocks' = [j \in DOMAIN blocks \cup {i} |-> IF j = i THEN e ELSE blocks[j]]
        BY <1>0, <2>4
      <3> HIDE DEF e
      <3>3. /\ DOMAIN blocks' = Accumulated' /\ blocks'[i] = e
            /\ \A j \in DOMAIN blocks : blocks'[j] = blocks[j]
        BY <2>1, <3>1, <3>2
      <3>4. \A j \in DOMAIN blocks : j \in DOMAIN reply
        BY <2>1 DEF Accumulated
      <3>5. given'[i].parts = 0
        BY <1>2, <1>3
      <3>6. ASSUME NEW j \in DOMAIN blocks'
            PROVE  blocks'[j] \in Seq(Nat) /\ (reply[j].kind = "tool_use" => Len(blocks'[j]) = given'[j].parts)
        <4>1. CASE j = i
          BY <3>0, <3>3, <3>5, <4>1
        <4>2. CASE j \in DOMAIN blocks
          BY <1>4, <3>3, <3>4, <4>2 DEF ReplyInv, Received
        <4> QED BY <2>1, <3>1, <3>3, <4>1, <4>2
      <3> QED BY <3>3, <3>6 DEF Received
    <2> QED BY <2>3, <2>4
  <1>8. Passed'
    <2>1. TextSent(given)' = TextSent(given)
      BY <1>4 DEF TextSent
    <2> QED BY <1>0, <2>1 DEF ReplyInv, Passed
  <1>9. Concluded'
    BY <1>0, StillOpen DEF ReplyInv
  <1> QED BY <1>5, <1>6, <1>7, <1>8, <1>9 DEF ReplyInv

(* The rest leaves what was sent and received as it is.                    *)
LEMMA OutcomeKeeps ==
    ASSUME ReplyInv, UNCHANGED <<provider, reply, given, blocks, deltas>>, Concluded'
    PROVE  ReplyInv'
  <1>1. Accumulated' = Accumulated /\ TextSent(given)' = TextSent(given)
    BY DEF Accumulated, TextSent
  <1>2. ReplyType'
    BY DEF ReplyInv, ReplyType
  <1>3. InTurn'
    BY DEF ReplyInv, InTurn, BlockSent
  <1>4. Received' /\ Passed'
    BY <1>1 DEF ReplyInv, Received, Passed
  <1> QED BY <1>2, <1>3, <1>4 DEF ReplyInv

(* The end of the body: the calls are read as they have come.              *)
LEMMA FinishKeeps ==
    ASSUME ReplyInv, UNCHANGED <<provider, reply>>, FinishReply
    PROVE  ReplyInv'
  <1>1. /\ UNCHANGED <<given, blocks, deltas>>
        /\ ending' = IF ending = "open" /\ AllSent THEN "whole" ELSE "cut"
    BY DEF FinishReply
  <1>2. IF Readable THEN toolCalls' = CallsRead /\ outcome' = "done" ELSE outcome' = "error"
    BY DEF FinishReply, sortedIndices, Readable, CallsRead, Called
  <1>3. Readable' = Readable /\ CallsRead' = CallsRead
    <2>1. Called' = Called
      BY <1>1 DEF Called, Indices, ToolBlocks
    <2>2. \A i, n : Parsed(i, n)' = Parsed(i, n) /\ CallOfBlock(i, n)' = CallOfBlock(i, n)
      BY DEF Parsed, CallOfBlock
    <2> QED BY <1>1, <2>1, <2>2 DEF Readable, CallsRead
  <1>4. ending' = "whole" => \A i \in DOMAIN reply : BlockSent(i)'
    BY <1>1 DEF AllSent, BlockSent
  <1>5. Concluded'
    BY <1>1, <1>2, <1>3, <1>4 DEF Concluded
  <1> QED BY <1>1, <1>5, OutcomeKeeps

LEMMA ReplyInvStep == ReplyInv /\ [ReplyNext]_replyVars => ReplyInv'
  <1> SUFFICES ASSUME ReplyInv, [ReplyNext]_replyVars PROVE ReplyInv'
    OBVIOUS
  <1>1. ASSUME UNCHANGED <<provider, reply>>, RequestFails \/ UsageEvent \/ ErrorEvent \/ ReadFails
        PROVE  ReplyInv'
    <2>1. /\ UNCHANGED <<provider, reply, given, blocks, deltas>> /\ outcome = "open"
          /\ outcome' \in {"open", "refused", "error"} /\ (ending' = ending \/ ending' = "broken")
      BY <1>1 DEF RequestFails, UsageEvent, ErrorEvent, ReadFails
    <2>2. ending' \in {"open", "broken"}
      BY <2>1 DEF ReplyInv, Concluded
    <2>3. Concluded'
      BY <2>1, <2>2 DEF Concluded
    <2> QED BY <2>1, <2>3, OutcomeKeeps
  <1>2. ASSUME UNCHANGED replyVars PROVE ReplyInv'
    <2>1. UNCHANGED <<provider, reply, given, blocks, deltas, outcome, toolCalls, ending>>
      BY <1>2 DEF replyVars
    <2>2. Readable' = Readable /\ CallsRead' = CallsRead
      <3>1. Called' = Called
        BY <2>1 DEF Called, Indices, ToolBlocks
      <3>2. \A i, n : Parsed(i, n)' = Parsed(i, n) /\ CallOfBlock(i, n)' = CallOfBlock(i, n)
        BY <2>1 DEF Parsed, CallOfBlock
      <3> QED BY <2>1, <3>1, <3>2 DEF Readable, CallsRead
    <2>3. Concluded'
      BY <2>1, <2>2 DEF ReplyInv, Concluded, BlockSent
    <2> QED BY <2>1, <2>3, OutcomeKeeps
  <1> QED BY <1>1, <1>2, FinishKeeps, BlockStartKeeps, TextDeltaKeeps, ArgsDeltaKeeps DEF ReplyNext

(* The calls that are read are those of the reply that have begun.         *)
LEMMA CalledIs ==
    ASSUME ReplyInv
    PROVE  /\ \A n \in DOMAIN Called : Called[n] \in DOMAIN reply /\ Called[n] \in DOMAIN blocks
                                       /\ reply[Called[n]].kind = "tool_use"
           /\ (\A i \in DOMAIN reply : BlockSent(i)) => Called = CallBlocks
  <1> DEFINE N == Len(reply)
             A == DOMAIN blocks
             t == SelectIn(Indices, A)
  <1>1. reply \in Seq(Block) /\ A = Accumulated
    BY DEF ReplyInv, ReplyType, Received
  <1>2. N \in Nat /\ DOMAIN reply = 1..N
    BY <1>1, ReplyParts
  <1>3. Indices \in Seq(Nat)
    <2>1. Indices \in [1..N -> Nat]
      BY <1>2 DEF Indices
    <2> QED BY <1>2, <2>1, SeqDef
  <1>4. t \in Seq(Nat \cap A)
    BY <1>3, SelectType
  <1>5. Called \in Seq((Nat \cap A) \cap ToolBlocks)
    <2> DEFINE V == Nat \cap A
    <2>1. t \in Seq(V)
      BY <1>4
    <2> HIDE DEF V, t
    <2>2. SelectIn(t, ToolBlocks) \in Seq(V \cap ToolBlocks)
      BY ONLY <2>1, SelectType
    <2> QED BY <2>2 DEF Called, t, V
  <1>6. ASSUME NEW n \in DOMAIN Called
        PROVE  /\ Called[n] \in DOMAIN reply /\ Called[n] \in DOMAIN blocks
               /\ reply[Called[n]].kind = "tool_use"
    <2> DEFINE V == (Nat \cap A) \cap ToolBlocks
    <2>1. Called \in Seq(V)
      BY <1>5
    <2>2. Called[n] \in V
      <3> HIDE DEF V
      <3> QED BY <2>1
    <2> QED BY <2>2 DEF ToolBlocks
  <1>7. ASSUME \A i \in DOMAIN reply : BlockSent(i) PROVE Called = CallBlocks
    <2>1. A \cap ToolBlocks = ToolBlocks
      BY <1>1, <1>7 DEF Accumulated, ToolBlocks, BlockSent
    <2>2. SelectIn(SelectIn(Indices, A), ToolBlocks) = SelectIn(Indices, A \cap ToolBlocks)
      BY <1>3, SelectTwice
    <2> QED BY <2>1, <2>2 DEF Called, CallBlocks
  <1> QED BY <1>6, <1>7

(* What a reply is that has been sent to its end.                          *)
LEMMA WholeIsGenerated ==
    ASSUME ReplyInv, choice, \A i \in DOMAIN reply : BlockSent(i)
    PROVE  /\ GenerateReadable <=> Readable
           /\ CallsRead = GenerateCalls
           /\ deltas = GenerateText
  <1>1. Called = CallBlocks
    BY CalledIs
  <1>2. \A n \in DOMAIN Called : Len(blocks[Called[n]]) = reply[Called[n]].parts
    BY CalledIs DEF ReplyInv, Received, BlockSent
  <1>3. GenerateReadable <=> Readable
    BY <1>1, <1>2 DEF GenerateReadable, Readable
  <1>4. CallsRead = GenerateCalls
    BY <1>1, <1>2 DEF CallsRead, GenerateCalls
  <1>5. \A i \in DOMAIN reply : given[i].parts = reply[i].parts
    BY DEF BlockSent
  <1>6. TextSent(given) = [i \in DOMAIN reply |-> IF reply[i].kind = "text" THEN PartsOf(i) ELSE <<>>]
    BY <1>5 DEF TextSent, PartsOf
  <1>7. deltas = GenerateText
    BY <1>6 DEF ReplyInv, Passed, GenerateText
  <1> QED BY <1>3, <1>4, <1>7

(* No call is read from a part of its arguments.                           *)
LEMMA CallsAreWhole == ReplyInv => CutCallsWhole
  <1> SUFFICES ASSUME ReplyInv, outcome = "done", NEW n \in DOMAIN toolCalls
               PROVE  LET c == toolCalls[n]
                      IN  \/ given[c.index].parts = 0 /\ c.args = Empty
                          \/ BlockSent(c.index) /\ c.args \in Parsed(c.index, reply[c.index].parts)
    BY DEF CutCallsWhole
  <1> DEFINE c == toolCalls[n]
             i == Called[n]
             m == Len(blocks[i])
  <1>1. Readable /\ toolCalls = CallsRead
    BY DEF ReplyInv, Concluded
  <1>2. n \in DOMAIN Called /\ c = CallOfBlock(i, m)
    BY <1>1 DEF CallsRead
  <1>3. i \in DOMAIN reply /\ i \in DOMAIN blocks /\ reply[i].kind = "tool_use"
    BY <1>2, CalledIs
  <1>4. m = given[i].parts /\ given[i].started /\ m \in Nat /\ m <= reply[i].parts /\ reply[i].parts \in Nat
    <2>1. reply[i].parts \in Nat
      BY <1>3, ReplyParts DEF ReplyInv, ReplyType
    <2>2. m = given[i].parts /\ given[i].started
      BY <1>3 DEF ReplyInv, Received, Accumulated
    <2> QED BY <1>3, <2>1, <2>2 DEF ReplyInv, ReplyType
  <1>5. c.index = i /\ c.args = CHOOSE a \in Parsed(i, m) : TRUE
    BY <1>2 DEF CallOfBlock
  <1>6. Parsed(i, m) # {}
    BY <1>1, <1>2 DEF Readable
  <1> HIDE DEF c, i, m
  <1>7. c.args \in Parsed(i, m)
    BY <1>5, <1>6
  <1>8. CASE m = 0
    <2>1. Parsed(i, m) = {Empty}
      BY <1>8 DEF Parsed
    <2> QED BY <1>4, <1>5, <1>7, <1>8, <2>1 DEF c
  <1>9. CASE m # 0
    <2>1. ~(m < reply[i].parts)
      BY <1>6, <1>9 DEF Parsed
    <2>2. m = reply[i].parts
      BY <1>4, <2>1
    <2>3. BlockSent(i) /\ c.args \in Parsed(i, reply[i].parts)
      BY <1>4, <1>7, <2>2 DEF BlockSent
    <2> QED BY <1>5, <2>3 DEF c
  <1> QED BY <1>8, <1>9

(* For replies of any number of blocks and parts, from either provider and *)
(* in any order of their events (Client.Stream of anthropic and openai): a *)
(* reply streamed to its end is the reply that Generate returns, so the    *)
(* planner goes on in the same way, and a reply that breaks off unnoticed  *)
(* has no call whose arguments the model did not give.  A reply without    *)
(* choices, an error to OpenAI's Generate only, is left out.               *)
THEOREM StreamsAreExact == ReplySpec => []StreamExact
  <1>1. ReplyInv => StreamAgrees
    <2> SUFFICES ASSUME ReplyInv, ending = "whole", choice
                 PROVE  /\ outcome = IF GenerateReadable THEN "done" ELSE "error"
                        /\ outcome = "done" => deltas = GenerateText /\ toolCalls = GenerateCalls
                        /\ streamReActPlan = Plan
      BY DEF StreamAgrees
    <2>1. /\ \A i \in DOMAIN reply : BlockSent(i)
          /\ outcome = "done" \/ (outcome = "error" /\ ~Readable)
          /\ outcome = "done" => Readable /\ toolCalls = CallsRead
      BY DEF ReplyInv, Concluded
    <2>2. (GenerateReadable <=> Readable) /\ CallsRead = GenerateCalls /\ deltas = GenerateText
      BY <2>1, WholeIsGenerated
    <2>3. outcome = IF GenerateReadable THEN "done" ELSE "error"
      BY <2>1, <2>2
    <2>4. outcome = "done" => toolCalls = GenerateCalls
      BY <2>1, <2>2
    <2>5. streamReActPlan = Plan
      <3>1. CASE GenerateReadable
        BY <2>2, <2>3, <2>4, <3>1 DEF streamReActPlan, Plan
      <3>2. CASE ~GenerateReadable
        <4>1. outcome = "error"
          BY <2>3, <3>2
        <4> QED BY <3>2, <4>1 DEF streamReActPlan, Plan
      <3> QED BY <3>1, <3>2
    <2> QED BY <2>2, <2>3, <2>4, <2>5
  <1>2. ReplyInv => StreamExact
    BY <1>1, CallsAreWhole DEF StreamExact
  <1> QED BY <1>2, ReplyInvInit, ReplyInvStep, PTL DEF ReplySpec

-------------------------------------------------------------------------------
\* The metrics.

Sample == [time : Nat, tokens : Nat]
SampleRing == [slot : [Slots -> Sample], head : Slots, count : 0..MaxSamples]

(* Where the i-th sample of a ring is.                                     *)
LEMMA IndexIs ==
    ASSUME NEW r \in SampleRing, NEW i \in 0..MaxSamples
    PROVE  /\ Index(r, i) = IF r.head + i < MaxSamples THEN r.head + i ELSE r.head + i - MaxSamples
           /\ Index(r, i) \in Slots
  <1>1. MaxSamples \in Nat \ {0} /\ r.head \in 0..(MaxSamples - 1)
    BY MetricsAssumption DEF SampleRing, Slots
  <1>2. Index(r, i) = IF r.head + i < MaxSamples THEN r.head + i ELSE r.head + i - MaxSamples
    BY <1>1, ModSum DEF Index
  <1> QED BY <1>1, <1>2 DEF Slots

(* Different samples of a ring are in different places.                    *)
LEMMA IndicesDiffer ==
    ASSUME NEW r \in SampleRing, NEW i \in 0..MaxSamples, NEW j \in 0..MaxSamples,
           i < j, j - i < MaxSamples
    PROVE  Index(r, i) # Index(r, j)
  <1> DEFINE h == r.head
             a == Index(r, i)
             b == Index(r, j)
  <1>1. h \in Nat /\ MaxSamples \in Nat /\ i \in Nat /\ j \in Nat /\ h < MaxSamples
    BY MetricsAssumption DEF SampleRing, Slots
  <1>2. (h + i < MaxSamples => a = h + i) /\ (~(h + i < MaxSamples) => a = h + i - MaxSamples)
    BY IndexIs
  <1>3. (h + j < MaxSamples => b = h + j) /\ (~(h + j < MaxSamples) => b = h + j - MaxSamples)
    BY IndexIs
  <1> HIDE DEF h, a, b
  <1>4. a # b
    BY <1>1, <1>2, <1>3
  <1> QED BY <1>4 DEF a, b

(* cleanup passes over the expired samples at the head and no further.     *)
LEMMA ExpiredCallsIs ==
    ASSUME NEW r \in SampleRing, NEW t \in Nat
    PROVE  /\ expiredCalls(r, t) \in 0..r.count
           /\ \A i \in 0..(expiredCalls(r, t) - 1) : r.slot[Index(r, i)].time <= t - WindowSize
           /\ expiredCalls(r, t) = r.count \/ r.slot[Index(r, expiredCalls(r, t))].time > t - WindowSize
  <1> DEFINE live == Live(r, t)
             n == expiredCalls(r, t)
             Right(m) == /\ \A i \in 0..(m - 1) : i \notin live
                         /\ m = r.count \/ m \in live
  <1>1. r.count \in Nat /\ MaxSamples \in Nat /\ r.count <= MaxSamples /\ WindowSize \in Nat
    BY MetricsAssumption DEF SampleRing
  <1>2. \A i \in 0..(r.count - 1) : r.slot[Index(r, i)].time \in Nat
    <2> SUFFICES ASSUME NEW i \in 0..(r.count - 1) PROVE r.slot[Index(r, i)].time \in Nat
      OBVIOUS
    <2>1. i \in 0..MaxSamples
      BY <1>1
    <2>2. Index(r, i) \in Slots
      BY <2>1, IndexIs
    <2>3. r.slot[Index(r, i)] \in Sample
      BY <2>2 DEF SampleRing
    <2> QED BY <2>3 DEF Sample
  <1>3. live = {i \in 0..(r.count - 1) : r.slot[Index(r, i)].time > t - WindowSize}
    BY DEF Live
  <1> HIDE DEF live
  <1>4. \E m \in 0..r.count : Right(m)
    <2>1. CASE live = {}
      BY <1>1, <2>1
    <2>2. CASE live # {}
      <3>1. live \subseteq Nat
        BY <1>1, <1>3
      <3>2. PICK m \in live : \A i \in live : m <= i
        BY <2>2, <3>1, LeastNumber
      <3>3. m \in 0..r.count
        BY <1>1, <1>3
      <3>4. \A i \in 0..(m - 1) : i \notin live
        <4> SUFFICES ASSUME NEW i \in 0..(m - 1), i \in live PROVE FALSE
          OBVIOUS
        <4>1. m <= i /\ m \in Nat
          BY <3>2, <3>3, <1>1
        <4> QED BY <4>1
      <3> QED BY <3>2, <3>3, <3>4
    <2> QED BY <2>1, <2>2
  <1>5. n = CHOOSE m \in 0..r.count : Right(m)
    BY DEF expiredCalls, live
  <1> HIDE DEF n
  <1>6. n \in 0..r.count /\ Right(n)
    <2> HIDE DEF Right
    <2> QED BY <1>4, <1>5
  <1>7. ASSUME NEW i \in 0..(n - 1) PROVE r.slot[Index(r, i)].time <= t - WindowSize
    <2>1. i \in 0..(r.count - 1)
      BY <1>1, <1>6
    <2>2. ~(r.slot[Index(r, i)].time > t - WindowSize) /\ r.slot[Index(r, i)].time \in Nat
      BY <1>2, <1>3, <1>6, <2>1
    <2> QED BY <1>1, <2>2
  <1>8. n = r.count \/ r.slot[Index(r, n)].time > t - WindowSize
    BY <1>3, <1>6
  <1> QED BY <1>6, <1>7, <1>8 DEF n

(* What cleanup keeps is the rest of the ring, in order.                   *)
LEMMA CleanupRingIs ==
    ASSUME NEW r \in SampleRing, NEW t \in Nat
    PROVE  LET v == cleanupRing(r, t)
               n == expiredCalls(r, t)
           IN  /\ v \in SampleRing /\ v.count = r.count - n
               /\ \A i \in 0..(v.count - 1) : v.slot[Index(v, i)] = r.slot[Index(r, n + i)]
  <1> DEFINE v == cleanupRing(r, t)
             n == expiredCalls(r, t)
             kept == [s \in Slots |-> IF \E i \in 0..(n - 1) : s = Index(r, i)
                                      THEN ZeroSample ELSE r.slot[s]]
  <1>1. /\ MaxSamples \in Nat /\ MaxSamples > 0 /\ r.count \in Nat /\ r.count <= MaxSamples
        /\ r.slot \in [Slots -> Sample] /\ n \in 0..r.count
    BY MetricsAssumption, ExpiredCallsIs DEF SampleRing
  <1>2. v = [slot |-> kept, head |-> Index(r, n), count |-> r.count - n]
    BY DEF cleanupRing
  <1> HIDE DEF n, v
  <1>3. Index(r, n) \in Slots
    <2>1. n \in 0..MaxSamples
      BY <1>1
    <2> QED BY <2>1, IndexIs
  <1>4. kept \in [Slots -> Sample]
    <2>1. ZeroSample \in Sample
      BY DEF ZeroSample, Sample
    <2> QED BY <1>1, <2>1
  <1>5. \A s \in Slots : (\A i \in 0..(n - 1) : s # Index(r, i)) => kept[s] = r.slot[s]
    OBVIOUS
  <1> HIDE DEF kept
  <1>6. v.slot = kept /\ v.head = Index(r, n) /\ v.count = r.count - n
    BY <1>2
  <1>7. v \in SampleRing
    <2>1. r.count - n \in 0..MaxSamples
      BY <1>1
    <2> QED BY <1>2, <1>3, <1>4, <2>1 DEF SampleRing
  <1>8. ASSUME NEW i \in 0..(v.count - 1)
        PROVE  v.slot[Index(v, i)] = r.slot[Index(r, n + i)]
    <2>1. n \in 0..MaxSamples /\ i \in 0..MaxSamples /\ n + i \in 0..MaxSamples /\ n + i < r.count
      BY <1>1, <1>6
    <2>2. Index(r, n + i) \in Slots
      BY <2>1, IndexIs
    <2>3. Index(v, i) = Index(r, n + i)
      <3> DEFINE h == r.head
                 g == v.head
                 a == Index(r, n + i)
                 b == Index(v, i)
      <3>1. h \in Nat /\ h < MaxSamples
        BY <1>1 DEF SampleRing, Slots
      <3>2. (h + n < MaxSamples => g = h + n) /\ (~(h + n < MaxSamples) => g = h + n - MaxSamples)
        BY <1>6, <2>1, IndexIs
      <3>3. /\ h + (n + i) < MaxSamples => a = h + (n + i)
            /\ ~(h + (n + i) < MaxSamples) => a = h + (n + i) - MaxSamples
        BY <2>1, IndexIs
      <3>4. (g + i < MaxSamples => b = g + i) /\ (~(g + i < MaxSamples) => b = g + i - MaxSamples)
        BY <1>7, <2>1, IndexIs
      <3>5. n \in Nat /\ i \in Nat /\ n + i < MaxSamples /\ MaxSamples \in Nat
        BY <1>1, <2>1
      <3> HIDE DEF h, g, a, b
      <3>6. b = a
        BY <3>1, <3>2, <3>3, <3>4, <3>5
      <3> QED BY <3>6 DEF a, b
    <2>4. ASSUME NEW k \in 0..(n - 1) PROVE Index(r, n + i) # Index(r, k)
      <3>1. k \in 0..MaxSamples /\ k < n + i /\ (n + i) - k < MaxSamples
        BY <1>1, <2>1
      <3> QED BY <2>1, <3>1, IndicesDiffer
    <2> QED BY <1>5, <1>6, <2>2, <2>3, <2>4
  <1> QED BY <1>6, <1>7, <1>8 DEF v, n

(* A sample that is added comes last; a full ring loses its first one.     *)
LEMMA PutIs ==
    ASSUME NEW r \in SampleRing, NEW x \in Sample
    PROVE  LET v == put(r, x)
               d == IF r.count < MaxSamples THEN 0 ELSE 1
           IN  /\ v \in SampleRing /\ v.count = r.count + 1 - d
               /\ \A i \in 0..(v.count - 2) : v.slot[Index(v, i)] = r.slot[Index(r, i + d)]
               /\ v.slot[Index(v, v.count - 1)] = x
  <1> DEFINE v == put(r, x)
             d == IF r.count < MaxSamples THEN 0 ELSE 1
             last == Index(r, r.count)
  <1>1. /\ MaxSamples \in Nat /\ MaxSamples > 0 /\ r.count \in Nat /\ r.count <= MaxSamples
        /\ r.slot \in [Slots -> Sample] /\ r.head \in Slots
    BY MetricsAssumption DEF SampleRing
  <1>2. d \in {0, 1} /\ (d = 0 <=> r.count < MaxSamples) /\ (d = 1 <=> r.count = MaxSamples)
    BY <1>1
  <1>3. /\ v.slot = [r.slot EXCEPT ![last] = x]
        /\ v.head = (IF r.count < MaxSamples THEN r.head ELSE Index(r, 1))
        /\ v.count = (IF r.count < MaxSamples THEN r.count + 1 ELSE r.count)
        /\ v = [slot |-> v.slot, head |-> v.head, count |-> v.count]
    BY DEF put
  <1>4. last \in Slots /\ Index(r, 1) \in Slots /\ Index(r, 0) \in Slots
    <2>1. r.count \in 0..MaxSamples /\ 1 \in 0..MaxSamples /\ 0 \in 0..MaxSamples
      BY <1>1
    <2> QED BY <2>1, IndexIs
  <1> HIDE DEF v, last, d
  <1>5. v.slot \in [Slots -> Sample]
    BY <1>1, <1>3, <1>4
  <1>6. v.count = r.count + 1 - d /\ v.count \in 0..MaxSamples
    BY <1>1, <1>2, <1>3
  <1>7. v \in SampleRing
    <2>1. v.head \in Slots
      BY <1>1, <1>3, <1>4
    <2> QED BY <1>3, <1>5, <1>6, <2>1 DEF SampleRing
  <1>8. ASSUME NEW i \in 0..(v.count - 1) PROVE Index(v, i) = Index(r, i + d)
    <2> DEFINE h == r.head
               g == v.head
               a == Index(r, i + d)
               b == Index(v, i)
    <2>1. i \in 0..MaxSamples /\ i + d \in 0..MaxSamples /\ d \in 0..MaxSamples
      BY <1>1, <1>2, <1>6
    <2>2. h \in Nat /\ h < MaxSamples
      BY <1>1 DEF Slots
    <2>3. (d = 0 => g = h) /\ (d = 1 => g = Index(r, 1))
      BY <1>1, <1>2, <1>3
    <2>4. (h + 1 < MaxSamples => Index(r, 1) = h + 1) /\ (~(h + 1 < MaxSamples) => Index(r, 1) = h + 1 - MaxSamples)
      <3>1. 1 \in 0..MaxSamples
        BY <1>1
      <3> QED BY <3>1, IndexIs
    <2>5. /\ h + (i + d) < MaxSamples => a = h + (i + d)
          /\ ~(h + (i + d) < MaxSamples) => a = h + (i + d) - MaxSamples
      BY <2>1, IndexIs
    <2>6. (g + i < MaxSamples => b = g + i) /\ (~(g + i < MaxSamples) => b = g + i - MaxSamples)
      BY <1>7, <2>1, IndexIs
    <2>7. i \in Nat /\ MaxSamples \in Nat /\ i < MaxSamples
      BY <1>1, <1>6
    <2> HIDE DEF h, g, a, b
    <2>8. CASE d = 0
      <3>1. i + d = i /\ g = h
        BY <2>3, <2>7, <2>8
      <3>2. b = a
        BY <2>5, <2>6, <3>1
      <3> QED BY <3>2 DEF a, b
    <2>9. CASE d = 1
      <3>1. b = a
        BY <2>2, <2>3, <2>4, <2>5, <2>6, <2>7, <2>9
      <3> QED BY <3>1 DEF a, b
    <2> QED BY <1>2, <2>8, <2>9
  <1>9. ASSUME NEW i \in 0..(v.count - 2) PROVE v.slot[Index(v, i)] = r.slot[Index(r, i + d)]
    <2>1. /\ i \in 0..(v.count - 1) /\ i + d \in 0..MaxSamples /\ i + d < r.count
          /\ r.count \in 0..MaxSamples
      BY <1>1, <1>2, <1>6
    <2>2. r.count - (i + d) < MaxSamples
      BY <1>1, <1>2, <1>6
    <2>3. Index(r, i + d) # last
      BY <2>1, <2>2, IndicesDiffer DEF last
    <2>4. Index(r, i + d) \in Slots
      BY <2>1, IndexIs
    <2> QED BY <1>1, <1>3, <1>8, <2>1, <2>3, <2>4
  <1>10. v.slot[Index(v, v.count - 1)] = x
    <2>1. v.count - 1 \in 0..(v.count - 1) /\ (v.count - 1) + d = r.count
      BY <1>1, <1>2, <1>6
    <2>2. Index(v, v.count - 1) = last
      BY <1>8, <2>1 DEF last
    <2> QED BY <1>1, <1>3, <1>4, <2>2
  <1> QED BY <1>6, <1>7, <1>9, <1>10 DEF v, d

\* The ring r holds the latest of the samples l, in order from its head; those
\* it does not hold had to make room, or were too old for a call at one of the
\* times T.
HoldsSamples(r, l, T) ==
    /\ r.count <= Len(l)
    /\ \A i \in 0..(r.count - 1) : r.slot[Index(r, i)] = l[Len(l) - r.count + 1 + i]
    /\ \A j \in 1..(Len(l) - r.count) :
          j <= Len(l) - MaxSamples \/ \E t \in T : l[j].time <= t - WindowSize

(* A cleanup drops samples that are too old for its call, and the first    *)
(* one it keeps is not.                                                    *)
LEMMA CleanupRingHolds ==
    ASSUME NEW r \in SampleRing, NEW l \in Seq(Sample), NEW T \in SUBSET Nat, NEW t \in Nat,
           HoldsSamples(r, l, T)
    PROVE  LET v == cleanupRing(r, t)
           IN  /\ v \in SampleRing /\ HoldsSamples(v, l, T \cup {t})
               /\ v.count > 0 => l[Len(l) - v.count + 1].time > t - WindowSize
  <1> DEFINE n == expiredCalls(r, t)
             v == cleanupRing(r, t)
             L == Len(l)
             d == L - r.count
  <1>1. /\ v \in SampleRing /\ v.count = r.count - n
        /\ \A i \in 0..(v.count - 1) : v.slot[Index(v, i)] = r.slot[Index(r, n + i)]
    BY CleanupRingIs
  <1>2. /\ n \in 0..r.count
        /\ \A i \in 0..(n - 1) : r.slot[Index(r, i)].time <= t - WindowSize
        /\ n = r.count \/ r.slot[Index(r, n)].time > t - WindowSize
    BY ExpiredCallsIs
  <1>3. r.count \in Nat /\ L \in Nat /\ r.count <= L
    BY MetricsAssumption DEF SampleRing, HoldsSamples
  <1>4. /\ \A i \in 0..(r.count - 1) : r.slot[Index(r, i)] = l[d + 1 + i]
        /\ \A j \in 1..d : j <= L - MaxSamples \/ \E u \in T : l[j].time <= u - WindowSize
    BY DEF HoldsSamples
  <1> HIDE DEF n, v, L
  <1>5. L - v.count = d + n /\ v.count <= L /\ d \in Nat
    <2> DEFINE rc == r.count
               vc == v.count
    <2>1. rc \in Nat /\ L \in Nat /\ rc <= L /\ n \in 0..rc /\ vc = rc - n /\ d = L - rc
      BY <1>1, <1>2, <1>3
    <2> HIDE DEF rc, vc, d
    <2>2. L - vc = d + n /\ vc <= L /\ d \in Nat
      BY ONLY <2>1
    <2> QED BY <2>2 DEF vc
  <1> HIDE DEF d
  <1>6. ASSUME NEW i \in 0..(v.count - 1) PROVE v.slot[Index(v, i)] = l[L - v.count + 1 + i]
    <2>1. n + i \in 0..(r.count - 1) /\ d + 1 + (n + i) = d + n + 1 + i
      BY <1>1, <1>2, <1>3, <1>5
    <2>2. v.slot[Index(v, i)] = l[d + n + 1 + i]
      BY <1>1, <1>4, <2>1
    <2> QED BY <1>5, <2>2
  <1>7. ASSUME NEW j \in 1..(L - v.count)
        PROVE  j <= L - MaxSamples \/ \E u \in T \cup {t} : l[j].time <= u - WindowSize
    <2>1. CASE j <= d
      <3>1. j \in 1..d
        BY <1>5, <2>1
      <3> QED BY <1>4, <3>1
    <2>2. CASE ~(j <= d)
      <3>0. j \in Nat /\ j <= d + n /\ n \in Nat
        BY <1>2, <1>3, <1>5
      <3>1. j - d - 1 \in 0..(n - 1) /\ j - d - 1 \in 0..(r.count - 1) /\ d + 1 + (j - d - 1) = j
        BY <1>2, <1>3, <1>5, <2>2, <3>0
      <3>2. l[j].time <= t - WindowSize
        BY <1>2, <1>4, <3>1
      <3> QED BY <3>2
    <2> QED BY <2>1, <2>2
  <1>8. ASSUME v.count > 0 PROVE l[L - v.count + 1].time > t - WindowSize
    <2>1. n # r.count /\ n \in 0..(r.count - 1) /\ L - v.count + 1 = d + 1 + n
      BY <1>1, <1>2, <1>3, <1>5, <1>8
    <2> QED BY <1>2, <1>4, <2>1
  <1>9. HoldsSamples(v, l, T \cup {t})
    BY <1>5, <1>6, <1>7 DEF HoldsSamples, L
  <1> QED BY <1>1, <1>8, <1>9 DEF v, L

(* A sample more.                                                          *)
LEMMA PutHolds ==
    ASSUME NEW r \in SampleRing, NEW l \in Seq(Sample), NEW T \in SUBSET Nat, NEW x \in Sample,
           HoldsSamples(r, l, T)
    PROVE  put(r, x) \in SampleRing /\ HoldsSamples(put(r, x), Append(l, x), T)
  <1> DEFINE v == put(r, x)
             d == IF r.count < MaxSamples THEN 0 ELSE 1
             L == Len(l)
             m == Append(l, x)
  <1>1. /\ v \in SampleRing /\ v.count = r.count + 1 - d
        /\ \A i \in 0..(v.count - 2) : v.slot[Index(v, i)] = r.slot[Index(r, i + d)]
        /\ v.slot[Index(v, v.count - 1)] = x
    BY PutIs
  <1>2. /\ r.count \in Nat /\ L \in Nat /\ r.count <= L /\ MaxSamples \in Nat
        /\ d \in {0, 1} /\ (d = 1 => r.count >= MaxSamples) /\ r.count <= MaxSamples
        /\ MaxSamples > 0
    BY MetricsAssumption DEF SampleRing, HoldsSamples
  <1>3. /\ \A i \in 0..(r.count - 1) : r.slot[Index(r, i)] = l[L - r.count + 1 + i]
        /\ \A j \in 1..(L - r.count) : j <= L - MaxSamples \/ \E u \in T : l[j].time <= u - WindowSize
    BY DEF HoldsSamples
  <1>4. Len(m) = L + 1 /\ m[L + 1] = x /\ \A j \in 1..L : m[j] = l[j]
    OBVIOUS
  <1> HIDE DEF v, d, L, m
  <1> DEFINE rc == r.count
             vc == v.count
             M == Len(m)
  <1>0. /\ rc \in Nat /\ L \in Nat /\ rc <= L /\ (d = 0 \/ d = 1) /\ vc = rc + 1 - d /\ M = L + 1
        /\ MaxSamples \in Nat /\ MaxSamples > 0 /\ (d = 1 => rc >= MaxSamples) /\ rc <= MaxSamples
    BY <1>1, <1>2, <1>4
  <1> HIDE DEF rc, vc, M
  <1>9. M - vc = L - rc + d /\ vc <= M /\ vc \in Nat
    BY <1>0
  <1>5. Len(m) - v.count = L - r.count + d /\ v.count <= Len(m) /\ v.count \in Nat
    BY <1>9 DEF rc, vc, M
  <1>6. ASSUME NEW i \in 0..(v.count - 1) PROVE v.slot[Index(v, i)] = m[Len(m) - v.count + 1 + i]
    <2>1. CASE i = v.count - 1
      <3>1. Len(m) - v.count + 1 + i = L + 1
        BY <1>2, <1>4, <1>5, <2>1
      <3> QED BY <1>1, <1>4, <2>1, <3>1
    <2>2. CASE i # v.count - 1
      <3>1. /\ i \in 0..(v.count - 2) /\ i + d \in 0..(r.count - 1)
            /\ Len(m) - v.count + 1 + i = L - r.count + 1 + (i + d)
            /\ L - r.count + 1 + (i + d) \in 1..L
        <4>1. i \in Nat /\ i < vc - 1
          BY <1>9, <2>2 DEF vc
        <4>2. /\ i \in 0..(vc - 2) /\ i + d \in 0..(rc - 1)
              /\ M - vc + 1 + i = L - rc + 1 + (i + d)
              /\ L - rc + 1 + (i + d) \in 1..L
          <5>1. CASE d = 0
            BY <1>0, <1>9, <4>1, <5>1
          <5>2. CASE d = 1
            BY <1>0, <1>9, <4>1, <5>2
          <5> QED BY <1>0, <5>1, <5>2
        <4> QED BY <4>2 DEF rc, vc, M
      <3> QED BY <1>1, <1>3, <1>4, <3>1
    <2> QED BY <2>1, <2>2
  <1>7. ASSUME NEW j \in 1..(Len(m) - v.count)
        PROVE  j <= Len(m) - MaxSamples \/ \E u \in T : m[j].time <= u - WindowSize
    <2>1. CASE j <= L - r.count
      <3>1. j \in 1..(L - r.count) /\ j \in 1..L /\ j \in Int
        BY <1>2, <2>1
      <3>2. m[j] = l[j]
        BY <1>4, <3>1
      <3>3. CASE j <= L - MaxSamples
        BY <1>2, <1>4, <3>1, <3>3
      <3>4. CASE ~(j <= L - MaxSamples)
        BY <1>3, <3>1, <3>2, <3>4
      <3> QED BY <3>3, <3>4
    <2>2. CASE ~(j <= L - r.count)
      <3>0. j \in 1..(M - vc) /\ ~(j <= L - rc)
        BY <2>2 DEF rc, vc, M
      <3>1. d = 1 /\ j = L - rc + 1
        <4>1. CASE d = 0
          BY ONLY <1>0, <1>9, <3>0, <4>1
        <4>2. CASE d = 1
          BY ONLY <1>0, <1>9, <3>0, <4>2
        <4> QED BY <1>0, <4>1, <4>2
      <3>2. j <= M - MaxSamples
        BY ONLY <1>0, <3>1
      <3> QED BY <3>2 DEF M
    <2> QED BY <2>1, <2>2
  <1>8. HoldsSamples(v, m, T)
    BY <1>5, <1>6, <1>7 DEF HoldsSamples
  <1> QED BY <1>1, <1>8 DEF v, m

\* The times of the calls that were added.
Times == {samples[j].time : j \in 1..Len(samples)}

\* Nobody is ahead of the clock, and who reads the rates has added his call.
MWInv ==
    /\ now \in Nat /\ ring \in SampleRing /\ samples \in Seq(Sample)
    /\ at \in [Clients -> {"idle", "add", "rpm", "tpm"}]
    /\ stamp \in [Clients -> Nat] /\ used \in [Clients -> Nat]
    /\ DOMAIN report = Clients /\ \A c \in Clients : report[c] = [calls |-> report[c].calls, tokens |-> report[c].tokens]
    /\ HoldsSamples(ring, samples, Times)
    /\ \A c \in Clients : stamp[c] <= now
    /\ \A c \in Clients : at[c] \in {"rpm", "tpm"} => stamp[c] \in Times
    /\ \A t \in Times : t <= now

(* The times are times.                                                    *)
LEMMA TimesAre ==
    ASSUME samples \in Seq(Sample)
    PROVE  Times \in SUBSET Nat /\ \A j \in 1..Len(samples) : samples[j] \in Sample /\ samples[j].time \in Nat
  <1>1. \A j \in 1..Len(samples) : samples[j] \in Sample
    OBVIOUS
  <1>2. \A x \in Sample : x.time \in Nat
    BY DEF Sample
  <1>3. \A j \in 1..Len(samples) : samples[j].time \in Nat
    BY <1>1, <1>2
  <1> QED BY <1>1, <1>3 DEF Times

(* MWInv holds before the first call.                                      *)
LEMMA MWInvInit == MWInit => MWInv
  <1> SUFFICES ASSUME MWInit PROVE MWInv
    OBVIOUS
  <1>1. MaxSamples \in Nat \ {0} /\ 0 \in Slots /\ 0 \in 0..MaxSamples
    BY MetricsAssumption DEF Slots
  <1>2. ring \in SampleRing
    <2>1. [i \in Slots |-> ZeroSample] \in [Slots -> Sample]
      BY DEF ZeroSample, Sample
    <2> QED BY <1>1, <2>1 DEF MWInit, SampleRing
  <1>3. samples \in Seq(Sample) /\ Len(samples) = 0 /\ ring.count = 0
    BY DEF MWInit
  <1>4. HoldsSamples(ring, samples, Times) /\ Times = {}
    BY <1>3 DEF HoldsSamples, Times
  <1>5. \A c \in Clients : at[c] = "idle" /\ stamp[c] = 0 /\ report[c] = [calls |-> 0, tokens |-> 0]
    BY DEF MWInit
  <1> QED BY <1>2, <1>3, <1>4, <1>5 DEF MWInit, MWInv

(* A call takes its time.                                                  *)
LEMMA GenerateKeeps ==
    ASSUME MWInv, NEW c \in Clients, NEW n \in Tokens, Generate(c, n)
    PROVE  MWInv'
  <1>1. n \in Nat
    BY MetricsAssumption
  <1>2. Times' = Times /\ UNCHANGED <<now, ring, samples, report>>
    BY DEF Generate, Times
  <1>3. /\ at' \in [Clients -> {"idle", "add", "rpm", "tpm"}] /\ stamp' \in [Clients -> Nat]
        /\ used' \in [Clients -> Nat]
    BY <1>1 DEF MWInv, Generate
  <1>4. \A e \in Clients : stamp'[e] <= now'
    BY DEF MWInv, Generate
  <1>5. \A e \in Clients : at'[e] \in {"rpm", "tpm"} => stamp'[e] \in Times'
    BY <1>2 DEF MWInv, Generate
  <1> QED BY <1>2, <1>3, <1>4, <1>5 DEF MWInv

(* A call is added.                                                        *)
LEMMA AddSampleKeeps ==
    ASSUME MWInv, NEW c \in Clients, AddSample(c)
    PROVE  MWInv'
  <1> DEFINE x == [time |-> stamp[c], tokens |-> used[c]]
             v == cleanupRing(ring, stamp[c])
  <1>1. /\ stamp[c] \in Nat /\ x \in Sample /\ x.time = stamp[c] /\ stamp[c] <= now
        /\ ring' = put(v, x) /\ samples' = Append(samples, x)
        /\ UNCHANGED <<now, stamp, used, report>>
    BY DEF MWInv, AddSample, Sample
  <1>2. Times \in SUBSET Nat /\ Times \cup {stamp[c]} \in SUBSET Nat
    BY <1>1, TimesAre DEF MWInv
  <1> HIDE DEF x, v
  <1>3. v \in SampleRing /\ HoldsSamples(v, samples, Times \cup {stamp[c]})
    BY <1>1, <1>2, CleanupRingHolds DEF MWInv, v
  <1>4. ring' \in SampleRing /\ HoldsSamples(ring', samples', Times \cup {stamp[c]})
    BY <1>1, <1>2, <1>3, PutHolds DEF MWInv
  <1>5. samples' \in Seq(Sample)
    BY <1>1 DEF MWInv
  <1>6. Times' = Times \cup {stamp[c]}
    <2>1. /\ Len(samples') = Len(samples) + 1 /\ Len(samples) \in Nat
          /\ samples'[Len(samples) + 1] = x /\ \A j \in 1..Len(samples) : samples'[j] = samples[j]
      BY <1>1 DEF MWInv
    <2>2. Times' = {samples'[j].time : j \in 1..(Len(samples) + 1)}
      BY <2>1 DEF Times
    <2>3. \A j \in 1..(Len(samples) + 1) : j = Len(samples) + 1 \/ j \in 1..Len(samples)
      BY <2>1
    <2>4. Len(samples) + 1 \in 1..(Len(samples) + 1) /\ \A j \in 1..Len(samples) : j \in 1..(Len(samples) + 1)
      BY <2>1
    <2>5. Times' \subseteq Times \cup {stamp[c]}
      BY <1>1, <2>1, <2>2, <2>3 DEF Times
    <2>6. stamp[c] \in Times'
      BY <1>1, <2>1, <2>2, <2>4
    <2>7. Times \subseteq Times'
      BY <2>1, <2>2, <2>4 DEF Times
    <2> QED BY <2>5, <2>6, <2>7
  <1>7. at' \in [Clients -> {"idle", "add", "rpm", "tpm"}] /\ \A e \in Clients : e # c => at'[e] = at[e]
    BY DEF MWInv, AddSample
  <1>8. \A e \in Clients : at'[e] \in {"rpm", "tpm"} => stamp'[e] \in Times'
    BY <1>1, <1>6, <1>7 DEF MWInv
  <1>9. \A t \in Times' : t <= now'
    BY <1>1, <1>6 DEF MWInv
  <1> QED BY <1>1, <1>4, <1>5, <1>6, <1>7, <1>8, <1>9 DEF MWInv

\* A rate is read by c: cleanup, then what the ring has.
Reads(c) ==
    /\ at[c] \in {"rpm", "tpm"} /\ ring' = cleanupRing(ring, stamp[c])
    /\ at' \in [Clients -> {"idle", "add", "rpm", "tpm"}]
    /\ at'[c] \in {"tpm", "idle"} /\ \A e \in Clients : e # c => at'[e] = at[e]
    /\ UNCHANGED <<now, samples, stamp, used>>
    /\ DOMAIN report' = Clients
    /\ \A e \in Clients : report'[e] = [calls |-> report'[e].calls, tokens |-> report'[e].tokens]

(* Both rates are read in the same way.                                    *)
LEMMA RatesRead ==
    ASSUME MWInv, NEW c \in Clients, RPM(c) \/ TPM(c)
    PROVE  Reads(c)
  <1>0. /\ at \in [Clients -> {"idle", "add", "rpm", "tpm"}] /\ DOMAIN report = Clients
        /\ \A e \in Clients : report[e] = [calls |-> report[e].calls, tokens |-> report[e].tokens]
    BY DEF MWInv
  <1>1. CASE RPM(c)
    <2>1. /\ at[c] \in {"rpm", "tpm"} /\ ring' = cleanupRing(ring, stamp[c])
          /\ at' = [at EXCEPT ![c] = "tpm"] /\ report' = [report EXCEPT ![c].calls = ring'.count]
          /\ UNCHANGED <<now, samples, stamp, used>>
      BY <1>1 DEF RPM
    <2>2. /\ at' \in [Clients -> {"idle", "add", "rpm", "tpm"}] /\ at'[c] = "tpm"
          /\ \A e \in Clients : e # c => at'[e] = at[e]
      BY <1>0, <2>1
    <2>3. /\ DOMAIN report' = Clients
          /\ \A e \in Clients : report'[e] = [calls |-> report'[e].calls, tokens |-> report'[e].tokens]
      <3>1. \A e \in Clients : e # c => report'[e] = report[e]
        BY <1>0, <2>1
      <3>2. report'[c] = [report[c] EXCEPT !.calls = ring'.count] /\ DOMAIN report' = Clients
        BY <1>0, <2>1
      <3>3. report[c] = [calls |-> report[c].calls, tokens |-> report[c].tokens]
        BY <1>0
      <3>4. report'[c] = [calls |-> report'[c].calls, tokens |-> report'[c].tokens]
        BY <3>2, <3>3
      <3> QED BY <1>0, <3>1, <3>2, <3>4
    <2> QED BY <2>1, <2>2, <2>3 DEF Reads
  <1>2. CASE TPM(c)
    <2>1. /\ at[c] \in {"rpm", "tpm"} /\ ring' = cleanupRing(ring, stamp[c])
          /\ at' = [at EXCEPT ![c] = "idle"] /\ report' = [report EXCEPT ![c].tokens = TotalTokens(ring')]
          /\ UNCHANGED <<now, samples, stamp, used>>
      BY <1>2 DEF TPM
    <2>2. /\ at' \in [Clients -> {"idle", "add", "rpm", "tpm"}] /\ at'[c] = "idle"
          /\ \A e \in Clients : e # c => at'[e] = at[e]
      BY <1>0, <2>1
    <2>3. /\ DOMAIN report' = Clients
          /\ \A e \in Clients : report'[e] = [calls |-> report'[e].calls, tokens |-> report'[e].tokens]
      <3>1. \A e \in Clients : e # c => report'[e] = report[e]
        BY <1>0, <2>1
      <3>2. report'[c] = [report[c] EXCEPT !.tokens = TotalTokens(ring')] /\ DOMAIN report' = Clients
        BY <1>0, <2>1
      <3>3. report[c] = [calls |-> report[c].calls, tokens |-> report[c].tokens]
        BY <1>0
      <3>4. report'[c] = [calls |-> report'[c].calls, tokens |-> report'[c].tokens]
        BY <3>2, <3>3
      <3> QED BY <1>0, <3>1, <3>2, <3>4
    <2> QED BY <2>1, <2>2, <2>3 DEF Reads
  <1> QED BY <1>1, <1>2

(* Reading a rate keeps MWInv: the cleanup is for the time of a call that  *)
(* was added.                                                              *)
LEMMA ReadsKeeps ==
    ASSUME MWInv, NEW c \in Clients, Reads(c)
    PROVE  /\ MWInv'
           /\ ring'.count > 0 => samples[Len(samples) - ring'.count + 1].time > stamp[c] - WindowSize
  <1>1. stamp[c] \in Nat /\ stamp[c] \in Times /\ Times' = Times /\ Times \cup {stamp[c]} = Times
    BY DEF MWInv, Reads, Times
  <1>2. Times \in SUBSET Nat
    BY TimesAre DEF MWInv
  <1>3. /\ ring' \in SampleRing /\ HoldsSamples(ring', samples, Times \cup {stamp[c]})
        /\ ring'.count > 0 => samples[Len(samples) - ring'.count + 1].time > stamp[c] - WindowSize
    BY <1>1, <1>2, CleanupRingHolds DEF MWInv, Reads
  <1>4. HoldsSamples(ring', samples', Times')
    BY <1>1, <1>3 DEF Reads
  <1>5. \A e \in Clients : at'[e] \in {"rpm", "tpm"} => stamp'[e] \in Times'
    BY <1>1 DEF MWInv, Reads
  <1>6. MWInv'
    BY <1>1, <1>3, <1>4, <1>5 DEF MWInv, Reads
  <1> QED BY <1>3, <1>6

(* Every step keeps MWInv.                                                 *)
LEMMA MWInvStep == MWInv /\ [MWNext]_<<now, mwVars>> => MWInv'
  <1> SUFFICES ASSUME MWInv, [MWNext]_<<now, mwVars>> PROVE MWInv'
    OBVIOUS
  <1>1. CASE UNCHANGED <<now, mwVars>> \/ (Tick /\ UNCHANGED mwVars)
    <2>1. UNCHANGED mwVars /\ now' \in Nat /\ now <= now' /\ now \in Nat
      BY <1>1 DEF MWInv, Tick
    <2>2. UNCHANGED <<ring, samples, at, stamp, used, report>> /\ Times' = Times
      BY <2>1 DEF mwVars, Times
    <2>3. Times \in SUBSET Nat /\ stamp \in [Clients -> Nat]
      BY TimesAre DEF MWInv
    <2>4. (\A c \in Clients : stamp[c] <= now') /\ \A t \in Times : t <= now'
      BY <2>1, <2>3 DEF MWInv
    <2> QED BY <2>1, <2>2, <2>4 DEF MWInv
  <1>2. ASSUME NEW c \in Clients, NEW n \in Tokens, Generate(c, n) PROVE MWInv'
    BY <1>2, GenerateKeeps
  <1>3. ASSUME NEW c \in Clients, AddSample(c) PROVE MWInv'
    BY <1>3, AddSampleKeeps
  <1>4. ASSUME NEW c \in Clients, RPM(c) \/ TPM(c) PROVE MWInv'
    BY <1>4, RatesRead, ReadsKeeps
  <1> QED BY <1>1, <1>2, <1>3, <1>4 DEF MWNext

(* The ring keeps the latest samples, and all that may still count.        *)
LEMMA YoungAreKept == MWInv => RingKeepsYoung
  <1> SUFFICES ASSUME MWInv PROVE RingKeepsYoung
    OBVIOUS
  <1>1. HoldsSamples(ring, samples, Times) /\ Times \in SUBSET Nat /\ now \in Nat /\ WindowSize \in Nat
    BY TimesAre, MetricsAssumption DEF MWInv
  <1>2. RingIsSuffix
    BY <1>1 DEF HoldsSamples, RingIsSuffix, Dropped
  <1>3. ASSUME NEW j \in 1..Dropped, ~(j <= Len(samples) - MaxSamples)
        PROVE  samples[j].time <= now - WindowSize
    <2>1. PICK t \in Times : samples[j].time <= t - WindowSize
      BY <1>1, <1>3 DEF HoldsSamples, Dropped
    <2>2. t \in Nat /\ t <= now
      BY <1>1 DEF MWInv
    <2>3. samples[j].time \in Nat
      <3>1. Dropped <= Len(samples) /\ Dropped \in Int /\ Len(samples) \in Nat
        BY <1>1, MetricsAssumption DEF MWInv, Dropped, SampleRing
      <3>2. j \in 1..Len(samples)
        BY <3>1
      <3> QED BY <3>2, TimesAre DEF MWInv
    <2> QED BY <1>1, <2>1, <2>2, <2>3
  <1> QED BY <1>2, <1>3 DEF RingKeepsYoung, YoungKept

(* Where calls came in order, a rate is read of exactly the samples that   *)
(* count.                                                                  *)
LEMMA CountedAre ==
    ASSUME MWInv, NEW c \in Clients, Reads(c), InOrder(c)
    PROVE  /\ ring' \in SampleRing /\ ring'.count \in Nat /\ ring'.count <= Len(samples)
           /\ Counted(c) = (Len(samples) - ring'.count + 1)..Len(samples)
           /\ \A i \in 0..(ring'.count - 1) :
                 ring'.slot[Index(ring', i)] = samples[Len(samples) - ring'.count + 1 + i]
  <1> DEFINE L == Len(samples)
             n == ring'.count
             lost == L - n
  <1>1. /\ MWInv'
        /\ n > 0 => samples[lost + 1].time > stamp[c] - WindowSize
    BY ReadsKeeps
  <1>2. samples' = samples /\ Times' = Times /\ stamp[c] \in Nat /\ WindowSize \in Nat /\ MaxSamples \in Nat
    BY MetricsAssumption DEF Reads, Times, MWInv
  <1>3. HoldsSamples(ring', samples, Times) /\ ring' \in SampleRing
    BY <1>1, <1>2 DEF MWInv
  <1>4. n \in Nat /\ n <= L /\ L \in Nat /\ n <= MaxSamples
    BY <1>2, <1>3 DEF HoldsSamples, SampleRing, MWInv
  <1>5. \A j \in 1..L : samples[j].time \in Nat
    BY TimesAre DEF MWInv
  <1>6. \A i \in 1..L : samples[i].time <= stamp[c] /\ \A j \in 1..i : samples[j].time <= samples[i].time
    BY DEF InOrder
  <1>7. \A j \in 1..lost : j <= L - MaxSamples \/ \E t \in Times : samples[j].time <= t - WindowSize
    BY <1>3 DEF HoldsSamples
  <1>8. \A t \in Times : t \in Nat /\ t <= stamp[c]
    BY <1>5, <1>6 DEF Times
  <1>9. Counted(c) = {j \in 1..L : j > L - MaxSamples /\ samples[j].time > stamp[c] - WindowSize}
    BY DEF Counted
  <1> HIDE DEF L, n
  <1>10. lost \in Nat /\ lost <= L
    BY <1>4
  <1>11. ASSUME NEW j \in 1..L, j > lost PROVE j \in Counted(c)
    <2>1. n > 0 /\ lost + 1 \in 1..j /\ lost + 1 \in 1..L /\ j > L - MaxSamples
      BY <1>2, <1>4, <1>11
    <2>2. samples[lost + 1].time <= samples[j].time /\ samples[lost + 1].time > stamp[c] - WindowSize
      BY <1>1, <1>6, <2>1
    <2>3. samples[j].time \in Nat /\ samples[lost + 1].time \in Nat
      BY <1>5, <2>1
    <2>4. samples[j].time > stamp[c] - WindowSize
      BY <1>2, <2>2, <2>3
    <2> QED BY <1>9, <2>1, <2>4
  <1>12. ASSUME NEW j \in 1..L, ~(j > lost) PROVE j \notin Counted(c)
    <2>1. j \in 1..lost
      BY <1>10, <1>12
    <2>2. CASE j <= L - MaxSamples
      BY <1>2, <1>4, <1>9, <2>2
    <2>3. CASE ~(j <= L - MaxSamples)
      <3>1. PICK t \in Times : samples[j].time <= t - WindowSize
        BY <1>7, <2>1, <2>3
      <3>2. t \in Nat /\ t <= stamp[c] /\ samples[j].time \in Nat
        BY <1>5, <1>8
      <3>3. ~(samples[j].time > stamp[c] - WindowSize)
        BY <1>2, <3>1, <3>2
      <3> QED BY <1>9, <3>3
    <2> QED BY <2>2, <2>3
  <1>13. \A j : j \in (lost + 1)..L <=> j \in 1..L /\ j > lost
    BY <1>4, <1>10
  <1>14. Counted(c) = (lost + 1)..L
    <2>1. Counted(c) \subseteq 1..L
      BY <1>9
    <2> HIDE DEF lost
    <2> QED BY <1>11, <1>12, <1>13, <2>1
  <1>15. \A i \in 0..(n - 1) : ring'.slot[Index(ring', i)] = samples[lost + 1 + i]
    BY <1>3 DEF HoldsSamples, L, n
  <1> QED BY <1>3, <1>4, <1>14, <1>15 DEF L, n

(* The tokens in the ring are the tokens of the samples that count.        *)
LEMMA TokensAre ==
    ASSUME MWInv, NEW c \in Clients, Reads(c), InOrder(c)
    PROVE  TotalTokens(ring') =
             Total([j \in 1..Len(samples) |-> IF j \in Counted(c) THEN samples[j].tokens ELSE 0])
  <1> DEFINE L == Len(samples)
             n == ring'.count
             lost == L - n
             s == [j \in 1..L |-> IF j \in Counted(c) THEN samples[j].tokens ELSE 0]
             u == [i \in 1..n |-> ring'.slot[Index(ring', i - 1)].tokens]
  <1>1. /\ n \in Nat /\ n <= L /\ Counted(c) = (lost + 1)..L
        /\ \A i \in 0..(n - 1) : ring'.slot[Index(ring', i)] = samples[lost + 1 + i]
    BY CountedAre
  <1>2. L \in Nat /\ \A j \in 1..L : samples[j].tokens \in Nat
    <2>1. \A j \in 1..L : samples[j] \in Sample
      BY TimesAre DEF MWInv
    <2>2. \A x \in Sample : x.tokens \in Nat
      BY DEF Sample
    <2> QED BY <2>1, <2>2 DEF MWInv
  <1> HIDE DEF L, n
  <1>3. lost \in Nat /\ L = lost + n
    BY <1>1, <1>2
  <1> HIDE DEF lost
  <1>4. \A j \in 1..L : j \in Counted(c) <=> j > lost
    BY <1>1, <1>2, <1>3
  <1>5. s \in [1..L -> Int] /\ \A j \in 1..L : s[j] = IF j \in Counted(c) THEN samples[j].tokens ELSE 0
    BY <1>2
  <1>6. \A i \in 1..n : u[i] = samples[lost + i].tokens
    <2> SUFFICES ASSUME NEW i \in 1..n PROVE u[i] = samples[lost + i].tokens
      OBVIOUS
    <2>1. i - 1 \in 0..(n - 1) /\ lost + 1 + (i - 1) = lost + i
      BY <1>1, <1>3
    <2>2. ring'.slot[Index(ring', i - 1)] = samples[lost + i]
      BY <1>1, <2>1
    <2> QED BY <2>2
  <1>7. u \in [1..n -> Int]
    <2>1. \A i \in 1..n : lost + i \in 1..L
      BY <1>1, <1>3
    <2>2. \A i \in 1..n : u[i] \in Int
      BY <1>2, <1>6, <2>1
    <2> QED BY <2>2
  <1> HIDE DEF s, u
  <1>8. s \in Seq(Int) /\ Len(s) = L /\ u \in Seq(Int) /\ Len(u) = n
    BY <1>1, <1>2, <1>5, <1>7
  <1>9. \A j \in 1..lost : s[j] = 0
    <2>1. \A j \in 1..lost : j \in 1..L /\ ~(j > lost)
      BY <1>1, <1>3
    <2> QED BY <1>4, <1>5, <2>1
  <1>10. \A i \in 1..n : s[lost + i] = u[i]
    <2>1. \A i \in 1..n : lost + i \in 1..L /\ lost + i > lost
      BY <1>1, <1>3
    <2> QED BY <1>4, <1>5, <1>6, <2>1
  <1>11. Total(s) = Total(u)
    BY <1>3, <1>8, <1>9, <1>10, TotalRest
  <1> QED BY <1>11 DEF TotalTokens, s, u, L, n

(* A caller reads a rate in no step but its own.                           *)
LEMMA WhoReads ==
    ASSUME MWInv, MWNext, NEW c \in Clients, at[c] \in {"rpm", "tpm"}, at'[c] # at[c]
    PROVE  (at[c] = "rpm" /\ RPM(c)) \/ (at[c] = "tpm" /\ TPM(c))
  <1>1. at \in [Clients -> {"idle", "add", "rpm", "tpm"}]
    BY DEF MWInv
  <1>2. ASSUME NEW e \in Clients, NEW n \in Tokens, Generate(e, n) PROVE FALSE
    BY <1>1, <1>2 DEF Generate
  <1>3. ASSUME NEW e \in Clients, AddSample(e) PROVE FALSE
    BY <1>1, <1>3 DEF AddSample
  <1>4. ASSUME NEW e \in Clients, RPM(e) PROVE e = c /\ at[c] = "rpm"
    BY <1>1, <1>4 DEF RPM
  <1>5. ASSUME NEW e \in Clients, TPM(e) PROVE e = c /\ at[c] = "tpm"
    BY <1>1, <1>5 DEF TPM
  <1>6. ~(Tick /\ UNCHANGED mwVars)
    BY DEF mwVars
  <1> QED BY <1>2, <1>3, <1>4, <1>5, <1>6 DEF MWNext

(* A rate that is read is the rate of the samples that count.              *)
LEMMA ReportsAre == MWInv /\ [MWNext]_<<now, mwVars>> => [ReportStep]_<<now, mwVars>>
  <1> SUFFICES ASSUME MWInv, MWNext, NEW c \in Clients, InOrder(c)
               PROVE  /\ at[c] = "rpm" /\ at'[c] = "tpm" =>
                           report'[c].calls = Cardinality(Counted(c))
                      /\ at[c] = "tpm" /\ at'[c] = "idle" =>
                           report'[c].tokens =
                             Total([j \in 1..Len(samples) |->
                                       IF j \in Counted(c) THEN samples[j].tokens ELSE 0])
    BY DEF ReportStep
  <1>1. ASSUME at[c] = "rpm", at'[c] = "tpm" PROVE report'[c].calls = Cardinality(Counted(c))
    <2> DEFINE n == ring'.count
               L == Len(samples)
    <2>1. RPM(c)
      BY <1>1, WhoReads
    <2>2. n \in Nat /\ n <= L /\ Counted(c) = (L - n + 1)..L
      BY <2>1, RatesRead, CountedAre
    <2>3. L \in Nat
      BY DEF MWInv
    <2>4. report'[c].calls = n
      BY <2>1 DEF RPM, MWInv
    <2> HIDE DEF n, L
    <2>5. Cardinality((L - n + 1)..L) = n
      <3>1. L - n + 1 \in Int /\ L \in Int
        BY <2>2, <2>3
      <3>2. Cardinality((L - n + 1)..L) = IF L - n + 1 > L THEN 0 ELSE L - (L - n + 1) + 1
        BY <3>1, FS_Interval
      <3>3. (IF L - n + 1 > L THEN 0 ELSE L - (L - n + 1) + 1) = n
        BY <2>2, <2>3
      <3> QED BY <3>2, <3>3
    <2> QED BY <2>2, <2>4, <2>5
  <1>2. ASSUME at[c] = "tpm", at'[c] = "idle"
        PROVE  report'[c].tokens =
                 Total([j \in 1..Len(samples) |->
                           IF j \in Counted(c) THEN samples[j].tokens ELSE 0])
    <2>1. TPM(c)
      BY <1>2, WhoReads
    <2>2. report'[c].tokens = TotalTokens(ring')
      BY <2>1 DEF TPM, MWInv
    <2>3. Reads(c)
      BY <2>1, RatesRead
    <2> QED BY <2>2, <2>3, TokensAre
  <1> QED BY <1>1, <1>2

(* Any number of callers, any window and any capacity: the counter keeps   *)
(* the latest samples in order and loses none that is young, and as long   *)
(* as calls reach the lock in the order of their times it reports exactly  *)
(* the calls and the tokens of the window.                                 *)
THEOREM MetricsAreExact == MWSpec => MetricsExact
  <1>1. MWSpec => []MWInv
    BY MWInvInit, MWInvStep, PTL DEF MWSpec
  <1>2. MWSpec => []RingKeepsYoung
    BY <1>1, YoungAreKept, PTL
  <1>3. MWSpec => [][ReportStep]_<<now, mwVars>>
    BY <1>1, ReportsAre, PTL DEF MWSpec
  <1> QED BY <1>2, <1>3, PTL DEF MetricsExact, ReportExact

-------------------------------------------------------------------------------
\* Hybrid retrieval: the scores.

(* A product divided by one of its factors.                                *)
LEMMA ProductDivided ==
    ASSUME NEW q \in Nat, NEW a \in Nat, a > 0
    PROVE  (q * a) \div a = q
  OBVIOUS

(* The factors of a product may be taken in any order.                     *)
LEMMA ProductOrder ==
    ASSUME NEW q \in Int, NEW a \in Int, NEW b \in Int
    PROVE  (q * a) * b = (q * b) * a
  OBVIOUS

(* A product of positive numbers is positive.                              *)
LEMMA ProductPositive ==
    ASSUME NEW a \in Nat, NEW b \in Nat, a > 0, b > 0
    PROVE  a * b \in Nat /\ a * b > 0
  OBVIOUS

(* The same product with a larger factor has a smaller one.                *)
LEMMA OtherFactor ==
    ASSUME NEW p \in Nat, NEW q \in Nat, NEW a \in Nat, NEW b \in Nat,
           p * a = q * b, a < b, p > 0
    PROVE  q < p
  <1> SUFFICES ASSUME p <= q PROVE FALSE
    OBVIOUS
  <1>1. p * b <= q * b
    OBVIOUS
  <1>2. p * a < p * b
    OBVIOUS
  <1> QED BY <1>1, <1>2

(* Denominator can be divided by every rrfK + rank.                        *)
LEMMA DenominatorIs ==
    /\ Denominator \in Nat /\ Denominator > 0
    /\ \A r \in 1..MaxDocs : \E q \in Nat : q > 0 /\ Denominator = q * (rrfK + r)
  <1> DEFINE N == MaxDocs
             Solves(t) == t = [n \in 0..N |-> IF n = 0 THEN 1 ELSE t[n - 1] * (rrfK + n)]
             g == [n \in 1..N |-> [x \in Int |-> x * (rrfK + n)]]
             u == CHOOSE t : Solves(t)
  <1>1. N \in Nat /\ rrfK \in Nat
    BY HybridAssumption DEF rrfK
  <1> HIDE DEF N
  <1>2. g \in [1..N -> [Int -> Int]]
    <2> SUFFICES ASSUME NEW n \in 1..N PROVE [x \in Int |-> x * (rrfK + n)] \in [Int -> Int]
      OBVIOUS
    <2>1. rrfK + n \in Int
      BY <1>1
    <2> DEFINE a == rrfK + n
    <2> HIDE DEF a
    <2>2. \A x \in Int : x * a \in Int
      BY <2>1 DEF a
    <2> QED BY <2>2 DEF a
  <1>3. \A n \in 1..N, x \in Int : g[n][x] = x * (rrfK + n)
    OBVIOUS
  <1> HIDE DEF g
  <1>4. PICK f : Rounds(f, N, Int, 1, g)
    <2>1. 1 \in Int /\ N \in Nat
      BY <1>1
    <2> QED BY ONLY <1>2, <2>1, RoundsExist
  <1>5. f \in [0..N -> Int] /\ f[0] = 1 /\ \A n \in 1..N : f[n] = f[n - 1] * (rrfK + n)
    <2>1. \A n \in 1..N : n - 1 \in 0..N
      BY <1>1
    <2> QED BY <1>3, <1>4, <2>1 DEF Rounds
  <1>6. Solves(f)
    <2>1. \A n \in 0..N : f[n] = IF n = 0 THEN 1 ELSE f[n - 1] * (rrfK + n)
      BY <1>1, <1>5
    <2> QED BY <1>5, <2>1
  <1>7. Solves(u)
    <2> HIDE DEF Solves
    <2> QED BY <1>6
  <1>8. Denominator = u[N]
    BY DEF Denominator, N
  <1> HIDE DEF u
  <1>9. u[0] = 1 /\ \A n \in 1..N : u[n] = u[n - 1] * (rrfK + n)
    BY <1>1, <1>7
  <1> DEFINE Divides(n, r) == \E q \in Nat : q > 0 /\ u[n] = q * (rrfK + r)
             G == {n \in 0..N : /\ u[n] \in Nat /\ u[n] > 0
                                /\ \A r \in 1..n : Divides(n, r)}
  <1>10. 0 \in G
    <2>1. \A r \in 1..0 : FALSE
      OBVIOUS
    <2>2. u[0] \in Nat /\ u[0] > 0 /\ 0 \in 0..N
      BY <1>1, <1>9
    <2> HIDE DEF Divides
    <2> QED BY <2>1, <2>2
  <1>11. ASSUME NEW n \in 0..(N - 1), n \in G PROVE n + 1 \in G
    <2> DEFINE c == rrfK + (n + 1)
    <2>1. n + 1 \in 1..N /\ n + 1 \in 0..N /\ (n + 1) - 1 = n /\ c \in Nat /\ c > 0
      BY <1>1
    <2>2. u[n + 1] = u[n] * c
      BY <1>9, <2>1
    <2>3. u[n] \in Nat /\ u[n] > 0 /\ \A r \in 1..n : Divides(n, r)
      BY <1>11
    <2> HIDE DEF c
    <2>4. u[n + 1] \in Nat /\ u[n + 1] > 0
      BY <2>1, <2>2, <2>3, ProductPositive
    <2>5. ASSUME NEW r \in 1..(n + 1) PROVE Divides(n + 1, r)
      <3>1. CASE r = n + 1
        BY <2>2, <2>3, <3>1 DEF c
      <3>2. CASE r # n + 1
        <4>1. r \in 1..n /\ rrfK + r \in Int
          BY <1>1, <3>2
        <4>2. PICK q \in Nat : q > 0 /\ u[n] = q * (rrfK + r)
          BY <2>3, <4>1
        <4>3. u[n + 1] = (q * c) * (rrfK + r)
          BY <2>1, <2>2, <4>1, <4>2, ProductOrder
        <4>4. q * c \in Nat /\ q * c > 0
          BY <2>1, <4>2, ProductPositive
        <4> QED BY <4>3, <4>4
      <3> QED BY <3>1, <3>2
    <2> HIDE DEF Divides
    <2> QED BY <2>1, <2>4, <2>5
  <1>12. N \in G => u[N] \in Nat /\ u[N] > 0 /\ \A r \in 1..N : Divides(N, r)
    <2> HIDE DEF Divides
    <2> QED OBVIOUS
  <1>13. N \in G
    <2> HIDE DEF G
    <2>1. \A n \in 0..N : n \in G
      BY <1>1, <1>10, <1>11, Upward
    <2> QED BY <1>1, <2>1
  <1> QED BY <1>8, <1>12, <1>13 DEF N

\* What the position i of a list of this weight is worth.
Worth(weight, i) == (weight * Denominator) \div (rrfK + i)

(* The earlier position is worth more.                                     *)
LEMMA WorthIs ==
    ASSUME NEW w \in Nat
    PROVE  /\ \A i \in 1..MaxDocs : Worth(w, i) \in Nat
           /\ w = 0 => \A i \in 1..MaxDocs : Worth(w, i) = 0
           /\ w > 0 => \A i, j \in 1..MaxDocs : i < j => Worth(w, j) < Worth(w, i)
  <1>1. rrfK \in Nat /\ MaxDocs \in Nat
    BY HybridAssumption DEF rrfK
  <1>2. ASSUME NEW i \in 1..MaxDocs, NEW q \in Nat, q > 0, Denominator = q * (rrfK + i)
        PROVE  Worth(w, i) = w * q /\ w * q \in Nat
    <2> DEFINE a == rrfK + i
    <2>1. a \in Nat /\ a > 0
      BY <1>1
    <2> HIDE DEF a
    <2>2. w * q \in Nat
      OBVIOUS
    <2>3. w * (q * a) = (w * q) * a
      BY <2>1
    <2>4. ((w * q) * a) \div a = w * q
      BY <2>1, <2>2, ProductDivided
    <2>5. Worth(w, i) = (w * (q * a)) \div a
      BY <1>2 DEF Worth, a
    <2> QED BY <2>2, <2>3, <2>4, <2>5
  <1>3. ASSUME NEW i \in 1..MaxDocs PROVE Worth(w, i) \in Nat /\ (w = 0 => Worth(w, i) = 0)
    <2>1. PICK q \in Nat : q > 0 /\ Denominator = q * (rrfK + i)
      BY DenominatorIs
    <2>2. Worth(w, i) = w * q /\ w * q \in Nat
      BY <1>2, <2>1
    <2>3. w = 0 => w * q = 0
      OBVIOUS
    <2> QED BY <2>2, <2>3
  <1>4. ASSUME w > 0, NEW i \in 1..MaxDocs, NEW j \in 1..MaxDocs, i < j
        PROVE  Worth(w, j) < Worth(w, i)
    <2>1. PICK p \in Nat : p > 0 /\ Denominator = p * (rrfK + i)
      BY DenominatorIs
    <2>2. PICK q \in Nat : q > 0 /\ Denominator = q * (rrfK + j)
      BY DenominatorIs
    <2>3. Worth(w, i) = w * p /\ Worth(w, j) = w * q
      BY <1>2, <2>1, <2>2
    <2> DEFINE a == rrfK + i
               b == rrfK + j
    <2>4. a \in Nat /\ b \in Nat /\ a < b
      BY <1>1, <1>4
    <2>5. p * a = q * b
      BY <2>1, <2>2
    <2> HIDE DEF a, b
    <2>6. q < p
      BY <2>1, <2>4, <2>5, OtherFactor
    <2>7. w * q < w * p
      BY <1>4, <2>6
    <2> QED BY <2>3, <2>7
  <1> QED BY <1>3, <1>4

(* The documents in the order of their scores, each once.                  *)
LEMMA SortedIs ==
    ASSUME NEW D, NEW score \in [D -> Int], IsFiniteSet(D), D \subseteq Int
    PROVE  /\ Cardinality(D) \in Nat /\ SortedByScore(score) \in [1..Cardinality(D) -> D]
           /\ \A d \in D : \E i \in 1..Cardinality(D) : SortedByScore(score)[i] = d
           /\ \A i, j \in 1..Cardinality(D) : SortedByScore(score)[i] = SortedByScore(score)[j] => i = j
           /\ \A i, j \in 1..Cardinality(D) :
                 score[SortedByScore(score)[i]] > score[SortedByScore(score)[j]] => i < j
  <1> DEFINE N == Cardinality(D)
             A(d) == Ahead(score, d)
             rank == [d \in D |-> Cardinality(A(d))]
             l == SortedByScore(score)
  <1>1. N \in Nat
    BY FS_CardinalityType
  <1>2. \A d, e \in D : e \in A(d) <=> score[e] > score[d] \/ (score[e] = score[d] /\ e < d)
    BY DEF Ahead
  <1>3. \A d \in D : A(d) \subseteq D /\ d \notin A(d)
    <2>1. \A d \in D : A(d) \subseteq D
      BY DEF Ahead
    <2>2. \A d \in D : score[d] \in Int /\ d \in Int
      OBVIOUS
    <2> HIDE DEF A
    <2> QED BY <1>2, <2>1, <2>2
  <1>4. ASSUME NEW d \in D, NEW e \in D, d \in A(e) PROVE A(d) \subseteq A(e)
    <2>1. score[d] \in Int /\ score[e] \in Int /\ d \in Int /\ e \in Int
      OBVIOUS
    <2> SUFFICES ASSUME NEW x \in A(d) PROVE x \in A(e)
      OBVIOUS
    <2> HIDE DEF A
    <2>2. x \in D
      BY <1>3
    <2>3. score[x] \in Int /\ x \in Int
      BY <2>2
    <2> QED BY <1>2, <1>4, <2>1, <2>2, <2>3
  <1>5. \A d, e \in D : d = e \/ d \in A(e) \/ e \in A(d)
    <2>1. \A d \in D : score[d] \in Int /\ d \in Int
      OBVIOUS
    <2> HIDE DEF A
    <2> QED BY <1>2, <2>1
  <1> HIDE DEF A, N
  <1>6. \A d \in D : rank[d] = Cardinality(A(d)) /\ IsFiniteSet(A(d))
    BY <1>3, FS_Subset
  <1> HIDE DEF rank
  <1>7. ASSUME NEW d \in D PROVE rank[d] \in 0..(N - 1)
    <2>1. Cardinality(A(d)) \in Nat
      BY <1>6, FS_CardinalityType
    <2>2. Cardinality(A(d)) <= N /\ (N = Cardinality(A(d)) => D = A(d))
      BY <1>3, FS_Subset DEF N
    <2>3. D # A(d)
      BY <1>3
    <2> QED BY <1>1, <1>6, <2>1, <2>2, <2>3
  <1>8. ASSUME NEW d \in D, NEW e \in D, d \in A(e) PROVE rank[d] < rank[e]
    <2>1. A(d) \in SUBSET A(e) /\ IsFiniteSet(A(e)) /\ A(e) # A(d)
      BY <1>3, <1>4, <1>6, <1>8
    <2>2. Cardinality(A(d)) <= Cardinality(A(e)) /\ Cardinality(A(e)) # Cardinality(A(d))
      BY <2>1, FS_Subset
    <2>3. rank[d] \in Int /\ rank[e] \in Int
      BY <1>7
    <2> QED BY <1>6, <2>2, <2>3
  <1>9. \A d, e \in D : rank[d] = rank[e] => d = e
    <2>1. \A d, e \in D : d \in A(e) => rank[d] < rank[e]
      BY <1>8
    <2>2. \A d \in D : rank[d] \in Int
      BY <1>7
    <2>3. \A d, e \in D : d \in A(e) => rank[d] # rank[e]
      BY <2>1, <2>2
    <2> QED BY <1>5, <2>3
  <1>10. \A r \in 0..(N - 1) : \E d \in D : rank[d] = r
    <2>1. rank \in [D -> 0..(N - 1)]
      <3>1. rank = [d \in D |-> rank[d]]
        BY DEF rank
      <3> QED BY <1>7, <3>1
    <2>2. rank \in Injection(D, 0..(N - 1))
      BY <1>9, <2>1 DEF Injection, IsInjective
    <2>3. IsFiniteSet(0..(N - 1)) /\ Cardinality(0..(N - 1)) = N
      BY <1>1, FS_Interval
    <2>4. rank \in Surjection(D, 0..(N - 1))
      BY <2>2, <2>3, FS_Injection DEF N
    <2> QED BY <2>4 DEF Surjection
  <1>11. l = [i \in 1..N |-> CHOOSE d \in D : Cardinality(A(d)) = i - 1]
    BY DEF SortedByScore, A, N
  <1> HIDE DEF l
  <1>12. ASSUME NEW i \in 1..N PROVE l[i] \in D /\ rank[l[i]] = i - 1
    <2>1. i - 1 \in 0..(N - 1)
      BY <1>1
    <2>2. PICK d \in D : rank[d] = i - 1
      BY <1>10, <2>1
    <2>3. Cardinality(A(d)) = i - 1
      BY <1>6, <2>2
    <2>4. l[i] = CHOOSE e \in D : Cardinality(A(e)) = i - 1
      BY <1>11
    <2>5. l[i] \in D /\ Cardinality(A(l[i])) = i - 1
      BY <2>3, <2>4
    <2> QED BY <1>6, <2>5
  <1>13. l \in [1..N -> D]
    BY <1>11, <1>12
  <1>14. ASSUME NEW d \in D PROVE \E i \in 1..N : l[i] = d
    <2> DEFINE r == rank[d]
               i == r + 1
    <2>1. r \in 0..(N - 1)
      BY <1>7
    <2> HIDE DEF r
    <2>2. i \in 1..N /\ i - 1 = r
      BY <1>1, <2>1
    <2> HIDE DEF i
    <2> USE DEF r
    <2>3. l[i] \in D /\ rank[l[i]] = rank[d]
      BY <1>12, <2>2
    <2> QED BY <1>9, <2>2, <2>3
  <1>15. ASSUME NEW i \in 1..N, NEW j \in 1..N, l[i] = l[j] PROVE i = j
    <2>1. i - 1 = j - 1
      BY <1>12, <1>15
    <2> QED BY <2>1
  <1>16. ASSUME NEW i \in 1..N, NEW j \in 1..N, score[l[i]] > score[l[j]] PROVE i < j
    <2>1. l[i] \in A(l[j])
      BY <1>2, <1>12, <1>16
    <2>2. i - 1 < j - 1
      BY <1>8, <1>12, <2>1
    <2> QED BY <2>2
  <1> QED BY <1>1, <1>13, <1>14, <1>15, <1>16 DEF l, N

-------------------------------------------------------------------------------
\* Hybrid retrieval: the documents.

(* A list of documents, and their ids in the merged list.                  *)
LEMMA NamedIs ==
    ASSUME NEW list \in Lists, NEW p \in Nat
    PROVE  /\ Len(list) \in 0..MaxDocs /\ DOMAIN list = 1..Len(list)
           /\ \A i \in 1..Len(list) : list[i] \in Ids \cup {Unnamed}
           /\ NamedAs(list, p) \in Seq(Nat) /\ Len(NamedAs(list, p)) = Len(list)
           /\ \A i \in 1..Len(list) :
                 NamedAs(list, p)[i] = IF list[i] = Unnamed THEN p + i - 1 ELSE list[i]
  <1>1. PICK n \in 0..MaxDocs : list \in [1..n -> Ids \cup {Unnamed}]
    BY DEF Lists
  <1>2. n \in Nat /\ MaxDocs \in Nat /\ Ids \subseteq Nat
    BY HybridAssumption
  <1>3. Len(list) = n /\ DOMAIN list = 1..n
    BY <1>1, <1>2
  <1> DEFINE l == NamedAs(list, p)
  <1>4. l = [i \in 1..n |-> IF list[i] = Unnamed THEN p + i - 1 ELSE list[i]]
    BY <1>3 DEF NamedAs
  <1> HIDE DEF l
  <1>5. \A i \in 1..n : l[i] \in Nat
    <2> SUFFICES ASSUME NEW i \in 1..n PROVE l[i] \in Nat
      OBVIOUS
    <2>0. list[i] \in Ids \cup {Unnamed}
      BY <1>1
    <2>1. list[i] \in Nat
      <3>1. Unnamed \in Nat
        BY DEF Unnamed
      <3> QED BY ONLY <1>2, <2>0, <3>1
    <2>2. p + i - 1 \in Nat
      BY <1>2
    <2> QED BY <1>4, <2>1, <2>2
  <1>6. l \in [1..n -> Nat]
    BY <1>4, <1>5
  <1>7. l \in Seq(Nat) /\ Len(l) = n
    BY <1>2, <1>6
  <1> QED BY <1>1, <1>3, <1>4, <1>7 DEF l

\* The positions of a list without an id.
UnnamedIn(list) == {i \in DOMAIN list : list[i] = Unnamed}

(* The ids that a merged list has from one list, with the ids it lacks put *)
(* in: those it has, and one for each document without.                    *)
LEMMA NamedRange ==
    ASSUME NEW list \in Lists, NEW p \in {SemPrefix, KwPrefix}
    PROVE  /\ IsFiniteSet(Range(NamedAs(list, p))) /\ Range(NamedAs(list, p)) \subseteq Nat
           /\ Range(NamedAs(list, p)) =
                 (Range(list) \ {Unnamed}) \cup {p + i - 1 : i \in UnnamedIn(list)}
           /\ Range(list) \ {Unnamed} \subseteq Ids
           /\ {p + i - 1 : i \in UnnamedIn(list)} \subseteq p..(p + MaxDocs - 1)
           /\ IsFiniteSet({p + i - 1 : i \in UnnamedIn(list)})
           /\ Cardinality({p + i - 1 : i \in UnnamedIn(list)}) = Cardinality(UnnamedIn(list))
  <1> DEFINE n == Len(list)
             l == NamedAs(list, p)
             U == UnnamedIn(list)
             P == {p + i - 1 : i \in U}
  <1>1. p \in Nat /\ MaxDocs \in Nat
    BY HybridAssumption DEF SemPrefix, KwPrefix
  <1>2. /\ n \in Nat /\ n <= MaxDocs /\ DOMAIN list = 1..n
        /\ \A i \in 1..n : list[i] \in Ids \cup {Unnamed}
        /\ DOMAIN l = 1..n /\ \A i \in 1..n : l[i] \in Nat
        /\ \A i \in 1..n : l[i] = IF list[i] = Unnamed THEN p + i - 1 ELSE list[i]
    BY <1>1, NamedIs
  <1>3. U = {i \in 1..n : list[i] = Unnamed}
    BY <1>2 DEF UnnamedIn
  <1> HIDE DEF l, U, n
  <1>4. Range(l) = {l[i] : i \in 1..n} /\ Range(list) = {list[i] : i \in 1..n}
    BY <1>2 DEF Range
  <1>5. Range(l) = (Range(list) \ {Unnamed}) \cup P
    <2>1. ASSUME NEW i \in 1..n PROVE l[i] \in (Range(list) \ {Unnamed}) \cup P
      <3>1. CASE list[i] = Unnamed
        <4>1. i \in U /\ l[i] = p + i - 1
          BY <1>2, <1>3, <3>1
        <4> QED BY <4>1
      <3>2. CASE list[i] # Unnamed
        BY <1>2, <1>4, <3>2
      <3> QED BY <3>1, <3>2
    <2>2. ASSUME NEW x \in Range(list) \ {Unnamed} PROVE x \in Range(l)
      <3>1. PICK i \in 1..n : x = list[i]
        BY <1>4
      <3>2. l[i] = x
        BY <1>2, <3>1
      <3> QED BY <1>4, <3>2
    <2>3. ASSUME NEW x \in P PROVE x \in Range(l)
      <3>1. PICK i \in U : x = p + i - 1
        OBVIOUS
      <3>2. i \in 1..n /\ l[i] = x
        BY <1>2, <1>3, <3>1
      <3> QED BY <1>4, <3>2
    <2> QED BY <1>4, <2>1, <2>2, <2>3
  <1>6. Range(list) \ {Unnamed} \subseteq Ids
    BY <1>2, <1>4
  <1>7. P \subseteq p..(p + MaxDocs - 1)
    <2> SUFFICES ASSUME NEW i \in U PROVE p + i - 1 \in p..(p + MaxDocs - 1)
      OBVIOUS
    <2>1. i \in 1..n
      BY <1>3
    <2> QED BY <1>1, <1>2, <2>1
  <1>8. IsFiniteSet(U) /\ IsFiniteSet(1..n)
    <2>1. IsFiniteSet(1..n)
      BY <1>2, FS_Interval
    <2>2. U \in SUBSET (1..n)
      BY <1>3
    <2> QED BY <2>1, <2>2, FS_Subset
  <1>9. IsFiniteSet(P) /\ Cardinality(P) = Cardinality(U)
    <2> DEFINE f == [i \in U |-> p + i - 1]
    <2>1. \A i \in U : i \in Int
      BY <1>3
    <2>2. f \in [U -> P] /\ \A i \in U : f[i] = p + i - 1
      OBVIOUS
    <2> HIDE DEF f
    <2>3. f \in Injection(U, P)
      <3>1. \A i, j \in U : f[i] = f[j] => i = j
        BY <1>1, <2>1, <2>2
      <3> QED BY <2>2, <3>1 DEF Injection, IsInjective
    <2>4. f \in Surjection(U, P)
      BY <2>2 DEF Surjection
    <2>5. ExistsBijection(U, P)
      BY <2>3, <2>4 DEF ExistsBijection, Bijection
    <2> QED BY <1>8, <2>5, FS_Bijection
  <1>10. IsFiniteSet(Range(l)) /\ Range(l) \subseteq Nat
    <2>1. l \in [1..n -> Range(l)]
      <3>1. l = [i \in 1..n |-> l[i]]
        BY <1>2, NamedIs DEF l, NamedAs, n
      <3> QED BY <1>4, <3>1
    <2>2. l \in Surjection(1..n, Range(l))
      BY <1>4, <2>1 DEF Surjection
    <2> QED BY <1>2, <1>4, <1>8, <2>2, FS_Surjection
  <1> QED BY <1>5, <1>6, <1>7, <1>9, <1>10 DEF l, U

\* The merged list of two lists, as the fused list should be.
Fused(docs, sem, key) ==
    /\ \A i, j \in DOMAIN docs : docs[i] = docs[j] => i = j
    /\ Range(docs) = Documents(sem, key)

(* Merge returns all the documents, each once, the better ones first.      *)
LEMMA MergeIs ==
    ASSUME NEW sem \in Lists, NEW key \in Lists
    PROVE  LET score(d) == Score(NamedAs(sem, SemPrefix), NamedAs(key, KwPrefix), d)
               docs == Merge(sem, key)
           IN  (\A d \in Documents(sem, key) : score(d) \in Int)
               => /\ Fused(docs, sem, key)
                  /\ \A i, j \in DOMAIN docs : score(docs[i]) > score(docs[j]) => i < j
                  /\ DOMAIN docs \subseteq Nat
  <1> DEFINE D == Documents(sem, key)
             score(d) == Score(NamedAs(sem, SemPrefix), NamedAs(key, KwPrefix), d)
             table == [d \in D |-> score(d)]
             docs == Merge(sem, key)
             N == Cardinality(D)
  <1> SUFFICES ASSUME \A d \in D : score(d) \in Int
               PROVE  /\ Fused(docs, sem, key)
                      /\ \A i, j \in DOMAIN docs : score(docs[i]) > score(docs[j]) => i < j
                      /\ DOMAIN docs \subseteq Nat
    OBVIOUS
  <1>1. IsFiniteSet(D) /\ D \subseteq Int
    <2>1. /\ IsFiniteSet(Range(NamedAs(sem, SemPrefix))) /\ Range(NamedAs(sem, SemPrefix)) \subseteq Nat
          /\ IsFiniteSet(Range(NamedAs(key, KwPrefix))) /\ Range(NamedAs(key, KwPrefix)) \subseteq Nat
      BY NamedRange
    <2>2. IsFiniteSet(D)
      BY <2>1, FS_Union DEF Documents
    <2>3. D \subseteq Nat
      BY <2>1 DEF Documents
    <2> HIDE DEF D
    <2> QED BY <2>2, <2>3
  <1>2. docs = SortedByScore(table)
    BY DEF Merge
  <1> HIDE DEF docs, score, D
  <1>3. table \in [D -> Int] /\ \A d \in D : table[d] = score(d)
    OBVIOUS
  <1> HIDE DEF table
  <1>4. /\ N \in Nat /\ docs \in [1..N -> D]
        /\ \A d \in D : \E i \in 1..N : docs[i] = d
        /\ \A i, j \in 1..N : docs[i] = docs[j] => i = j
        /\ \A i, j \in 1..N : table[docs[i]] > table[docs[j]] => i < j
    <2>1. /\ Cardinality(D) \in Nat /\ SortedByScore(table) \in [1..Cardinality(D) -> D]
          /\ \A d \in D : \E i \in 1..Cardinality(D) : SortedByScore(table)[i] = d
          /\ \A i, j \in 1..Cardinality(D) : SortedByScore(table)[i] = SortedByScore(table)[j] => i = j
          /\ \A i, j \in 1..Cardinality(D) :
                table[SortedByScore(table)[i]] > table[SortedByScore(table)[j]] => i < j
      BY ONLY <1>1, <1>3, SortedIs
    <2> QED BY <1>2, <2>1
  <1> HIDE DEF N
  <1>5. DOMAIN docs = 1..N /\ \A i \in 1..N : docs[i] \in D
    BY <1>4
  <1>6. Range(docs) = D
    BY <1>4, <1>5 DEF Range
  <1>7. \A i, j \in DOMAIN docs : score(docs[i]) > score(docs[j]) => i < j
    BY <1>3, <1>4, <1>5
  <1>8. Fused(docs, sem, key)
    BY <1>4, <1>5, <1>6 DEF Fused, D
  <1> QED BY <1>5, <1>7, <1>8

(* What one list adds to a document's score.                               *)
LEMMA ShareIs ==
    ASSUME NEW list \in Seq(Nat), Len(list) <= MaxDocs, NEW w \in Nat, NEW id
    PROVE  LET s == contrib(list, w, id)
           IN  /\ s \in Seq(Int) /\ Len(s) = Len(list)
               /\ \A i \in 1..Len(list) : s[i] = IF list[i] = id THEN Worth(w, i) ELSE 0
               /\ \A i \in 1..Len(list) : s[i] \in Nat
               /\ Total(s) \in Int
  <1> DEFINE n == Len(list)
             s == contrib(list, w, id)
  <1>1. n \in Nat /\ MaxDocs \in Nat /\ n <= MaxDocs
    BY HybridAssumption
  <1>2. s = [i \in 1..n |-> IF list[i] = id THEN Worth(w, i) ELSE 0]
    BY DEF contrib, Worth
  <1> HIDE DEF s, n
  <1>3. \A i \in 1..n : s[i] \in Nat
    <2>1. \A i \in 1..n : i \in 1..MaxDocs
      BY <1>1
    <2> QED BY <1>2, <2>1, WorthIs
  <1>4. s \in [1..n -> Int]
    BY <1>2, <1>3
  <1>5. s \in Seq(Int) /\ Len(s) = n
    BY <1>1, <1>4
  <1>6. Total(s) \in Int
    <2>1. PICK t : Sums(t, s) /\ Total(s) = t[n]
      BY <1>5, TotalIs
    <2> QED BY <1>1, <1>5, <2>1 DEF Sums
  <1> QED BY <1>2, <1>3, <1>5, <1>6 DEF s, n

(* A document with an id has the same places under its id in the merged    *)
(* list as in the list it came in.                                         *)
LEMMA SamePlaces ==
    ASSUME NEW list \in Lists, NEW p \in {SemPrefix, KwPrefix}, NEW x \in Ids
    PROVE  /\ \A i \in 1..Len(list) : NamedAs(list, p)[i] = x <=> list[i] = x
           /\ x \in Range(list) <=> \E i \in 1..Len(list) : list[i] = x
  <1>1. p \in Nat /\ p >= 50 /\ x \in 1..49 /\ x # Unnamed
    BY HybridAssumption DEF SemPrefix, KwPrefix, Unnamed
  <1>2. /\ DOMAIN list = 1..Len(list) /\ Len(list) \in Nat
        /\ \A i \in 1..Len(list) :
              NamedAs(list, p)[i] = IF list[i] = Unnamed THEN p + i - 1 ELSE list[i]
    BY <1>1, NamedIs
  <1>3. ASSUME NEW i \in 1..Len(list) PROVE p + i - 1 # x
    BY <1>1, <1>2
  <1>4. \A i \in 1..Len(list) : NamedAs(list, p)[i] = x <=> list[i] = x
    BY <1>1, <1>2, <1>3
  <1>5. x \in Range(list) <=> \E i \in 1..Len(list) : list[i] = x
    BY <1>2 DEF Range
  <1> QED BY <1>4, <1>5

\* y, if it is in a list that counts, is there once and behind x.
Behind(list, w, x, y) ==
    w > 0 /\ y \in Range(list) =>
      x \in Range(list) /\ Once(list, y) /\ RankIn(list, x) < RankIn(list, y)

(* A list gives a document that stands behind another one less than that   *)
(* one, if it gives it anything.                                           *)
LEMMA SharesCompare ==
    ASSUME NEW list \in Lists, NEW p \in {SemPrefix, KwPrefix}, NEW w \in Nat,
           NEW x \in Ids, NEW y \in Ids, Behind(list, w, x, y)
    PROVE  LET sx == Total(contrib(NamedAs(list, p), w, x))
               sy == Total(contrib(NamedAs(list, p), w, y))
           IN  sy <= sx /\ (w > 0 /\ y \in Range(list) => sy < sx)
  <1> DEFINE n == Len(list)
             l == NamedAs(list, p)
             cx == contrib(l, w, x)
             cy == contrib(l, w, y)
  <1>1. p \in Nat /\ MaxDocs \in Nat
    BY HybridAssumption DEF SemPrefix, KwPrefix
  <1>2. n \in 0..MaxDocs /\ l \in Seq(Nat) /\ Len(l) = n /\ DOMAIN list = 1..n
    BY <1>1, NamedIs
  <1>3. \A i \in 1..n : (l[i] = x <=> list[i] = x) /\ (l[i] = y <=> list[i] = y)
    BY SamePlaces
  <1>4. (x \in Range(list) => \E i \in 1..n : list[i] = x)
        /\ (y \in Range(list) <=> \E i \in 1..n : list[i] = y)
    BY SamePlaces
  <1> HIDE DEF l, n
  <1>5. /\ cx \in Seq(Int) /\ Len(cx) = n /\ Total(cx) \in Int
        /\ \A i \in 1..n : cx[i] \in Nat /\ cx[i] = IF l[i] = x THEN Worth(w, i) ELSE 0
    BY <1>1, <1>2, ShareIs
  <1>6. /\ cy \in Seq(Int) /\ Len(cy) = n /\ Total(cy) \in Int
        /\ \A i \in 1..n : cy[i] \in Nat /\ cy[i] = IF l[i] = y THEN Worth(w, i) ELSE 0
    BY <1>1, <1>2, ShareIs
  <1>7. \A i \in 1..n : i \in 1..MaxDocs
    BY <1>1, <1>2
  <1> HIDE DEF cx, cy
  <1>8. CASE w > 0 /\ y \in Range(list)
    <2>1. Once(list, y) /\ RankIn(list, x) < RankIn(list, y) /\ x \in Range(list)
      BY <1>8 DEF Behind
    <2> DEFINE P(z) == {i \in 1..n : list[i] = z}
               First(z, i) == i \in 1..n /\ list[i] = z /\ \A j \in 1..n : list[j] = z => i <= j
    <2>2. P(x) # {} /\ P(y) # {}
      BY <1>4, <1>8, <2>1
    <2>3. ASSUME NEW z, P(z) # {} PROVE First(z, RankIn(list, z))
      <3>1. P(z) \subseteq Nat
        BY <1>2
      <3>2. PICK i \in P(z) : \A j \in P(z) : i <= j
        <4> HIDE DEF P
        <4> QED BY <2>3, <3>1, LeastNumber
      <3>3. First(z, i)
        BY <3>2
      <3>4. RankIn(list, z) = CHOOSE k \in 1..n : list[k] = z /\ \A j \in 1..n : list[j] = z => k <= j
        BY <1>2 DEF RankIn
      <3> QED BY <3>3, <3>4
    <2>4. First(x, RankIn(list, x)) /\ First(y, RankIn(list, y))
      BY <2>2, <2>3
    <2>5. PICK a \in 1..n, b \in 1..n : list[a] = x /\ list[b] = y /\ a < b
      BY <2>1, <2>4
    <2>6. Worth(w, b) < Worth(w, a) /\ Worth(w, a) \in Nat /\ Worth(w, b) \in Nat
      BY <1>7, <1>8, <2>5, WorthIs
    <2>7. cx[a] = Worth(w, a) /\ cy[b] = Worth(w, b)
      BY <1>3, <1>5, <1>6, <2>5
    <2>8. \A i \in 1..n : i # b => cy[i] = 0
      <3>1. \A i \in 1..n : list[i] = y => i = b
        BY <1>2, <2>1, <2>5 DEF Once
      <3> QED BY <1>3, <1>6, <3>1
    <2>9. Total(cy) = cy[b]
      <3>1. \A i \in 1..Len(cy) : cy[i] >= 0
        BY <1>6
      <3> QED BY <1>6, <2>5, <2>8, <3>1, TotalOne
    <2>10. cx[a] <= Total(cx)
      <3>1. \A i \in 1..Len(cx) : cx[i] >= 0
        BY <1>5
      <3> QED BY <1>5, <2>5, <3>1, TotalOne
    <2>11. Total(cy) < Total(cx)
      BY <1>5, <2>6, <2>7, <2>9, <2>10
    <2> QED BY <1>5, <1>6, <2>11 DEF cx, cy, l
  <1>9. CASE ~(w > 0 /\ y \in Range(list))
    <2>1. \A i \in 1..n : cy[i] = 0
      <3>1. CASE w = 0
        BY <1>6, <1>7, <3>1, WorthIs
      <3>2. CASE w # 0
        BY <1>3, <1>4, <1>6, <1>9, <3>2
      <3> QED BY <3>1, <3>2
    <2>2. \A i \in 1..n : cy[i] <= cx[i]
      BY <1>5, <2>1
    <2>3. Total(cy) <= Total(cx)
      BY <1>5, <1>6, <2>2, TotalGrows
    <2> QED BY <1>9, <2>3 DEF cx, cy, l
  <1> QED BY <1>8, <1>9

(* Every document of two lists has a score.                                *)
LEMMA ScoreIs ==
    ASSUME NEW sem \in Lists, NEW key \in Lists, NEW d
    PROVE  /\ sw \in Nat /\ kw \in Nat
           /\ Total(contrib(NamedAs(sem, SemPrefix), sw, d)) \in Int
           /\ Total(contrib(NamedAs(key, KwPrefix), kw, d)) \in Int
           /\ Score(NamedAs(sem, SemPrefix), NamedAs(key, KwPrefix), d) \in Int
  <1>1. sw \in Nat /\ kw \in Nat /\ SemPrefix \in Nat /\ KwPrefix \in Nat /\ MaxDocs \in Nat
    BY HybridAssumption DEF sw, kw, SemPrefix, KwPrefix
  <1>2. /\ NamedAs(sem, SemPrefix) \in Seq(Nat) /\ Len(NamedAs(sem, SemPrefix)) <= MaxDocs
        /\ NamedAs(key, KwPrefix) \in Seq(Nat) /\ Len(NamedAs(key, KwPrefix)) <= MaxDocs
    BY <1>1, NamedIs
  <1>3. /\ Total(contrib(NamedAs(sem, SemPrefix), sw, d)) \in Int
        /\ Total(contrib(NamedAs(key, KwPrefix), kw, d)) \in Int
    BY <1>1, <1>2, ShareIs
  <1> QED BY <1>1, <1>3 DEF Score

-------------------------------------------------------------------------------
\* Hybrid retrieval: what Retrieve returns.

\* Once Retrieve has returned, neither search is running any more, so what it
\* returned is still what the searches have found.
HybridInv ==
    /\ found \in [Searches -> Lists] /\ err \in [Searches -> BOOLEAN]
    /\ running \subseteq Searches
    /\ result = Waiting \/ (running = {} /\ result = Outcome)

(* HybridInv holds before the searches start and in each of their steps.   *)
LEMMA HybridInvHolds ==
    /\ HybridInit => HybridInv
    /\ HybridInv /\ [HybridNext]_hybridVars => HybridInv'
  <1>1. HybridInit => HybridInv
    <2>1. <<>> \in Lists
      <3>1. 0 \in 0..MaxDocs /\ <<>> \in [1..0 -> Ids \cup {Unnamed}]
        BY HybridAssumption
      <3> QED BY <3>1 DEF Lists
    <2> QED BY <2>1 DEF HybridInit, HybridInv
  <1>2. ASSUME HybridInv, [HybridNext]_hybridVars PROVE HybridInv'
    <2>1. CASE UNCHANGED hybridVars
      BY <1>2, <2>1 DEF HybridInv, hybridVars, Outcome
    <2>2. ASSUME NEW s \in Searches, SearchFails(s) PROVE HybridInv'
      BY <1>2, <2>2 DEF HybridInv, SearchFails
    <2>3. ASSUME NEW s \in Searches, NEW list \in Lists, Search(s, list) PROVE HybridInv'
      BY <1>2, <2>3 DEF HybridInv, Search
    <2>4. CASE Retrieve
      BY <1>2, <2>4 DEF HybridInv, Retrieve, Joined, Outcome
    <2> QED BY <1>2, <2>1, <2>2, <2>3, <2>4 DEF HybridNext
  <1> QED BY <1>1, <1>2

(* A result with documents is the merged list of both searches.            *)
LEMMA ReturnedIs ==
    ASSUME HybridInv, Returned
    PROVE  /\ ~ err["semantic"] /\ ~ err["keyword"]
           /\ found["semantic"] \in Lists /\ found["keyword"] \in Lists
           /\ HasMerger => result.docs = Merge(found["semantic"], found["keyword"])
  <1>1. found["semantic"] \in Lists /\ found["keyword"] \in Lists
        /\ err["semantic"] \in BOOLEAN /\ err["keyword"] \in BOOLEAN
    BY DEF HybridInv, Searches
  <1>2. result = Outcome
    BY DEF HybridInv, Returned, Waiting
  <1>3. ~ err["semantic"] /\ ~ err["keyword"]
    BY <1>1, <1>2 DEF Returned, Outcome, Failed
  <1>4. HasMerger => result = Ok(Merge(found["semantic"], found["keyword"]))
    BY <1>2, <1>3 DEF Outcome
  <1> QED BY <1>1, <1>3, <1>4 DEF Ok

(* The merged list has each document once, whether it has an id or not.    *)
LEMMA DocumentsOnce == HybridInv => EachDocumentOnce
  <1> DEFINE S == found["semantic"]
             W == found["keyword"]
             docs == result.docs
             Put == KwPrefix..(SemPrefix + MaxDocs)
             PS == {SemPrefix + i - 1 : i \in UnnamedIn(S)}
             PW == {KwPrefix + i - 1 : i \in UnnamedIn(W)}
             NS == Range(S) \ {Unnamed}
             NW == Range(W) \ {Unnamed}
  <1> SUFFICES ASSUME HybridInv, Returned
               PROVE  /\ ~ err["semantic"] /\ ~ err["keyword"]
                      /\ HasMerger =>
                           /\ \A i, j \in DOMAIN docs : docs[i] = docs[j] => i = j
                           /\ Range(docs) \ Put = (Range(S) \union Range(W)) \ {Unnamed}
                           /\ Cardinality(Range(docs) \intersect Put)
                                = Cardinality(UnnamedIn(S)) + Cardinality(UnnamedIn(W))
    BY DEF EachDocumentOnce, UnnamedIn
  <1>1. /\ ~ err["semantic"] /\ ~ err["keyword"] /\ S \in Lists /\ W \in Lists
        /\ HasMerger => docs = Merge(S, W)
    BY ReturnedIs
  <1>2. ASSUME HasMerger
        PROVE  /\ \A i, j \in DOMAIN docs : docs[i] = docs[j] => i = j
               /\ Range(docs) = Documents(S, W)
    <2>1. Fused(Merge(S, W), S, W)
      <3> HIDE DEF S, W
      <3> QED BY <1>1, MergeIs, ScoreIs
    <2> QED BY <1>1, <1>2, <2>1 DEF Fused
  <1> HIDE DEF S, W, docs, PS, PW
  <1>3. /\ Range(NamedAs(S, SemPrefix)) = NS \cup PS /\ NS \subseteq Ids
        /\ PS \subseteq SemPrefix..(SemPrefix + MaxDocs - 1)
        /\ IsFiniteSet(PS) /\ Cardinality(PS) = Cardinality(UnnamedIn(S))
    BY <1>1, NamedRange DEF PS
  <1>4. /\ Range(NamedAs(W, KwPrefix)) = NW \cup PW /\ NW \subseteq Ids
        /\ PW \subseteq KwPrefix..(KwPrefix + MaxDocs - 1)
        /\ IsFiniteSet(PW) /\ Cardinality(PW) = Cardinality(UnnamedIn(W))
    BY <1>1, NamedRange DEF PW
  <1>5. Documents(S, W) = (NS \cup NW) \cup (PS \cup PW)
    BY <1>3, <1>4 DEF Documents
  <1>6. /\ \A x \in Ids : x \notin Put
        /\ \A x \in SemPrefix..(SemPrefix + MaxDocs - 1) : x \in Put /\ x >= SemPrefix
        /\ \A x \in KwPrefix..(KwPrefix + MaxDocs - 1) : x \in Put /\ ~(x >= SemPrefix)
    BY HybridAssumption DEF SemPrefix, KwPrefix
  <1> HIDE DEF NS, NW, Put
  <1>7. Documents(S, W) \ Put = NS \cup NW /\ Documents(S, W) \intersect Put = PS \cup PW
    BY <1>3, <1>4, <1>5, <1>6
  <1>8. Cardinality(PS \cup PW) = Cardinality(PS) + Cardinality(PW)
    <2>1. PS \cap PW = {}
      BY <1>3, <1>4, <1>6
    <2>2. Cardinality(PS \cup PW) = Cardinality(PS) + Cardinality(PW) - Cardinality(PS \cap PW)
      BY <1>3, <1>4, FS_Union
    <2>3. Cardinality({}) = 0 /\ Cardinality(PS) \in Nat /\ Cardinality(PW) \in Nat
      BY <1>3, <1>4, FS_EmptySet, FS_CardinalityType
    <2>4. Cardinality(PS \cap PW) = 0
      BY ONLY <2>1, <2>3
    <2> DEFINE a == Cardinality(PS)
               b == Cardinality(PW)
    <2>5. Cardinality(PS \cup PW) = a + b - 0 /\ a \in Nat /\ b \in Nat
      BY ONLY <2>2, <2>3, <2>4
    <2> HIDE DEF a, b
    <2>6. Cardinality(PS \cup PW) = a + b
      BY ONLY <2>5
    <2> QED BY <2>6 DEF a, b
  <1>9. NS \cup NW = (Range(S) \union Range(W)) \ {Unnamed}
    BY DEF NS, NW
  <1> QED BY <1>1, <1>2, <1>3, <1>4, <1>7, <1>8, <1>9

(* What comes first in the lists that count comes first in the merged one. *)
LEMMA PreferencesKept == HybridInv => PreferenceKept
  <1> DEFINE S == found["semantic"]
             W == found["keyword"]
             docs == result.docs
             score(d) == Score(NamedAs(S, SemPrefix), NamedAs(W, KwPrefix), d)
  <1> SUFFICES ASSUME HybridInv, Returned, HasMerger,
                      NEW x \in Range(docs) \intersect Ids, NEW y \in Range(docs) \intersect Ids,
                      Votes(y) # {},
                      \A s \in Votes(y) : /\ x \in Range(found[s])
                                          /\ Once(found[s], y)
                                          /\ RankIn(found[s], x) < RankIn(found[s], y)
               PROVE  Position(x) < Position(y)
    BY DEF PreferenceKept
  <1>1. S \in Lists /\ W \in Lists /\ docs = Merge(S, W)
    BY ReturnedIs
  <1>2. sw \in Nat /\ kw \in Nat /\ x \in Ids /\ y \in Ids
    BY <1>1, ScoreIs
  <1>3. Behind(S, sw, x, y) /\ Behind(W, kw, x, y)
    BY DEF Behind, Votes, Searches, Weight
  <1>4. (sw > 0 /\ y \in Range(S)) \/ (kw > 0 /\ y \in Range(W))
    BY DEF Votes, Searches, Weight
  <1> DEFINE sx == Total(contrib(NamedAs(S, SemPrefix), sw, x))
             sy == Total(contrib(NamedAs(S, SemPrefix), sw, y))
             wx == Total(contrib(NamedAs(W, KwPrefix), kw, x))
             wy == Total(contrib(NamedAs(W, KwPrefix), kw, y))
  <1> HIDE DEF S, W
  <1>5. {sx, sy, wx, wy} \subseteq Int /\ \A d : score(d) \in Int
    BY <1>1, ScoreIs
  <1>6. score(x) = sx + wx /\ score(y) = sy + wy
    BY DEF Score
  <1>7. sy <= sx /\ (sw > 0 /\ y \in Range(S) => sy < sx)
    BY <1>1, <1>2, <1>3, SharesCompare
  <1>8. wy <= wx /\ (kw > 0 /\ y \in Range(W) => wy < wx)
    BY <1>1, <1>2, <1>3, SharesCompare
  <1> HIDE DEF sx, sy, wx, wy
  <1>9. score(x) > score(y)
    BY <1>4, <1>5, <1>6, <1>7, <1>8
  <1>10. /\ \A i, j \in DOMAIN docs : score(docs[i]) > score(docs[j]) => i < j
    <2> HIDE DEF docs
    <2> QED BY <1>1, <1>5, MergeIs
  <1>11. /\ Position(x) \in DOMAIN docs /\ docs[Position(x)] = x
         /\ Position(y) \in DOMAIN docs /\ docs[Position(y)] = y
    <2>1. \A z \in Range(docs) : Position(z) \in DOMAIN docs /\ docs[Position(z)] = z
      BY DEF Position, Range
    <2> QED BY <2>1
  <1> HIDE DEF score, docs
  <1> QED BY <1>9, <1>10, <1>11

(* HybridRetriever.Retrieve with its two searches in any order, for all    *)
(* lists, any K and any weights of RRFMerger: both searches have ended, a  *)
(* failure is reported, every document is there exactly once, and what all *)
(* lists that count agree on stays as it is.                               *)
THEOREM FusionIsExact == HybridSpec => []FusionExact
  <1>1. HybridInv => FusionExact
    BY DocumentsOnce, PreferencesKept DEF FusionExact
  <1> QED BY <1>1, HybridInvHolds, PTL DEF HybridSpec
===============================================================================
