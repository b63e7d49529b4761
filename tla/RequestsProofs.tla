---------------------------- MODULE RequestsProofs ----------------------------
(***************************************************************************)
(* What the clients of the providers make of a conversation, for every     *)
(* conversation, and the facts that other proofs rest on too: induction    *)
(* over numbers, and what FlattenSeq, SelectIn and Total return.           *)
(***************************************************************************)
EXTENDS Requests, SequenceTheorems, WellFoundedInduction, TLAPS

(* A set of numbers that is not empty has a least one.                     *)
LEMMA LeastNumber ==
    ASSUME NEW S, S \subseteq Nat, S # {}
    PROVE  \E x \in S : \A y \in S : x <= y
  <1> DEFINE Less == OpToRel(<, Nat)
  <1>1. PICK x \in S : \A y \in S : ~(<<y, x>> \in Less)
    BY NatLessThanWellFounded, WFMin
  <1>2. \A y \in S : y < x => <<y, x>> \in Less
    BY DEF OpToRel
  <1> HIDE DEF Less
  <1>3. \A y \in S : ~(y < x)
    BY <1>1, <1>2
  <1>4. \A y \in S : x <= y
    BY <1>3
  <1> QED BY <1>4

(* What holds of 0 and, up to N, of the next number, holds up to N.        *)
LEMMA Upward ==
    ASSUME NEW N \in Nat, NEW S, 0 \in S,
           \A n \in 0..(N - 1) : n \in S => n + 1 \in S
    PROVE  \A n \in 0..N : n \in S
  <1> DEFINE B == {n \in 0..N : n \notin S}
  <1>1. SUFFICES ASSUME B # {} PROVE FALSE
    OBVIOUS
  <1>2. PICK m \in B : \A y \in B : m <= y
    <2>1. B \subseteq Nat
      OBVIOUS
    <2> HIDE DEF B
    <2> QED BY <1>1, <2>1, LeastNumber
  <1>3. m \in 0..N /\ m \notin S /\ m # 0
    BY <1>2
  <1>4. m - 1 \in 0..(N - 1) /\ m - 1 \in 0..N /\ (m - 1) + 1 = m /\ ~(m <= m - 1)
    BY <1>3
  <1>5. m - 1 \in S
    BY <1>2, <1>4
  <1> HIDE DEF B
  <1> QED BY <1>3, <1>4, <1>5

(* The same from N down to 0.                                              *)
LEMMA Downward ==
    ASSUME NEW N \in Nat, NEW S, N \in S,
           \A n \in 1..N : n \in S => n - 1 \in S
    PROVE  \A n \in 0..N : n \in S
  <1> DEFINE R == {n \in 0..N : N - n \in S}
  <1>1. 0 \in R /\ N - 0 = N
    OBVIOUS
  <1>2. ASSUME NEW n \in 0..(N - 1), n \in R PROVE n + 1 \in R
    <2>1. N - n \in 1..N /\ (N - n) - 1 = N - (n + 1) /\ n + 1 \in 0..N
      BY <1>2
    <2>2. (N - n) - 1 \in S
      BY <1>2, <2>1
    <2> QED BY <2>1, <2>2
  <1> HIDE DEF R
  <1>3. \A n \in 0..N : n \in R
    BY <1>1, <1>2, Upward
  <1>4. ASSUME NEW n \in 0..N PROVE n \in S
    <2>1. N - n \in 0..N /\ N - (N - n) = n
      OBVIOUS
    <2>2. N - n \in R
      BY <1>3, <2>1
    <2> QED BY <2>1, <2>2 DEF R
  <1> QED BY <1>4

-------------------------------------------------------------------------------
\* FlattenSeq.

(* Concatenation, as the fact that a step instantiates.                    *)
LEMMA ConcatIs ==
    ASSUME NEW T
    PROVE  \A s, t \in Seq(T) :
             /\ s \o t \in Seq(T) /\ Len(s \o t) = Len(s) + Len(t)
             /\ \A i \in 1..(Len(s) + Len(t)) :
                  (s \o t)[i] = IF i <= Len(s) THEN s[i] ELSE t[i - Len(s)]
  OBVIOUS

\* k is what FlattenSeq has put together after each element of ss.
Flattens(k, ss) ==
    k = [n \in 1..Len(ss) |-> IF n = 1 THEN ss[n] ELSE k[n - 1] \o ss[n]]

(* What it has put together up to n does not depend on what comes after.   *)
LEMMA FlattensAgree ==
    ASSUME NEW T, NEW ss \in Seq(T), NEW tt \in Seq(T), Len(ss) <= Len(tt),
           \A i \in 1..Len(ss) : ss[i] = tt[i],
           NEW k, NEW l, Flattens(k, ss), Flattens(l, tt)
    PROVE  \A n \in 1..Len(ss) : k[n] = l[n]
  <1> DEFINE G == {n \in 0..Len(ss) : n = 0 \/ k[n] = l[n]}
  <1>1. Len(ss) \in Nat /\ Len(tt) \in Nat
    OBVIOUS
  <1>2. ASSUME NEW n \in 0..(Len(ss) - 1), n = 0 \/ k[n] = l[n]
        PROVE  n + 1 \in 0..Len(ss) /\ k[n + 1] = l[n + 1]
    <2>1. /\ n + 1 \in 0..Len(ss) /\ n + 1 \in 1..Len(ss) /\ n + 1 \in 1..Len(tt)
          /\ (n + 1) - 1 = n /\ (n + 1 = 1 <=> n = 0)
      BY <1>1, <1>2
    <2>2. k[n + 1] = IF n = 0 THEN ss[n + 1] ELSE k[n] \o ss[n + 1]
      <3>1. k[n + 1] = IF n + 1 = 1 THEN ss[n + 1] ELSE k[(n + 1) - 1] \o ss[n + 1]
        BY ONLY Flattens(k, ss), n + 1 \in 1..Len(ss), <2>1 DEF Flattens
      <3> QED BY ONLY <2>1, <3>1
    <2>3. l[n + 1] = IF n = 0 THEN tt[n + 1] ELSE l[n] \o tt[n + 1]
      <3>1. l[n + 1] = IF n + 1 = 1 THEN tt[n + 1] ELSE l[(n + 1) - 1] \o tt[n + 1]
        BY ONLY Flattens(l, tt), n + 1 \in 1..Len(tt), <2>1 DEF Flattens
      <3> QED BY ONLY <2>1, <3>1
    <2> QED BY <1>2, <2>1, <2>2, <2>3
  <1>3. 0 \in G /\ \A n \in 0..(Len(ss) - 1) : n \in G => n + 1 \in G
    BY <1>1, <1>2
  <1>4. \A n \in 0..Len(ss) : n \in G
    <2> HIDE DEF G
    <2> QED BY <1>1, <1>3, Upward
  <1>5. \A n \in 1..Len(ss) : n \in 0..Len(ss) /\ n # 0
    BY <1>1
  <1> QED BY <1>4, <1>5

(* FlattenSeq has a result.                                                *)
LEMMA FlattensExists ==
    ASSUME NEW T, NEW ss \in Seq(T)
    PROVE  \E k : Flattens(k, ss)
  <1> DEFINE N == Len(ss)
             D == 1..N
             Step(f, n) == IF n = 1 THEN ss[n] ELSE f[n - 1] \o ss[n]
             UpTo(f, m) == DOMAIN f = D /\ f = [i \in D |-> f[i]] /\ \A n \in 1..m : f[n] = Step(f, n)
             G == {m \in 0..N : \E f : UpTo(f, m)}
  <1>1. N \in Nat
    OBVIOUS
  <1>2. 0 \in G
    <2> DEFINE f == [i \in D |-> 0]
    <2>1. \A n \in 1..0 : FALSE
      OBVIOUS
    <2>2. UpTo(f, 0)
      BY <2>1
    <2>3. 0 \in 0..N /\ \E h : UpTo(h, 0)
      <3> HIDE DEF f, UpTo
      <3> QED BY <1>1, <2>2
    <2> QED BY <2>3
  <1>3. ASSUME NEW m \in 0..(N - 1), m \in G PROVE m + 1 \in G
    <2>1. PICK f : UpTo(f, m)
      BY <1>3
    <2> DEFINE g == [f EXCEPT ![m + 1] = Step(f, m + 1)]
    <2>2. m + 1 \in D /\ m + 1 \in 0..N
      BY <1>1
    <2>3. DOMAIN g = D /\ g = [i \in D |-> g[i]] /\ g[m + 1] = Step(f, m + 1)
          /\ \A i \in D : i # m + 1 => g[i] = f[i]
      BY <2>1, <2>2
    <2> HIDE DEF g
    <2>4. ASSUME NEW n \in 1..(m + 1) PROVE g[n] = Step(g, n)
      <3>1. n \in D /\ (n # 1 => n - 1 \in D /\ n - 1 # m + 1)
        BY <1>1, <2>2, <2>4
      <3>2. Step(f, n) = Step(g, n)
        BY <2>3, <3>1
      <3>3. CASE n = m + 1
        BY <2>3, <3>2, <3>3
      <3>4. CASE n # m + 1
        <4>1. n \in 1..m
          BY <1>1, <2>4, <3>4
        <4>2. f[n] = Step(f, n) /\ g[n] = f[n]
          BY <2>1, <2>3, <3>1, <3>4, <4>1
        <4> QED BY <3>2, <4>2
      <3> QED BY <3>3, <3>4
    <2>5. UpTo(g, m + 1)
      BY <2>3, <2>4
    <2> QED BY <2>2, <2>5
  <1>4. N \in G
    <2> HIDE DEF G
    <2>1. \A n \in 0..N : n \in G
      BY <1>1, <1>2, <1>3, Upward
    <2> QED BY <1>1, <2>1
  <1>5. PICK f : UpTo(f, N)
    BY <1>4
  <1>6. f = [n \in D |-> Step(f, n)]
    BY <1>5
  <1> QED BY <1>6 DEF Flattens

(* FlattenSeq is what has been put together in the end.                    *)
LEMMA FlattenIs ==
    ASSUME NEW T, NEW ss \in Seq(T)
    PROVE  /\ Len(ss) = 0 => FlattenSeq(ss) = <<>>
           /\ Len(ss) # 0 => \E k : Flattens(k, ss) /\ FlattenSeq(ss) = k[Len(ss)]
  <1> DEFINE k == CHOOSE h : Flattens(h, ss)
  <1>1. Flattens(k, ss)
    BY FlattensExists
  <1>2. Len(ss) = 0 => FlattenSeq(ss) = ss /\ ss = <<>>
    BY DEF FlattenSeq
  <1>3. Len(ss) # 0 => FlattenSeq(ss) = k[Len(ss)]
    BY DEF FlattenSeq, Flattens
  <1> HIDE DEF k
  <1> QED BY <1>1, <1>2, <1>3

(* Flattening nothing.                                                     *)
LEMMA FlattenEmpty == FlattenSeq(<<>>) = <<>>
  <1>1. <<>> \in Seq({}) /\ Len(<<>>) = 0
    OBVIOUS
  <1> QED BY <1>1, FlattenIs

(* The last sequence comes behind the others.                              *)
LEMMA FlattenLast ==
    ASSUME NEW T, NEW ss \in Seq(Seq(T)), NEW x \in Seq(T)
    PROVE  FlattenSeq(Append(ss, x)) = FlattenSeq(ss) \o x
  <1> DEFINE tt == Append(ss, x)
             N == Len(ss)
             U == Seq(T)
  <1>1. /\ tt \in Seq(U) /\ Len(tt) = N + 1 /\ tt[N + 1] = x /\ N \in Nat
        /\ \A i \in 1..N : ss[i] = tt[i]
    <2> HIDE DEF U
    <2>1. ss \in Seq(U) /\ x \in U
      BY DEF U
    <2> QED BY <2>1
  <1> HIDE DEF tt
  <1>2. N + 1 # 0 /\ N + 1 \in 1..(N + 1) /\ (N + 1) - 1 = N /\ N <= N + 1
    BY <1>1
  <1>3. PICK l : Flattens(l, tt) /\ FlattenSeq(tt) = l[N + 1]
    <2> HIDE DEF U
    <2> QED BY <1>1, <1>2, FlattenIs
  <1>4. l[N + 1] = IF N + 1 = 1 THEN x ELSE l[N] \o x
    BY <1>1, <1>2, <1>3 DEF Flattens
  <1>5. CASE N = 0
    <2>1. FlattenSeq(ss) = <<>>
      BY <1>5, FlattenIs
    <2>2. FlattenSeq(tt) = x
      BY <1>3, <1>4, <1>5
    <2>3. <<>> \o x = x
      OBVIOUS
    <2> QED BY <2>1, <2>2, <2>3 DEF tt
  <1>6. CASE N # 0
    <2>1. PICK k : Flattens(k, ss) /\ FlattenSeq(ss) = k[N]
      BY <1>6, FlattenIs
    <2>2. N \in 1..N /\ N + 1 # 1
      BY <1>1, <1>6
    <2>3. ss \in Seq(U)
      OBVIOUS
    <2>4. \A n \in 1..N : k[n] = l[n]
      <3> HIDE DEF U
      <3>1. Len(ss) <= Len(tt) /\ tt \in Seq(U)
        BY <1>1, <1>2
      <3>2. Flattens(k, ss) /\ Flattens(l, tt) /\ \A i \in 1..Len(ss) : ss[i] = tt[i]
        BY <1>1, <1>3, <2>1
      <3> HIDE DEF N
      <3>3. \A n \in 1..Len(ss) : k[n] = l[n]
        BY ONLY <2>3, <3>1, <3>2, FlattensAgree
      <3> QED BY <3>3 DEF N
    <2> QED BY <1>3, <1>4, <2>1, <2>2, <2>4 DEF tt
  <1> QED BY <1>5, <1>6

(* The prefixes of a sequence.                                             *)
LEMMA PrefixesAre ==
    ASSUME NEW T, NEW t \in Seq(T)
    PROVE  /\ Len(t) \in Nat /\ SubSeq(t, 1, 0) = <<>> /\ SubSeq(t, 1, Len(t)) = t
           /\ \A n \in 0..Len(t) : SubSeq(t, 1, n) \in Seq(T) /\ Len(SubSeq(t, 1, n)) = n
           /\ \A n \in 0..(Len(t) - 1) :
                 /\ t[n + 1] \in T
                 /\ SubSeq(t, 1, n + 1) = Append(SubSeq(t, 1, n), t[n + 1])
  <1>1. Len(t) \in Nat /\ SubSeq(t, 1, 0) = <<>> /\ SubSeq(t, 1, Len(t)) = t
    OBVIOUS
  <1>2. \A n \in 0..Len(t) : SubSeq(t, 1, n) \in Seq(T) /\ Len(SubSeq(t, 1, n)) = n
    OBVIOUS
  <1>3. ASSUME NEW n \in 0..(Len(t) - 1)
        PROVE  t[n + 1] \in T /\ SubSeq(t, 1, n + 1) = Append(SubSeq(t, 1, n), t[n + 1])
    OBVIOUS
  <1> QED BY <1>1, <1>2, <1>3

(* Flattening gives a sequence of elements.                                *)
LEMMA FlattenType ==
    ASSUME NEW T, NEW ss \in Seq(Seq(T))
    PROVE  FlattenSeq(ss) \in Seq(T)
  <1> DEFINE N == Len(ss)
             P(n) == SubSeq(ss, 1, n)
             G == {n \in 0..N : FlattenSeq(P(n)) \in Seq(T)}
             U == Seq(T)
  <1>1. /\ N \in Nat /\ P(0) = <<>> /\ P(N) = ss
        /\ \A n \in 0..N : P(n) \in Seq(Seq(T))
        /\ \A n \in 0..(N - 1) : ss[n + 1] \in Seq(T) /\ P(n + 1) = Append(P(n), ss[n + 1])
    <2>1. ss \in Seq(U)
      OBVIOUS
    <2> HIDE DEF U
    <2> QED BY <2>1, PrefixesAre DEF U
  <1> HIDE DEF P
  <1>2. 0 \in G
    BY <1>1, FlattenEmpty
  <1>3. ASSUME NEW n \in 0..(N - 1), n \in G PROVE n + 1 \in G
    <2>1. n \in 0..N /\ n + 1 \in 0..N
      BY <1>1
    <2> DEFINE a == FlattenSeq(P(n))
               x == ss[n + 1]
    <2>2. FlattenSeq(P(n + 1)) = a \o x
      BY <1>1, <2>1, FlattenLast
    <2>3. a \in Seq(T) /\ x \in Seq(T)
      BY <1>1, <1>3, <2>1
    <2> HIDE DEF a, x
    <2>4. a \o x \in Seq(T)
      BY <2>3
    <2> QED BY <2>1, <2>2, <2>4
  <1>4. \A n \in 0..N : n \in G
    <2> HIDE DEF G
    <2> QED BY <1>1, <1>2, <1>3, Upward
  <1>5. N \in 0..N
    BY <1>1
  <1> QED BY <1>1, <1>4, <1>5

(* Flattening two sequences one behind the other.                          *)
LEMMA FlattenConcat ==
    ASSUME NEW T, NEW ss \in Seq(Seq(T)), NEW tt \in Seq(Seq(T))
    PROVE  FlattenSeq(ss \o tt) = FlattenSeq(ss) \o FlattenSeq(tt)
  <1> DEFINE N == Len(tt)
             P(n) == SubSeq(tt, 1, n)
             G == {n \in 0..N : FlattenSeq(ss \o P(n)) = FlattenSeq(ss) \o FlattenSeq(P(n))}
             U == Seq(T)
  <1>1. /\ N \in Nat /\ P(0) = <<>> /\ P(N) = tt
        /\ \A n \in 0..N : P(n) \in Seq(Seq(T))
        /\ \A n \in 0..(N - 1) : tt[n + 1] \in Seq(T) /\ P(n + 1) = Append(P(n), tt[n + 1])
    <2>1. tt \in Seq(U)
      OBVIOUS
    <2> HIDE DEF U
    <2> QED BY <2>1, PrefixesAre DEF U
  <1> HIDE DEF P
  <1>2. 0 \in G
    <2>1. ss \o <<>> = ss
      <3>1. ss \in Seq(U)
        OBVIOUS
      <3> HIDE DEF U
      <3> QED BY <3>1
    <2>2. FlattenSeq(ss) \in Seq(T)
      BY FlattenType
    <2>3. FlattenSeq(ss) \o <<>> = FlattenSeq(ss)
      BY <2>2
    <2>4. FlattenSeq(ss \o P(0)) = FlattenSeq(ss) \o FlattenSeq(P(0))
      BY <1>1, <2>1, <2>3, FlattenEmpty
    <2>5. 0 \in 0..N
      BY <1>1
    <2> QED BY <2>4, <2>5
  <1>3. ASSUME NEW n \in 0..(N - 1), n \in G PROVE n + 1 \in G
    <2> DEFINE p == P(n)
               x == tt[n + 1]
    <2>0. n \in 0..N /\ n + 1 \in 0..N
      BY <1>1
    <2>1. p \in Seq(Seq(T)) /\ x \in Seq(T) /\ P(n + 1) = Append(p, x)
      BY <1>1, <2>0
    <2>2. FlattenSeq(ss \o p) = FlattenSeq(ss) \o FlattenSeq(p)
      BY <1>3
    <2> HIDE DEF p, x
    <2>3. ss \o p \in Seq(Seq(T)) /\ ss \o Append(p, x) = Append(ss \o p, x)
      <3>1. ss \in Seq(U) /\ p \in Seq(U) /\ x \in U
        BY <2>1
      <3> HIDE DEF U
      <3>2. ss \o p \in Seq(U) /\ ss \o Append(p, x) = Append(ss \o p, x)
        BY <3>1
      <3> QED BY <3>2 DEF U
    <2>4. FlattenSeq(Append(ss \o p, x)) = FlattenSeq(ss \o p) \o x
      BY <2>1, <2>3, FlattenLast
    <2>5. FlattenSeq(Append(p, x)) = FlattenSeq(p) \o x
      BY <2>1, FlattenLast
    <2>6. FlattenSeq(ss) \in Seq(T) /\ FlattenSeq(p) \in Seq(T)
      BY <2>1, FlattenType
    <2>7. (FlattenSeq(ss) \o FlattenSeq(p)) \o x = FlattenSeq(ss) \o (FlattenSeq(p) \o x)
      <3> DEFINE a == FlattenSeq(ss)
                 b == FlattenSeq(p)
      <3>1. a \in Seq(T) /\ b \in Seq(T) /\ x \in Seq(T)
        BY <2>1, <2>6
      <3> HIDE DEF a, b
      <3>2. (a \o b) \o x = a \o (b \o x)
        BY ONLY <3>1, ConcatAssociative, SMTT(30)
      <3> QED BY <3>2 DEF a, b
    <2>8. FlattenSeq(ss \o Append(p, x)) = FlattenSeq(ss) \o FlattenSeq(Append(p, x))
      BY ONLY <2>2, <2>3, <2>4, <2>5, <2>7
    <2>9. FlattenSeq(ss \o P(n + 1)) = FlattenSeq(ss) \o FlattenSeq(P(n + 1))
      <3> HIDE DEF P
      <3> QED BY ONLY <2>1, <2>8
    <2> HIDE DEF P
    <2> QED BY <2>0, <2>9
  <1>4. \A n \in 0..N : n \in G
    <2> HIDE DEF G
    <2> QED BY <1>1, <1>2, <1>3, Upward
  <1>5. N \in 0..N
    BY <1>1
  <1> QED BY <1>1, <1>4, <1>5

-------------------------------------------------------------------------------
\* SelectIn.

\* What SelectIn takes of each element.
Take(s, S) == [i \in DOMAIN s |-> IF s[i] \in S THEN <<s[i]>> ELSE <<>>]

(* One element or none of each.                                            *)
LEMMA TakeIs ==
    ASSUME NEW T, NEW s \in Seq(T), NEW S
    PROVE  /\ Take(s, S) \in Seq(Seq(T \cap S)) /\ Len(Take(s, S)) = Len(s)
           /\ SelectIn(s, S) = FlattenSeq(Take(s, S))
  <1> DEFINE U == Seq(T \cap S)
  <1>1. Len(s) \in Nat /\ DOMAIN s = 1..Len(s) /\ \A i \in 1..Len(s) : s[i] \in T
    OBVIOUS
  <1>2. \A x \in T : (IF x \in S THEN <<x>> ELSE <<>>) \in U
    <2>1. <<>> \in U /\ \A x \in T \cap S : <<x>> \in U
      OBVIOUS
    <2> HIDE DEF U
    <2> QED BY <2>1
  <1> HIDE DEF U
  <1>3. Take(s, S) \in [1..Len(s) -> U]
    BY <1>1, <1>2 DEF Take
  <1>4. Take(s, S) \in Seq(U) /\ Len(Take(s, S)) = Len(s)
    BY <1>1, <1>3, SeqDef
  <1> QED BY <1>4 DEF U, SelectIn, Take

(* What is selected are elements of s in S.                                *)
LEMMA SelectedAre ==
    ASSUME NEW T, NEW s \in Seq(T), NEW S
    PROVE  SelectIn(s, S) \in Seq(T \cap S)
  <1> DEFINE t == Take(s, S)
             R == T \cap S
  <1>1. t \in Seq(Seq(R)) /\ SelectIn(s, S) = FlattenSeq(t)
    BY TakeIs
  <1> HIDE DEF t, R
  <1>2. FlattenSeq(t) \in Seq(R)
    BY <1>1, FlattenType
  <1> QED BY <1>1, <1>2 DEF R

(* Nothing is selected from nothing.                                       *)
LEMMA SelectEmpty ==
    ASSUME NEW S
    PROVE  SelectIn(<<>>, S) = <<>>
  <1>1. <<>> \in Seq({}) /\ Len(<<>>) = 0
    OBVIOUS
  <1>2. Take(<<>>, S) \in Seq(Seq({} \cap S)) /\ Len(Take(<<>>, S)) = 0
        /\ SelectIn(<<>>, S) = FlattenSeq(Take(<<>>, S))
    BY <1>1, TakeIs
  <1> QED BY <1>2, FlattenIs

(* Selecting from two sequences one behind the other.                      *)
LEMMA SelectConcat ==
    ASSUME NEW T, NEW s \in Seq(T), NEW t \in Seq(T), NEW S
    PROVE  SelectIn(s \o t, S) = SelectIn(s, S) \o SelectIn(t, S)
  <1> DEFINE U == Seq(T \cap S)
             st == s \o t
  <1>1. st \in Seq(T) /\ Len(st) = Len(s) + Len(t) /\ Len(s) \in Nat /\ Len(t) \in Nat
        /\ \A i \in 1..Len(st) : st[i] = IF i <= Len(s) THEN s[i] ELSE t[i - Len(s)]
    OBVIOUS
  <1> HIDE DEF st
  <1>2. /\ Take(s, S) \in Seq(U) /\ Len(Take(s, S)) = Len(s)
        /\ Take(t, S) \in Seq(U) /\ Len(Take(t, S)) = Len(t)
        /\ Take(st, S) \in Seq(U) /\ Len(Take(st, S)) = Len(st)
        /\ SelectIn(s, S) = FlattenSeq(Take(s, S)) /\ SelectIn(t, S) = FlattenSeq(Take(t, S))
        /\ SelectIn(st, S) = FlattenSeq(Take(st, S))
    BY <1>1, TakeIs
  <1>3. Take(st, S) = Take(s, S) \o Take(t, S)
    <2> DEFINE a == Take(s, S)
               b == Take(t, S)
               c == Take(st, S)
    <2>1. /\ \A i \in 1..Len(s) : a[i] = IF s[i] \in S THEN <<s[i]>> ELSE <<>>
          /\ \A i \in 1..Len(t) : b[i] = IF t[i] \in S THEN <<t[i]>> ELSE <<>>
          /\ \A i \in 1..Len(st) : c[i] = IF st[i] \in S THEN <<st[i]>> ELSE <<>>
      BY <1>1 DEF Take
    <2>2. a \in Seq(U) /\ b \in Seq(U) /\ c \in Seq(U)
          /\ Len(a) = Len(s) /\ Len(b) = Len(t) /\ Len(c) = Len(s) + Len(t)
      BY <1>1, <1>2
    <2> HIDE DEF a, b, c, U
    <2>3. a \o b \in Seq(U) /\ Len(a \o b) = Len(c)
          /\ \A i \in 1..Len(c) : (a \o b)[i] = IF i <= Len(s) THEN a[i] ELSE b[i - Len(s)]
      <3>0. \A x, y \in Seq(U) :
              /\ x \o y \in Seq(U) /\ Len(x \o y) = Len(x) + Len(y)
              /\ \A i \in 1..(Len(x) + Len(y)) :
                   (x \o y)[i] = IF i <= Len(x) THEN x[i] ELSE y[i - Len(x)]
        BY ONLY ConcatIs, SMT
      <3>1. /\ a \o b \in Seq(U) /\ Len(a \o b) = Len(a) + Len(b)
            /\ \A i \in 1..(Len(a) + Len(b)) :
                  (a \o b)[i] = IF i <= Len(a) THEN a[i] ELSE b[i - Len(a)]
        BY ONLY <2>2, <3>0, Zenon
      <3> QED BY ONLY <2>2, <3>1
    <2>4. ASSUME NEW i \in 1..Len(c) PROVE c[i] = (a \o b)[i]
      <3>1. i \in 1..Len(st) /\ (i <= Len(s) => i \in 1..Len(s)) /\ (~(i <= Len(s)) => i - Len(s) \in 1..Len(t))
        BY <1>1, <2>2
      <3> QED BY <1>1, <2>1, <2>3, <3>1
    <2>5. c = a \o b
      BY <2>2, <2>3, <2>4, SeqEqual
    <2> QED BY <2>5 DEF a, b, c
  <1>4. FlattenSeq(Take(s, S) \o Take(t, S)) = FlattenSeq(Take(s, S)) \o FlattenSeq(Take(t, S))
    BY <1>2, FlattenConcat
  <1> QED BY <1>2, <1>3, <1>4 DEF st

(* Selecting from a single element.                                        *)
LEMMA SelectOne ==
    ASSUME NEW x, NEW S
    PROVE  SelectIn(<<x>>, S) = IF x \in S THEN <<x>> ELSE <<>>
  <1> DEFINE y == IF x \in S THEN <<x>> ELSE <<>>
  <1>1. <<x>> \in Seq({x}) /\ Len(<<x>>) = 1 /\ DOMAIN <<x>> = 1..1 /\ <<x>>[1] = x
    OBVIOUS
  <1>2. Take(<<x>>, S) = [i \in 1..1 |-> y]
    <2>1. \A i \in 1..1 : i = 1
      OBVIOUS
    <2>2. \A i \in DOMAIN <<x>> : (IF <<x>>[i] \in S THEN <<<<x>>[i]>> ELSE <<>>) = y
      BY <1>1, <2>1
    <2> HIDE DEF y
    <2> QED BY <1>1, <2>2 DEF Take
  <1>3. y \in Seq({x})
    <2>1. <<>> \in Seq({x}) /\ <<x>> \in Seq({x})
      OBVIOUS
    <2> QED BY <2>1
  <1> HIDE DEF y
  <1>4. Take(<<x>>, S) = Append(<<>>, y)
    <2>1. Append(<<>>, y) = <<y>> /\ <<y>> = [i \in 1..1 |-> y]
      OBVIOUS
    <2> QED BY <1>2, <2>1
  <1>5. FlattenSeq(Append(<<>>, y)) = FlattenSeq(<<>>) \o y
    <2>1. <<>> \in Seq(Seq({x}))
      OBVIOUS
    <2> QED BY <1>3, <2>1, FlattenLast
  <1>6. <<>> \o y = y
    BY <1>3
  <1>7. SelectIn(<<x>>, S) = FlattenSeq(Take(<<x>>, S))
    BY <1>1, TakeIs
  <1> QED BY <1>4, <1>5, <1>6, <1>7, FlattenEmpty DEF y

(* The last element is selected, or it is not.                             *)
LEMMA SelectLast ==
    ASSUME NEW T, NEW s \in Seq(T), NEW x \in T, NEW S
    PROVE  SelectIn(Append(s, x), S)
             = IF x \in S THEN Append(SelectIn(s, S), x) ELSE SelectIn(s, S)
  <1>1. Append(s, x) = s \o <<x>> /\ <<x>> \in Seq(T)
    OBVIOUS
  <1>2. SelectIn(s \o <<x>>, S) = SelectIn(s, S) \o SelectIn(<<x>>, S)
    <2> DEFINE o == <<x>>
    <2>1. o \in Seq(T)
      BY <1>1
    <2> HIDE DEF o
    <2>2. SelectIn(s \o o, S) = SelectIn(s, S) \o SelectIn(o, S)
      BY <2>1, SelectConcat
    <2> QED BY <2>2 DEF o
  <1>3. SelectIn(s, S) \in Seq(T \cap S)
    BY SelectedAre
  <1>4. SelectIn(s, S) \o <<x>> = Append(SelectIn(s, S), x) /\ SelectIn(s, S) \o <<>> = SelectIn(s, S)
    BY <1>3
  <1> QED BY <1>1, <1>2, <1>4, SelectOne

(* What is selected are elements of s in S, and no more of them.           *)
LEMMA SelectType ==
    ASSUME NEW T, NEW s \in Seq(T), NEW S
    PROVE  SelectIn(s, S) \in Seq(T \cap S) /\ Len(SelectIn(s, S)) <= Len(s)
  <1> DEFINE N == Len(s)
             P(n) == SubSeq(s, 1, n)
             G == {n \in 0..N : Len(SelectIn(P(n), S)) <= n}
  <1>1. SelectIn(s, S) \in Seq(T \cap S)
    BY SelectedAre
  <1>2. /\ N \in Nat /\ P(0) = <<>> /\ P(N) = s
        /\ \A n \in 0..N : P(n) \in Seq(T)
        /\ \A n \in 0..(N - 1) : s[n + 1] \in T /\ P(n + 1) = Append(P(n), s[n + 1])
    BY PrefixesAre
  <1> HIDE DEF P
  <1>3. 0 \in G
    <2>1. Len(<<>>) <= 0
      OBVIOUS
    <2> QED BY <1>2, <2>1, SelectEmpty
  <1>4. ASSUME NEW n \in 0..(N - 1), n \in G PROVE n + 1 \in G
    <2> DEFINE a == SelectIn(P(n), S)
               x == s[n + 1]
    <2>1. n \in 0..N /\ n + 1 \in 0..N /\ n \in Nat /\ Len(a) <= n /\ x \in T /\ P(n) \in Seq(T)
      BY <1>2, <1>4
    <2>2. SelectIn(P(n + 1), S) = IF x \in S THEN Append(a, x) ELSE a
      <3> DEFINE p == P(n)
      <3>1. P(n + 1) = Append(p, x) /\ p \in Seq(T) /\ x \in T
        BY <1>2, <2>1
      <3> HIDE DEF p, x
      <3>2. SelectIn(Append(p, x), S) = IF x \in S THEN Append(SelectIn(p, S), x) ELSE SelectIn(p, S)
        BY <3>1, SelectLast
      <3> QED BY <3>1, <3>2 DEF p
    <2>3. a \in Seq(T \cap S)
      BY <2>1, SelectedAre
    <2> HIDE DEF a, x
    <2>4. Len(a) \in Nat /\ Len(Append(a, x)) = Len(a) + 1
      BY <2>3
    <2>5. Len(SelectIn(P(n + 1), S)) <= n + 1
      <3>1. CASE x \in S
        BY <2>1, <2>2, <2>4, <3>1
      <3>2. CASE x \notin S
        BY <2>1, <2>2, <2>4, <3>2
      <3> QED BY <3>1, <3>2
    <2> QED BY <2>1, <2>5
  <1>5. \A n \in 0..N : n \in G
    <2> HIDE DEF G
    <2> QED BY <1>2, <1>3, <1>4, Upward
  <1>6. N \in 0..N
    BY <1>2
  <1> QED BY <1>1, <1>2, <1>5, <1>6

-------------------------------------------------------------------------------
\* The requests.

Roles == {"system", "user", "assistant", "tool"}
ChatMsg == [role : Roles, text : BOOLEAN, ids : Seq(Nat)]

\* Messages as the memory and the skills hand them over: only a reply has calls,
\* and a result names the call it answers.
Sendable(ms) ==
    /\ ms \in Seq(ChatMsg)
    /\ \A i \in 1..Len(ms) : /\ ms[i].role \in {"system", "user"} => ms[i].ids = <<>>
                             /\ ms[i].role = "tool" => ms[i].ids # <<>>

(* The parts of a message.                                                 *)
LEMMA SendableIs ==
    ASSUME NEW ms, Sendable(ms)
    PROVE  /\ Len(ms) \in Nat /\ DOMAIN ms = 1..Len(ms)
           /\ \A i \in 1..Len(ms) :
                 /\ ms[i].role \in Roles /\ ms[i].ids \in Seq(Nat) /\ ms[i].text \in BOOLEAN
                 /\ ms[i].role = "tool" => ms[i].ids[1] \in Nat
  <1>1. Len(ms) \in Nat /\ DOMAIN ms = 1..Len(ms) /\ \A i \in 1..Len(ms) : ms[i] \in ChatMsg
    BY DEF Sendable
  <1>2. ASSUME NEW i \in 1..Len(ms)
        PROVE  ms[i].role \in Roles /\ ms[i].ids \in Seq(Nat) /\ ms[i].text \in BOOLEAN
    BY <1>1, <1>2 DEF ChatMsg
  <1>3. \A s \in Seq(Nat) : s # <<>> => s[1] \in Nat
    OBVIOUS
  <1>4. ASSUME NEW i \in 1..Len(ms), ms[i].role = "tool" PROVE ms[i].ids[1] \in Nat
    BY <1>2, <1>3, <1>4 DEF Sendable
  <1> QED BY <1>1, <1>2, <1>4

(* Where a run of results ends.                                            *)
LEMMA ResultsEndIs ==
    ASSUME NEW ms, Len(ms) \in Nat, NEW i \in 1..Len(ms), ms[i].role = "tool"
    PROVE  LET j == ResultsEnd(ms, i)
           IN  /\ j \in i..Len(ms)
               /\ \A k \in i..j : ms[k].role = "tool"
               /\ j = Len(ms) \/ ms[j + 1].role # "tool"
  <1> DEFINE N == Len(ms)
             E == {k \in (i + 1)..(N + 1) : k = N + 1 \/ ms[k].role # "tool"}
             End(j) == /\ \A k \in i..j : ms[k].role = "tool"
                       /\ j = Len(ms) \/ ms[j + 1].role # "tool"
  <1>1. E \subseteq Nat /\ E # {}
    <2>1. N + 1 \in (i + 1)..(N + 1)
      OBVIOUS
    <2> QED BY <2>1
  <1>2. PICK e \in E : \A y \in E : e <= y
    <2> HIDE DEF E
    <2> QED BY <1>1, LeastNumber
  <1>3. e - 1 \in i..N /\ (e - 1) + 1 = e /\ (e = N + 1 <=> e - 1 = N)
    BY <1>2
  <1>4. ASSUME NEW k \in i..(e - 1) PROVE ms[k].role = "tool"
    <2>1. k = i \/ (k \in (i + 1)..(N + 1) /\ ~(e <= k) /\ k # N + 1)
      BY <1>3, <1>4
    <2> QED BY <1>2, <2>1
  <1>5. End(e - 1)
    BY <1>2, <1>3, <1>4
  <1> HIDE DEF E, End
  <1>6. \E j \in i..N : End(j)
    BY <1>3, <1>5
  <1> DEFINE c == CHOOSE j \in i..N : End(j)
  <1>7. c \in i..N /\ End(c)
    BY <1>6
  <1>8. c = ResultsEnd(ms, i)
    BY DEF ResultsEnd, End
  <1> QED BY <1>7, <1>8 DEF End

(* A run of results ends in one place.                                     *)
LEMMA ResultsEndUnique ==
    ASSUME NEW ms, Len(ms) \in Nat, NEW i \in 1..Len(ms), ms[i].role = "tool",
           NEW e \in i..Len(ms), \A k \in i..e : ms[k].role = "tool",
           e = Len(ms) \/ ms[e + 1].role # "tool"
    PROVE  ResultsEnd(ms, i) = e
  <1> DEFINE j == ResultsEnd(ms, i)
  <1>1. /\ j \in i..Len(ms)
        /\ \A k \in i..j : ms[k].role = "tool"
        /\ j = Len(ms) \/ ms[j + 1].role # "tool"
    BY ResultsEndIs
  <1> HIDE DEF j
  <1>2. ASSUME j < e PROVE FALSE
    <2>1. j # Len(ms) /\ j + 1 \in i..e
      BY <1>1, <1>2
    <2> QED BY <1>1, <2>1
  <1>3. ASSUME e < j PROVE FALSE
    <2>1. e # Len(ms) /\ e + 1 \in i..j
      BY <1>1, <1>3
    <2> QED BY <1>1, <2>1
  <1> QED BY <1>1, <1>2, <1>3 DEF j

\* What the messages from i on become, if f[x] is what those from x on become.
FromOn(f, ms, i) ==
    IF i > Len(ms) THEN <<>>
    ELSE CASE ms[i].role = "system" -> f[i + 1]
           [] ms[i].role = "tool" ->
                <<ReqMsg("user", Answers(ms, i, ResultsEnd(ms, i)))>> \o f[ResultsEnd(ms, i) + 1]
           [] ms[i].role = "user" -> <<ReqMsg("user", <<Text(i)>>)>> \o f[i + 1]
           [] ms[i].role = "assistant" ->
                <<ReqMsg("assistant", assistantContent(ms, i))>> \o f[i + 1]

Becomes(f, ms) == f = [i \in 1..(Len(ms) + 1) |-> FromOn(f, ms, i)]

(* The loop of modelMessagesToAnthropic ends with a request.               *)
LEMMA AnthropicIs ==
    ASSUME NEW ms, Sendable(ms)
    PROVE  \E f : Becomes(f, ms) /\ modelMessagesToAnthropic(ms) = f[1]
  <1> DEFINE N == Len(ms)
             D == 1..(N + 1)
             From(f, m) == /\ DOMAIN f = D /\ f = [i \in D |-> f[i]]
                           /\ \A i \in (m + 1)..(N + 1) : f[i] = FromOn(f, ms, i)
             G == {m \in 0..N : \E f : From(f, m)}
  <1>1. N \in Nat
    BY SendableIs
  <1>2. N \in G
    <2> DEFINE f == [i \in D |-> <<>>]
    <2>1. \A i \in (N + 1)..(N + 1) : i = N + 1 /\ i > N /\ i \in D
      BY <1>1
    <2>2. \A i \in (N + 1)..(N + 1) : f[i] = FromOn(f, ms, i)
      BY <2>1 DEF FromOn
    <2>3. From(f, N)
      BY <2>2
    <2> HIDE DEF f, From
    <2>4. \E h : From(h, N)
      BY <2>3
    <2> QED BY <1>1, <2>4
  <1>3. ASSUME NEW m \in 1..N, m \in G PROVE m - 1 \in G
    <2>1. PICK f : From(f, m)
      BY <1>3
    <2> DEFINE g == [f EXCEPT ![m] = FromOn(f, ms, m)]
    <2>2. m \in D /\ m - 1 \in 0..N /\ (m - 1) + 1 = m
      BY <1>1
    <2>3. DOMAIN g = D /\ g = [i \in D |-> g[i]] /\ g[m] = FromOn(f, ms, m)
          /\ \A i \in D : i # m => g[i] = f[i]
      <3> DEFINE v == FromOn(f, ms, m)
      <3> HIDE DEF v
      <3> QED BY <2>1, <2>2
    <2> HIDE DEF g
    <2>4. ASSUME NEW i \in m..(N + 1) PROVE g[i] = FromOn(g, ms, i)
      <3>1. FromOn(f, ms, i) = FromOn(g, ms, i)
        <4>1. CASE i > N
          BY <4>1 DEF FromOn
        <4>2. CASE i <= N
          <5>1. i \in 1..N /\ i + 1 \in D /\ i + 1 # m
            BY <1>1, <2>2, <2>4, <4>2
          <5>2. ms[i].role = "tool" => ResultsEnd(ms, i) + 1 \in D /\ ResultsEnd(ms, i) + 1 # m
            <6> SUFFICES ASSUME ms[i].role = "tool"
                         PROVE  ResultsEnd(ms, i) + 1 \in D /\ ResultsEnd(ms, i) + 1 # m
              OBVIOUS
            <6>1. ResultsEnd(ms, i) \in i..N
              BY <1>1, <5>1, ResultsEndIs
            <6> QED BY <1>1, <2>2, <2>4, <6>1
          <5>3. g[i + 1] = f[i + 1]
                /\ (ms[i].role = "tool" => g[ResultsEnd(ms, i) + 1] = f[ResultsEnd(ms, i) + 1])
            BY <2>3, <5>1, <5>2
          <5>4. ms[i].role \in Roles
            BY <5>1, SendableIs
          <5> QED BY <5>3, <5>4 DEF FromOn, Roles
        <4> QED BY <1>1, <2>4, <4>1, <4>2
      <3>2. CASE i = m
        BY <2>3, <3>1, <3>2
      <3>3. CASE i # m
        <4>1. i \in (m + 1)..(N + 1) /\ i \in D
          BY <1>1, <2>2, <2>4, <3>3
        <4> QED BY <2>1, <2>3, <3>1, <3>3, <4>1
      <3> QED BY <3>2, <3>3
    <2>5. From(g, m - 1)
      BY <2>2, <2>3, <2>4
    <2> HIDE DEF From
    <2>6. \E h : From(h, m - 1)
      BY <2>5
    <2> QED BY <2>2, <2>6
  <1>4. 0 \in G
    <2> HIDE DEF G
    <2>1. \A n \in 0..N : n \in G
      BY <1>1, <1>2, <1>3, Downward
    <2> QED BY <1>1, <2>1
  <1>5. PICK f : From(f, 0)
    BY <1>4
  <1>6. Becomes(f, ms)
    <2>1. \A i \in D : f[i] = FromOn(f, ms, i)
      BY <1>5
    <2> QED BY <1>5, <2>1 DEF Becomes
  <1> DEFINE r == CHOOSE h : Becomes(h, ms)
  <1>7. Becomes(r, ms)
    BY <1>6
  <1>8. modelMessagesToAnthropic(ms) = r[1]
    BY DEF modelMessagesToAnthropic, Becomes, FromOn
  <1> HIDE DEF r
  <1> QED BY <1>7, <1>8

-------------------------------------------------------------------------------
\* Selecting all or nothing.

(* Where every element passes, all are selected.                           *)
LEMMA SelectAll ==
    ASSUME NEW T, NEW s \in Seq(T), NEW S, \A i \in 1..Len(s) : s[i] \in S
    PROVE  SelectIn(s, S) = s
  <1> DEFINE N == Len(s)
             P(n) == SubSeq(s, 1, n)
             G == {n \in 0..N : SelectIn(P(n), S) = P(n)}
  <1>1. /\ N \in Nat /\ P(0) = <<>> /\ P(N) = s
        /\ \A n \in 0..N : P(n) \in Seq(T)
        /\ \A n \in 0..(N - 1) : s[n + 1] \in T /\ P(n + 1) = Append(P(n), s[n + 1])
    BY PrefixesAre
  <1> HIDE DEF P
  <1>2. 0 \in G
    BY <1>1, SelectEmpty
  <1>3. ASSUME NEW n \in 0..(N - 1), n \in G PROVE n + 1 \in G
    <2> DEFINE p == P(n)
               x == s[n + 1]
    <2>1. n \in 0..N /\ n + 1 \in 0..N /\ n + 1 \in 1..N
      BY <1>1
    <2>2. P(n + 1) = Append(p, x) /\ p \in Seq(T) /\ x \in T /\ x \in S /\ SelectIn(p, S) = p
      BY <1>1, <1>3, <2>1
    <2> HIDE DEF p, x
    <2>3. SelectIn(Append(p, x), S) = Append(SelectIn(p, S), x)
      BY <2>2, SelectLast
    <2> QED BY <2>1, <2>2, <2>3
  <1>4. \A n \in 0..N : n \in G
    <2> HIDE DEF G
    <2> QED BY <1>1, <1>2, <1>3, Upward
  <1>5. N \in 0..N
    BY <1>1
  <1> QED BY <1>1, <1>4, <1>5

(* Where no element passes, none is selected.                              *)
LEMMA SelectNone ==
    ASSUME NEW T, NEW s \in Seq(T), NEW S, \A i \in 1..Len(s) : s[i] \notin S
    PROVE  SelectIn(s, S) = <<>>
  <1> DEFINE N == Len(s)
             P(n) == SubSeq(s, 1, n)
             G == {n \in 0..N : SelectIn(P(n), S) = <<>>}
  <1>1. /\ N \in Nat /\ P(0) = <<>> /\ P(N) = s
        /\ \A n \in 0..N : P(n) \in Seq(T)
        /\ \A n \in 0..(N - 1) : s[n + 1] \in T /\ P(n + 1) = Append(P(n), s[n + 1])
    BY PrefixesAre
  <1> HIDE DEF P
  <1>2. 0 \in G
    BY <1>1, SelectEmpty
  <1>3. ASSUME NEW n \in 0..(N - 1), n \in G PROVE n + 1 \in G
    <2> DEFINE p == P(n)
               x == s[n + 1]
    <2>1. n \in 0..N /\ n + 1 \in 0..N /\ n + 1 \in 1..N
      BY <1>1
    <2>2. P(n + 1) = Append(p, x) /\ p \in Seq(T) /\ x \in T /\ x \notin S /\ SelectIn(p, S) = <<>>
      BY <1>1, <1>3, <2>1
    <2> HIDE DEF p, x
    <2>3. SelectIn(Append(p, x), S) = SelectIn(p, S)
      BY <2>2, SelectLast
    <2> QED BY <2>1, <2>2, <2>3
  <1>4. \A n \in 0..N : n \in G
    <2> HIDE DEF G
    <2> QED BY <1>1, <1>2, <1>3, Upward
  <1>5. N \in 0..N
    BY <1>1
  <1> QED BY <1>1, <1>4, <1>5

(* Selecting twice is selecting what passes both tests.                     *)
LEMMA SelectTwice ==
    ASSUME NEW T, NEW s \in Seq(T), NEW S, NEW R
    PROVE  SelectIn(SelectIn(s, S), R) = SelectIn(s, S \cap R)
  <1> DEFINE N == Len(s)
             P(n) == SubSeq(s, 1, n)
             G == {n \in 0..N : SelectIn(SelectIn(P(n), S), R) = SelectIn(P(n), S \cap R)}
  <1>1. /\ N \in Nat /\ P(0) = <<>> /\ P(N) = s
        /\ \A n \in 0..N : P(n) \in Seq(T)
        /\ \A n \in 0..(N - 1) : s[n + 1] \in T /\ P(n + 1) = Append(P(n), s[n + 1])
    BY PrefixesAre
  <1> HIDE DEF P
  <1>2. 0 \in G
    BY <1>1, SelectEmpty
  <1>3. ASSUME NEW n \in 0..(N - 1), n \in G PROVE n + 1 \in G
    <2> DEFINE p == P(n)
               x == s[n + 1]
               c == S \cap R
               q == SelectIn(p, S)
    <2>1. n \in 0..N /\ n + 1 \in 0..N
      BY <1>1
    <2>2. P(n + 1) = Append(p, x) /\ p \in Seq(T) /\ x \in T /\ SelectIn(q, R) = SelectIn(p, c)
      BY <1>1, <1>3, <2>1
    <2>3. x \in c <=> x \in S /\ x \in R
      OBVIOUS
    <2> HIDE DEF p, x, c
    <2>4. q \in Seq(T \cap S)
      BY <2>2, SelectType
    <2>5. /\ SelectIn(Append(p, x), S) = IF x \in S THEN Append(q, x) ELSE q
          /\ SelectIn(Append(p, x), c) = IF x \in c THEN Append(SelectIn(p, c), x) ELSE SelectIn(p, c)
      BY <2>2, SelectLast
    <2> HIDE DEF q
    <2>6. CASE x \in S
      <3> DEFINE V == T \cap S
      <3>1. x \in V /\ q \in Seq(V)
        BY <2>2, <2>4, <2>6
      <3> HIDE DEF V
      <3>2. SelectIn(Append(q, x), R) = IF x \in R THEN Append(SelectIn(q, R), x) ELSE SelectIn(q, R)
        BY ONLY <3>1, SelectLast
      <3>3. SelectIn(SelectIn(Append(p, x), S), R) = SelectIn(Append(p, x), c)
        BY <2>2, <2>3, <2>5, <2>6, <3>2
      <3> QED BY <2>1, <2>2, <3>3 DEF c
    <2>7. CASE x \notin S
      <3>1. SelectIn(SelectIn(Append(p, x), S), R) = SelectIn(Append(p, x), c)
        BY <2>2, <2>3, <2>5, <2>7
      <3> QED BY <2>1, <2>2, <3>1 DEF c
    <2> QED BY <2>6, <2>7
  <1>4. \A n \in 0..N : n \in G
    <2> HIDE DEF G
    <2> QED BY <1>1, <1>2, <1>3, Upward
  <1>5. N \in 0..N
    BY <1>1
  <1> QED BY <1>1, <1>4, <1>5

LEMMA AppendInside ==
    ASSUME NEW T, NEW a \in Seq(T), NEW b \in Seq(T), NEW x \in T
    PROVE  a \o Append(b, x) = Append(a \o b, x)
  OBVIOUS

\* tt is ss with x appended to its part i, and the parts behind are empty.
Grown(T, ss, tt, i, x) ==
    /\ ss \in Seq(Seq(T)) /\ tt \in Seq(Seq(T)) /\ Len(tt) = Len(ss)
    /\ i \in 1..Len(ss) /\ x \in T /\ tt[i] = Append(ss[i], x)
    /\ \A j \in 1..Len(ss) : j # i => tt[j] = ss[j]
    /\ \A j \in (i + 1)..Len(ss) : ss[j] = <<>>

(* The last part that is not empty grows: so does the whole.               *)
LEMMA FlattenGrows ==
    ASSUME NEW T, NEW ss, NEW tt, NEW i, NEW x, Grown(T, ss, tt, i, x)
    PROVE  FlattenSeq(tt) = Append(FlattenSeq(ss), x)
  <1> DEFINE U == Seq(T)
             N == Len(ss)
             P(n) == SubSeq(ss, 1, n)
             Q(n) == SubSeq(tt, 1, n)
             G == {n \in 0..N : n >= i => FlattenSeq(Q(n)) = Append(FlattenSeq(P(n)), x)}
  <1>1. ss \in Seq(U) /\ tt \in Seq(U)
    BY DEF Grown
  <1>0. /\ Len(tt) = N /\ i \in 1..N /\ x \in T /\ tt[i] = Append(ss[i], x)
        /\ \A j \in 1..N : j # i => tt[j] = ss[j]
        /\ \A j \in (i + 1)..N : ss[j] = <<>>
    BY DEF Grown
  <1> HIDE DEF U
  <1>2. /\ N \in Nat /\ P(0) = <<>> /\ P(N) = ss
        /\ \A n \in 0..N : P(n) \in Seq(U) /\ Len(P(n)) = n
        /\ \A n \in 0..(N - 1) : ss[n + 1] \in U /\ P(n + 1) = Append(P(n), ss[n + 1])
    BY <1>1, PrefixesAre
  <1>3. /\ Q(0) = <<>> /\ Q(N) = tt
        /\ \A n \in 0..N : Q(n) \in Seq(U) /\ Len(Q(n)) = n
        /\ \A n \in 0..(N - 1) : tt[n + 1] \in U /\ Q(n + 1) = Append(Q(n), tt[n + 1])
    BY <1>0, <1>1, PrefixesAre
  <1>4. P(i - 1) = Q(i - 1)
    <2> DEFINE H == {n \in 0..N : n < i => P(n) = Q(n)}
    <2> HIDE DEF P, Q
    <2>1. 0 \in H
      BY <1>2, <1>3
    <2>2. ASSUME NEW n \in 0..(N - 1), n \in H PROVE n + 1 \in H
      <3>1. n + 1 \in 0..N
        BY <1>2
      <3>2. ASSUME n + 1 < i PROVE P(n + 1) = Q(n + 1)
        <4>1. n < i /\ n + 1 # i /\ n + 1 \in 1..N
          BY <1>0, <1>2, <3>2
        <4>2. P(n) = Q(n) /\ tt[n + 1] = ss[n + 1]
          BY <1>0, <2>2, <4>1
        <4> QED BY <1>2, <1>3, <4>2
      <3> QED BY <3>1, <3>2
    <2>3. \A n \in 0..N : n \in H
      <3> HIDE DEF H
      <3> QED BY <1>2, <2>1, <2>2, Upward
    <2>4. i - 1 \in 0..N /\ i - 1 < i
      BY <1>0, <1>2
    <2> QED BY <2>3, <2>4
  <1> HIDE DEF P, Q
  <1>5. 0 \in G
    BY <1>0, <1>2
  <1>6. ASSUME NEW n \in 0..(N - 1), n \in G PROVE n + 1 \in G
    <2> DEFINE p == P(n)
               q == Q(n)
               y == ss[n + 1]
               z == tt[n + 1]
    <2>1. n \in 0..N /\ n + 1 \in 0..N /\ n + 1 \in 1..N
      BY <1>2
    <2>2. /\ P(n + 1) = Append(p, y) /\ Q(n + 1) = Append(q, z)
          /\ p \in Seq(U) /\ q \in Seq(U) /\ y \in U /\ z \in U
      BY <1>2, <1>3, <2>1
    <2>3. /\ (n + 1 > i => z = y /\ y = <<>>) /\ (n + 1 = i => z = Append(y, x))
          /\ (n + 1 = i => p = q)
      <3>1. n + 1 > i => n + 1 \in (i + 1)..N /\ n + 1 # i
        BY <1>0, <2>1
      <3>2. n + 1 = i => i - 1 = n
        BY <2>1
      <3> QED BY <1>0, <1>4, <2>1, <3>1, <3>2
    <2>4. n >= i => FlattenSeq(q) = Append(FlattenSeq(p), x)
      BY <1>6
    <2> HIDE DEF p, q, y, z
    <2>5. /\ FlattenSeq(Append(p, y)) = FlattenSeq(p) \o y
          /\ FlattenSeq(Append(q, z)) = FlattenSeq(q) \o z
          /\ FlattenSeq(p) \in Seq(T) /\ FlattenSeq(q) \in Seq(T) /\ y \in Seq(T)
      BY <2>2, FlattenLast, FlattenType DEF U
    <2>6. CASE n + 1 > i
      <3> DEFINE a == FlattenSeq(p)
                 b == FlattenSeq(q)
      <3>1. a \in Seq(T) /\ b \in Seq(T) /\ b = Append(a, x) /\ x \in T
        BY <1>0, <2>1, <2>4, <2>5, <2>6
      <3> HIDE DEF a, b
      <3>2. b \o <<>> = Append(a \o <<>>, x)
        BY <3>1
      <3>3. FlattenSeq(Append(q, z)) = Append(FlattenSeq(Append(p, y)), x)
        BY <2>3, <2>5, <2>6, <3>2 DEF a, b
      <3> QED BY <2>1, <2>2, <3>3
    <2>7. CASE n + 1 = i
      <3> DEFINE a == FlattenSeq(p)
      <3>1. a \in Seq(T) /\ y \in Seq(T) /\ x \in T
        BY <1>0, <2>5
      <3> HIDE DEF a
      <3>2. a \o Append(y, x) = Append(a \o y, x)
        BY ONLY <3>1, AppendInside
      <3>3. FlattenSeq(Append(q, z)) = Append(FlattenSeq(Append(p, y)), x)
        BY <2>3, <2>5, <2>7, <3>2 DEF a
      <3> QED BY <2>1, <2>2, <3>3
    <2>8. CASE n + 1 < i
      BY <1>0, <2>1, <2>8
    <2>9. n + 1 > i \/ n + 1 = i \/ n + 1 < i
      BY <1>0, <1>2, <2>1
    <2> QED BY <2>6, <2>7, <2>8, <2>9
  <1>7. \A n \in 0..N : n \in G
    <2> HIDE DEF G
    <2> QED BY <1>2, <1>5, <1>6, Upward
  <1>8. N \in 0..N /\ N >= i
    BY <1>0, <1>2
  <1> QED BY <1>2, <1>3, <1>7, <1>8

(* Flattening nothing but empty parts.                                     *)
LEMMA FlattenNothing ==
    ASSUME NEW T, NEW ss, ss \in Seq(Seq(T)), \A i \in 1..Len(ss) : ss[i] = <<>>
    PROVE  FlattenSeq(ss) = <<>>
  <1> DEFINE U == Seq(T)
             N == Len(ss)
             P(n) == SubSeq(ss, 1, n)
             G == {n \in 0..N : FlattenSeq(P(n)) = <<>>}
  <1>1. ss \in Seq(U) /\ <<>> \in Seq(T)
    OBVIOUS
  <1> HIDE DEF U
  <1>2. /\ N \in Nat /\ P(0) = <<>> /\ P(N) = ss
        /\ \A n \in 0..N : P(n) \in Seq(U)
        /\ \A n \in 0..(N - 1) : P(n + 1) = Append(P(n), ss[n + 1])
    BY <1>1, PrefixesAre
  <1> HIDE DEF P
  <1>3. 0 \in G
    BY <1>2, FlattenEmpty
  <1>4. ASSUME NEW n \in 0..(N - 1), n \in G PROVE n + 1 \in G
    <2> DEFINE p == P(n)
               e == <<>>
    <2>1. n \in 0..N /\ n + 1 \in 0..N /\ n + 1 \in 1..N
      BY <1>2
    <2>0. e \o e = e /\ e \in Seq(T)
      OBVIOUS
    <2>2. P(n + 1) = Append(p, e) /\ p \in Seq(Seq(T)) /\ FlattenSeq(p) = e
      <3>1. ss[n + 1] = e /\ P(n + 1) = Append(p, ss[n + 1]) /\ p \in Seq(U) /\ FlattenSeq(p) = e
        BY <1>2, <1>4, <2>1
      <3> QED BY <3>1 DEF U
    <2> HIDE DEF p, e
    <2>3. FlattenSeq(Append(p, e)) = FlattenSeq(p) \o e
      BY <2>0, <2>2, FlattenLast
    <2>4. FlattenSeq(P(n + 1)) = e
      BY <2>0, <2>2, <2>3
    <2> QED BY <2>1, <2>4 DEF e
  <1>5. \A n \in 0..N : n \in G
    <2> HIDE DEF G
    <2> QED BY <1>2, <1>3, <1>4, Upward
  <1>6. N \in 0..N
    BY <1>2
  <1> QED BY <1>2, <1>5, <1>6

(* Flattening a single sequence.                                           *)
LEMMA FlattenOne ==
    ASSUME NEW T, NEW x \in Seq(T)
    PROVE  FlattenSeq(<<x>>) = x
  <1>1. <<>> \in Seq(Seq(T)) /\ Append(<<>>, x) = <<x>>
    OBVIOUS
  <1>2. FlattenSeq(Append(<<>>, x)) = FlattenSeq(<<>>) \o x
    BY <1>1, FlattenLast
  <1>3. <<>> \o x = x
    OBVIOUS
  <1> QED BY <1>1, <1>2, <1>3, FlattenEmpty

(* The first sequence comes before the others.                             *)
LEMMA FlattenFirst ==
    ASSUME NEW T, NEW x \in Seq(T), NEW ss \in Seq(Seq(T))
    PROVE  FlattenSeq(<<x>> \o ss) = x \o FlattenSeq(ss)
  <1> DEFINE o == <<x>>
             U == Seq(T)
  <1>1. o \in Seq(Seq(T))
    <2>1. x \in U
      OBVIOUS
    <2> HIDE DEF U
    <2>2. <<x>> \in Seq(U)
      BY <2>1
    <2> QED BY <2>2 DEF U
  <1>2. FlattenSeq(o) = x
    BY FlattenOne
  <1> HIDE DEF o
  <1>3. FlattenSeq(o \o ss) = FlattenSeq(o) \o FlattenSeq(ss)
    BY <1>1, FlattenConcat
  <1> QED BY <1>2, <1>3 DEF o

-------------------------------------------------------------------------------
\* The blocks of a message.

(* The text, the calls and the answer of a message are blocks of it.       *)
LEMMA ContentIs ==
    ASSUME NEW ms, Sendable(ms), NEW i \in 1..Len(ms)
    PROVE  /\ Text(i) \in BlocksOf(ms)
           /\ Uses(ms, i) \in Seq(BlocksOf(ms)) /\ Len(Uses(ms, i)) = Len(ms[i].ids)
           /\ \A n \in 1..Len(Uses(ms, i)) : Uses(ms, i)[n] = Use(i, ms[i].ids[n])
           /\ ms[i].role = "tool" => Answer(i, ms[i].ids[1]) \in BlocksOf(ms)
  <1> DEFINE B == BlocksOf(ms)
             D == 1..Len(ms)
             ids == ms[i].ids
             K == Len(ids)
  <1>1. D = DOMAIN ms /\ ids \in Seq(Nat) /\ (ms[i].role = "tool" => ids[1] \in Nat)
    BY SendableIs
  <1>2. K \in Nat /\ \A n \in 1..K : ids[n] \in Nat
    BY <1>1
  <1>3. \A d \in Nat : Use(i, d) \in B /\ Answer(i, d) \in B /\ Text(i) \in B
    BY <1>1 DEF BlocksOf, Use, Answer, Text, NoId
  <1>4. Text(i) \in B
    BY <1>3
  <1> HIDE DEF B, ids
  <1>5. Uses(ms, i) = [n \in 1..K |-> Use(i, ids[n])]
    BY DEF Uses, ids
  <1>6. Uses(ms, i) \in [1..K -> B]
    BY <1>2, <1>3, <1>5
  <1>7. Uses(ms, i) \in Seq(B) /\ Len(Uses(ms, i)) = K
    BY <1>2, <1>6, SeqDef
  <1>8. \A n \in 1..K : Uses(ms, i)[n] = Use(i, ids[n])
    BY <1>5
  <1>9. ms[i].role = "tool" => Answer(i, ids[1]) \in B
    BY <1>1, <1>3
  <1> QED BY <1>4, <1>7, <1>8, <1>9 DEF B, ids

(* What an assistant message becomes: not nothing, and it answers nothing. *)
LEMMA AssistantIs ==
    ASSUME NEW ms, Sendable(ms), NEW i \in 1..Len(ms)
    PROVE  LET c == assistantContent(ms, i)
           IN  c \in Seq(BlocksOf(ms)) /\ Len(c) >= 1 /\ c[1].type # "tool_result"
  <1> DEFINE B == BlocksOf(ms)
             u == Uses(ms, i)
             t == Text(i)
             c == assistantContent(ms, i)
  <1>1. /\ t \in B /\ u \in Seq(B) /\ Len(u) = Len(ms[i].ids)
        /\ \A n \in 1..Len(u) : u[n] = Use(i, ms[i].ids[n])
    BY ContentIs
  <1>2. ms[i].ids \in Seq(Nat)
    BY SendableIs
  <1>3. ms[i].ids # <<>> => Len(u) >= 1 /\ u[1].type = "tool_use"
    <2>1. ms[i].ids # <<>> => Len(ms[i].ids) \in Nat /\ Len(ms[i].ids) # 0
      BY <1>2
    <2>2. ms[i].ids # <<>> => u[1] = Use(i, ms[i].ids[1]) /\ Len(u) >= 1
      BY <1>1, <2>1
    <2> QED BY <2>2 DEF Use
  <1>4. t.type = "text"
    BY DEF Text
  <1>5. c = IF ms[i].ids = <<>> THEN <<t>> ELSE (IF ms[i].text THEN <<t>> ELSE <<>>) \o u
    BY DEF assistantContent
  <1> HIDE DEF B, u, t, c
  <1>6. <<t>> \in Seq(B) /\ Len(<<t>>) = 1 /\ <<t>>[1] = t
    BY <1>1
  <1>7. <<t>> \o u \in Seq(B) /\ Len(<<t>> \o u) >= 1 /\ (<<t>> \o u)[1] = t /\ <<>> \o u = u
    BY <1>1
  <1>8. c = <<t>> \/ c = <<t>> \o u \/ (ms[i].ids # <<>> /\ c = u)
    <2>1. CASE ms[i].ids = <<>>
      BY <1>5, <2>1
    <2>2. CASE ms[i].ids # <<>> /\ ms[i].text
      BY <1>5, <2>2
    <2>3. CASE ms[i].ids # <<>> /\ ~ms[i].text
      BY <1>5, <1>7, <2>3
    <2> QED BY <2>1, <2>2, <2>3
  <1>9. c \in Seq(B) /\ Len(c) >= 1 /\ (c[1] = t \/ c[1].type = "tool_use")
    <2>1. CASE c = <<t>>
      BY <1>6, <2>1
    <2>2. CASE c = <<t>> \o u
      <3> DEFINE d == <<t>> \o u
      <3>1. d \in Seq(B) /\ Len(d) >= 1 /\ d[1] = t /\ c = d
        BY <1>7, <2>2
      <3> HIDE DEF d
      <3> QED BY <3>1
    <2>3. CASE ms[i].ids # <<>> /\ c = u
      BY <1>1, <1>3, <2>3
    <2> QED BY <1>8, <2>1, <2>2, <2>3
  <1> QED BY <1>4, <1>9 DEF B, c

(* The results of a run are as many blocks.                                *)
LEMMA AnswersAre ==
    ASSUME NEW ms, Sendable(ms), NEW i \in 1..Len(ms), NEW j \in i..Len(ms),
           \A k \in i..j : ms[k].role = "tool"
    PROVE  /\ Answers(ms, i, j) \in Seq(BlocksOf(ms)) /\ Len(Answers(ms, i, j)) = j - i + 1
           /\ \A n \in 1..(j - i + 1) : Answers(ms, i, j)[n] = Answer(i + n - 1, ms[i + n - 1].ids[1])
  <1> DEFINE B == BlocksOf(ms)
             K == j - i + 1
             a == Answers(ms, i, j)
  <1>1. Len(ms) \in Nat
    BY SendableIs
  <1>2. K \in Nat /\ \A n \in 1..K : i + n - 1 \in i..j /\ i + n - 1 \in 1..Len(ms)
    BY <1>1
  <1>3. \A n \in 1..K : Answer(i + n - 1, ms[i + n - 1].ids[1]) \in B
    BY <1>2, ContentIs
  <1> HIDE DEF B
  <1>4. a = [n \in 1..K |-> Answer(i + n - 1, ms[i + n - 1].ids[1])]
    BY DEF Answers
  <1>5. a \in [1..K -> B]
    BY <1>3, <1>4
  <1> HIDE DEF a
  <1>6. a \in Seq(B) /\ Len(a) = K
    BY <1>2, <1>5, SeqDef
  <1>7. \A n \in 1..K : a[n] = Answer(i + n - 1, ms[i + n - 1].ids[1])
    BY <1>4
  <1> QED BY <1>6, <1>7 DEF a, B

-------------------------------------------------------------------------------
\* What modelMessagesToOpenAI sends, and the two parts of it.

Content(ms, i) ==
    IF ms[i].role = "tool" THEN <<Answer(i, ms[i].ids[1])>> ELSE <<Text(i)>> \o Uses(ms, i)

Contents(ms) == [i \in 1..Len(ms) |-> Content(ms, i)]

ToldIn(ms) == {b \in BlocksOf(ms) :
                  /\ ms[b.from].role # "system"
                  /\ b.type = "text" => ms[b.from].ids = <<>> \/ ms[b.from].text}

InstructingIn(ms) == {b \in BlocksOf(ms) : ms[b.from].role = "system"}

(* The blocks of its request, message by message.                          *)
LEMMA ContentsAre ==
    ASSUME NEW ms, Sendable(ms)
    PROVE  /\ Contents(ms) \in Seq(Seq(BlocksOf(ms))) /\ Len(Contents(ms)) = Len(ms)
           /\ \A i \in 1..Len(ms) : Contents(ms)[i] = Content(ms, i) /\ Content(ms, i) \in Seq(BlocksOf(ms))
           /\ Blocks(modelMessagesToOpenAI(ms)) = FlattenSeq(Contents(ms))
  <1> DEFINE B == BlocksOf(ms)
             U == Seq(B)
             N == Len(ms)
             o == modelMessagesToOpenAI(ms)
             c == Contents(ms)
  <1>1. N \in Nat /\ DOMAIN ms = 1..N
    BY SendableIs
  <1>2. ASSUME NEW i \in 1..N PROVE Content(ms, i) \in U
    <2> DEFINE t == Text(i)
               u == Uses(ms, i)
               a == Answer(i, ms[i].ids[1])
    <2>1. t \in B /\ u \in Seq(B) /\ (ms[i].role = "tool" => a \in B)
      BY ContentIs
    <2>2. Content(ms, i) = IF ms[i].role = "tool" THEN <<a>> ELSE <<t>> \o u
      BY DEF Content
    <2> HIDE DEF t, u, a, B
    <2>3. <<t>> \o u \in Seq(B)
      BY <2>1
    <2>4. ms[i].role = "tool" => <<a>> \in Seq(B)
      BY <2>1
    <2> QED BY <2>2, <2>3, <2>4
  <1> HIDE DEF U
  <1>3. c \in [1..N -> U] /\ \A i \in 1..N : c[i] = Content(ms, i)
    BY <1>2 DEF Contents
  <1>4. c \in Seq(U) /\ Len(c) = N
    <2> HIDE DEF c
    <2> QED BY <1>1, <1>3, SeqDef
  <1>5. [n \in DOMAIN o |-> o[n].blocks] = c
    <2>1. DOMAIN o = 1..N
      BY <1>1 DEF modelMessagesToOpenAI
    <2>2. ASSUME NEW i \in 1..N PROVE o[i].blocks = Content(ms, i)
      <3>1. o[i] = ReqMsg(ms[i].role, Content(ms, i))
        BY <1>1 DEF modelMessagesToOpenAI, Content
      <3> QED BY <3>1 DEF ReqMsg
    <2> HIDE DEF o
    <2> QED BY <2>1, <2>2 DEF Contents
  <1>6. Blocks(o) = FlattenSeq(c)
    BY <1>5 DEF Blocks
  <1> QED BY <1>2, <1>3, <1>4, <1>6 DEF U

(* What a message tells, and how it instructs.                             *)
LEMMA MessageTells ==
    ASSUME NEW ms, Sendable(ms), NEW i \in 1..Len(ms)
    PROVE  /\ ms[i].role = "system" => SelectIn(Content(ms, i), ToldIn(ms)) = <<>>
           /\ ms[i].role = "user" => SelectIn(Content(ms, i), ToldIn(ms)) = <<Text(i)>>
           /\ ms[i].role = "assistant" => SelectIn(Content(ms, i), ToldIn(ms)) = assistantContent(ms, i)
           /\ ms[i].role = "tool" => SelectIn(Content(ms, i), ToldIn(ms)) = <<Answer(i, ms[i].ids[1])>>
           /\ SelectIn(Content(ms, i), InstructingIn(ms)) = IF ms[i].role = "system" THEN <<Text(i)>> ELSE <<>>
  <1> DEFINE B == BlocksOf(ms)
             u == Uses(ms, i)
             t == Text(i)
             a == Answer(i, ms[i].ids[1])
             S == ToldIn(ms)
             I == InstructingIn(ms)
             c == Content(ms, i)
  <1>1. /\ t \in B /\ u \in Seq(B) /\ Len(u) = Len(ms[i].ids)
        /\ \A n \in 1..Len(u) : u[n] = Use(i, ms[i].ids[n])
        /\ ms[i].role = "tool" => a \in B
    BY ContentIs
  <1>0. /\ t.from = i /\ t.type = "text" /\ a.from = i /\ a.type = "tool_result"
        /\ \A n \in 1..Len(u) : u[n].from = i /\ u[n].type = "tool_use"
    <2>1. t.from = i /\ t.type = "text" /\ a.from = i /\ a.type = "tool_result"
      BY DEF Text, Answer
    <2>2. \A d : Use(i, d).from = i /\ Use(i, d).type = "tool_use"
      BY DEF Use
    <2> HIDE DEF t, a, u
    <2> QED BY <1>1, <2>1, <2>2
  <1>2. ms[i].role \in Roles /\ ms[i].ids \in Seq(Nat)
    BY SendableIs
  <1>3. ms[i].role # "system" =>
           /\ t \in S <=> ms[i].ids = <<>> \/ ms[i].text
           /\ ms[i].role = "tool" => a \in S
           /\ \A n \in 1..Len(u) : u[n] \in S
    <2>1. t.from = i /\ t.type = "text" /\ a.from = i /\ a.type = "tool_result"
      BY <1>0
    <2>2. \A n \in 1..Len(u) : u[n] \in B
      BY <1>1
    <2> HIDE DEF t, a, u
    <2> QED BY <1>0, <1>1, <2>1, <2>2 DEF ToldIn
  <1>4. ms[i].role = "system" => t \notin S /\ t \in I
    BY <1>1 DEF ToldIn, InstructingIn, Text
  <1>5. ms[i].role # "system" => t \notin I /\ a \notin I /\ \A n \in 1..Len(u) : u[n] \notin I
    <2> HIDE DEF t, a, u
    <2> QED BY <1>0 DEF InstructingIn
  <1>6. ms[i].role \in {"system", "user"} => ms[i].ids = <<>>
    BY DEF Sendable
  <1>7. ms[i].ids = <<>> => u = <<>>
    <2>1. ms[i].ids = <<>> => Len(u) = 0
      BY <1>1
    <2> QED BY <1>1, <2>1
  <1>8. c = IF ms[i].role = "tool" THEN <<a>> ELSE <<t>> \o u
    BY DEF Content
  <1>9. assistantContent(ms, i) = IF ms[i].ids = <<>> THEN <<t>> ELSE (IF ms[i].text THEN <<t>> ELSE <<>>) \o u
    BY DEF assistantContent
  <1> HIDE DEF B, u, t, a, S, I, c
  <1>10. <<t>> \in Seq(B) /\ <<>> \in Seq(B) /\ <<t>> \o <<>> = <<t>> /\ <<>> \o u = u
    BY <1>1
  <1>11. ASSUME NEW X
         PROVE  SelectIn(<<t>> \o u, X) = (IF t \in X THEN <<t>> ELSE <<>>) \o SelectIn(u, X)
    <2> DEFINE o == <<t>>
    <2>1. o \in Seq(B)
      BY <1>10
    <2>2. SelectIn(o, X) = IF t \in X THEN <<t>> ELSE <<>>
      BY SelectOne
    <2> HIDE DEF o
    <2>3. SelectIn(o \o u, X) = SelectIn(o, X) \o SelectIn(u, X)
      BY <1>1, <2>1, SelectConcat
    <2>4. SelectIn(o \o u, X) = (IF t \in X THEN <<t>> ELSE <<>>) \o SelectIn(u, X)
      BY <2>2, <2>3
    <2> QED BY <2>4 DEF o
  <1>12. ms[i].role # "system" => SelectIn(u, S) = u /\ SelectIn(u, I) = <<>>
    BY <1>1, <1>3, <1>5, SelectAll, SelectNone
  <1>13. CASE ms[i].role = "system"
    <2>1. c = <<t>> /\ u = <<>>
      BY <1>6, <1>7, <1>8, <1>10, <1>13
    <2>2. SelectIn(<<t>>, S) = <<>> /\ SelectIn(<<t>>, I) = <<t>>
      BY <1>4, <1>13, SelectOne
    <2> QED BY <1>13, <2>1, <2>2 DEF c, S, I, t
  <1>14. CASE ms[i].role = "user"
    <2>1. c = <<t>>
      BY <1>6, <1>7, <1>8, <1>10, <1>14
    <2>2. t \in S /\ t \notin I
      BY <1>3, <1>5, <1>6, <1>14
    <2>3. SelectIn(<<t>>, S) = <<t>> /\ SelectIn(<<t>>, I) = <<>>
      BY <2>2, SelectOne
    <2> QED BY <1>14, <2>1, <2>3 DEF c, S, I, t
  <1>15. CASE ms[i].role = "tool"
    <2>1. c = <<a>> /\ a \in S /\ a \notin I
      BY <1>3, <1>5, <1>8, <1>15
    <2>2. SelectIn(<<a>>, S) = <<a>> /\ SelectIn(<<a>>, I) = <<>>
      BY <2>1, SelectOne
    <2> QED BY <1>15, <2>1, <2>2 DEF c, S, I, a
  <1>16. CASE ms[i].role = "assistant"
    <2>1. c = <<t>> \o u /\ SelectIn(u, S) = u /\ SelectIn(u, I) = <<>> /\ t \notin I
      BY <1>5, <1>8, <1>12, <1>16
    <2>2. SelectIn(c, I) = <<>>
      <3>1. SelectIn(<<t>> \o u, I) = (IF t \in I THEN <<t>> ELSE <<>>) \o SelectIn(u, I)
        BY <1>11
      <3>2. <<>> \o <<>> = <<>>
        OBVIOUS
      <3> QED BY <2>1, <3>1, <3>2
    <2>3. SelectIn(c, S) = (IF ms[i].ids = <<>> \/ ms[i].text THEN <<t>> ELSE <<>>) \o u
      <3>1. SelectIn(<<t>> \o u, S) = (IF t \in S THEN <<t>> ELSE <<>>) \o SelectIn(u, S)
        BY <1>11
      <3>2. t \in S <=> ms[i].ids = <<>> \/ ms[i].text
        BY <1>3, <1>16
      <3> QED BY <2>1, <3>1, <3>2
    <2>4. SelectIn(c, S) = assistantContent(ms, i)
      <3>1. CASE ms[i].ids = <<>>
        BY <1>7, <1>9, <1>10, <2>3, <3>1
      <3>2. CASE ms[i].ids # <<>>
        BY <1>9, <2>3, <3>2
      <3> QED BY <3>1, <3>2
    <2> QED BY <1>16, <2>2, <2>4 DEF c, S, I
  <1> QED BY <1>2, <1>13, <1>14, <1>15, <1>16 DEF Roles

-------------------------------------------------------------------------------
\* What modelMessagesToAnthropic sends.

ReqMsgs(ms) == [role : {"user", "assistant"}, blocks : Seq(BlocksOf(ms))]

\* One round of its loop.
Round(f, ms, i) ==
    /\ ms[i].role = "system" => f[i] = f[i + 1]
    /\ ms[i].role = "tool" =>
         f[i] = <<ReqMsg("user", Answers(ms, i, ResultsEnd(ms, i)))>> \o f[ResultsEnd(ms, i) + 1]
    /\ ms[i].role = "user" => f[i] = <<ReqMsg("user", <<Text(i)>>)>> \o f[i + 1]
    /\ ms[i].role = "assistant" =>
         f[i] = <<ReqMsg("assistant", assistantContent(ms, i))>> \o f[i + 1]

(* The cases of its loop.                                                  *)
LEMMA LoopCases ==
    ASSUME NEW ms, Sendable(ms), NEW f, Becomes(f, ms)
    PROVE  /\ f[Len(ms) + 1] = <<>>
           /\ \A i \in 1..Len(ms) : Round(f, ms, i)
  <1> DEFINE N == Len(ms)
  <1>1. N \in Nat
    BY SendableIs
  <1>2. \A i \in 1..(N + 1) : f[i] = FromOn(f, ms, i)
    BY DEF Becomes
  <1>3. N + 1 \in 1..(N + 1) /\ N + 1 > N
    BY <1>1
  <1>4. f[N + 1] = <<>>
    BY <1>2, <1>3 DEF FromOn
  <1>5. \A i \in 1..N : f[i] = FromOn(f, ms, i) /\ ~(i > N)
    BY <1>1, <1>2
  <1>6. ASSUME NEW i \in 1..N PROVE Round(f, ms, i)
    BY <1>5 DEF FromOn, Round
  <1> QED BY <1>4, <1>6

(* It sends messages of the user and of the assistant.                     *)
LEMMA RequestType ==
    ASSUME NEW ms, Sendable(ms), NEW f, Becomes(f, ms)
    PROVE  \A i \in 1..(Len(ms) + 1) : f[i] \in Seq(ReqMsgs(ms))
  <1> DEFINE N == Len(ms)
             M == ReqMsgs(ms)
             B == BlocksOf(ms)
             W == Seq(M)
             G == {n \in 0..N : \A i \in (n + 1)..(N + 1) : f[i] \in W}
  <1>1. N \in Nat
    BY SendableIs
  <1>2. N \in G
    <2>1. f[N + 1] = <<>>
      BY LoopCases
    <2>2. <<>> \in W
      OBVIOUS
    <2>3. \A i \in (N + 1)..(N + 1) : i = N + 1
      BY <1>1
    <2> HIDE DEF W
    <2>4. \A i \in (N + 1)..(N + 1) : f[i] \in W
      BY <2>1, <2>2, <2>3
    <2> QED BY <1>1, <2>4
  <1>3. ASSUME NEW n \in 1..N, n \in G PROVE n - 1 \in G
    <2>1. /\ \A i \in (n + 1)..(N + 1) : f[i] \in W
          /\ n + 1 \in (n + 1)..(N + 1) /\ n - 1 \in 0..N /\ (n - 1) + 1 = n
          /\ \A i \in n..(N + 1) : i = n \/ i \in (n + 1)..(N + 1)
      BY <1>1, <1>3
    <2>2. ASSUME NEW r, NEW b, r \in {"user", "assistant"}, b \in Seq(B), NEW s \in W
          PROVE  <<ReqMsg(r, b)>> \o s \in W
      <3> DEFINE m == ReqMsg(r, b)
      <3>1. m \in M
        BY <2>2 DEF ReqMsg, ReqMsgs
      <3> HIDE DEF m, M
      <3>2. s \in Seq(M)
        BY <2>2
      <3>3. <<m>> \o s \in Seq(M)
        BY <3>1, <3>2
      <3> QED BY <3>3 DEF m
    <2> HIDE DEF W, B
    <2>0. Round(f, ms, n)
      BY LoopCases
    <2>3. CASE ms[n].role = "system"
      <3>1. f[n] = f[n + 1]
        BY <2>0, <2>3 DEF Round
      <3> QED BY <2>1, <3>1
    <2>4. CASE ms[n].role = "tool"
      <3> DEFINE j == ResultsEnd(ms, n)
      <3>1. j \in n..N /\ \A k \in n..j : ms[k].role = "tool"
        BY <1>1, <2>4, ResultsEndIs
      <3>2. f[n] = <<ReqMsg("user", Answers(ms, n, j))>> \o f[j + 1]
        BY <2>0, <2>4 DEF Round
      <3> HIDE DEF j
      <3>3. j + 1 \in (n + 1)..(N + 1)
        BY <1>1, <3>1
      <3>4. Answers(ms, n, j) \in Seq(B)
        BY <3>1, AnswersAre DEF B
      <3>5. f[n] \in W
        BY <2>1, <2>2, <3>2, <3>3, <3>4
      <3> QED BY <2>1, <3>5
    <2>5. CASE ms[n].role = "user"
      <3> DEFINE t == <<Text(n)>>
      <3>1. f[n] = <<ReqMsg("user", t)>> \o f[n + 1]
        BY <2>0, <2>5 DEF Round
      <3>2. Text(n) \in B
        BY ContentIs DEF B
      <3>3. t \in Seq(B)
        BY <3>2
      <3> HIDE DEF t
      <3>4. f[n] \in W
        BY <2>1, <2>2, <3>1, <3>3
      <3> QED BY <2>1, <3>4
    <2>6. CASE ms[n].role = "assistant"
      <3>1. f[n] = <<ReqMsg("assistant", assistantContent(ms, n))>> \o f[n + 1]
        BY <2>0, <2>6 DEF Round
      <3>2. assistantContent(ms, n) \in Seq(B)
        BY AssistantIs DEF B
      <3>3. f[n] \in W
        BY <2>1, <2>2, <3>1, <3>2
      <3> QED BY <2>1, <3>3
    <2>7. ms[n].role \in Roles
      BY SendableIs
    <2> QED BY <2>3, <2>4, <2>5, <2>6, <2>7 DEF Roles
  <1>4. \A n \in 0..N : n \in G
    <2> HIDE DEF G
    <2> QED BY <1>1, <1>2, <1>3, Downward
  <1>5. 0 \in 0..N
    BY <1>1
  <1> QED BY <1>4, <1>5

(* The blocks of a request that starts with a message.                     *)
LEMMA BlocksFirst ==
    ASSUME NEW ms, NEW r, r \in {"user", "assistant"}, NEW b \in Seq(BlocksOf(ms)),
           NEW s \in Seq(ReqMsgs(ms))
    PROVE  /\ Blocks(s) \in Seq(BlocksOf(ms))
           /\ Blocks(<<ReqMsg(r, b)>> \o s) = b \o Blocks(s)
  <1> DEFINE B == BlocksOf(ms)
             U == Seq(B)
             M == ReqMsgs(ms)
             m == ReqMsg(r, b)
             t == <<m>> \o s
             of(q) == [n \in DOMAIN q |-> q[n].blocks]
  <1>1. m \in M /\ m.blocks = b /\ b \in U
    BY DEF ReqMsg, ReqMsgs
  <1>2. \A x \in M : x.blocks \in U
    BY DEF ReqMsgs
  <1> HIDE DEF M, m, U
  <1>3. /\ Len(s) \in Nat /\ DOMAIN s = 1..Len(s) /\ \A n \in 1..Len(s) : s[n] \in M
        /\ t \in Seq(M) /\ Len(t) = 1 + Len(s) /\ DOMAIN t = 1..Len(t) /\ t[1] = m
        /\ \A n \in 1..Len(s) : t[1 + n] = s[n]
    BY <1>1 DEF M
  <1> HIDE DEF t
  <1>4. \A n \in 1..Len(t) : t[n] \in M
    BY <1>3
  <1>5. of(s) \in [1..Len(s) -> U] /\ of(t) \in [1..Len(t) -> U]
    BY <1>2, <1>3, <1>4
  <1>6. /\ of(s) \in Seq(U) /\ Len(of(s)) = Len(s) /\ of(t) \in Seq(U) /\ Len(of(t)) = 1 + Len(s)
        /\ \A n \in 1..Len(s) : of(s)[n] = s[n].blocks
        /\ \A n \in 1..Len(t) : of(t)[n] = t[n].blocks
    <2>1. /\ \A n \in 1..Len(s) : of(s)[n] = s[n].blocks
          /\ \A n \in 1..Len(t) : of(t)[n] = t[n].blocks
      BY <1>3
    <2>2. Len(t) \in Nat /\ Len(s) \in Nat
      BY <1>3
    <2> DEFINE x == of(s)
               y == of(t)
    <2>3. x \in [1..Len(s) -> U] /\ y \in [1..Len(t) -> U]
      BY <1>5
    <2> HIDE DEF x, y
    <2>4. x \in Seq(U) /\ Len(x) = Len(s)
      BY <2>2, <2>3, SeqDef
    <2>5. y \in Seq(U) /\ Len(y) = Len(t)
      BY <2>2, <2>3, SeqDef
    <2> QED BY <1>3, <2>1, <2>4, <2>5 DEF x, y
  <1>7. of(t) = <<b>> \o of(s)
    <2> DEFINE x == of(s)
               y == of(t)
               z == <<b>> \o x
    <2> HIDE DEF of, x, y
    <2>1. x \in Seq(U) /\ y \in Seq(U) /\ Len(x) = Len(s) /\ Len(y) = 1 + Len(s)
      BY <1>6 DEF x, y
    <2>2. z \in Seq(U) /\ Len(z) = 1 + Len(s) /\ z[1] = b /\ \A n \in 1..Len(s) : z[1 + n] = x[n]
      BY <1>1, <1>3, <2>1
    <2> HIDE DEF z
    <2>3. y[1] = b /\ \A n \in 1..Len(s) : y[1 + n] = x[n]
      <3>1. 1 \in 1..Len(t) /\ \A n \in 1..Len(s) : 1 + n \in 1..Len(t)
        BY <1>3
      <3> QED BY <1>1, <1>3, <1>6, <3>1 DEF x, y
    <2>4. ASSUME NEW n \in 1..Len(y) PROVE y[n] = z[n]
      <3>1. n = 1 \/ (n - 1 \in 1..Len(s) /\ 1 + (n - 1) = n)
        BY <1>3, <2>1
      <3>2. CASE n = 1
        BY <2>2, <2>3, <3>2
      <3>3. CASE n - 1 \in 1..Len(s) /\ 1 + (n - 1) = n
        <4> DEFINE k == n - 1
        <4>1. k \in 1..Len(s) /\ 1 + k = n
          BY <3>3
        <4> HIDE DEF k
        <4> QED BY <2>2, <2>3, <4>1
      <3> QED BY <3>1, <3>2, <3>3
    <2>5. y = z
      BY <2>1, <2>2, <2>4, SeqEqual
    <2> QED BY <2>5 DEF x, y, z
  <1>8. Blocks(s) = FlattenSeq(of(s)) /\ Blocks(t) = FlattenSeq(of(t))
    BY DEF Blocks
  <1> HIDE DEF of
  <1>9. FlattenSeq(<<b>> \o of(s)) = b \o FlattenSeq(of(s)) /\ FlattenSeq(of(s)) \in Seq(B)
    <2> DEFINE x == of(s)
    <2>1. x \in Seq(Seq(B))
      BY <1>6 DEF U
    <2> HIDE DEF x, B
    <2>2. FlattenSeq(<<b>> \o x) = b \o FlattenSeq(x) /\ FlattenSeq(x) \in Seq(B)
      BY <2>1, FlattenFirst, FlattenType DEF B
    <2> QED BY <2>2 DEF x
  <1> QED BY <1>7, <1>8, <1>9 DEF t, m

\* What the messages from i on tell.
Rest(ms, i) == SelectIn(FlattenSeq(SubSeq(Contents(ms), i, Len(ms))), ToldIn(ms))

(* What a message tells comes before what the rest tells.                  *)
LEMMA RestIs ==
    ASSUME NEW ms, Sendable(ms)
    PROVE  /\ Rest(ms, Len(ms) + 1) = <<>>
           /\ Rest(ms, 1) = SelectIn(FlattenSeq(Contents(ms)), ToldIn(ms))
           /\ \A i \in 1..Len(ms) :
                 Rest(ms, i) = SelectIn(Content(ms, i), ToldIn(ms)) \o Rest(ms, i + 1)
  <1> DEFINE N == Len(ms)
             B == BlocksOf(ms)
             U == Seq(B)
             c == Contents(ms)
             S == ToldIn(ms)
  <1>1. N \in Nat /\ c \in Seq(U) /\ Len(c) = N /\ \A i \in 1..N : c[i] = Content(ms, i) /\ c[i] \in U
    BY SendableIs, ContentsAre
  <1> HIDE DEF B, U, c, S
  <1>2. SubSeq(c, N + 1, N) = <<>> /\ SubSeq(c, 1, N) = c
    <2>1. SubSeq(c, 1, N) = c
      BY <1>1
    <2>2. SubSeq(c, N + 1, N) = <<>>
      BY <1>1
    <2> QED BY <2>1, <2>2
  <1>3. Rest(ms, N + 1) = <<>>
    BY <1>2, FlattenEmpty, SelectEmpty DEF Rest, c, S
  <1>4. ASSUME NEW i \in 1..N
        PROVE  Rest(ms, i) = SelectIn(Content(ms, i), S) \o Rest(ms, i + 1)
    <2> DEFINE x == c[i]
               t == SubSeq(c, i + 1, N)
    <2>1. x \in U /\ t \in Seq(U) /\ x = Content(ms, i)
      BY <1>1
    <2>2. SubSeq(c, i, N) = <<x>> \o t
      <3> DEFINE a == SubSeq(c, i, N)
                 b == <<x>> \o t
      <3>1. a \in Seq(U) /\ Len(a) = N - i + 1 /\ \A k \in 1..Len(a) : a[k] = c[i + k - 1]
        BY <1>1
      <3>2. Len(t) = N - i /\ \A k \in 1..Len(t) : t[k] = c[i + k]
        BY <1>1
      <3> HIDE DEF t, x, a
      <3>3. b \in Seq(U) /\ Len(b) = N - i + 1 /\ b[1] = x /\ \A k \in 1..Len(t) : b[1 + k] = t[k]
        BY <1>1, <2>1, <3>2
      <3> HIDE DEF b
      <3>4. ASSUME NEW k \in 1..Len(a) PROVE a[k] = b[k]
        <4>1. CASE k = 1
          <5>1. i + 1 - 1 = i
            OBVIOUS
          <5> QED BY <3>1, <3>3, <4>1, <5>1 DEF x
        <4>2. CASE k # 1
          <5> DEFINE m == k - 1
          <5>1. m \in 1..Len(t) /\ 1 + m = k /\ i + k - 1 = i + m
            BY <1>1, <3>1, <3>2, <4>2
          <5> HIDE DEF m
          <5>2. b[1 + m] = t[m] /\ t[m] = c[i + m]
            BY <3>2, <3>3, <5>1
          <5> QED BY <3>1, <5>1, <5>2
        <4> QED BY <4>1, <4>2
      <3>5. a = b
        BY <3>1, <3>3, <3>4, SeqEqual
      <3> QED BY <3>5 DEF a, b
    <2> HIDE DEF x, t
    <2>3. x \in Seq(B) /\ t \in Seq(Seq(B))
      BY <2>1 DEF U
    <2>4. FlattenSeq(<<x>> \o t) = x \o FlattenSeq(t) /\ FlattenSeq(t) \in Seq(B)
      BY <2>3, FlattenFirst, FlattenType
    <2> DEFINE r == FlattenSeq(t)
    <2> HIDE DEF r
    <2>5. r \in Seq(B)
      BY <2>4 DEF r
    <2>6. SelectIn(x \o r, S) = SelectIn(x, S) \o SelectIn(r, S)
      BY <2>3, <2>5, SelectConcat
    <2>7. Rest(ms, i) = SelectIn(x \o r, S)
      BY <2>2, <2>4 DEF Rest, c, S, r
    <2>8. Rest(ms, i + 1) = SelectIn(r, S)
      BY DEF Rest, c, S, r, t
    <2> QED BY <2>1, <2>6, <2>7, <2>8
  <1>5. Rest(ms, 1) = SelectIn(FlattenSeq(c), S)
    BY <1>2 DEF Rest, c, S
  <1> QED BY <1>3, <1>4, <1>5 DEF c, S

(* What the messages from i on become is what they tell.                   *)
LEMMA BlocksAreRest ==
    ASSUME NEW ms, Sendable(ms), NEW f, Becomes(f, ms)
    PROVE  \A i \in 1..(Len(ms) + 1) : Blocks(f[i]) = Rest(ms, i)
  <1> DEFINE N == Len(ms)
             B == BlocksOf(ms)
             W == Seq(ReqMsgs(ms))
             G == {n \in 0..N : Blocks(f[n + 1]) = Rest(ms, n + 1)}
  <1>1. N \in Nat
    BY SendableIs
  <1>2. \A i \in 1..(N + 1) : f[i] \in W
    BY RequestType
  <1>3. N \in G
    <2>1. f[N + 1] = <<>> /\ Rest(ms, N + 1) = <<>>
      BY LoopCases, RestIs
    <2>2. Blocks(<<>>) = <<>>
      <3>1. [n \in DOMAIN <<>> |-> <<>>[n].blocks] = <<>>
        OBVIOUS
      <3> QED BY <3>1, FlattenEmpty DEF Blocks
    <2> QED BY <1>1, <2>1, <2>2
  <1>4. ASSUME NEW i \in 1..N, Blocks(f[i + 1]) = Rest(ms, i + 1)
        PROVE  Blocks(f[i]) = Rest(ms, i)
    <2>1. i + 1 \in 1..(N + 1) /\ f[i + 1] \in W /\ f[i] \in W
      BY <1>1, <1>2
    <2>2. Round(f, ms, i)
      BY LoopCases
    <2>3. Rest(ms, i) = SelectIn(Content(ms, i), ToldIn(ms)) \o Rest(ms, i + 1)
      BY RestIs
    <2>4. Blocks(f[i + 1]) \in Seq(B)
      <3> DEFINE r == "user"
                 b == <<>>
      <3>1. r \in {"user", "assistant"} /\ b \in Seq(B)
        OBVIOUS
      <3> HIDE DEF r, b
      <3> QED BY <2>1, <3>1, BlocksFirst
    <2>5. CASE ms[i].role = "system"
      <3>1. f[i] = f[i + 1] /\ SelectIn(Content(ms, i), ToldIn(ms)) = <<>>
        BY <2>2, <2>5, MessageTells DEF Round
      <3> DEFINE r == Rest(ms, i + 1)
      <3>2. r \in Seq(B)
        BY <1>4, <2>4
      <3> HIDE DEF r, B
      <3>3. <<>> \o r = r
        BY <3>2
      <3> QED BY <1>4, <2>3, <3>1, <3>3 DEF r
    <2>6. CASE ms[i].role = "user"
      <3> DEFINE t == <<Text(i)>>
      <3>1. f[i] = <<ReqMsg("user", t)>> \o f[i + 1] /\ SelectIn(Content(ms, i), ToldIn(ms)) = t
        BY <2>2, <2>6, MessageTells DEF Round
      <3>2. t \in Seq(B)
        BY ContentIs
      <3> HIDE DEF t
      <3>3. Blocks(<<ReqMsg("user", t)>> \o f[i + 1]) = t \o Blocks(f[i + 1])
        BY <2>1, <3>2, BlocksFirst
      <3> QED BY <1>4, <2>3, <3>1, <3>3
    <2>7. CASE ms[i].role = "assistant"
      <3> DEFINE t == assistantContent(ms, i)
      <3>1. f[i] = <<ReqMsg("assistant", t)>> \o f[i + 1] /\ SelectIn(Content(ms, i), ToldIn(ms)) = t
        BY <2>2, <2>7, MessageTells DEF Round
      <3>2. t \in Seq(B)
        BY AssistantIs
      <3> HIDE DEF t
      <3>3. Blocks(<<ReqMsg("assistant", t)>> \o f[i + 1]) = t \o Blocks(f[i + 1])
        BY <2>1, <3>2, BlocksFirst
      <3> QED BY <1>4, <2>3, <3>1, <3>3
    <2>8. CASE ms[i].role = "tool"
      <3> DEFINE j == ResultsEnd(ms, i)
                 a == <<Answer(i, ms[i].ids[1])>>
                 A(k) == Answers(ms, k, j)
      <3>1. /\ j \in i..N /\ \A k \in i..j : ms[k].role = "tool"
            /\ j = N \/ ms[j + 1].role # "tool"
        BY <1>1, <2>8, ResultsEndIs
      <3>2. f[i] = <<ReqMsg("user", A(i))>> \o f[j + 1] /\ SelectIn(Content(ms, i), ToldIn(ms)) = a
        BY <2>2, <2>8, MessageTells DEF Round
      <3> HIDE DEF j
      <3>3. /\ A(i) \in Seq(B) /\ Len(A(i)) = j - i + 1
            /\ \A n \in 1..(j - i + 1) : A(i)[n] = Answer(i + n - 1, ms[i + n - 1].ids[1])
        BY <3>1, AnswersAre
      <3>4. j + 1 \in 1..(N + 1) /\ f[j + 1] \in W
        BY <1>1, <1>2, <3>1
      <3>5. Blocks(f[i]) = A(i) \o Blocks(f[j + 1]) /\ Blocks(f[j + 1]) \in Seq(B)
        <4> DEFINE x == A(i)
                   r == f[j + 1]
        <4>1. x \in Seq(B) /\ r \in W /\ f[i] = <<ReqMsg("user", x)>> \o r
          BY <3>2, <3>3, <3>4
        <4> HIDE DEF x, r, A
        <4>2. Blocks(<<ReqMsg("user", x)>> \o r) = x \o Blocks(r) /\ Blocks(r) \in Seq(B)
          BY <4>1, BlocksFirst
        <4> QED BY <4>1, <4>2 DEF x, r
      <3>6. a \in Seq(B) /\ Len(a) = 1 /\ a[1] = Answer(i, ms[i].ids[1])
        BY <2>8, ContentIs
      <3>7. CASE j = i
        <4>1. A(i) = a
          <5> HIDE DEF A, a
          <5>1. Len(A(i)) = 1 /\ A(i)[1] = a[1]
            BY <3>3, <3>6, <3>7
          <5>2. \A n \in 1..Len(a) : A(i)[n] = a[n]
            BY <3>6, <5>1
          <5> QED BY <3>3, <3>6, <5>1, <5>2, SeqEqual
        <4> HIDE DEF A, a
        <4> QED BY <1>4, <2>3, <3>2, <3>5, <3>7, <4>1
      <3>8. CASE j # i
        <4>1. i + 1 \in 1..N /\ j \in (i + 1)..N /\ \A k \in (i + 1)..j : ms[k].role = "tool"
          BY <1>1, <3>1, <3>8
        <4>2. ms[i + 1].role = "tool" /\ ResultsEnd(ms, i + 1) = j
          <5>1. i + 1 \in (i + 1)..j
            BY <4>1
          <5>2. ms[i + 1].role = "tool"
            BY <4>1, <5>1
          <5> QED BY <1>1, <3>1, <4>1, <5>2, ResultsEndUnique
        <4>3. /\ A(i + 1) \in Seq(B) /\ Len(A(i + 1)) = j - (i + 1) + 1
              /\ \A n \in 1..(j - (i + 1) + 1) : A(i + 1)[n] = Answer((i + 1) + n - 1, ms[(i + 1) + n - 1].ids[1])
          BY <4>1, AnswersAre
        <4>4. Round(f, ms, i + 1)
          BY <4>1, LoopCases
        <4>5. f[i + 1] = <<ReqMsg("user", A(i + 1))>> \o f[j + 1]
          BY <4>2, <4>4 DEF Round
        <4>6. Blocks(f[i + 1]) = A(i + 1) \o Blocks(f[j + 1])
          <5> DEFINE x == A(i + 1)
                     r == f[j + 1]
          <5>1. x \in Seq(B) /\ r \in W /\ f[i + 1] = <<ReqMsg("user", x)>> \o r
            BY <3>4, <4>3, <4>5
          <5> HIDE DEF x, r, A
          <5>2. Blocks(<<ReqMsg("user", x)>> \o r) = x \o Blocks(r)
            BY <5>1, BlocksFirst
          <5> QED BY <5>1, <5>2 DEF x, r
        <4>7. A(i) = a \o A(i + 1)
          <5> DEFINE x == A(i)
                     y == A(i + 1)
                     z == a \o y
                     An(k) == Answer(k, ms[k].ids[1])
          <5>1. /\ x \in Seq(B) /\ Len(x) = j - i + 1 /\ \A n \in 1..(j - i + 1) : x[n] = An(i + n - 1)
                /\ y \in Seq(B) /\ Len(y) = j - (i + 1) + 1
                /\ \A n \in 1..(j - (i + 1) + 1) : y[n] = An((i + 1) + n - 1)
            BY <3>3, <4>3
          <5>2. a \in Seq(B) /\ Len(a) = 1 /\ a[1] = An(i)
            BY <3>6
          <5> HIDE DEF x, y, a, An, A, B
          <5>3. z \in Seq(B) /\ Len(z) = 1 + Len(y) /\ z[1] = a[1] /\ \A n \in 1..Len(y) : z[1 + n] = y[n]
            <6>1. a \in Seq(B) /\ y \in Seq(B) /\ Len(a) = 1 /\ Len(y) \in Nat
              BY <5>1, <5>2
            <6>2. /\ z \in Seq(B) /\ Len(z) = Len(a) + Len(y)
                  /\ \A n \in 1..(Len(a) + Len(y)) : z[n] = IF n <= Len(a) THEN a[n] ELSE y[n - Len(a)]
              BY ONLY <6>1, ConcatProperties DEF z
            <6>3. 1 \in 1..(1 + Len(y)) /\ 1 <= 1
                  /\ \A n \in 1..Len(y) : 1 + n \in 1..(1 + Len(y)) /\ ~(1 + n <= 1) /\ (1 + n) - 1 = n
              BY <6>1
            <6> HIDE DEF z
            <6> QED BY <6>1, <6>2, <6>3
          <5> HIDE DEF z
          <5>4. ASSUME NEW n \in 1..Len(x) PROVE x[n] = z[n]
            <6>1. CASE n = 1
              <7>1. i + 1 - 1 = i /\ 1 \in 1..(j - i + 1)
                BY <1>1, <3>1
              <7> QED BY <5>1, <5>2, <5>3, <6>1, <7>1
            <6>2. CASE n # 1
              <7> DEFINE k == n - 1
              <7>1. k \in 1..Len(y) /\ 1 + k = n /\ i + n - 1 = (i + 1) + k - 1 /\ n \in 1..(j - i + 1)
                    /\ k \in 1..(j - (i + 1) + 1)
                BY <1>1, <4>1, <5>1, <6>2
              <7> HIDE DEF k
              <7>2. z[1 + k] = y[k] /\ y[k] = An((i + 1) + k - 1) /\ x[n] = An(i + n - 1)
                BY <5>1, <5>3, <7>1
              <7> QED BY <7>1, <7>2
            <6> QED BY <6>1, <6>2
          <5>5. Len(x) = Len(z)
            BY <1>1, <4>1, <5>1, <5>3
          <5>6. x = z
            BY <5>1, <5>3, <5>4, <5>5, SeqEqual
          <5> QED BY <5>6 DEF x, y, z
        <4> DEFINE r == Blocks(f[j + 1])
                   y == A(i + 1)
        <4>8. (a \o y) \o r = a \o (y \o r)
          <5>1. a \in Seq(B) /\ y \in Seq(B) /\ r \in Seq(B)
            BY <3>5, <3>6, <4>3
          <5> HIDE DEF a, y, r
          <5> QED BY ONLY <5>1, ConcatAssociative, SMTT(30)
        <4>9. Blocks(f[i]) = a \o Blocks(f[i + 1])
          <5> HIDE DEF A, a
          <5> QED BY <3>5, <4>6, <4>7, <4>8
        <4> HIDE DEF a
        <4> QED BY <1>4, <2>3, <3>2, <4>9
      <3> QED BY <3>7, <3>8
    <2>9. ms[i].role \in Roles
      BY SendableIs
    <2> QED BY <2>5, <2>6, <2>7, <2>8, <2>9 DEF Roles
  <1>5. ASSUME NEW n \in 1..N, n \in G PROVE n - 1 \in G
    <2>1. n - 1 \in 0..N /\ (n - 1) + 1 = n
      BY <1>1
    <2>2. Blocks(f[n]) = Rest(ms, n)
      BY <1>4, <1>5
    <2> QED BY <2>1, <2>2
  <1>6. \A n \in 0..N : n \in G
    <2> HIDE DEF G
    <2> QED BY <1>1, <1>3, <1>5, Downward
  <1>7. ASSUME NEW i \in 1..(N + 1) PROVE Blocks(f[i]) = Rest(ms, i)
    <2>1. i - 1 \in 0..N /\ (i - 1) + 1 = i
      BY <1>1
    <2>2. i - 1 \in G
      BY <1>6, <2>1
    <2> QED BY <2>1, <2>2
  <1> QED BY <1>7

(* The system messages travel apart, each once and in order.               *)
LEMMA InstructionsAre ==
    ASSUME NEW ms, Sendable(ms)
    PROVE  [n \in DOMAIN systemOf(ms) |-> Text(systemOf(ms)[n])]
             = SelectIn(FlattenSeq(Contents(ms)), InstructingIn(ms))
  <1> DEFINE N == Len(ms)
             B == BlocksOf(ms)
             U == Seq(B)
             c == Contents(ms)
             I == InstructingIn(ms)
             D == 1..N
             Y == {i \in D : ms[i].role = "system"}
             id == [i \in D |-> i]
             P(n) == SubSeq(id, 1, n)
             Q(n) == SubSeq(c, 1, n)
             sys(n) == SelectIn(P(n), Y)
             T(s) == [n \in DOMAIN s |-> Text(s[n])]
             G == {n \in 0..N : T(sys(n)) = SelectIn(FlattenSeq(Q(n)), I)}
  <1>1. /\ N \in Nat /\ DOMAIN ms = D /\ c \in Seq(U) /\ Len(c) = N
        /\ \A i \in D : c[i] = Content(ms, i) /\ c[i] \in U
    BY SendableIs, ContentsAre
  <1>2. id \in Seq(D) /\ Len(id) = N /\ \A i \in D : id[i] = i
    <2>1. id \in [1..N -> D] /\ \A i \in D : id[i] = i
      OBVIOUS
    <2> HIDE DEF id
    <2> QED BY <1>1, <2>1, SeqDef
  <1> HIDE DEF id, c, U
  <1>3. /\ P(0) = <<>> /\ P(N) = id /\ \A n \in 0..N : P(n) \in Seq(D)
        /\ \A n \in 0..(N - 1) : P(n + 1) = Append(P(n), id[n + 1])
    <2> HIDE DEF D
    <2> QED BY <1>2, PrefixesAre
  <1>4. /\ Q(0) = <<>> /\ Q(N) = c /\ \A n \in 0..N : Q(n) \in Seq(U)
        /\ \A n \in 0..(N - 1) : Q(n + 1) = Append(Q(n), c[n + 1])
    BY <1>1, PrefixesAre
  <1>5. systemOf(ms) = sys(N)
    BY <1>1, <1>3 DEF systemOf, id
  <1> HIDE DEF P, Q, I
  <1>6. T(<<>>) = <<>>
    OBVIOUS
  <1>7. 0 \in G
    <2>1. sys(0) = <<>>
      BY <1>3, SelectEmpty
    <2>2. SelectIn(FlattenSeq(Q(0)), I) = <<>>
      BY <1>4, FlattenEmpty, SelectEmpty
    <2>3. T(sys(0)) = SelectIn(FlattenSeq(Q(0)), I)
      <3> HIDE DEF T, sys
      <3> QED BY <1>6, <2>1, <2>2
    <2>4. 0 \in 0..N
      BY <1>1
    <2> QED BY <2>3, <2>4
  <1>8. ASSUME NEW n \in 0..(N - 1), n \in G PROVE n + 1 \in G
    <2> DEFINE i == n + 1
               p == P(n)
               q == FlattenSeq(Q(n))
               x == c[i]
               s == SelectIn(p, Y)
    <2>1. i \in D /\ i \in 0..N /\ n \in 0..N
      BY <1>1
    <2>2. p \in Seq(D) /\ P(i) = Append(p, i)
      BY <1>2, <1>3, <2>1
    <2>3. Q(n) \in Seq(Seq(B)) /\ x \in Seq(B) /\ Q(i) = Append(Q(n), x) /\ x = Content(ms, i)
      BY <1>1, <1>4, <2>1 DEF U
    <2>4. q \in Seq(B) /\ FlattenSeq(Q(i)) = q \o x
      BY <2>3, FlattenType, FlattenLast
    <2>5. T(s) = SelectIn(q, I)
      BY <1>8
    <2>6. SelectIn(x, I) = IF ms[i].role = "system" THEN <<Text(i)>> ELSE <<>>
      BY <2>1, <2>3, MessageTells DEF I
    <2>7. i \in Y <=> ms[i].role = "system"
      BY <2>1
    <2> HIDE DEF i, p, q, x, D, Y, B
    <2>8. sys(i) = IF i \in Y THEN Append(s, i) ELSE s
      <3>1. SelectIn(Append(p, i), Y) = IF i \in Y THEN Append(SelectIn(p, Y), i) ELSE SelectIn(p, Y)
        BY <2>1, <2>2, SelectLast
      <3> HIDE DEF p
      <3>2. sys(i) = SelectIn(Append(p, i), Y) /\ s = SelectIn(p, Y)
        BY <2>2
      <3> HIDE DEF s, sys
      <3> QED BY <3>1, <3>2
    <2>9. s \in Seq(D \cap Y)
      <3>1. p \in Seq(D)
        BY <2>2
      <3> QED BY ONLY <3>1, SelectedAre
    <2>10. SelectIn(FlattenSeq(Q(i)), I) = SelectIn(q, I) \o SelectIn(x, I)
      <3>1. q \in Seq(B) /\ x \in Seq(B)
        BY <2>3, <2>4
      <3>2. SelectIn(q \o x, I) = SelectIn(q, I) \o SelectIn(x, I)
        BY ONLY <3>1, SelectConcat
      <3> QED BY <2>4, <3>2
    <2>11. SelectIn(q, I) \in Seq(B \cap I)
      BY <2>4, SelectedAre
    <2> DEFINE r == SelectIn(q, I)
    <2>12. CASE ms[i].role = "system"
      <3>1. sys(i) = Append(s, i) /\ SelectIn(FlattenSeq(Q(i)), I) = r \o <<Text(i)>>
        BY <2>6, <2>7, <2>8, <2>10, <2>12
      <3>2. T(Append(s, i)) = r \o <<Text(i)>>
        <4> DEFINE b == Append(s, i)
                   t == Text(i)
                   R == B \cap I
                   d == Append(r, t)
        <4>1. s \in Seq(D \cap Y) /\ r \in Seq(R) /\ r = T(s)
          BY <2>5, <2>9, <2>11
        <4> HIDE DEF s, r, t, R
        <4>2. /\ Len(s) \in Nat /\ DOMAIN s = 1..Len(s) /\ DOMAIN b = 1..(Len(s) + 1)
              /\ b[Len(s) + 1] = i /\ \A k \in 1..Len(s) : b[k] = s[k]
          BY <4>1
        <4>3. DOMAIN r = DOMAIN s /\ \A k \in 1..Len(s) : r[k] = Text(s[k])
          BY <4>1, <4>2
        <4>4. Len(r) = Len(s)
          BY <4>1, <4>2, <4>3
        <4>5. /\ r \o <<t>> = d /\ DOMAIN d = 1..(Len(s) + 1) /\ d[Len(s) + 1] = t
              /\ d = [k \in 1..(Len(s) + 1) |-> d[k]]
              /\ \A k \in 1..Len(s) : d[k] = r[k]
          BY <4>1, <4>4
        <4> HIDE DEF b, d
        <4>6. ASSUME NEW k \in 1..(Len(s) + 1) PROVE Text(b[k]) = d[k]
          <5>1. CASE k = Len(s) + 1
            BY <4>2, <4>5, <5>1 DEF t
          <5>2. CASE k # Len(s) + 1
            <6>1. k \in 1..Len(s)
              BY <4>2, <5>2
            <6> QED BY <4>2, <4>3, <4>5, <6>1
          <5> QED BY <5>1, <5>2
        <4>7. T(b) = d
          BY <4>2, <4>5, <4>6
        <4> QED BY <4>5, <4>7 DEF b, t
      <3> HIDE DEF sys, T
      <3> QED BY <2>1, <3>1, <3>2 DEF i
    <2>13. CASE ms[i].role # "system"
      <3>1. sys(i) = s /\ SelectIn(FlattenSeq(Q(i)), I) = r \o <<>>
        BY <2>6, <2>7, <2>8, <2>10, <2>13
      <3>2. r \o <<>> = r
        <4> HIDE DEF r
        <4>1. r \in Seq(B \cap I)
          BY <2>11 DEF r
        <4> QED BY <4>1
      <3> HIDE DEF sys, T, s
      <3>3. T(sys(i)) = SelectIn(FlattenSeq(Q(i)), I)
        BY <2>5, <3>1, <3>2
      <3> QED BY <2>1, <3>3 DEF i
    <2> QED BY <2>12, <2>13
  <1>9. \A n \in 0..N : n \in G
    <2> HIDE DEF G
    <2> QED BY <1>1, <1>7, <1>8, Upward
  <1>10. N \in 0..N
    BY <1>1
  <1>11. T(sys(N)) = SelectIn(FlattenSeq(c), I)
    BY <1>4, <1>9, <1>10
  <1> QED BY <1>5, <1>11 DEF c, I

(* Both providers are told the same.                                       *)
LEMMA TellsTheSame ==
    ASSUME NEW ms, Sendable(ms)
    PROVE  SameStory(ms)
  <1>1. PICK f : Becomes(f, ms) /\ modelMessagesToAnthropic(ms) = f[1]
    BY AnthropicIs
  <1>2. 1 \in 1..(Len(ms) + 1)
    BY SendableIs
  <1>3. Blocks(f[1]) = Rest(ms, 1)
    BY <1>1, <1>2, BlocksAreRest
  <1>4. Rest(ms, 1) = SelectIn(Blocks(modelMessagesToOpenAI(ms)), ToldIn(ms))
    BY RestIs, ContentsAre
  <1>5. [n \in DOMAIN systemOf(ms) |-> Text(systemOf(ms)[n])]
             = SelectIn(Blocks(modelMessagesToOpenAI(ms)), InstructingIn(ms))
    BY InstructionsAre, ContentsAre
  <1> QED BY <1>1, <1>3, <1>4, <1>5 DEF SameStory, ToldIn, InstructingIn

(* Only a run of results becomes a message of results, and the next begins *)
(* with something else: a system message between two runs would join them. *)
LEMMA ResultsStayTogether ==
    ASSUME NEW ms, Sendable(ms), \A i \in 2..Len(ms) : ms[i].role # "system"
    PROVE  ResultsTogether(ms)
  <1> DEFINE N == Len(ms)
             B == BlocksOf(ms)
             M == ReqMsgs(ms)
             Apart(a) == \A n \in 1..(Len(a) - 1) : ~(OnlyResults(a[n]) /\ OnlyResults(a[n + 1]))
  <1>1. N \in Nat
    BY SendableIs
  <1>2. PICK f : Becomes(f, ms) /\ modelMessagesToAnthropic(ms) = f[1]
    BY AnthropicIs
  <1>3. \A i \in 1..(N + 1) : f[i] \in Seq(M)
    BY <1>2, RequestType
  <1>4. ASSUME NEW m, NEW a, m \in M, a \in Seq(M), Apart(a),
               a = <<>> \/ ~OnlyResults(m) \/ ~OnlyResults(a[1])
        PROVE  Apart(<<m>> \o a)
    <2> DEFINE b == <<m>> \o a
    <2> HIDE DEF M
    <2>1. /\ Len(a) \in Nat /\ Len(b) = 1 + Len(a) /\ b[1] = m /\ \A n \in 1..Len(a) : b[1 + n] = a[n]
          /\ a = <<>> <=> Len(a) = 0
      BY <1>4
    <2> HIDE DEF b
    <2>2. ASSUME NEW n \in 1..(Len(b) - 1), OnlyResults(b[n]), OnlyResults(b[n + 1]) PROVE FALSE
      <3>1. CASE n = 1
        <4>1. 1 \in 1..Len(a) /\ a # <<>> /\ b[n + 1] = a[1]
          BY <2>1, <2>2, <3>1
        <4> QED BY <1>4, <2>1, <2>2, <3>1, <4>1
      <3>2. CASE n # 1
        <4> DEFINE k == n - 1
        <4>1. k \in 1..(Len(a) - 1) /\ k \in 1..Len(a) /\ k + 1 \in 1..Len(a) /\ 1 + k = n /\ 1 + (k + 1) = n + 1
          BY <2>1, <2>2, <3>2
        <4> HIDE DEF k
        <4>2. b[n] = a[k] /\ b[n + 1] = a[k + 1]
          BY <2>1, <4>1
        <4> QED BY <1>4, <2>2, <4>1, <4>2
      <3> QED BY <3>1, <3>2
    <2> QED BY <2>2 DEF b
  <1>5. ASSUME NEW i \in 1..N
        PROVE  /\ ~OnlyResults(ReqMsg("user", <<Text(i)>>))
               /\ ~OnlyResults(ReqMsg("assistant", assistantContent(ms, i)))
    <2> DEFINE t == <<Text(i)>>
               c == assistantContent(ms, i)
    <2>1. Len(t) = 1 /\ t[1].type = "text" /\ DOMAIN t = 1..1
      BY DEF Text
    <2>2. c \in Seq(B) /\ Len(c) >= 1 /\ c[1].type # "tool_result"
      BY AssistantIs
    <2> HIDE DEF t, c
    <2>3. 1 \in DOMAIN t /\ 1 \in DOMAIN c
      BY <2>1, <2>2
    <2>4. ~OnlyResults(ReqMsg("user", t))
      BY <2>1, <2>3 DEF OnlyResults, ReqMsg
    <2>5. ~OnlyResults(ReqMsg("assistant", c))
      BY <2>2, <2>3 DEF OnlyResults, ReqMsg
    <2> QED BY <2>4, <2>5 DEF t, c
  <1>6. ASSUME NEW r, NEW b, r \in {"user", "assistant"}, b \in Seq(B) PROVE ReqMsg(r, b) \in M
    BY <1>6 DEF ReqMsg, ReqMsgs
  <1>7. ASSUME NEW i \in 2..N, ms[i].role # "tool" PROVE ~OnlyResults(f[i][1])
    <2>1. i \in 1..N /\ i + 1 \in 1..(N + 1) /\ ms[i].role \in {"user", "assistant"}
      <3>1. i \in 1..N /\ i + 1 \in 1..(N + 1)
        BY <1>1
      <3>2. ms[i].role \in Roles
        BY <3>1, SendableIs
      <3> QED BY <1>7, <3>1, <3>2 DEF Roles
    <2>2. Round(f, ms, i) /\ f[i + 1] \in Seq(M)
      BY <1>2, <1>3, <2>1, LoopCases
    <2>3. ASSUME NEW m, NEW s \in Seq(M) PROVE (<<m>> \o s)[1] = m
      <3> HIDE DEF M
      <3> QED OBVIOUS
    <2>4. CASE ms[i].role = "user"
      <3>1. f[i] = <<ReqMsg("user", <<Text(i)>>)>> \o f[i + 1]
        BY <2>2, <2>4 DEF Round
      <3> DEFINE m == ReqMsg("user", <<Text(i)>>)
      <3> HIDE DEF m
      <3>2. f[i][1] = m
        BY <2>2, <2>3, <3>1 DEF m
      <3> QED BY <1>5, <2>1, <3>2 DEF m
    <2>5. CASE ms[i].role = "assistant"
      <3>1. f[i] = <<ReqMsg("assistant", assistantContent(ms, i))>> \o f[i + 1]
        BY <2>2, <2>5 DEF Round
      <3> DEFINE m == ReqMsg("assistant", assistantContent(ms, i))
      <3> HIDE DEF m
      <3>2. f[i][1] = m
        BY <2>2, <2>3, <3>1 DEF m
      <3> QED BY <1>5, <2>1, <3>2 DEF m
    <2> QED BY <2>1, <2>4, <2>5
  <1> DEFINE G == {n \in 0..N : \A i \in (n + 1)..(N + 1) : Apart(f[i])}
  <1>8. N \in G
    <2>1. f[N + 1] = <<>> /\ \A i \in (N + 1)..(N + 1) : i = N + 1
      BY <1>1, <1>2, LoopCases
    <2>2. Apart(<<>>)
      OBVIOUS
    <2> HIDE DEF Apart
    <2>3. \A i \in (N + 1)..(N + 1) : Apart(f[i])
      BY <2>1, <2>2
    <2> QED BY <1>1, <2>3
  <1> HIDE DEF Apart
  <1>9. ASSUME NEW i \in 1..N, \A k \in (i + 1)..(N + 1) : Apart(f[k]) PROVE Apart(f[i])
    <2>1. i + 1 \in (i + 1)..(N + 1) /\ i + 1 \in 1..(N + 1)
      BY <1>1
    <2>2. Round(f, ms, i) /\ f[i + 1] \in Seq(M) /\ Apart(f[i + 1])
      BY <1>2, <1>3, <1>9, <2>1, LoopCases
    <2>3. CASE ms[i].role = "system"
      BY <2>2, <2>3 DEF Round
    <2>4. CASE ms[i].role = "user"
      <3> DEFINE t == <<Text(i)>>
                 m == ReqMsg("user", t)
      <3>1. f[i] = <<m>> \o f[i + 1] /\ ~OnlyResults(m)
        BY <1>5, <2>2, <2>4 DEF Round
      <3>2. t \in Seq(B)
        BY ContentIs
      <3> HIDE DEF t
      <3>3. m \in M
        BY <1>6, <3>2
      <3> HIDE DEF m
      <3> QED BY <1>4, <2>2, <3>1, <3>3
    <2>5. CASE ms[i].role = "assistant"
      <3> DEFINE t == assistantContent(ms, i)
                 m == ReqMsg("assistant", t)
      <3>1. f[i] = <<m>> \o f[i + 1] /\ ~OnlyResults(m)
        BY <1>5, <2>2, <2>5 DEF Round
      <3>2. t \in Seq(B)
        BY AssistantIs
      <3> HIDE DEF t
      <3>3. m \in M
        BY <1>6, <3>2
      <3> HIDE DEF m
      <3> QED BY <1>4, <2>2, <3>1, <3>3
    <2>6. CASE ms[i].role = "tool"
      <3> DEFINE j == ResultsEnd(ms, i)
                 t == Answers(ms, i, j)
                 m == ReqMsg("user", t)
      <3>1. /\ j \in i..N /\ \A k \in i..j : ms[k].role = "tool"
            /\ j = N \/ ms[j + 1].role # "tool"
        BY <1>1, <2>6, ResultsEndIs
      <3>2. f[i] = <<m>> \o f[j + 1]
        BY <2>2, <2>6 DEF Round
      <3> HIDE DEF j
      <3>3. t \in Seq(B)
        BY <3>1, AnswersAre
      <3>4. j + 1 \in (i + 1)..(N + 1) /\ j + 1 \in 1..(N + 1) /\ (j # N => j + 1 \in 2..N)
        BY <1>1, <3>1
      <3>5. f[j + 1] \in Seq(M) /\ Apart(f[j + 1])
        BY <1>3, <1>9, <3>4
      <3>6. f[j + 1] = <<>> \/ ~OnlyResults(f[j + 1][1])
        <4>1. CASE j = N
          BY <1>2, <4>1, LoopCases
        <4>2. CASE j # N
          BY <1>7, <3>1, <3>4, <4>2
        <4> QED BY <4>1, <4>2
      <3> HIDE DEF t
      <3>7. m \in M
        BY <1>6, <3>3
      <3> HIDE DEF m
      <3> QED BY <1>4, <3>2, <3>5, <3>6, <3>7
    <2>7. ms[i].role \in Roles
      BY SendableIs
    <2> QED BY <2>3, <2>4, <2>5, <2>6, <2>7 DEF Roles
  <1>10. ASSUME NEW n \in 1..N, n \in G PROVE n - 1 \in G
    <2>1. n - 1 \in 0..N /\ (n - 1) + 1 = n /\ \A i \in n..(N + 1) : i = n \/ i \in (n + 1)..(N + 1)
      BY <1>1
    <2>2. Apart(f[n])
      BY <1>9, <1>10
    <2> QED BY <1>10, <2>1, <2>2
  <1>11. 0 \in G
    <2> HIDE DEF G
    <2>1. \A n \in 0..N : n \in G
      BY <1>1, <1>8, <1>10, Downward
    <2> QED BY <1>1, <2>1
  <1>12. Apart(f[1])
    BY <1>1, <1>11
  <1> QED BY <1>2, <1>12 DEF ResultsTogether, Apart

(* What both clients make of a conversation whose only system message is   *)
(* its first.                                                              *)
LEMMA RequestsFaithful ==
    ASSUME NEW ms, Sendable(ms), \A i \in 2..Len(ms) : ms[i].role # "system"
    PROVE  RequestFaithfulTo(ms)
  BY TellsTheSame, ResultsStayTogether DEF RequestFaithfulTo

-------------------------------------------------------------------------------
\* Calls answered where the provider looks for the answers.

\* The first n calls of the message at p are answered, in order, behind it.
AnsweredUpTo(ms, p, n) ==
    /\ p + n <= Len(ms)
    /\ \A k \in 1..n : ms[p + k].role = "tool" /\ ms[p + k].ids = <<ms[p].ids[k]>>

\* All of them are, and nothing else is answered there.
AllAnswered(ms, p) ==
    LET n == Len(ms[p].ids)
    IN  /\ AnsweredUpTo(ms, p, n)
        /\ p + n = Len(ms) \/ ms[p + n + 1].role # "tool"

UsesIn(ms, m) == SelectIn(m.blocks, {b \in BlocksOf(ms) : b.type = "tool_use"})
IdsOf(blocks) == [n \in DOMAIN blocks |-> blocks[n].id]

(* The calls among the blocks that a message becomes.                      *)
LEMMA UsesAre ==
    ASSUME NEW ms, Sendable(ms), NEW i \in 1..Len(ms)
    PROVE  /\ UsesIn(ms, ReqMsg("user", <<Text(i)>>)) = <<>>
           /\ UsesIn(ms, ReqMsg("assistant", assistantContent(ms, i))) = Uses(ms, i)
           /\ \A j \in i..Len(ms) : (\A k \in i..j : ms[k].role = "tool") =>
                UsesIn(ms, ReqMsg("user", Answers(ms, i, j))) = <<>>
  <1> DEFINE B == BlocksOf(ms)
             u == Uses(ms, i)
             t == Text(i)
             S == {b \in B : b.type = "tool_use"}
  <1>1. /\ t \in B /\ u \in Seq(B) /\ Len(u) = Len(ms[i].ids)
        /\ \A n \in 1..Len(u) : u[n] = Use(i, ms[i].ids[n])
    BY ContentIs
  <1>2. t.type = "text"
    BY DEF Text
  <1>3. \A d : Use(i, d).type = "tool_use"
    BY DEF Use
  <1>4. \A r, x : ReqMsg(r, x).blocks = x
    BY DEF ReqMsg
  <1>5. \A r, x : UsesIn(ms, ReqMsg(r, x)) = SelectIn(x, S)
    BY <1>4 DEF UsesIn
  <1>6. assistantContent(ms, i) = IF ms[i].ids = <<>> THEN <<t>> ELSE (IF ms[i].text THEN <<t>> ELSE <<>>) \o u
    BY DEF assistantContent
  <1>7. ms[i].ids = <<>> => u = <<>>
    <2>1. ms[i].ids = <<>> => Len(u) = 0
      BY <1>1
    <2> QED BY <1>1, <2>1
  <1>8. ASSUME NEW j \in i..Len(ms), \A k \in i..j : ms[k].role = "tool"
        PROVE  SelectIn(Answers(ms, i, j), S) = <<>>
    <2> DEFINE a == Answers(ms, i, j)
               K == j - i + 1
    <2>1. a \in Seq(B) /\ Len(a) = K /\ \A n \in 1..K : a[n] = Answer(i + n - 1, ms[i + n - 1].ids[1])
      BY <1>8, AnswersAre
    <2>2. \A x, d : Answer(x, d).type = "tool_result"
      BY DEF Answer
    <2> HIDE DEF a, B
    <2>3. \A n \in 1..Len(a) : a[n] \notin S
      BY <2>1, <2>2
    <2> HIDE DEF S
    <2>4. SelectIn(a, S) = <<>>
      BY <2>1, <2>3, SelectNone
    <2> QED BY <2>4 DEF a
  <1> HIDE DEF B, u, t
  <1>9. t \notin S /\ \A n \in 1..Len(u) : u[n] \in S
    <2>1. \A n \in 1..Len(u) : u[n] \in B /\ u[n].type = "tool_use"
      BY <1>1, <1>3
    <2> QED BY <1>2, <2>1
  <1> HIDE DEF S
  <1>10. SelectIn(<<t>>, S) = <<>>
    BY <1>9, SelectOne
  <1>11. SelectIn(u, S) = u
    BY <1>1, <1>9, SelectAll
  <1>12. SelectIn(<<t>> \o u, S) = u
    <2> DEFINE o == <<t>>
    <2>1. o \in Seq(B) /\ SelectIn(o, S) = <<>>
      BY <1>1, <1>10
    <2> HIDE DEF o
    <2>0. o \in Seq(B) /\ u \in Seq(B)
      BY <1>1, <2>1
    <2>2. SelectIn(o \o u, S) = SelectIn(o, S) \o SelectIn(u, S)
      BY ONLY <2>0, SelectConcat
    <2>3. <<>> \o u = u
      BY <1>1
    <2>4. SelectIn(o \o u, S) = u
      BY <1>11, <2>1, <2>2, <2>3
    <2> QED BY <2>4 DEF o
  <1>13. SelectIn(assistantContent(ms, i), S) = u
    <2>1. CASE ms[i].ids = <<>>
      BY <1>6, <1>7, <1>10, <2>1
    <2>2. CASE ms[i].ids # <<>> /\ ms[i].text
      BY <1>6, <1>12, <2>2
    <2>3. CASE ms[i].ids # <<>> /\ ~ms[i].text
      <3>1. <<>> \o u = u
        BY <1>1
      <3> QED BY <1>6, <1>11, <2>3, <3>1
    <2> QED BY <2>1, <2>2, <2>3
  <1> QED BY <1>5, <1>8, <1>10, <1>13 DEF u, t

(* A reply whose calls are answered behind it becomes a message with those *)
(* calls, and the answers the message behind that.                         *)
LEMMA AnswersFollow ==
    ASSUME NEW ms, Sendable(ms), NEW f, Becomes(f, ms), NEW i \in 1..Len(ms),
           ms[i].ids # <<>>, AllAnswered(ms, i)
    PROVE  /\ f[i + 1] # <<>> /\ OnlyResults(f[i + 1][1])
           /\ IdsOf(f[i + 1][1].blocks) = IdsOf(Uses(ms, i))
  <1> DEFINE N == Len(ms)
             M == ReqMsgs(ms)
             ids == ms[i].ids
             K == Len(ids)
             u == Uses(ms, i)
             e == i + K
             a == Answers(ms, i + 1, e)
  <1>1. N \in Nat /\ ids \in Seq(Nat)
    BY SendableIs
  <1>2. K \in Nat \ {0} /\ e <= N /\ i + 1 \in 1..N /\ e \in (i + 1)..N
    <2>1. e <= N
      BY DEF AllAnswered, AnsweredUpTo
    <2>2. K \in Nat \ {0}
      <3> HIDE DEF ids
      <3> QED BY <1>1 DEF ids
    <2> HIDE DEF K
    <2> QED BY <1>1, <2>1, <2>2
  <1>3. /\ \A k \in 1..K : ms[i + k].role = "tool" /\ ms[i + k].ids = <<ids[k]>>
        /\ e = N \/ ms[e + 1].role # "tool"
    BY DEF AllAnswered, AnsweredUpTo
  <1>4. /\ Len(u) = K /\ u \in Seq(BlocksOf(ms))
        /\ \A n \in 1..Len(u) : u[n] = Use(i, ids[n])
    BY ContentIs
  <1> HIDE DEF ids, K, u
  <1>5. \A k \in (i + 1)..e : ms[k].role = "tool"
    <2> SUFFICES ASSUME NEW k \in (i + 1)..e PROVE ms[k].role = "tool"
      OBVIOUS
    <2>1. k - i \in 1..K /\ i + (k - i) = k
      BY <1>1, <1>2
    <2> QED BY <1>3, <2>1
  <1>6. ResultsEnd(ms, i + 1) = e /\ ms[i + 1].role = "tool"
    <2>1. ms[i + 1].role = "tool"
      BY <1>2, <1>3
    <2> QED BY <1>1, <1>2, <1>3, <1>5, <2>1, ResultsEndUnique
  <1>7. f[i + 1] = <<ReqMsg("user", a)>> \o f[e + 1]
    <2>1. Round(f, ms, i + 1)
      BY <1>2, LoopCases
    <2> QED BY <1>6, <2>1 DEF Round
  <1>8. /\ a \in Seq(BlocksOf(ms)) /\ Len(a) = K
        /\ \A n \in 1..K : a[n] = Answer(i + n, ms[i + n].ids[1])
    <2>1. e - (i + 1) + 1 = K /\ \A n \in 1..K : (i + 1) + n - 1 = i + n
      BY <1>2
    <2>2. /\ a \in Seq(BlocksOf(ms)) /\ Len(a) = e - (i + 1) + 1
          /\ \A n \in 1..(e - (i + 1) + 1) : a[n] = Answer((i + 1) + n - 1, ms[(i + 1) + n - 1].ids[1])
      BY <1>2, <1>5, AnswersAre
    <2> HIDE DEF a, e
    <2> QED BY <2>1, <2>2
  <1>9. f[e + 1] \in Seq(M)
    <2>1. e + 1 \in 1..(N + 1)
      BY <1>1, <1>2
    <2> QED BY <2>1, RequestType
  <1> HIDE DEF a
  <1> DEFINE m == ReqMsg("user", a)
  <1>10. m.blocks = a
    BY DEF ReqMsg
  <1>11. f[i + 1] # <<>> /\ f[i + 1][1] = m
    <2> DEFINE s == f[e + 1]
               r == <<m>> \o s
    <2>1. s \in Seq(M)
      BY <1>9
    <2> HIDE DEF M, m, s
    <2>2. Len(r) = 1 + Len(s) /\ r[1] = m /\ Len(s) \in Nat
      BY <2>1
    <2>3. r # <<>>
      <3> HIDE DEF r
      <3> QED BY <2>2
    <2>4. f[i + 1] = r
      BY <1>7 DEF m, s
    <2> HIDE DEF r
    <2> QED BY <2>2, <2>3, <2>4
  <1>12. DOMAIN a = 1..K /\ DOMAIN u = 1..K
    BY <1>4, <1>8
  <1>13. ASSUME NEW n \in 1..K
         PROVE  a[n].type = "tool_result" /\ a[n].id = ids[n] /\ u[n].id = ids[n]
    <2>1. ms[i + n].ids = <<ids[n]>>
      BY <1>3
    <2>2. ms[i + n].ids[1] = ids[n]
      BY <2>1
    <2>3. a[n] = Answer(i + n, ids[n])
      BY <1>8, <2>2
    <2>4. u[n] = Use(i, ids[n])
      BY <1>4
    <2> QED BY <2>3, <2>4 DEF Answer, Use
  <1>14. OnlyResults(m)
    <2> HIDE DEF m
    <2> QED BY <1>10, <1>12, <1>13 DEF OnlyResults
  <1>15. IdsOf(a) = IdsOf(u)
    BY <1>12, <1>13 DEF IdsOf
  <1> HIDE DEF m
  <1> QED BY <1>10, <1>11, <1>14, <1>15 DEF u

(* Where every reply's calls are answered right behind it, Anthropic finds *)
(* the answers in the message behind the calls.                            *)
LEMMA AnswersFound ==
    ASSUME NEW ms, Sendable(ms),
           \A i \in 1..Len(ms) : ms[i].role = "assistant" => AllAnswered(ms, i)
    PROVE  AnsweredInPlace(ms)
  <1> DEFINE N == Len(ms)
             B == BlocksOf(ms)
             M == ReqMsgs(ms)
             Fits(m, a) == UsesIn(ms, m) # <<>> =>
                             /\ a # <<>> /\ OnlyResults(a[1])
                             /\ IdsOf(a[1].blocks) = IdsOf(UsesIn(ms, m))
             Found(a) == \A n \in DOMAIN a : UsesIn(ms, a[n]) # <<>> =>
                           /\ n < Len(a) /\ OnlyResults(a[n + 1])
                           /\ IdsOf(a[n + 1].blocks) = IdsOf(UsesIn(ms, a[n]))
  <1>1. N \in Nat
    BY SendableIs
  <1>2. PICK f : Becomes(f, ms) /\ modelMessagesToAnthropic(ms) = f[1]
    BY AnthropicIs
  <1>3. \A i \in 1..(N + 1) : f[i] \in Seq(M)
    BY <1>2, RequestType
  <1>4. ASSUME NEW m, NEW a, a \in Seq(M), Found(a), Fits(m, a)
        PROVE  Found(<<m>> \o a)
    <2> DEFINE b == <<m>> \o a
    <2> HIDE DEF M
    <2>1. /\ Len(a) \in Nat /\ Len(b) = 1 + Len(a) /\ b[1] = m /\ \A n \in 1..Len(a) : b[1 + n] = a[n]
          /\ a = <<>> <=> Len(a) = 0
      BY <1>4
    <2>2. DOMAIN b = 1..Len(b) /\ DOMAIN a = 1..Len(a)
      BY <1>4
    <2> HIDE DEF b
    <2>3. ASSUME NEW n \in DOMAIN b, UsesIn(ms, b[n]) # <<>>
          PROVE  /\ n < Len(b) /\ OnlyResults(b[n + 1])
                 /\ IdsOf(b[n + 1].blocks) = IdsOf(UsesIn(ms, b[n]))
      <3>1. CASE n = 1
        <4>1. b[n] = m /\ a # <<>> /\ OnlyResults(a[1]) /\ IdsOf(a[1].blocks) = IdsOf(UsesIn(ms, m))
          BY <1>4, <2>1, <2>3, <3>1
        <4>2. 1 \in 1..Len(a) /\ n < Len(b) /\ n + 1 = 1 + 1
          BY <2>1, <3>1, <4>1
        <4>3. b[n + 1] = a[1]
          BY <2>1, <4>2
        <4> QED BY <4>1, <4>2, <4>3
      <3>2. CASE n # 1
        <4> DEFINE k == n - 1
        <4>1. k \in 1..Len(a) /\ 1 + k = n /\ 1 + (k + 1) = n + 1
          BY <2>1, <2>2, <2>3, <3>2
        <4> HIDE DEF k
        <4>2. b[n] = a[k]
          BY <2>1, <4>1
        <4>3. /\ k < Len(a) /\ OnlyResults(a[k + 1])
              /\ IdsOf(a[k + 1].blocks) = IdsOf(UsesIn(ms, a[k]))
          BY <1>4, <2>2, <2>3, <4>1, <4>2
        <4>4. k + 1 \in 1..Len(a) /\ n < Len(b)
          BY <2>1, <4>1, <4>3
        <4>5. b[n + 1] = a[k + 1]
          BY <2>1, <4>1, <4>4
        <4> QED BY <4>2, <4>3, <4>4, <4>5
      <3> QED BY <3>1, <3>2
    <2> QED BY <2>3 DEF b
  <1> HIDE DEF Found
  <1>5. ASSUME NEW i \in 1..N, \A k \in (i + 1)..(N + 1) : Found(f[k]) PROVE Found(f[i])
    <2>1. i + 1 \in (i + 1)..(N + 1) /\ i + 1 \in 1..(N + 1)
      BY <1>1
    <2>2. Round(f, ms, i) /\ f[i + 1] \in Seq(M) /\ Found(f[i + 1])
      BY <1>2, <1>3, <1>5, <2>1, LoopCases
    <2>3. CASE ms[i].role = "system"
      BY <2>2, <2>3 DEF Round
    <2>4. CASE ms[i].role = "user"
      <3> DEFINE m == ReqMsg("user", <<Text(i)>>)
      <3>1. f[i] = <<m>> \o f[i + 1] /\ UsesIn(ms, m) = <<>>
        BY <2>2, <2>4, UsesAre DEF Round
      <3> HIDE DEF m
      <3> QED BY <1>4, <2>2, <3>1
    <2>5. CASE ms[i].role = "assistant"
      <3> DEFINE m == ReqMsg("assistant", assistantContent(ms, i))
      <3>1. f[i] = <<m>> \o f[i + 1] /\ UsesIn(ms, m) = Uses(ms, i)
        BY <2>2, <2>5, UsesAre DEF Round
      <3>2. ms[i].ids = <<>> => Uses(ms, i) = <<>>
        <4>1. Uses(ms, i) \in Seq(B) /\ Len(Uses(ms, i)) = Len(ms[i].ids)
          BY ContentIs
        <4> HIDE DEF B
        <4> QED BY <4>1
      <3>3. ms[i].ids # <<>> =>
              /\ f[i + 1] # <<>> /\ OnlyResults(f[i + 1][1])
              /\ IdsOf(f[i + 1][1].blocks) = IdsOf(Uses(ms, i))
        BY <1>2, <2>5, AnswersFollow
      <3> HIDE DEF m
      <3>4. Fits(m, f[i + 1])
        BY <3>1, <3>2, <3>3
      <3> HIDE DEF Fits
      <3> QED BY <1>4, <2>2, <3>1, <3>4
    <2>6. CASE ms[i].role = "tool"
      <3> DEFINE j == ResultsEnd(ms, i)
                 m == ReqMsg("user", Answers(ms, i, j))
      <3>1. j \in i..N /\ \A k \in i..j : ms[k].role = "tool"
        BY <1>1, <2>6, ResultsEndIs
      <3>2. f[i] = <<m>> \o f[j + 1]
        BY <2>2, <2>6 DEF Round
      <3> HIDE DEF j
      <3>3. UsesIn(ms, m) = <<>>
        BY <3>1, UsesAre
      <3>4. j + 1 \in (i + 1)..(N + 1) /\ j + 1 \in 1..(N + 1)
        BY <1>1, <3>1
      <3>5. f[j + 1] \in Seq(M) /\ Found(f[j + 1])
        BY <1>3, <1>5, <3>4
      <3> HIDE DEF m
      <3> QED BY <1>4, <3>2, <3>3, <3>5
    <2>7. ms[i].role \in Roles
      BY SendableIs
    <2> QED BY <2>3, <2>4, <2>5, <2>6, <2>7 DEF Roles
  <1> DEFINE G == {n \in 0..N : \A i \in (n + 1)..(N + 1) : Found(f[i])}
  <1>6. N \in G
    <2>1. f[N + 1] = <<>> /\ \A i \in (N + 1)..(N + 1) : i = N + 1
      BY <1>1, <1>2, LoopCases
    <2>2. Found(<<>>)
      BY DEF Found
    <2>3. \A i \in (N + 1)..(N + 1) : Found(f[i])
      BY <2>1, <2>2
    <2> QED BY <1>1, <2>3
  <1>7. ASSUME NEW n \in 1..N, n \in G PROVE n - 1 \in G
    <2>1. n - 1 \in 0..N /\ (n - 1) + 1 = n /\ \A i \in n..(N + 1) : i = n \/ i \in (n + 1)..(N + 1)
      BY <1>1
    <2>2. Found(f[n])
      BY <1>5, <1>7
    <2> QED BY <1>7, <2>1, <2>2
  <1>8. 0 \in G
    <2> HIDE DEF G
    <2>1. \A n \in 0..N : n \in G
      BY <1>1, <1>6, <1>7, Downward
    <2> QED BY <1>1, <2>1
  <1>9. Found(f[1])
    BY <1>1, <1>8
  <1>10. Found(modelMessagesToAnthropic(ms))
    BY <1>2, <1>9
  <1> QED BY ONLY <1>10, Zenon DEF AnsweredInPlace, Found, UsesIn, IdsOf

-------------------------------------------------------------------------------
\* Loops and sums.

\* What a loop of N rounds has computed before each round and at its end, where
\* round n makes g[n][x] of x; all of it is in T.
Rounds(f, N, T, a, g) == /\ f \in [0..N -> T] /\ f[0] = a
                         /\ \A n \in 1..N : f[n] = g[n][f[n - 1]]

(* Every such loop computes something.                                     *)
LEMMA RoundsExist ==
    ASSUME NEW N \in Nat, NEW T, NEW a \in T, NEW g \in [1..N -> [T -> T]]
    PROVE  \E f : Rounds(f, N, T, a, g)
  <1> DEFINE UpTo(f, m) == f \in [0..N -> T] /\ f[0] = a /\ \A n \in 1..m : f[n] = g[n][f[n - 1]]
             G == {m \in 0..N : \E f : UpTo(f, m)}
  <1>1. 0 \in G
    <2> DEFINE f == [i \in 0..N |-> a]
    <2>1. f \in [0..N -> T] /\ f[0] = a
      OBVIOUS
    <2>2. \A n \in 1..0 : FALSE
      OBVIOUS
    <2> HIDE DEF f
    <2>3. UpTo(f, 0)
      BY <2>1, <2>2
    <2>4. \E h : UpTo(h, 0)
      <3> HIDE DEF UpTo
      <3> QED BY <2>3
    <2>5. 0 \in 0..N
      OBVIOUS
    <2> QED BY <2>4, <2>5
  <1>2. ASSUME NEW m \in 0..(N - 1), m \in G PROVE m + 1 \in G
    <2>1. PICK f : UpTo(f, m)
      BY <1>2
    <2> DEFINE y == g[m + 1][f[m]]
               h == [f EXCEPT ![m + 1] = y]
    <2>2. m + 1 \in 1..N /\ m + 1 \in 0..N /\ m \in 0..N /\ m + 1 # 0 /\ (m + 1) - 1 = m
      OBVIOUS
    <2>3. f[m] \in T /\ g[m + 1] \in [T -> T]
      BY <2>1, <2>2
    <2>4. y \in T
      BY <2>3
    <2> HIDE DEF y
    <2>5. h \in [0..N -> T] /\ h[m + 1] = y /\ \A i \in 0..N : i # m + 1 => h[i] = f[i]
      BY <2>1, <2>2, <2>4
    <2> HIDE DEF h
    <2>6. ASSUME NEW n \in 1..(m + 1) PROVE h[n] = g[n][h[n - 1]]
      <3>0. n \in Int /\ 1 <= n /\ n <= m + 1 /\ m \in Int /\ m <= N - 1
        OBVIOUS
      <3>1. n - 1 \in 0..N /\ n - 1 # m + 1 /\ n \in 0..N
        BY ONLY <3>0, N \in Nat
      <3>2. h[n - 1] = f[n - 1]
        BY <2>5, <3>1
      <3>3. CASE n = m + 1
        BY <2>2, <2>5, <3>2, <3>3 DEF y
      <3>4. CASE n # m + 1
        <4>1. n \in 1..m
          BY <3>4
        <4>2. f[n] = g[n][f[n - 1]]
          BY <2>1, <4>1
        <4> QED BY <2>5, <3>1, <3>2, <3>4, <4>2
      <3> QED BY <3>3, <3>4
    <2>7. h[0] = a
      BY <2>1, <2>2, <2>5
    <2>8. UpTo(h, m + 1)
      BY <2>5, <2>6, <2>7
    <2> QED BY <2>2, <2>8
  <1>3. N \in G
    <2> HIDE DEF G
    <2>1. \A n \in 0..N : n \in G
      BY <1>1, <1>2, Upward
    <2> QED BY <2>1
  <1> QED BY <1>3 DEF Rounds

\* The sums of the first numbers of s.
Sums(t, s) == /\ t \in [0..Len(s) -> Int] /\ t[0] = 0
              /\ \A n \in 1..Len(s) : t[n] = t[n - 1] + s[n]

(* What Total computes.                                                    *)
LEMMA TotalIs ==
    ASSUME NEW s \in Seq(Int)
    PROVE  \E t : Sums(t, s) /\ Total(s) = t[Len(s)]
  <1> DEFINE N == Len(s)
             Solves(t) == t = [n \in 0..N |-> IF n = 0 THEN 0 ELSE t[n - 1] + s[n]]
             g == [n \in 1..N |-> [x \in Int |-> x + s[n]]]
             u == CHOOSE t : Solves(t)
  <1>1. N \in Nat /\ \A n \in 1..N : s[n] \in Int
    OBVIOUS
  <1> HIDE DEF N
  <1>2. g \in [1..N -> [Int -> Int]]
    <2> SUFFICES ASSUME NEW n \in 1..N PROVE [x \in Int |-> x + s[n]] \in [Int -> Int]
      OBVIOUS
    <2>1. s[n] \in Int
      BY <1>1
    <2> QED BY <2>1
  <1>3. \A n \in 1..N, x \in Int : g[n][x] = x + s[n]
    OBVIOUS
  <1> HIDE DEF g
  <1>4. PICK f : Rounds(f, N, Int, 0, g)
    <2>1. 0 \in Int /\ N \in Nat
      BY <1>1
    <2> QED BY ONLY <1>2, <2>1, RoundsExist
  <1>5. f \in [0..N -> Int] /\ f[0] = 0 /\ \A n \in 1..N : f[n] = f[n - 1] + s[n]
    <2>1. \A n \in 1..N : n - 1 \in 0..N
      BY <1>1
    <2> QED BY <1>3, <1>4, <2>1 DEF Rounds
  <1>6. Solves(f)
    <2>1. \A n \in 0..N : f[n] = IF n = 0 THEN 0 ELSE f[n - 1] + s[n]
      BY <1>1, <1>5
    <2> QED BY <1>5, <2>1
  <1>7. Solves(u)
    <2> HIDE DEF Solves
    <2> QED BY <1>6
  <1>8. Total(s) = u[N]
    BY DEF Total, N
  <1> HIDE DEF u
  <1>9. u[0] = 0 /\ \A n \in 1..N : u[n] = u[n - 1] + s[n]
    BY <1>1, <1>7
  <1>10. \A n \in 0..N : u[n] \in Int
    <2> DEFINE G == {n \in 0..N : u[n] \in Int}
    <2>1. 0 \in G
      BY <1>1, <1>9
    <2>2. ASSUME NEW n \in 0..(N - 1), n \in G PROVE n + 1 \in G
      <3>1. n + 1 \in 1..N /\ n + 1 \in 0..N /\ (n + 1) - 1 = n
        BY <1>1
      <3>2. u[n + 1] = u[n] + s[n + 1] /\ s[n + 1] \in Int /\ u[n] \in Int
        BY <1>1, <1>9, <2>2, <3>1
      <3>3. u[n + 1] \in Int
        BY <3>2
      <3> QED BY <3>1, <3>3
    <2>3. G \subseteq {n \in 0..N : u[n] \in Int}
      OBVIOUS
    <2> HIDE DEF G
    <2>4. \A n \in 0..N : n \in G
      BY <1>1, <2>1, <2>2, Upward
    <2> QED BY <2>3, <2>4
  <1>11. u \in [0..N -> Int]
    BY <1>7, <1>10
  <1> QED BY <1>8, <1>9, <1>11 DEF Sums, N

(* Larger numbers have a larger sum.                                       *)
LEMMA TotalGrows ==
    ASSUME NEW s \in Seq(Int), NEW u \in Seq(Int), Len(s) = Len(u),
           \A n \in 1..Len(s) : s[n] <= u[n]
    PROVE  Total(s) <= Total(u)
  <1> DEFINE N == Len(s)
  <1>1. N \in Nat /\ Len(u) = N /\ \A n \in 1..N : s[n] \in Int /\ u[n] \in Int /\ s[n] <= u[n]
    OBVIOUS
  <1>2. PICK t : Sums(t, s) /\ Total(s) = t[N]
    BY TotalIs
  <1>3. PICK v : Sums(v, u) /\ Total(u) = v[N]
    BY <1>1, TotalIs
  <1> HIDE DEF N
  <1>4. /\ t \in [0..N -> Int] /\ t[0] = 0 /\ \A n \in 1..N : t[n] = t[n - 1] + s[n]
        /\ v \in [0..N -> Int] /\ v[0] = 0 /\ \A n \in 1..N : v[n] = v[n - 1] + u[n]
    BY <1>1, <1>2, <1>3 DEF Sums, N
  <1> DEFINE G == {n \in 0..N : t[n] <= v[n]}
  <1>5. 0 \in G
    BY <1>1, <1>4
  <1>6. ASSUME NEW n \in 0..(N - 1), n \in G PROVE n + 1 \in G
    <2>1. n + 1 \in 1..N /\ n + 1 \in 0..N /\ (n + 1) - 1 = n /\ n \in 0..N
      BY <1>1
    <2>2. t[n + 1] = t[n] + s[n + 1] /\ v[n + 1] = v[n] + u[n + 1]
      BY <1>4, <2>1
    <2>3. {t[n], v[n], s[n + 1], u[n + 1]} \subseteq Int /\ s[n + 1] <= u[n + 1] /\ t[n] <= v[n]
      BY <1>1, <1>4, <1>6, <2>1
    <2>4. t[n + 1] <= v[n + 1]
      BY <2>2, <2>3
    <2> QED BY <2>1, <2>4
  <1>7. N \in G => t[N] <= v[N]
    OBVIOUS
  <1> HIDE DEF G
  <1>8. \A n \in 0..N : n \in G
    BY <1>1, <1>5, <1>6, Upward
  <1> QED BY <1>1, <1>2, <1>3, <1>7, <1>8

(* Zeros in front do not count.                                            *)
LEMMA TotalRest ==
    ASSUME NEW s \in Seq(Int), NEW u \in Seq(Int), NEW d \in Nat, Len(s) = d + Len(u),
           \A n \in 1..d : s[n] = 0, \A n \in 1..Len(u) : s[d + n] = u[n]
    PROVE  Total(s) = Total(u)
  <1> DEFINE N == Len(s)
             M == Len(u)
  <1>1. N \in Nat /\ M \in Nat /\ N = d + M /\ \A n \in 1..M : u[n] \in Int
    OBVIOUS
  <1>2. PICK t : Sums(t, s) /\ Total(s) = t[N]
    BY TotalIs
  <1>3. PICK v : Sums(v, u) /\ Total(u) = v[M]
    BY TotalIs
  <1>0. \A n \in 1..M : s[d + n] = u[n]
    OBVIOUS
  <1> HIDE DEF N, M
  <1>4. /\ t \in [0..N -> Int] /\ t[0] = 0 /\ \A n \in 1..N : t[n] = t[n - 1] + s[n]
        /\ v \in [0..M -> Int] /\ v[0] = 0 /\ \A n \in 1..M : v[n] = v[n - 1] + u[n]
    BY <1>2, <1>3 DEF Sums, N, M
  <1> DEFINE Z == {n \in 0..d : t[n] = 0}
             G == {n \in 0..M : t[d + n] = v[n]}
  <1>5. 0 \in Z
    BY <1>4
  <1>6. ASSUME NEW n \in 0..(d - 1), n \in Z PROVE n + 1 \in Z
    <2>1. n + 1 \in 1..N /\ n + 1 \in 1..d /\ n + 1 \in 0..d /\ (n + 1) - 1 = n
      BY <1>1
    <2>2. t[n + 1] = t[n] + s[n + 1] /\ s[n + 1] = 0 /\ t[n] = 0
      BY <1>4, <1>6, <2>1
    <2> QED BY <2>1, <2>2
  <1>7. d \in Z => t[d] = 0
    OBVIOUS
  <1> HIDE DEF Z
  <1>8. t[d] = 0
    <2>1. \A n \in 0..d : n \in Z
      BY <1>5, <1>6, Upward
    <2> QED BY <1>7, <2>1
  <1>9. 0 \in G
    BY <1>1, <1>4, <1>8
  <1>10. ASSUME NEW n \in 0..(M - 1), n \in G PROVE n + 1 \in G
    <2>1. /\ n + 1 \in 1..M /\ n + 1 \in 0..M /\ (n + 1) - 1 = n
          /\ d + (n + 1) \in 1..N /\ d + (n + 1) - 1 = d + n
      BY <1>1
    <2>2. t[d + (n + 1)] = t[d + n] + s[d + (n + 1)] /\ v[n + 1] = v[n] + u[n + 1]
      BY <1>4, <2>1
    <2>3. s[d + (n + 1)] = u[n + 1] /\ t[d + n] = v[n]
      BY <1>0, <1>10, <2>1
    <2>4. t[d + (n + 1)] = v[n + 1]
      BY <2>2, <2>3
    <2> QED BY <2>1, <2>4
  <1>11. M \in G => t[d + M] = v[M]
    OBVIOUS
  <1> HIDE DEF G
  <1>12. \A n \in 0..M : n \in G
    BY <1>1, <1>9, <1>10, Upward
  <1> QED BY <1>1, <1>2, <1>3, <1>11, <1>12

(* A sum of numbers that are not negative is at least each of them, and    *)
(* exactly the one of them that is not zero.                               *)
LEMMA TotalOne ==
    ASSUME NEW s \in Seq(Int), \A i \in 1..Len(s) : s[i] >= 0, NEW m \in 1..Len(s)
    PROVE  /\ s[m] <= Total(s)
           /\ (\A i \in 1..Len(s) : i # m => s[i] = 0) => Total(s) = s[m]
  <1> DEFINE N == Len(s)
  <1>1. N \in Nat /\ \A n \in 1..N : s[n] \in Int /\ s[n] >= 0
    OBVIOUS
  <1>2. PICK t : Sums(t, s) /\ Total(s) = t[N]
    BY TotalIs
  <1>3. t \in [0..N -> Int] /\ t[0] = 0 /\ \A n \in 1..N : t[n] = t[n - 1] + s[n]
    BY <1>2 DEF Sums
  <1>0. m \in 1..N
    OBVIOUS
  <1> HIDE DEF N
  <1> DEFINE Alone == \A i \in 1..N : i # m => s[i] = 0
             G == {n \in 0..N : /\ t[n] >= 0 /\ (n >= m => t[n] >= s[m])
                                /\ Alone => t[n] = IF n < m THEN 0 ELSE s[m]}
  <1>4. 0 \in G
    BY <1>0, <1>1, <1>3
  <1>5. ASSUME NEW n \in 0..(N - 1), n \in G PROVE n + 1 \in G
    <2>1. n \in 0..N /\ n + 1 \in 1..N /\ n + 1 \in 0..N /\ (n + 1) - 1 = n /\ n \in Int /\ m \in Int
      BY <1>0, <1>1
    <2>2. /\ t[n + 1] = t[n] + s[n + 1] /\ s[n + 1] \in Int /\ s[n + 1] >= 0 /\ t[n] \in Int
          /\ s[m] \in Int /\ s[m] >= 0
      BY <1>0, <1>1, <1>3, <2>1
    <2>3. t[n] >= 0 /\ (n >= m => t[n] >= s[m]) /\ (Alone => t[n] = IF n < m THEN 0 ELSE s[m])
      BY <1>5
    <2>4. Alone => (n + 1 # m => s[n + 1] = 0)
      BY <2>1
    <2> HIDE DEF Alone
    <2>5. CASE n + 1 = m
      <3>1. s[n + 1] = s[m] /\ n < m /\ ~(n + 1 < m)
        BY <2>1, <2>5
      <3>2. t[n + 1] >= 0 /\ t[n + 1] >= s[m] /\ (Alone => t[n + 1] = s[m])
        BY <2>2, <2>3, <3>1
      <3> QED BY <2>1, <3>1, <3>2
    <2>6. CASE n + 1 # m
      <3>1. (n + 1 >= m => n >= m) /\ (n + 1 < m <=> n < m)
        BY <2>1, <2>6
      <3>2. t[n + 1] >= 0 /\ t[n + 1] >= t[n] /\ (Alone => t[n + 1] = t[n])
        BY <2>2, <2>3, <2>4, <2>6
      <3>3. (n + 1 >= m => t[n + 1] >= s[m]) /\ t[n + 1] \in Int
        BY <2>2, <2>3, <3>1, <3>2
      <3> QED BY <2>1, <2>3, <3>1, <3>2, <3>3
    <2> QED BY <2>5, <2>6
  <1>6. N \in G => t[N] >= s[m] /\ (Alone => t[N] = s[m])
    BY <1>0, <1>1
  <1> HIDE DEF G
  <1>7. N \in G
    <2>1. \A n \in 0..N : n \in G
      BY <1>1, <1>4, <1>5, Upward
    <2> QED BY <1>1, <2>1
  <1>8. t[N] >= s[m] => s[m] <= t[N]
    BY <1>0, <1>1, <1>3
  <1> QED BY <1>2, <1>6, <1>7, <1>8 DEF N

(* Nothing adds up to nothing.                                             *)
LEMMA TotalZero ==
    ASSUME NEW s \in Seq(Int), \A i \in 1..Len(s) : s[i] = 0
    PROVE  Total(s) = 0
  <1>1. Len(<<>>) = 0 /\ <<>> \in Seq(Int) /\ Len(s) = Len(s) + Len(<<>>)
    OBVIOUS
  <1>2. Total(s) = Total(<<>>)
    <2> DEFINE u == <<>>
    <2>1. u \in Seq(Int) /\ Len(s) \in Nat /\ Len(s) = Len(s) + Len(u) /\ \A n \in 1..Len(u) : FALSE
      BY <1>1
    <2> HIDE DEF u
    <2>2. Total(s) = Total(u)
      BY <2>1, TotalRest
    <2> QED BY <2>2 DEF u
  <1>3. PICK t : Sums(t, <<>>) /\ Total(<<>>) = t[Len(<<>>)]
    BY <1>1, TotalIs
  <1> QED BY <1>1, <1>2, <1>3 DEF Sums
===============================================================================
