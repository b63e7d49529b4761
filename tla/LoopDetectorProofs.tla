-------------------------- MODULE LoopDetectorProofs --------------------------
(***************************************************************************)
(* The loop detector is exact, for every threshold and every set of        *)
(* signatures, and implements the repetition counter for thresholds of at  *)
(* least two.                                                              *)
(***************************************************************************)
EXTENDS LoopDetectorRefinement, TLAPS

\* The inductive invariant: warned and the latest verdict both say whether
\* the last Threshold calls are the same.
LDInv ==
    /\ LDTypeOK
    /\ WarnedExact
    /\ warned <=> loopStatus # "LoopNormal"

(* SameWindow compares with the first call of the window, LastSame with    *)
(* the last one; they say the same of a history.                           *)
LEMMA WindowEnd ==
    ASSUME NEW h \in Seq(Sigs)
    PROVE  SameWindow(h) <=> /\ Len(h) >= Threshold
                             /\ \A i \in (Len(h) - Threshold + 1)..Len(h) : h[i] = h[Len(h)]
  <1>1. Threshold \in Nat /\ Threshold >= 1 /\ Len(h) \in Nat
    BY ThresholdAssumption
  <1> DEFINE first == Len(h) - Threshold + 1
  <1>2. CASE Len(h) >= Threshold
    <2>1. first \in first..Len(h) /\ Len(h) \in first..Len(h)
      BY <1>1, <1>2
    <2> HIDE DEF first
    <2>2. (\A i \in first..Len(h) : h[i] = h[first])
          <=> (\A i \in first..Len(h) : h[i] = h[Len(h)])
      BY <2>1, Zenon
    <2> QED BY <1>2, <2>2 DEF SameWindow, first
  <1>3. CASE ~(Len(h) >= Threshold)
    BY <1>3 DEF SameWindow
  <1> QED BY <1>2, <1>3

(* Recording a call changes nothing but its end of the history.            *)
LEMMA AppendSig ==
    ASSUME LDTypeOK, NEW sig \in Sigs, history' = Append(history, sig)
    PROVE  /\ history' \in Seq(Sigs)
           /\ Len(history) \in Nat
           /\ Len(history') = Len(history) + 1
           /\ \A i \in 1..Len(history) : history'[i] = history[i]
           /\ history'[Len(history')] = sig
  BY DEF LDTypeOK

(* The first call of a run of n + 1 identical calls dropped, n remain.     *)
LEMMA RunShrinks ==
    ASSUME LDTypeOK, NEW sig \in Sigs, history' = Append(history, sig),
           NEW n \in Nat, LastSame(n + 1)'
    PROVE  LastSame(n)
  <1>1. Len(history) >= n
    BY AppendSig DEF LastSame
  <1>2. ASSUME NEW i \in (Len(history) - n + 1)..Len(history)
        PROVE  history[i] = history[Len(history)]
    <2>1. /\ i \in 1..Len(history)
          /\ Len(history) \in 1..Len(history)
      BY <1>1, AppendSig
    <2>2. /\ i \in (Len(history') - (n + 1) + 1)..Len(history')
          /\ Len(history) \in (Len(history') - (n + 1) + 1)..Len(history')
      BY <1>1, AppendSig
    <2> QED BY <2>1, <2>2, AppendSig DEF LastSame
  <1> QED BY <1>1, <1>2 DEF LastSame

(* A run of identical calls that reaches into the last Threshold > 1 calls *)
(* before the new one grows with it.                                       *)
LEMMA RunGrows ==
    ASSUME LDTypeOK, NEW sig \in Sigs, history' = Append(history, sig),
           NEW n \in Nat, LastSame(n), LastSame(2)'
    PROVE  LastSame(n + 1)'
  <1>1. Len(history) >= 1 /\ history[Len(history)] = sig
    BY AppendSig DEF LastSame
  <1>2. ASSUME NEW i \in (Len(history') - (n + 1) + 1)..Len(history')
        PROVE  history'[i] = sig
    <2>1. CASE i = Len(history')
      BY <2>1, AppendSig
    <2>2. CASE i # Len(history')
      <3>1. i \in (Len(history) - n + 1)..Len(history) /\ i \in 1..Len(history)
        BY <2>2, AppendSig DEF LastSame
      <3> QED BY <3>1, <1>1, AppendSig DEF LastSame
    <2> QED BY <2>1, <2>2
  <1>3. Len(history') >= n + 1
    BY AppendSig DEF LastSame
  <1> QED BY <1>2, <1>3, AppendSig DEF LastSame

(* Record keeps the types.                                                 *)
LEMMA RecordTypes ==
    ASSUME LDTypeOK, NEW sig \in Sigs, Record(sig) PROVE LDTypeOK'
  BY AppendSig DEF Record, LDTypeOK, LoopStatus

(* The invariant is inductive.                                             *)
LEMMA LDInductive == LDInv /\ [LDNext]_ldVars => LDInv'
  <1> SUFFICES ASSUME LDInv, [LDNext]_ldVars PROVE LDInv'
    OBVIOUS
  <1>1. CASE UNCHANGED ldVars
    BY <1>1 DEF ldVars, LDInv, LDTypeOK, WarnedExact, LastSame
  <1>2. ASSUME NEW sig \in Sigs, Record(sig) PROVE LDInv'
    <2>1. LDTypeOK /\ history' = Append(history, sig)
      BY <1>2 DEF LDInv, Record
    <2>2. LDTypeOK'
      BY <1>2, <2>1, RecordTypes
    <2>3. SameWindow(history') <=> LastSame(Threshold)'
      BY <2>2, WindowEnd DEF LDTypeOK, LastSame
    <2>4. Len(history') < Threshold => ~LastSame(Threshold)' /\ ~warned
      <3>1. Len(history') = Len(history) + 1 /\ Len(history) \in Nat
        BY <2>1, <1>2, AppendSig
      <3>2. Len(history') < Threshold => ~LastSame(Threshold)
        BY <3>1, ThresholdAssumption DEF LastSame
      <3>3. Len(history') < Threshold => ~LastSame(Threshold)'
        BY <3>1, ThresholdAssumption DEF LastSame
      <3> QED BY <3>2, <3>3 DEF LDInv, WarnedExact
    <2>5. WarnedExact'
      BY <1>2, <2>3, <2>4 DEF Record, WarnedExact
    <2>6. (warned <=> loopStatus # "LoopNormal")'
      BY <1>2, <2>3, <2>4 DEF Record
    <2> QED BY <2>2, <2>5, <2>6 DEF LDInv
  <1> QED BY <1>1, <1>2 DEF LDNext

(* A new detector satisfies the invariant.                                 *)
LEMMA LDInitInv == LDInit => LDInv
  <1> SUFFICES ASSUME LDInit PROVE LDInv
    OBVIOUS
  <1>1. LDTypeOK
    <2>1. <<>> \in Seq(Sigs)
      OBVIOUS
    <2> QED BY <2>1, Zenon DEF LDInit, LDTypeOK, LoopStatus
  <1>2. ~LastSame(Threshold)
    BY ThresholdAssumption DEF LDInit, LastSame
  <1>3. WarnedExact
    BY <1>2, Zenon DEF LDInit, WarnedExact
  <1>4. warned <=> loopStatus # "LoopNormal"
    BY DEF LDInit
  <1> QED BY <1>1, <1>3, <1>4 DEF LDInv

(* The detector's invariant holds in every reachable state.                *)
THEOREM LDInvariant == LDSpec => []LDInv
  BY LDInitInv, LDInductive, PTL DEF LDSpec

(* warned says exactly that the last Threshold calls are the same, for     *)
(* every threshold the option allows.                                      *)
THEOREM DetectorExact == LDSpec => [](LDTypeOK /\ WarnedExact)
  <1>1. LDInv => LDTypeOK /\ WarnedExact
    BY DEF LDInv
  <1> QED BY <1>1, LDInvariant, PTL

(* A call is refused exactly when it is at least the (Threshold + 1)-st of *)
(* a run of identical calls, provided that the threshold is not one.       *)
LDInv2 ==
    /\ LDInv
    /\ loopStatus = "LoopTerminate" <=> LastSame(Threshold + 1)

(* Record preserves LDInv2.                                                *)
LEMMA TerminateInductive ==
    ASSUME Threshold >= 2 PROVE LDInv2 /\ [LDNext]_ldVars => LDInv2'
  <1> SUFFICES ASSUME LDInv2, [LDNext]_ldVars PROVE LDInv2'
    OBVIOUS
  <1>0. LDInv'
    BY LDInductive DEF LDInv2
  <1>1. CASE UNCHANGED ldVars
    BY <1>0, <1>1 DEF ldVars, LDInv2, LastSame
  <1>2. ASSUME NEW sig \in Sigs, Record(sig) PROVE LDInv2'
    <2>1. LDTypeOK /\ LDTypeOK' /\ history' = Append(history, sig)
      BY <1>0, <1>2 DEF LDInv2, LDInv, Record
    <2>2. Threshold \in Nat /\ 2 \in Nat
      BY ThresholdAssumption
    <2>3. SameWindow(history') <=> LastSame(Threshold)'
      BY <2>1, WindowEnd DEF LDTypeOK, LastSame
    <2>4. ASSUME loopStatus' = "LoopTerminate" PROVE LastSame(Threshold + 1)'
      <3>1. LastSame(Threshold)' /\ warned
        BY <1>2, <2>3, <2>4 DEF Record
      <3>2. LastSame(Threshold)
        BY <3>1 DEF LDInv2, LDInv, WarnedExact
      <3>3. LastSame(2)'
        BY <2>1, <2>2, <3>1 DEF LDTypeOK, LastSame
      <3> QED BY <2>1, <2>2, <3>2, <3>3, RunGrows
    <2>5. ASSUME LastSame(Threshold + 1)' PROVE loopStatus' = "LoopTerminate"
      <3>1. LastSame(Threshold)
        BY <2>1, <2>2, <2>5, RunShrinks
      <3>2. warned
        BY <3>1 DEF LDInv2, LDInv, WarnedExact
      <3>3. LastSame(Threshold)'
        BY <2>1, <2>2, <2>5 DEF LDTypeOK, LastSame
      <3>4. Len(history') >= Threshold
        BY <3>3 DEF LastSame
      <3>5. ~(Len(history') < Threshold)
        BY <2>1, <2>2, <3>4 DEF LDTypeOK
      <3> QED BY <1>2, <2>3, <3>2, <3>3, <3>5 DEF Record
    <2> QED BY <1>0, <2>4, <2>5 DEF LDInv2
  <1> QED BY <1>1, <1>2 DEF LDNext

(* With a threshold of at least two the detector refuses the calls that    *)
(* prolong a loop, all of them and no others.                              *)
THEOREM DetectorRefusesLoops ==
    ASSUME Threshold >= 2
    PROVE  LDSpec => [](TerminatesOnlyLoops /\ NoLoopMissed)
  <1>1. LDInit /\ LDInv => LDInv2
    <2> SUFFICES ASSUME LDInit, LDInv PROVE LDInv2
      OBVIOUS
    <2>1. ~LastSame(Threshold + 1)
      BY ThresholdAssumption DEF LDInit, LastSame
    <2> QED BY <2>1 DEF LDInit, LDInv2
  <1>2. LDInv2 => TerminatesOnlyLoops /\ NoLoopMissed
    BY DEF LDInv2, TerminatesOnlyLoops, NoLoopMissed
  <1>3. LDInv2 /\ [LDNext]_ldVars => LDInv2'
    BY TerminateInductive
  <1> QED BY <1>1, <1>2, <1>3, LDInvariant, PTL DEF LDSpec

(* The model is always warned before a call is refused.                    *)
THEOREM DetectorWarnsFirst == LDSpec => WarnsBeforeTerminating
  <1>1. LDInv /\ [LDNext]_ldVars
            => [loopStatus' = "LoopTerminate"
                   => loopStatus \in {"LoopWarning", "LoopTerminate"}]_ldVars
    BY DEF LDNext, Record, LDInv, LDTypeOK, LoopStatus, ldVars
  <1> QED BY <1>1, LDInvariant, PTL DEF LDSpec, WarnsBeforeTerminating

-------------------------------------------------------------------------------
\* The refinement of the repetition counter.

(* A history ends in a run of one length only.                             *)
LEMMA RunUnique ==
    ASSUME NEW h \in Seq(Sigs), NEW n \in 0..Len(h), IsRun(h, n)
    PROVE  RunLength(h) = n
  <1>1. ASSUME NEW j \in 0..Len(h), NEW k \in 0..Len(h), IsRun(h, j), IsRun(h, k)
        PROVE  ~(j < k)
    <2> SUFFICES ASSUME j < k PROVE FALSE
      OBVIOUS
    <2>1. Len(h) \in Nat /\ Len(h) - j \in (Len(h) - k + 1)..Len(h)
      OBVIOUS
    <2>2. j # Len(h) /\ h[Len(h) - j] # h[Len(h)]
      BY <1>1, <2>1 DEF IsRun
    <2>3. h[Len(h) - j] = h[Len(h)]
      BY <1>1, <2>1 DEF IsRun
    <2> QED BY <2>2, <2>3
  <1>2. \A j \in 0..Len(h) : IsRun(h, j) => j = n
    BY <1>1
  <1> QED BY <1>2 DEF RunLength

(* A further call prolongs the run or starts a new one.                    *)
LEMMA RunAppend ==
    ASSUME NEW h \in Seq(Sigs), NEW n \in 0..Len(h), IsRun(h, n), NEW sig \in Sigs
    PROVE  LET m == IF n > 0 /\ sig = h[Len(h)] THEN n + 1 ELSE 1
           IN  m \in 0..Len(Append(h, sig)) /\ IsRun(Append(h, sig), m)
  <1> DEFINE g == Append(h, sig)
  <1>1. /\ Len(h) \in Nat
        /\ Len(g) = Len(h) + 1
        /\ \A i \in 1..Len(h) : g[i] = h[i]
        /\ g[Len(g)] = sig
    OBVIOUS
  <1> HIDE DEF g
  <1>2. CASE n > 0 /\ sig = h[Len(h)]
    <2>1. ASSUME NEW i \in (Len(g) - (n + 1) + 1)..Len(g) PROVE g[i] = g[Len(g)]
      <3>1. CASE i = Len(g)
        BY <3>1
      <3>2. CASE i # Len(g)
        <4>1. i \in (Len(h) - n + 1)..Len(h) /\ i \in 1..Len(h)
          BY <3>2, <1>1
        <4> QED BY <4>1, <1>1, <1>2 DEF IsRun
      <3> QED BY <3>1, <3>2
    <2>2. n + 1 = Len(g) \/ g[Len(g) - (n + 1)] # g[Len(g)]
      <3>1. CASE n = Len(h)
        BY <3>1, <1>1
      <3>2. CASE n # Len(h)
        <4>1. Len(h) - n \in 1..Len(h) /\ Len(g) - (n + 1) = Len(h) - n
          BY <3>2, <1>1
        <4> QED BY <4>1, <3>2, <1>1, <1>2 DEF IsRun
      <3> QED BY <3>1, <3>2
    <2>3. n + 1 \in 0..Len(g) /\ n + 1 <= Len(g)
      BY <1>1
    <2>4. IsRun(g, n + 1)
      BY <2>1, <2>2, <2>3 DEF IsRun
    <2> QED BY <1>2, <2>3, <2>4 DEF g
  <1>3. CASE ~(n > 0 /\ sig = h[Len(h)])
    <2>1. n = 0 => Len(h) = 0
      BY <1>1 DEF IsRun
    <2>2. 1 = Len(g) \/ g[Len(g) - 1] # g[Len(g)]
      <3>1. CASE Len(h) = 0
        BY <3>1, <1>1
      <3>2. CASE Len(h) # 0
        <4>1. Len(h) \in 1..Len(h) /\ Len(g) - 1 = Len(h) /\ n > 0
          BY <3>2, <2>1, <1>1
        <4> QED BY <4>1, <1>1, <1>3
      <3> QED BY <3>1, <3>2
    <2>3. IsRun(g, 1)
      BY <2>2, <1>1 DEF IsRun
    <2>4. 1 \in 0..Len(g)
      BY <1>1
    <2> QED BY <1>3, <2>3, <2>4 DEF g
  <1> QED BY <1>2, <1>3

(* The windows that are all the same are those inside the run.             *)
LEMMA RunWindows ==
    ASSUME LDTypeOK, NEW n \in 0..Len(history), IsRun(history, n), NEW k \in Nat
    PROVE  LastSame(k) <=> k <= n
  <1>1. Len(history) \in Nat
    BY DEF LDTypeOK
  <1>2. ASSUME k <= n PROVE LastSame(k)
    BY <1>1, <1>2 DEF IsRun, LastSame
  <1>3. ASSUME LastSame(k), ~(k <= n) PROVE FALSE
    <2>1. n # Len(history)
      BY <1>1, <1>3 DEF LastSame
    <2>2. Len(history) - n \in (Len(history) - k + 1)..Len(history)
      BY <1>1, <1>3
    <2> QED BY <1>3, <2>1, <2>2 DEF IsRun, LastSame
  <1> QED BY <1>2, <1>3

RunExists == \E n \in 0..Len(history) : IsRun(history, n)

\* What the refinement rests on.
RefInv == LDInv2 /\ RunExists

(* In every state that satisfies RefInv the verdict is the counter's.      *)
LEMMA VerdictIsCounters ==
    RefInv => loopStatus = Counter!Verdict(RunLength(history))
  <1> SUFFICES ASSUME RefInv PROVE loopStatus = Counter!Verdict(RunLength(history))
    OBVIOUS
  <1>1. PICK n \in 0..Len(history) : IsRun(history, n)
    BY DEF RefInv, RunExists
  <1>2. RunLength(history) = n
    BY <1>1, RunUnique DEF RefInv, LDInv2, LDInv, LDTypeOK
  <1>3. Threshold \in Nat /\ Threshold + 1 \in Nat /\ n \in Nat
    BY ThresholdAssumption
  <1>4. LDTypeOK
    BY DEF RefInv, LDInv2, LDInv
  <1>5. warned <=> Threshold <= n
    BY <1>1, <1>3, <1>4, RunWindows DEF RefInv, LDInv2, LDInv, WarnedExact
  <1>6. loopStatus = "LoopTerminate" <=> Threshold + 1 <= n
    BY <1>1, <1>3, <1>4, RunWindows DEF RefInv, LDInv2
  <1>7. loopStatus # "LoopNormal" <=> Threshold <= n
    BY <1>5 DEF RefInv, LDInv2, LDInv
  <1> QED BY <1>2, <1>3, <1>4, <1>6, <1>7 DEF Counter!Verdict, LDTypeOK, LoopStatus

(* Every Record is a step of the counter, or a stutter.                    *)
LEMMA RefInductive ==
    ASSUME Threshold >= 2, RefInv, [LDNext]_ldVars
    PROVE  RefInv' /\ [Counter!RCNext]_<<RunLength(history), Latest, loopStatus>>
  <1>1. LDInv2'
    BY TerminateInductive DEF RefInv
  <1>2. CASE UNCHANGED ldVars
    BY <1>1, <1>2 DEF ldVars, RefInv, RunExists, Latest
  <1>3. ASSUME NEW sig \in Sigs, Record(sig)
        PROVE  RefInv' /\ Counter!Call(sig)
    <2>1. /\ history \in Seq(Sigs) /\ Len(history) \in Nat
          /\ history' = Append(history, sig)
          /\ history' \in Seq(Sigs)
      BY <1>1, <1>3 DEF RefInv, LDInv2, LDInv, LDTypeOK, Record
    <2>2. PICK n \in 0..Len(history) : IsRun(history, n)
      BY DEF RefInv, RunExists
    <2> DEFINE m == IF n > 0 /\ sig = history[Len(history)] THEN n + 1 ELSE 1
    <2>3. m \in 0..Len(history') /\ IsRun(history', m)
      BY <2>1, <2>2, RunAppend
    <2>4. RunLength(history) = n /\ RunLength(history') = m
      BY <2>1, <2>2, <2>3, RunUnique
    <2>5. RefInv'
      BY <1>1, <2>3 DEF RefInv, RunExists
    <2>6. (loopStatus = Counter!Verdict(RunLength(history)))'
      BY <2>5, VerdictIsCounters, PTL
    <2>7. n > 0 => Latest = history[Len(history)]
      BY <2>1 DEF Latest
    <2>8. Latest' = sig
      BY <2>1 DEF Latest
    <2>9. RunLength(history') = IF RunLength(history) > 0 /\ sig = Latest
                                THEN RunLength(history) + 1 ELSE 1
      BY <2>4, <2>7
    <2> QED BY <2>5, <2>6, <2>8, <2>9 DEF Counter!Call
  <1> QED BY <1>2, <1>3 DEF LDNext, Counter!RCNext

(* The windowed detector implements the counter for every threshold of at  *)
(* least two and every set of signatures.                                  *)
THEOREM DetectorImplementsCounter ==
    ASSUME Threshold >= 2
    PROVE  LDSpec => ImplementsCounter
  <1>1. LDInit /\ LDInv => RefInv /\ Counter!RCInit
    <2> SUFFICES ASSUME LDInit, LDInv PROVE RefInv /\ Counter!RCInit
      OBVIOUS
    <2>1. ~LastSame(Threshold + 1)
      BY ThresholdAssumption DEF LDInit, LastSame
    <2>2. history \in Seq(Sigs) /\ 0 \in 0..Len(history) /\ IsRun(history, 0)
      BY DEF LDInit, IsRun
    <2>3. RunLength(history) = 0
      BY <2>2, RunUnique
    <2>4. RefInv
      BY <2>1, <2>2 DEF LDInit, RefInv, LDInv2, RunExists
    <2> QED BY <2>3, <2>4 DEF LDInit, Counter!RCInit
  <1>2. RefInv /\ [LDNext]_ldVars
            => RefInv' /\ [Counter!RCNext]_<<RunLength(history), Latest, loopStatus>>
    BY RefInductive
  <1>3. LDSpec => []LDInv
    BY LDInvariant
  <1> QED BY <1>1, <1>2, <1>3, PTL DEF LDSpec, ImplementsCounter, Counter!RCSpec, Counter!rcVars

===============================================================================
