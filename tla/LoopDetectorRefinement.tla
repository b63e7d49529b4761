------------------------ MODULE LoopDetectorRefinement ------------------------
(***************************************************************************)
(* The windowed detector implements the repetition counter.                *)
(***************************************************************************)
EXTENDS LoopDetector

\* n is the length of the run of identical signatures that ends h.
IsRun(h, n) ==
    /\ n <= Len(h)
    /\ \A i \in (Len(h) - n + 1)..Len(h) : h[i] = h[Len(h)]
    /\ n = Len(h) \/ h[Len(h) - n] # h[Len(h)]

RunLength(h) == CHOOSE n \in 0..Len(h) : IsRun(h, n)

\* The signature recorded last, if there is one.
Latest == IF history = <<>> THEN "none" ELSE history[Len(history)]

Counter == INSTANCE RepeatCounter
             WITH run <- RunLength(history),
                  latest <- Latest,
                  verdict <- loopStatus

(* Record behaves as the counter: a Warning at the Threshold-th identical  *)
(* call in a row, a Terminate at every further one, Normal otherwise.      *)
ImplementsCounter == Counter!RCSpec

===============================================================================
