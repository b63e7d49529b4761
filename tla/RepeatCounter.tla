---------------------------- MODULE RepeatCounter ----------------------------
(***************************************************************************)
(* What a dead-loop detector promises, without windows or flags: count how *)
(* often the latest call has been repeated in a row, warn when the count   *)
(* reaches the threshold, refuse every repetition beyond it.  The detector *)
(* of agent/loop_detector.go is shown to implement it for thresholds of at *)
(* least two (LoopDetectorRefinement).                                     *)
(***************************************************************************)
EXTENDS Naturals

CONSTANTS Sigs, Threshold

VARIABLES
    run,     \* length of the current run of identical calls
    latest,  \* the call it repeats, or none before the first call
    verdict

rcVars == <<run, latest, verdict>>

Verdict(n) ==
    CASE n < Threshold -> "LoopNormal"
      [] n = Threshold -> "LoopWarning"
      [] n > Threshold -> "LoopTerminate"

RCInit == run = 0 /\ verdict = "LoopNormal"

Call(sig) ==
    /\ run' = IF run > 0 /\ sig = latest THEN run + 1 ELSE 1
    /\ latest' = sig
    /\ verdict' = Verdict(run')

RCNext == \E sig \in Sigs : Call(sig)

RCSpec == RCInit /\ [][RCNext]_rcVars

===============================================================================
