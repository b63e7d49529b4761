----------------------------- MODULE LoopDetector -----------------------------
(***************************************************************************)
(* The dead-loop detector every session owns (agent/loop_detector.go).     *)
(*                                                                         *)
(* A call is reduced to its signature, the pair of the tool's name and the *)
(* hash of its parameters: the code only ever compares signatures, so they *)
(* are the elements of the unstructured set Sigs.                          *)
(*                                                                         *)
(* AgentLoop EXTENDS this module and runs Record inside its Executing      *)
(* handler; LDSpec is the detector on its own, called with any signature   *)
(* at any time.                                                            *)
(***************************************************************************)
EXTENDS Actions

CONSTANT Threshold   \* LoopDetector.threshold

\* NewLoopDetector replaces a threshold <= 0 by the default, so it is positive.
ASSUME ThresholdAssumption == Threshold \in Nat \ {0}

VARIABLES
    history,    \* LoopDetector.history: every signature recorded so far
    warned,     \* LoopDetector.warned
    loopStatus  \* the LoopStatus the latest Record returned

ldVars == <<history, warned, loopStatus>>

LoopStatus == {"LoopNormal", "LoopWarning", "LoopTerminate"}

LDTypeOK ==
    /\ history \in Seq(Sigs)
    /\ warned \in BOOLEAN
    /\ loopStatus \in LoopStatus

-------------------------------------------------------------------------------

\* NewLoopDetector
LDInit ==
    /\ history = <<>>
    /\ warned = FALSE
    /\ loopStatus = "LoopNormal"

\* The last Threshold signatures of h exist and equal the first of them.
SameWindow(h) ==
    LET first == Len(h) - Threshold + 1
    IN  /\ Len(h) >= Threshold
        /\ \A i \in first..Len(h) : h[i] = h[first]

\* A mutation of Record: a warning that is never reset.
RecordNoReset(sig) ==
    /\ history' = Append(history, sig)
    /\ LET same == SameWindow(history')
       IN  /\ warned' = (warned \/ same)
           /\ loopStatus' = IF ~same THEN "LoopNormal"
                            ELSE IF warned THEN "LoopTerminate" ELSE "LoopWarning"

\* Record: append the signature, then look at the window it completes.
Record(sig) ==
    /\ history' = Append(history, sig)
    /\ \/ /\ Len(history') < Threshold
          /\ loopStatus' = "LoopNormal"
          /\ UNCHANGED warned
       \/ /\ Len(history') >= Threshold
          /\ ~SameWindow(history')
          /\ loopStatus' = "LoopNormal"
          /\ warned' = FALSE
       \/ /\ SameWindow(history')
          /\ ~warned
          /\ loopStatus' = "LoopWarning"
          /\ warned' = TRUE
       \/ /\ SameWindow(history')
          /\ warned
          /\ loopStatus' = "LoopTerminate"
          /\ UNCHANGED warned

LDNext == \E sig \in Sigs : Record(sig)

LDSpec == LDInit /\ [][LDNext]_ldVars

-------------------------------------------------------------------------------

\* The last n signatures of the history are all the same one.
LastSame(n) ==
    /\ Len(history) >= n
    /\ \A i \in (Len(history) - n + 1)..Len(history) :
            history[i] = history[Len(history)]

(* The warned flag is no independent memory: at every moment it says       *)
(* exactly that the latest Threshold calls are identical, whatever calls   *)
(* were recorded, warned about or refused before (Record, "warned").       *)
WarnedExact == warned <=> LastSame(Threshold)

(* The detector ends a run only for the loop the warning text describes:   *)
(* the refused call repeats, with the same tool and parameters, the        *)
(* Threshold calls before it (Record's last branch).                       *)
TerminatesOnlyLoops == loopStatus = "LoopTerminate" => LastSame(Threshold + 1)

(* No loop is missed: once Threshold + 1 identical calls have come in a    *)
(* row, the verdict on the last one is Terminate.                          *)
NoLoopMissed == LastSame(Threshold + 1) => loopStatus = "LoopTerminate"

(* Two phases, in this order: a Terminate is only ever given right after a *)
(* Warning or another Terminate; the model is always told first.           *)
WarnsBeforeTerminating ==
    [][loopStatus' = "LoopTerminate"
          => loopStatus \in {"LoopWarning", "LoopTerminate"}]_ldVars

===============================================================================
