-------------------------------- MODULE HITL --------------------------------
(***************************************************************************)
(* The human-in-the-loop handler (interrupter/hitl.go): which events are   *)
(* put to a human, and how a Run waits for the answer.  The approval       *)
(* function runs in a goroutine of its own and may answer late or never;   *)
(* the wait ends with the answer, the wait timeout or the Run's context.   *)
(*                                                                         *)
(* One handler serves all Runs of an agent.  A tool name is abstracted to  *)
(* where a read-like keyword occurs in it and whether RequireApproval      *)
(* lists it.                                                               *)
(***************************************************************************)
EXTENDS Naturals, Sequences

CONSTANTS
    Callers,          \* Runs that share the handler
    AutoApproveRead,
    ListGiven,        \* RequireApproval is not empty
    WaitTimeout,      \* a positive WaitTimeout is set
    HasApprovalFn,    \* NewHITL was given a function
    MaxQuestions      \* bound: events of one caller

ASSUME HITLAssumption ==
    /\ {AutoApproveRead, ListGiven, WaitTimeout, HasApprovalFn} \subseteq BOOLEAN
    /\ MaxQuestions \in Nat

Tools == [keyword : {"start", "inside", "nowhere"}, listed : BOOLEAN]
NoTool == [keyword |-> "nowhere", listed |-> FALSE]

\* What the loop asks about: a plan, an escalation, an action before it runs.
Events ==
    [type : {"afterPlan", "onEscalate"}, toolCall : {FALSE}, tool : {NoTool}]
      \union [type : {"beforeToolCall"}, toolCall : {FALSE}, tool : {NoTool}]
      \union [type : {"beforeToolCall"}, toolCall : {TRUE}, tool : Tools]

Verdicts == {"approve", "deny", "error"}

VARIABLES
    place,     \* per caller: "idle", or "wait" in WaitForHuman
    event,     \* per caller: its latest event
    skipped,   \* per caller: the latest event was not put to a human
    asked,     \* per caller: number of its questions
    done,      \* per caller: is the context it waits with done: no, by timeout, by its parent
    got,       \* per caller: what WaitForHuman returned
    helper,    \* per question: the state of its goroutine
    chan       \* the buffered channels, capacity one

hitlVars == <<place, event, skipped, asked, done, got, helper, chan>>

Questions == Callers \X (1..MaxQuestions)
Current(c) == <<c, asked[c]>>

HITLInit ==
    /\ place = [c \in Callers |-> "idle"]
    /\ event \in [Callers -> {e \in Events : e.type = "afterPlan"}]
    /\ skipped = [c \in Callers |-> FALSE]
    /\ asked = [c \in Callers |-> 0]
    /\ done = [c \in Callers |-> "no"]
    /\ got = [c \in Callers |-> [question |-> <<c, 0>>, verdict |-> "notAsked"]]
    /\ helper = [q \in Questions |-> "none"]
    /\ chan = [q \in Questions |-> <<>>]

-----------------------------------------------------------------------------
(* Which events interrupt. *)

isReadClassTool(t) == t.keyword # "nowhere"

shouldInterruptForTool(e) ==
    /\ e.toolCall
    /\ ~ (AutoApproveRead /\ isReadClassTool(e.tool))
    /\ ListGiven => e.tool.listed

ShouldInterrupt(e) == e.type = "beforeToolCall" => shouldInterruptForTool(e)

-----------------------------------------------------------------------------
(* WaitForHuman. *)

\* Mutant: one channel per caller.
ChannelKept(q) == <<q[1], 1>>

\* Each wait makes its own channel.
Channel(q) == q

\* The loop reaches an interruption point; if a human is to be asked, the wait
\* starts its goroutine, unless there is no function to call.
Raise(c, e) ==
    /\ place[c] = "idle"
    /\ asked[c] < MaxQuestions
    /\ done[c] # "parent"
    /\ event' = [event EXCEPT ![c] = e]
    /\ skipped' = [skipped EXCEPT ![c] = ~ ShouldInterrupt(e)]
    /\ asked' = [asked EXCEPT ![c] = @ + 1]
    /\ done' = [done EXCEPT ![c] = "no"]
    /\ IF ShouldInterrupt(e) /\ HasApprovalFn
       THEN /\ place' = [place EXCEPT ![c] = "wait"]
            /\ helper' = [helper EXCEPT ![<<c, asked[c] + 1>>] = "asking"]
            /\ UNCHANGED got
       ELSE /\ got' = [got EXCEPT ![c] = [question |-> <<c, asked[c] + 1>>,
                          verdict |-> IF ShouldInterrupt(e) THEN "error" ELSE "notAsked"]]
            /\ UNCHANGED <<place, helper>>
    /\ UNCHANGED chan

\* The approval function returns, whether or not anyone still waits, and its
\* goroutine leaves the answer in the channel: the buffer has room for it.
Answer(q, v) ==
    /\ helper[q] = "asking"
    /\ helper' = [helper EXCEPT ![q] = v]
    /\ UNCHANGED <<place, event, skipped, asked, done, got, chan>>

\* Mutant: an unbuffered channel.
CanSendUnbuffered(q) == place[q[1]] = "wait" /\ Current(q[1]) = q

CanSend(q) == chan[Channel(q)] = <<>>

Send(q) ==
    /\ helper[q] \in Verdicts
    /\ CanSend(q)
    /\ chan' = [chan EXCEPT ![Channel(q)] = <<[question |-> q, verdict |-> helper[q]]>>]
    /\ helper' = [helper EXCEPT ![q] = "gone"]
    /\ UNCHANGED <<place, event, skipped, asked, done, got>>

\* The context of the wait ends: its own timeout, or the Run's deadline.
WaitExpires(c, why) ==
    /\ place[c] = "wait"
    /\ done[c] = "no"
    /\ why = "timeout" => WaitTimeout
    /\ done' = [done EXCEPT ![c] = why]
    /\ UNCHANGED <<place, event, skipped, asked, got, helper, chan>>

WaitDone(c) == done[c] # "no"

\* The two cases of the select; when both are ready either may be taken.
ReturnDone(c) ==
    /\ place[c] = "wait"
    /\ WaitDone(c)
    /\ place' = [place EXCEPT ![c] = "idle"]
    /\ got' = [got EXCEPT ![c] = [question |-> Current(c), verdict |-> "ctxErr"]]
    /\ UNCHANGED <<event, skipped, asked, done, helper, chan>>

ReturnAnswer(c) ==
    /\ place[c] = "wait"
    /\ chan[Channel(Current(c))] # <<>>
    /\ place' = [place EXCEPT ![c] = "idle"]
    /\ got' = [got EXCEPT ![c] = chan[Channel(Current(c))][1]]
    /\ chan' = [chan EXCEPT ![Channel(Current(c))] = <<>>]
    /\ UNCHANGED <<event, skipped, asked, done, helper>>

LeaveWait(c) == ReturnDone(c) \/ ReturnAnswer(c)

HITLNext ==
    \/ \E c \in Callers : \/ \E e \in Events : Raise(c, e)
                          \/ \E why \in {"timeout", "parent"} : WaitExpires(c, why)
                          \/ LeaveWait(c)
    \/ \E q \in Questions : Send(q) \/ \E v \in Verdicts : Answer(q, v)

\* Goroutines are scheduled and a timeout that is set fires; a human need not answer.
HITLSpec ==
    /\ HITLInit /\ [][HITLNext]_hitlVars
    /\ \A c \in Callers : WF_hitlVars(LeaveWait(c)) /\ WF_hitlVars(WaitExpires(c, "timeout"))
    /\ \A q \in Questions : WF_hitlVars(Send(q))

-----------------------------------------------------------------------------
(* Properties. *)

\* An approval counts for the question it was given to: the answer a wait
\* returns is the answer to its own event, never the late answer to an earlier
\* one that timed out, nor one meant for another Run.
AnswerIsForQuestion ==
    \A c \in Callers :
      place[c] = "idle" => got[c].question = Current(c)
=============================================================================
