--------------------------- MODULE LoopPartsProofs ---------------------------
(***************************************************************************)
(* The safety of what the agent loop calls, each part for every value of   *)
(* its constants: the sandbox, the human in the loop, the checkpoints, the *)
(* composite evaluator, the output controller, the plan-and-solve planner  *)
(* in small steps, and the parallel executor.                              *)
(***************************************************************************)
EXTENDS Sandbox, HITL, Checkpoint, Evaluators, OutputController, SharedPlanner,
        ParallelExecutor, FiniteSetTheorems, WellFoundedInduction, TLAPS

-------------------------------------------------------------------------------
\* The sandbox.

\* What the server and the handle know of each other.  The two reads of
\* sandboxID in Close are why "delete" says less than "deleted": a user may
\* have built its URL from an id that another Close had emptied by then.
SandboxInv ==
    /\ created \in Nat
    /\ alive \subseteq 1..created
    /\ handle \in 0..created /\ sandboxID \in {NoSandbox, handle}
    /\ op \in [Users -> {"idle", "exec", "executed", "close", "delete", "deleted"}]
    /\ target \in [Users -> Nat]
    /\ DOMAIN ran = Users
    /\ handle = NoSandbox =>
          /\ ~closed
          /\ kind = "e2b" => \A u \in Users : op[u] = "idle"
    /\ handle # NoSandbox => kind = "e2b"
    /\ kind # "e2b" => \A u \in Users : op[u] \in {"idle", "exec", "executed"}
    /\ \A s \in alive : s \in unknown \/ s = handle
    /\ sandboxID = NoSandbox \/ closed => handle \notin alive
    /\ \A u \in Users :
          /\ op[u] = "exec" /\ kind = "e2b" => target[u] = handle
          /\ op[u] = "delete" => target[u] = handle \/ handle \notin alive
          /\ op[u] = "deleted" => handle \notin alive

(* SandboxInv holds before the first request.                              *)
LEMMA SandboxInvInit == SandboxInit => SandboxInv
  BY DEF SandboxInit, SandboxInv, NoSandbox

(* Creating a sandbox, of which the handle may or may not learn.           *)
LEMMA CreateKeeps ==
    ASSUME SandboxInv, CreateRefused \/ Create \/ CreateLost
    PROVE  SandboxInv'
  <1> USE DEF SandboxInv, CreateCommon, NoSandbox
  <1>1. CASE CreateRefused
    BY <1>1 DEF CreateRefused
  <1>2. CASE Create
    BY <1>2 DEF Create
  <1>3. CASE CreateLost
    BY <1>3 DEF CreateLost
  <1> QED BY <1>1, <1>2, <1>3

(* Running commands.                                                       *)
LEMMA ExecKeeps ==
    ASSUME SandboxInv, NEW u \in Users,
           ExecSend(u) \/ ExecRuns(u) \/ ExecReturns(u) \/ ExecFails(u)
    PROVE  SandboxInv'
  <1> USE DEF SandboxInv, NoSandbox
  <1>1. CASE ExecSend(u)
    BY <1>1 DEF ExecSend, BeginOp, HasHandle
  <1>2. CASE ExecRuns(u)
    BY <1>2 DEF ExecRuns
  <1>3. CASE ExecReturns(u)
    BY <1>3 DEF ExecReturns
  <1>4. CASE ExecFails(u)
    BY <1>4 DEF ExecFails
  <1> QED BY <1>1, <1>2, <1>3, <1>4

(* Closing, in all its steps.                                              *)
LEMMA CloseKeeps ==
    ASSUME SandboxInv, NEW u \in Users,
           \/ CloseNothing(u) \/ CloseCheck(u) \/ CloseBuild(u)
           \/ CloseDeletes(u) \/ CloseReturns(u) \/ CloseFails(u)
    PROVE  SandboxInv'
  <1> USE DEF SandboxInv, CloseUnchanged, NoSandbox
  <1>1. CASE CloseNothing(u)
    BY <1>1 DEF CloseNothing, HasHandle
  <1>2. CASE CloseCheck(u)
    BY <1>2 DEF CloseCheck, BeginOp
  <1>3. CASE CloseBuild(u)
    BY <1>3 DEF CloseBuild
  <1>4. CASE CloseDeletes(u)
    BY <1>4 DEF CloseDeletes
  <1>5. CASE CloseReturns(u)
    BY <1>5 DEF CloseReturns
  <1>6. CASE CloseFails(u)
    BY <1>6 DEF CloseFails
  <1> QED BY <1>1, <1>2, <1>3, <1>4, <1>5, <1>6

(* Users, lost messages and the server's clock preserve SandboxInv.        *)
LEMMA SandboxInvStep == SandboxInv /\ [SandboxNext]_sandboxVars => SandboxInv'
  <1> SUFFICES ASSUME SandboxInv, [SandboxNext]_sandboxVars PROVE SandboxInv'
    OBVIOUS
  <1>1. CASE UNCHANGED sandboxVars
    BY <1>1 DEF sandboxVars, SandboxInv
  <1>2. ASSUME NEW s \in Sandboxes, TimeToLiveEnds(s) PROVE SandboxInv'
    BY <1>2 DEF TimeToLiveEnds, SandboxInv
  <1> QED BY <1>1, <1>2, CreateKeeps, ExecKeeps, CloseKeeps DEF SandboxNext

(* A sandbox whose Close has returned nil is gone and runs nothing, and no *)
(* other is forgotten, for any number of users and calls and whatever is   *)
(* lost on the way.                                                        *)
THEOREM SandboxIsExact == SandboxSpec => SandboxExact
  <1>1. SandboxInv => SandboxSafe
    BY DEF SandboxInv, SandboxSafe, ClosedIsGone, NoneForgotten
  <1>2. SandboxInv /\ SandboxNext => NothingRunsClosed
    <2> SUFFICES ASSUME SandboxInv, SandboxNext, closed, kind = "e2b", NEW v \in Users
                 PROVE  ran'[v] \subseteq ran[v]
      BY DEF NothingRunsClosed
    <2>1. CASE CreateRefused \/ Create \/ CreateLost
      BY <2>1 DEF CreateRefused, Create, CreateLost, CreateCommon
    <2>2. ASSUME NEW u \in Users,
                 ExecSend(u) \/ ExecRuns(u) \/ ExecReturns(u) \/ ExecFails(u)
          PROVE  ran'[v] \subseteq ran[v]
      BY <2>2 DEF ExecSend, ExecRuns, ExecReturns, ExecFails, SandboxInv
    <2>3. ASSUME NEW u \in Users,
                 \/ CloseNothing(u) \/ CloseCheck(u) \/ CloseBuild(u)
                 \/ CloseDeletes(u) \/ CloseReturns(u) \/ CloseFails(u)
          PROVE  ran'[v] \subseteq ran[v]
      BY <2>3 DEF CloseNothing, CloseCheck, CloseBuild, CloseDeletes, CloseReturns,
                  CloseFails, CloseUnchanged
    <2>4. ASSUME NEW s \in Sandboxes, TimeToLiveEnds(s) PROVE ran'[v] \subseteq ran[v]
      BY <2>4 DEF TimeToLiveEnds
    <2> QED BY <2>1, <2>2, <2>3, <2>4 DEF SandboxNext
  <1>3. SandboxInv /\ SandboxInv' /\ [SandboxNext]_sandboxVars
          => [SandboxSafe' /\ NothingRunsClosed]_sandboxVars
    <2>1. SandboxInv' => SandboxSafe'
      BY DEF SandboxInv, SandboxSafe, ClosedIsGone, NoneForgotten
    <2> QED BY <1>2, <2>1
  <1> QED BY <1>1, <1>3, SandboxInvInit, SandboxInvStep, PTL DEF SandboxSpec, SandboxExact

-------------------------------------------------------------------------------
\* The human in the loop.

\* A channel only ever holds the answer to the question it was made for, and a
\* caller waits for the last question it has asked.
HITLInv ==
    /\ asked \in [Callers -> 0..MaxQuestions]
    /\ place \in [Callers -> {"idle", "wait"}]
    /\ DOMAIN got = Callers
    /\ DOMAIN helper = Questions
    /\ DOMAIN chan = Questions
    /\ \A q \in Questions : chan[q] # <<>> => chan[q][1].question = q
    /\ \A c \in Callers :
          /\ place[c] = "idle" => got[c].question = Current(c)
          /\ place[c] = "wait" => asked[c] > 0

(* Every step of the handler, of a human, of a goroutine or of the clock   *)
(* keeps HITLInv.                                                          *)
LEMMA HITLInvStep == HITLInv /\ [HITLNext]_hitlVars => HITLInv'
  <1> SUFFICES ASSUME HITLInv, [HITLNext]_hitlVars PROVE HITLInv'
    OBVIOUS
  <1> USE HITLAssumption DEF HITLInv, Current, Questions
  <1>1. CASE UNCHANGED hitlVars
    BY <1>1 DEF hitlVars
  <1>2. ASSUME NEW c \in Callers, NEW e \in Events, Raise(c, e) PROVE HITLInv'
    <2>1. CASE ShouldInterrupt(e) /\ HasApprovalFn
      BY <1>2, <2>1 DEF Raise
    <2>2. CASE ~(ShouldInterrupt(e) /\ HasApprovalFn)
      BY <1>2, <2>2 DEF Raise
    <2> QED BY <2>1, <2>2
  <1>3. ASSUME NEW c \in Callers, NEW why \in {"timeout", "parent"}, WaitExpires(c, why)
        PROVE  HITLInv'
    BY <1>3 DEF WaitExpires
  <1>4. ASSUME NEW c \in Callers, ReturnDone(c) PROVE HITLInv'
    BY <1>4 DEF ReturnDone
  <1>5. ASSUME NEW c \in Callers, ReturnAnswer(c) PROVE HITLInv'
    <2>1. Current(c) \in Questions
      BY <1>5 DEF ReturnAnswer
    <2>2. chan' = [chan EXCEPT ![Current(c)] = <<>>] /\ got'[c].question = Current(c)
      BY <1>5, <2>1 DEF ReturnAnswer, Channel
    <2> QED BY <1>5, <2>1, <2>2 DEF ReturnAnswer
  <1>6. ASSUME NEW q \in Questions, Send(q) PROVE HITLInv'
    BY <1>6 DEF Send, Channel
  <1>7. ASSUME NEW q \in Questions, NEW v \in Verdicts, Answer(q, v) PROVE HITLInv'
    BY <1>7 DEF Answer
  <1> QED BY <1>1, <1>2, <1>3, <1>4, <1>5, <1>6, <1>7 DEF HITLNext, LeaveWait

(* What WaitForHuman returns answers the event it was called for, for any  *)
(* number of Runs that share the handler and however late the answers to   *)
(* earlier events come in.                                                 *)
THEOREM AnswersAreForQuestions == HITLSpec => []AnswerIsForQuestion
  <1>1. HITLInit => HITLInv
    BY HITLAssumption DEF HITLInit, HITLInv, Current, Questions
  <1>2. HITLInv => AnswerIsForQuestion
    BY DEF HITLInv, AnswerIsForQuestion
  <1> QED BY <1>1, <1>2, HITLInvStep, PTL DEF HITLSpec

-------------------------------------------------------------------------------
\* Checkpoints.

\* Every snapshot is numbered, and its number is its own.
CPInv ==
    /\ started \in Nat
    /\ stepResults \in Seq({"ok", "error"})
    /\ inflight \subseteq past
    /\ \A s \in past :
          /\ s = [no |-> s.no, run |-> s.run, iteration |-> s.iteration,
                  stepResults |-> s.stepResults, state |-> s.state]
          /\ s.no \in 1..started
          /\ s.stepResults \in Seq({"ok", "error"})
    /\ \A s, t \in past : s.no = t.no => s = t
    /\ stored = NoSnapshot \/ \E s \in past : stored = Serialize(s)
    /\ loaded \in past \cup {NoSnapshot, LoadError}

(* What is read back is what was written, unless a step of it has failed.  *)
LEMMA RoundTrip ==
    ASSUME NEW s, NEW n, NEW r, NEW i, NEW l, NEW outs \in Seq({"ok", "error"}),
           s = [no |-> n, run |-> r, iteration |-> i, stepResults |-> outs, state |-> l]
    PROVE  /\ Serialize(s).no = n
           /\ Deserialize(Serialize(s)) = IF Failed(s) THEN LoadError ELSE s
  <1> DEFINE written == [j \in DOMAIN outs |-> IF outs[j] = "ok" THEN "null" ELSE "{}"]
             b == Serialize(s)
  <1>1. \A j \in DOMAIN outs : outs[j] \in {"ok", "error"}
    OBVIOUS
  <1>2. b = [no |-> n, run |-> r, iteration |-> i, stepResults |-> written, state |-> l]
    <2>1. s.stepResults = outs
      OBVIOUS
    <2>2. b = [s EXCEPT !.stepResults = written]
      BY <2>1 DEF Serialize
    <2> HIDE DEF b, written
    <2> QED BY <2>2
  <1> HIDE DEF b
  <1>3. b.stepResults = written /\ DOMAIN b.stepResults = DOMAIN outs /\ b.no = n
    <2>1. DOMAIN written = DOMAIN outs
      OBVIOUS
    <2> HIDE DEF written
    <2> QED BY <1>2, <2>1
  <1>4. Failed(s) <=> \E j \in DOMAIN b.stepResults : b.stepResults[j] = "{}"
    BY <1>1, <1>3 DEF Failed
  <1>5. ASSUME ~Failed(s) PROVE [j \in DOMAIN b.stepResults |-> "ok"] = outs
    <2>1. \A j \in DOMAIN outs : outs[j] = "ok"
      BY <1>1, <1>5 DEF Failed
    <2>2. outs = [j \in DOMAIN outs |-> outs[j]]
      OBVIOUS
    <2> QED BY <1>3, <2>1, <2>2
  <1>6. ASSUME ~Failed(s) PROVE [b EXCEPT !.stepResults = [j \in DOMAIN b.stepResults |-> "ok"]] = s
    <2>1. [b EXCEPT !.stepResults = [j \in DOMAIN b.stepResults |-> "ok"]]
            = [b EXCEPT !.stepResults = outs]
      BY <1>5, <1>6
    <2> HIDE DEF written
    <2> QED BY <1>2, <2>1
  <1>7. Deserialize(b) = IF Failed(s) THEN LoadError ELSE s
    BY <1>4, <1>6 DEF Deserialize
  <1> QED BY <1>3, <1>7 DEF b

(* A new snapshot gets a new number.                                       *)
LEMMA SnapshotKeeps ==
    ASSUME CPInv, maybeSaveCheckpoint, stepResults' \in Seq({"ok", "error"})
    PROVE  CPInv'
  <1> DEFINE s0 == Snapshot(started')
  <1>1. /\ started \in Nat /\ started' = started + 1
        /\ inflight' = inflight \cup {s0} /\ past' = past \cup {s0}
        /\ stored' = stored /\ loaded' = loaded
    BY DEF CPInv, maybeSaveCheckpoint
  <1>2. /\ s0 = [no |-> s0.no, run |-> s0.run, iteration |-> s0.iteration,
                 stepResults |-> s0.stepResults, state |-> s0.state]
        /\ s0.no = started + 1 /\ s0.stepResults \in Seq({"ok", "error"})
    BY <1>1 DEF Snapshot, CPInv
  <1> HIDE DEF s0
  <1>3. \A s \in past : s.no # s0.no
    BY <1>1, <1>2 DEF CPInv
  <1>4. \A s \in past' : /\ s = [no |-> s.no, run |-> s.run, iteration |-> s.iteration,
                               stepResults |-> s.stepResults, state |-> s.state]
                         /\ s.no \in 1..started'
                         /\ s.stepResults \in Seq({"ok", "error"})
    BY <1>1, <1>2 DEF CPInv
  <1>5. \A s, t \in past' : s.no = t.no => s = t
    BY <1>1, <1>3 DEF CPInv
  <1>6. stored' = NoSnapshot \/ \E s \in past' : stored' = Serialize(s)
    BY <1>1 DEF CPInv
  <1>7. loaded' \in past' \cup {NoSnapshot, LoadError}
    BY <1>1 DEF CPInv
  <1> QED BY <1>1, <1>4, <1>5, <1>6, <1>7 DEF CPInv

(* What Load finds: nothing, or a snapshot that was taken, or an error.    *)
LEMMA LookupExact ==
    ASSUME CPInv
    PROVE  /\ Lookup \in past \cup {NoSnapshot, LoadError}
           /\ \A s \in past : s.no = stored.no => Lookup = IF Failed(s) THEN LoadError ELSE s
  <1>1. \A s \in past : /\ Serialize(s).no = s.no
                        /\ Deserialize(Serialize(s)) = IF Failed(s) THEN LoadError ELSE s
    BY RoundTrip DEF CPInv
  <1>2. \A s \in past : s.no # 0
    BY DEF CPInv
  <1>3. CASE stored = NoSnapshot
    <2>1. Lookup = NoSnapshot /\ stored.no = 0
      BY <1>3 DEF Lookup, NoSnapshot
    <2> QED BY <1>2, <2>1
  <1>4. CASE stored # NoSnapshot
    <2>1. PICK t \in past : stored = Serialize(t)
      BY <1>4 DEF CPInv
    <2>2. Lookup = IF Failed(t) THEN LoadError ELSE t
      BY <1>1, <1>4, <2>1 DEF Lookup
    <2>3. \A s \in past : s.no = stored.no => s = t
      BY <1>1, <2>1 DEF CPInv
    <2> QED BY <2>1, <2>2, <2>3
  <1> QED BY <1>3, <1>4

(* Every step of the loop, of a goroutine and of the store keeps CPInv.    *)
LEMMA CPInvStep == CPInv /\ [CPNext]_checkpointVars => CPInv'
  <1> SUFFICES ASSUME CPInv, [CPNext]_checkpointVars PROVE CPInv'
    OBVIOUS
  <1>1. CASE UNCHANGED checkpointVars
    BY <1>1 DEF CPInv, checkpointVars, loopVars
  <1>2. CASE StartRun \/ Planning
    <2>1. /\ UNCHANGED <<started, inflight, past, stored, loaded>>
          /\ stepResults' = <<>> \/ stepResults' = stepResults
      BY <1>2 DEF StartRun, Planning, NoSave
    <2>2. << >> \in Seq({"ok", "error"})
      OBVIOUS
    <2>3. stepResults' \in Seq({"ok", "error"})
      BY <2>1, <2>2 DEF CPInv
    <2> QED BY <2>1, <2>3 DEF CPInv
  <1>3. CASE Interrupt \/ Executing \/ ContextDone
    <2>1. maybeSaveCheckpoint
      BY <1>3 DEF Interrupt, Executing, ContextDone
    <2>2. stepResults' \in Seq({"ok", "error"})
      <3>1. CASE Interrupt
        BY <3>1 DEF CPInv, Interrupt
      <3>2. CASE Executing
        BY <3>2 DEF CPInv, Executing
      <3>3. CASE ContextDone
        BY <3>3 DEF CPInv, ContextDone
      <3> QED BY <1>3, <3>1, <3>2, <3>3
    <2> QED BY <2>1, <2>2, SnapshotKeeps
  <1>4. ASSUME NEW s \in inflight, Save(s) PROVE CPInv'
    <2>1. /\ stored' = Serialize(s) /\ s \in past /\ inflight' \subseteq inflight
          /\ UNCHANGED <<started, stepResults, past, loaded>>
      BY <1>4 DEF CPInv, Save, loopVars
    <2>2. \E t \in past' : stored' = Serialize(t)
      BY <2>1
    <2> QED BY <2>1, <2>2 DEF CPInv
  <1>5. ASSUME NEW s \in inflight, SaveTimesOut(s) PROVE CPInv'
    BY <1>5 DEF CPInv, SaveTimesOut, loopVars
  <1>6. CASE Load
    BY <1>6, LookupExact DEF CPInv, Load, loopVars
  <1>7. CASE DeleteCheckpoint \/ StoreFails
    BY <1>7 DEF CPInv, DeleteCheckpoint, StoreFails, loopVars
  <1> QED BY <1>1, <1>2, <1>3, <1>4, <1>5, <1>6, <1>7 DEF CPNext

(* Resume and GetState return a state the loop was once in, and what is    *)
(* stored comes back as it was unless a step of it failed, for any number  *)
(* of Runs, iterations and steps and for every order of the saves.         *)
THEOREM RestoresAreExact == CPSpec => []RestoreExact
  <1>1. CPInit => CPInv
    BY DEF CPInit, CPInv
  <1>2. CPInv => RestoreExact
    BY LookupExact DEF CPInv, RestoreExact, NoSnapshot, LoadError
  <1> QED BY <1>1, <1>2, CPInvStep, PTL DEF CPSpec

-------------------------------------------------------------------------------
\* The output controller.

\* While answers are asked for, a retry is either taken or left.
OutputInv ==
    /\ schema \in Schemas
    /\ {autoRetry, left, tries} \subseteq Nat
    /\ outcome = "asked" => tries + left = autoRetry
    /\ outcome # "asked" => text \in FinalTexts
    /\ outcome = "accepted" => ValidateOutput(schema, text)
    /\ outcome = "rejected" => ~ValidateOutput(schema, text) /\ tries = autoRetry + 1

(* The verdict of ValidateOutput is about a value the answer holds, and a  *)
(* value of the schema.                                                    *)
LEMMA AcceptsConforming ==
    ASSUME NEW s \in Schemas, NEW t \in FinalTexts, ValidateOutput(s, t)
    PROVE  \E v \in Mentioned(t) : \/ Means(s, v)
                                   \/ s # "struct" /\ v = "null"
                                   \/ s = "pointer" /\ v = "violating"
  <1> DEFINE c == extractContent(s, t)
  <1>1. Unmarshals(s, repairJSON(c)) \/ fallbackBasicTypes(s, c)
    BY DEF ValidateOutput
  <1>2. Validates(s, repairJSON(c))
    BY DEF ValidateOutput
  <1>3. CASE s = "string"
    BY <1>3 DEF Mentioned, Means
  <1>4. CASE s # "string"
    <2>1. c \in Values \cup {Absent}
      BY DEF extractContent, FinalTexts, Braced, Bracketed, Values, Scalars, Objects
    <2>2. c \in Mentioned(t) \/ c \in {"words", "broken"}
      BY DEF extractContent, FinalTexts, Braced, Bracketed, Mentioned, Objects
    <2> HIDE DEF c
    <2>3. c \notin {"words", "broken"}
      BY <1>1, <1>4 DEF Unmarshals, fallbackBasicTypes, Parses, cleanContent, Quoted, Unquoted,
                        repairJSON
    <2>4. \/ Means(s, c)
          \/ s # "struct" /\ c = "null"
          \/ s = "pointer" /\ c = "violating"
      BY <1>1, <1>2, <1>4, <2>1
         DEF Unmarshals, fallbackBasicTypes, Parses, cleanContent, Quoted, Unquoted, repairJSON,
             Validates, Means, Numbers, Schemas, Objects
    <2> QED BY <2>2, <2>3, <2>4
  <1> QED BY <1>3, <1>4

(* A value of a schema other than a slice passes all steps of the check.   *)
LEMMA MeaningPasses ==
    ASSUME NEW s \in Schemas \ {"slice"}, NEW v \in Values, Means(s, v)
    PROVE  /\ Unmarshals(s, repairJSON(v)) \/ fallbackBasicTypes(s, v)
           /\ Validates(s, repairJSON(v))
  BY DEF Schemas, Values, Scalars, Quoted, Unquoted, Objects, Means, Numbers, Unmarshals,
         fallbackBasicTypes, Parses, cleanContent, repairJSON, Validates

(* What ValidateOutput refuses has no value of the schema where the code   *)
(* looks for it.                                                           *)
LEMMA RefusalExplained ==
    ASSUME NEW s \in Schemas, NEW t \in FinalTexts, ~ValidateOutput(s, t), s # "slice"
    PROVE  /\ Means(s, t.fenced) => t.fenced = Absent
           /\ t.fenced = Absent /\ Means(s, t.bare)
                => \/ t.bare = Absent
                   \/ t.prose = "braces"
                   \/ s # "struct" /\ t.prose # Absent
  <1> DEFINE c == extractContent(s, t)
  <1> HIDE DEF c
  <1>1. ASSUME c \in Values, Means(s, c) PROVE Blank(t)
    <2>1. Unmarshals(s, repairJSON(c)) \/ fallbackBasicTypes(s, c)
      BY <1>1, MeaningPasses
    <2>2. Validates(s, repairJSON(c))
      BY <1>1, MeaningPasses
    <2> QED BY <2>1, <2>2 DEF ValidateOutput, c
  <1>2. ASSUME t.fenced # Absent PROVE c = t.fenced /\ ~Blank(t) /\ t.fenced \in Values
    BY <1>2 DEF c, extractContent, Blank, FinalTexts
  <1>3. ASSUME t.fenced = Absent, Means(s, t.bare), t.bare # Absent, t.prose # "braces",
               s = "struct" \/ t.prose = Absent
        PROVE  c = t.bare /\ ~Blank(t) /\ t.bare \in Values
    <2>1. t.bare \in Values
      BY <1>3 DEF FinalTexts
    <2>2. CASE s = "struct"
      BY <1>3, <2>1, <2>2 DEF c, extractContent, Braced, Means, Objects, Blank, Absent
    <2>3. CASE s # "struct"
      BY <1>3, <2>1, <2>3 DEF c, extractContent, Blank
    <2> QED BY <2>1, <2>2, <2>3
  <1> QED BY <1>1, <1>2, <1>3

(* Every answer keeps OutputInv.                                           *)
LEMMA OutputInvStep == OutputInv /\ [OutputNext]_outputVars => OutputInv'
  <1> SUFFICES ASSUME OutputInv, [OutputNext]_outputVars PROVE OutputInv'
    OBVIOUS
  <1>1. CASE UNCHANGED outputVars
    BY <1>1 DEF OutputInv, outputVars
  <1>2. ASSUME NEW t \in FinalTexts, Complete(t) PROVE OutputInv'
    <2>1. CASE ValidateOutput(schema, t)
      BY <1>2, <2>1 DEF OutputInv, Complete
    <2>2. CASE ~ValidateOutput(schema, t) /\ left > 0
      BY <1>2, <2>2 DEF OutputInv, Complete
    <2>3. CASE ~ValidateOutput(schema, t) /\ ~(left > 0)
      BY <1>2, <2>3 DEF OutputInv, Complete
    <2> QED BY <2>1, <2>2, <2>3
  <1> QED BY <1>1, <1>2 DEF OutputNext

(* The check of an answer accepts what the schema means, with the          *)
(* exceptions the property lists, and a Run fails only after autoRetry     *)
(* further answers, for every bound on the retries.                        *)
THEOREM OutputsAreExact == OutputSpec => []OutputExact
  <1>1. OutputInit => OutputInv
    BY OutputAssumption DEF OutputInit, OutputInv
  <1>2. OutputInv => OutputExact
    <2> SUFFICES ASSUME OutputInv PROVE OutputExact
      OBVIOUS
    <2>1. AcceptedConforms
      BY AcceptsConforming DEF OutputInv, AcceptedConforms
    <2>2. RejectedExplained
      BY RefusalExplained DEF OutputInv, RejectedExplained
    <2> QED BY <2>1, <2>2 DEF OutputExact
  <1> QED BY <1>1, <1>2, OutputInvStep, PTL DEF OutputSpec

-------------------------------------------------------------------------------
\* The evaluators.

\* The composite between two members: bestP is the priority of best, which a
\* member has given, and no member's decision has a higher one.
EvalInv ==
    /\ outcomes \in Seq(Result \cup {Err})
    /\ best \in Decisions /\ best \in Decided
    /\ bestP = decisionPriority(best)
    /\ verdict = NoVerdict =>
          \A i \in DOMAIN outcomes :
             /\ outcomes[i] # Err
             /\ decisionPriority(outcomes[i].decision) <= bestP
    /\ verdict # NoVerdict =>
          \/ verdict = Err /\ \E i \in DOMAIN outcomes : outcomes[i] = Err
          \/ /\ verdict.decision = best
             /\ \A i \in DOMAIN outcomes :
                   /\ outcomes[i] # Err
                   /\ decisionPriority(outcomes[i].decision) <= bestP
    /\ parts \in Seq(Nat)
    /\ FeedbackComplete

(* A set of indices that is not empty has a first one.                     *)
LEMMA FirstIndex ==
    ASSUME NEW S, S \subseteq Nat, S # {}
    PROVE  (CHOOSE i \in S : \A j \in S : i <= j) \in S
  <1> DEFINE Less == OpToRel(<, Nat)
  <1>1. PICK x \in S : \A y \in S : ~(<<y, x>> \in Less)
    BY NatLessThanWellFounded, WFMin
  <1>2. \A y \in S : y < x => <<y, x>> \in Less
    BY DEF OpToRel
  <1> HIDE DEF Less
  <1>3. \A y \in S : ~(y < x)
    BY <1>1, <1>2
  <1>4. \A y \in S : x <= y
    BY <1>3
  <1> QED BY <1>4

(* A list of rules comes to a decision, or fails.                          *)
LEMMA RuleBasedDecides ==
    ASSUME NEW n \in Nat, NEW rules \in [1..n -> RuleOutcomes]
    PROVE  RuleBased(rules) \in Result \cup {Err}
  <1> DEFINE ends == {i \in DOMAIN rules : rules[i].decision \notin {"nil", "continue"}}
  <1>1. CASE ends = {}
    BY <1>1 DEF RuleBased, Result, Decisions
  <1>2. CASE ends # {}
    <2> DEFINE i == CHOOSE k \in ends : \A j \in ends : k <= j
    <2>1. i \in ends
      <3>1. ends \subseteq Nat
        OBVIOUS
      <3> HIDE DEF ends
      <3> QED BY <1>2, <3>1, FirstIndex
    <2>2. RuleBased(rules) = rules[i]
      BY <1>2 DEF RuleBased
    <2> HIDE DEF i
    <2>3. rules[i] \in RuleOutcomes /\ rules[i] # NoVerdict
      BY <2>1 DEF NoVerdict
    <2> QED BY <2>2, <2>3 DEF RuleOutcomes
  <1> QED BY <1>1, <1>2

(* Every reply of the judge is a decision, also one that is no JSON.       *)
LEMMA JudgeDecides ==
    ASSUME NEW reply \in Replies
    PROVE  parseJudgeResponse(reply) \in Decisions
  <1> DEFINE texts == candidates(reply)
             json == {i \in DOMAIN texts : texts[i] # "notJSON"}
  <1>1. DOMAIN texts = 1..3 /\ \A i \in 1..3 : texts[i] \in Texts
    BY DEF candidates, Replies
  <1>2. CASE json = {}
    BY <1>2 DEF parseJudgeResponse, Decisions
  <1>3. CASE json # {}
    <2> DEFINE i == CHOOSE k \in json : \A j \in json : k <= j
    <2> HIDE DEF texts
    <2>1. i \in json
      BY <1>1, <1>3, FirstIndex
    <2>2. texts[i] \in Words
      BY <1>1, <2>1 DEF Texts
    <2>3. parseJudgeResponse(reply) = mapDecisionString(texts[i])
      BY <1>3 DEF parseJudgeResponse, texts
    <2> QED BY <2>2, <2>3 DEF mapDecisionString, Words, Decisions
  <1> QED BY <1>2, <1>3

(* A further member keeps the feedback complete.                           *)
LEMMA FeedbackKept ==
    ASSUME EvalInv, NEW res \in Result \cup {Err}, AddFeedback(res),
           outcomes' = Append(outcomes, res)
    PROVE  FeedbackComplete' /\ parts' \in Seq(Nat)
  <1> DEFINE n == Len(outcomes)
  <1>1. /\ n \in Nat /\ DOMAIN outcomes = 1..n /\ DOMAIN outcomes' = 1..(n + 1)
        /\ outcomes'[n + 1] = res /\ \A i \in 1..n : outcomes'[i] = outcomes[i]
    BY DEF EvalInv
  <1>2. CASE ~res.feedback
    <2>1. parts' = parts
      BY <1>2 DEF AddFeedback
    <2>2. {i \in DOMAIN outcomes' : outcomes'[i].feedback}
            = {i \in DOMAIN outcomes : outcomes[i].feedback}
      BY <1>1, <1>2
    <2> QED BY <2>1, <2>2 DEF FeedbackComplete, EvalInv
  <1>3. CASE res.feedback
    <2> DEFINE m == Len(parts)
    <2>1. parts' = Append(parts, n + 1) /\ parts \in Seq(Nat)
      BY <1>3 DEF AddFeedback, EvalInv
    <2>2. /\ m \in Nat /\ DOMAIN parts = 1..m /\ DOMAIN parts' = 1..(m + 1)
          /\ parts'[m + 1] = n + 1 /\ \A k \in 1..m : parts'[k] = parts[k]
      BY <1>1, <2>1
    <2>3. {parts'[k] : k \in DOMAIN parts'} = {parts[k] : k \in DOMAIN parts} \cup {n + 1}
      BY <2>2
    <2>4. {i \in DOMAIN outcomes' : outcomes'[i].feedback}
            = {i \in DOMAIN outcomes : outcomes[i].feedback} \cup {n + 1}
      BY <1>1, <1>3
    <2>5. \A k \in 1..m : parts[k] \in 1..n
      BY <1>1, <2>2 DEF FeedbackComplete, EvalInv
    <2>6. \A k, l \in DOMAIN parts' : k < l => parts'[k] < parts'[l]
      BY <1>1, <2>2, <2>5 DEF FeedbackComplete, EvalInv
    <2>7. parts' \in Seq(Nat)
      BY <1>1, <2>1
    <2> QED BY <2>3, <2>4, <2>6, <2>7 DEF FeedbackComplete, EvalInv
  <1> QED BY <1>2, <1>3

(* A further member keeps best the strongest decision.                     *)
LEMMA StrongestKept ==
    ASSUME EvalInv, verdict = NoVerdict, NEW res \in Result, KeepStrongest(res),
           outcomes' = Append(outcomes, res)
    PROVE  /\ best' \in Decisions /\ best' \in Decided'
           /\ bestP' = decisionPriority(best')
           /\ \A i \in DOMAIN outcomes' :
                 /\ outcomes'[i] # Err
                 /\ decisionPriority(outcomes'[i].decision) <= bestP'
  <1> DEFINE n == Len(outcomes)
  <1>1. /\ n \in Nat /\ DOMAIN outcomes = 1..n /\ DOMAIN outcomes' = 1..(n + 1)
        /\ outcomes'[n + 1] = res /\ \A i \in 1..n : outcomes'[i] = outcomes[i]
    BY DEF EvalInv
  <1>2. Decided \subseteq Decided' /\ res.decision \in Decided'
    BY <1>1 DEF Decided
  <1>3. res.decision \in Decisions /\ res # Err
    BY DEF Result, Err, Decisions
  <1>4. \A d : decisionPriority(d) \in Nat
    BY DEF decisionPriority
  <1>5. bestP \in Nat /\ bestP' \in Nat /\ bestP <= bestP'
    BY <1>4 DEF KeepStrongest, EvalInv
  <1>6. decisionPriority(res.decision) <= bestP'
    BY <1>4, <1>5 DEF KeepStrongest
  <1>7. best' \in Decisions /\ best' \in Decided' /\ bestP' = decisionPriority(best')
    BY <1>2, <1>3 DEF KeepStrongest, EvalInv
  <1>8. ASSUME NEW i \in DOMAIN outcomes'
        PROVE  outcomes'[i] # Err /\ decisionPriority(outcomes'[i].decision) <= bestP'
    <2>1. CASE i = n + 1
      BY <1>1, <1>3, <1>6, <2>1
    <2>2. CASE i \in 1..n
      <3>1. outcomes[i] # Err /\ decisionPriority(outcomes[i].decision) <= bestP
        BY <1>1, <2>2 DEF EvalInv
      <3> QED BY <1>1, <1>4, <1>5, <2>2, <3>1
    <2> QED BY <1>1, <1>8, <2>1, <2>2
  <1> QED BY <1>7, <1>8

(* The answer of one member, or its failure, keeps EvalInv.                *)
LEMMA MemberKeeps ==
    ASSUME EvalInv, NEW res \in Result \cup {Err}, Member(res)
    PROVE  EvalInv'
  <1>1. /\ verdict = NoVerdict /\ outcomes' = Append(outcomes, res)
        /\ outcomes \in Seq(Result \cup {Err}) /\ outcomes' \in Seq(Result \cup {Err})
    BY DEF EvalInv, Member
  <1>2. CASE res = Err
    <2>1. verdict' = Err /\ UNCHANGED <<best, bestP, parts>>
      BY <1>2 DEF Member
    <2>2. FeedbackComplete' /\ parts' \in Seq(Nat)
      <3>1. AddFeedback(res)
        BY <1>2, <2>1 DEF AddFeedback, Err
      <3> QED BY <1>1, <3>1, FeedbackKept
    <2>3. Decided \subseteq Decided'
      BY <1>1 DEF Decided
    <2>4. \E i \in DOMAIN outcomes' : outcomes'[i] = Err
      <3>1. Len(outcomes) + 1 \in DOMAIN outcomes' /\ outcomes'[Len(outcomes) + 1] = Err
        BY <1>1, <1>2
      <3> QED BY <3>1
    <2>5. Err # NoVerdict
      BY DEF Err, NoVerdict
    <2> QED BY <1>1, <2>1, <2>2, <2>3, <2>4, <2>5 DEF EvalInv
  <1>3. CASE res # Err
    <2>1. KeepStrongest(res) /\ AddFeedback(res) /\ UNCHANGED verdict /\ res \in Result
      BY <1>3 DEF Member
    <2>2. FeedbackComplete' /\ parts' \in Seq(Nat)
      BY <1>1, <2>1, FeedbackKept
    <2> QED BY <1>1, <2>1, <2>2, StrongestKept DEF EvalInv
  <1> QED BY <1>2, <1>3

(* No evaluation breaks EvalInv.                                           *)
LEMMA EvalInvStep == EvalInv /\ [EvalNext]_evalVars => EvalInv'
  <1> SUFFICES ASSUME EvalInv, [EvalNext]_evalVars PROVE EvalInv'
    OBVIOUS
  <1>1. CASE UNCHANGED evalVars
    BY <1>1 DEF EvalInv, evalVars, Decided, FeedbackComplete
  <1>2. ASSUME NEW n \in 0..MaxRules, NEW rules \in [1..n -> RuleOutcomes], AskRules(rules)
        PROVE  EvalInv'
    <2>1. n \in Nat
      BY EvaluatorsAssumption
    <2> QED BY <1>2, <2>1, RuleBasedDecides, MemberKeeps DEF AskRules
  <1>3. ASSUME NEW reply \in Replies, NEW feedback \in BOOLEAN, AskJudge(reply, feedback)
        PROVE  EvalInv'
    <2>1. [decision |-> parseJudgeResponse(reply), feedback |-> feedback] \in Result
      BY JudgeDecides DEF Result
    <2> QED BY <1>3, <2>1, MemberKeeps DEF AskJudge
  <1>4. CASE JudgeFails
    BY <1>4, MemberKeeps DEF JudgeFails
  <1>5. CASE Conclude
    <2>1. /\ verdict = NoVerdict /\ verdict'.decision = best
          /\ UNCHANGED <<outcomes, best, bestP, parts>>
      BY <1>5 DEF Conclude
    <2>2. verdict' # NoVerdict
      BY <2>1 DEF NoVerdict, EvalInv, Decisions
    <2> QED BY <2>1, <2>2 DEF EvalInv, Decided, FeedbackComplete
  <1> QED BY <1>1, <1>2, <1>3, <1>4, <1>5 DEF EvalNext

(* The order of decisionPriority is the order of strength.                 *)
LEMMA PriorityIsRank ==
    ASSUME NEW d \in Decisions, NEW e \in Decisions,
           decisionPriority(d) <= decisionPriority(e)
    PROVE  Rank(d) <= Rank(e)
  <1>1. /\ Rank("continue") = 1 /\ Rank("replan") = 2 /\ Rank("retry") = 3
        /\ Rank("escalate") = 4 /\ Rank("complete") = 5
    BY DEF Rank, Stronger
  <1> QED BY <1>1 DEF Decisions, decisionPriority

(* For any number of members and of rules: no decision of a member but     *)
(* complete outweighs that of the composite, which is complete if all say  *)
(* so, and all feedback is returned, in order.                             *)
THEOREM CompositesAreExact == EvalSpec => []CompositeExact
  <1>1. EvalInit => EvalInv
    BY DEF EvalInit, EvalInv, Decided, Decisions, decisionPriority, FeedbackComplete
  <1>2. EvalInv => CompositeExact
    <2> SUFFICES ASSUME EvalInv, verdict # NoVerdict PROVE StrongestWins
      BY DEF EvalInv, CompositeExact, StrongestWins
    <2>1. CASE verdict = Err /\ \E i \in DOMAIN outcomes : outcomes[i] = Err
      <3>1. "error" \in Decided
        BY <2>1 DEF Decided, Err
      <3> QED BY <2>1, <3>1 DEF StrongestWins
    <2>2. CASE /\ verdict.decision = best
               /\ \A i \in DOMAIN outcomes :
                     /\ outcomes[i] # Err
                     /\ decisionPriority(outcomes[i].decision) <= bestP
      <3>1. \A i \in DOMAIN outcomes : outcomes[i] \in Result
        BY <2>2 DEF EvalInv
      <3>2. \A d \in Decided : d \in Decisions /\ decisionPriority(d) <= bestP
        BY <2>2, <3>1 DEF Decided, Result, Decisions, EvalInv, decisionPriority
      <3>3. \A d \in Decided : Rank(d) <= Rank(best)
        BY <3>2, PriorityIsRank DEF EvalInv
      <3>4. "error" \notin Decided
        BY <3>2 DEF Decisions
      <3>5. ASSUME Unanimous PROVE best = "complete"
        <4>1. PICK i \in DOMAIN outcomes : outcomes[i].decision = "complete"
          BY <3>5 DEF Unanimous, EvalInv
        <4>2. "complete" \in Decided
          BY <4>1 DEF Decided
        <4> QED BY <3>2, <4>2 DEF EvalInv, Decisions, decisionPriority
      <3> QED BY <2>2, <3>3, <3>4, <3>5 DEF StrongestWins, EvalInv
    <2> QED BY <2>1, <2>2 DEF EvalInv
  <1> QED BY <1>1, <1>2, EvalInvStep, PTL DEF EvalSpec
-------------------------------------------------------------------------------
\* One session's planner, small step by small step, is the atomic planner.

(* Where the next step and the running step of a plan lie.                 *)
LEMMA StepFound ==
    ASSUME NEW p \in PS!ActionPlan
    PROVE  /\ PS!nextStep(p) # 0 => PS!nextStep(p) \in DOMAIN p.steps
           /\ PS!runningStep(p) # 0 => PS!runningStep(p) \in DOMAIN p.steps
           /\ \A id : LET M == {i \in DOMAIN p.steps : p.steps[i].id = id}
                      IN  M # {} => PS!First(M) \in M
           /\ DOMAIN p.steps = 1..Len(p.steps) /\ Len(p.steps) \in Nat
  <1>1. DOMAIN p.steps = 1..Len(p.steps) /\ Len(p.steps) \in Nat
    BY DEF PS!ActionPlan
  <1>2. ASSUME NEW M \in SUBSET DOMAIN p.steps, M # {} PROVE PS!First(M) \in M
    <2>1. M \subseteq Nat
      BY <1>1
    <2> QED BY <1>2, <2>1, FirstIndex DEF PS!First
  <1>3. \A sts : PS!WithStatus(p, sts) \in SUBSET DOMAIN p.steps
    BY DEF PS!WithStatus
  <1>4. PS!nextStep(p) # 0 => PS!nextStep(p) \in DOMAIN p.steps
    BY <1>2, <1>3 DEF PS!nextStep
  <1>5. PS!runningStep(p) # 0 => PS!runningStep(p) \in DOMAIN p.steps
    BY <1>2, <1>3 DEF PS!runningStep
  <1>6. \A id : LET M == {i \in DOMAIN p.steps : p.steps[i].id = id}
                IN  M # {} => PS!First(M) \in M
    BY <1>2
  <1> QED BY <1>1, <1>4, <1>5, <1>6

\* Where a session may be when it is the only one: no nil plan is dereferenced.
Places == {"idle", "plan", "generate", "regenerate", "select", "mark",
           "current", "execute", "find", "finish"}
USE DEF Places

\* What one session's goroutine knows where it is: p.plan is there, and the
\* step it has chosen is the next one.
SharedInv(s) ==
    /\ heap \in Seq(PS!ActionPlan)
    /\ ref \in 0..Len(heap)
    /\ local \in [Sessions -> Nat \X Int]
    /\ at \in [Sessions -> Places]
    /\ at[s] \in {"generate", "regenerate"} => ref = 0
    /\ at[s] \in {"select", "mark", "current", "finish"} => ref # 0
    /\ at[s] \in {"mark", "current"} => local[s][1] = ref /\ local[s][2] \in DOMAIN heap[ref].steps
    /\ at[s] = "mark" => /\ PS!runningStep(heap[ref]) = 0
                         /\ local[s][2] = PS!nextStep(heap[ref])
    /\ at[s] = "finish" =>
          /\ PS!runningStep(heap[ref]) # 0
          /\ local[s][2] = heap[ref].steps[PS!runningStep(heap[ref])].id

(* The operations make plans of plans.                                     *)
LEMMA PlansStayPlans ==
    /\ \A d \in Drafts : PS!parseActionPlan(d) \in PS!ActionPlan
    /\ \A p \in PS!ActionPlan, n \in Int, st \in {"Done", "Failed"} :
          PS!MarkStep(p, n, st, TRUE) \in PS!ActionPlan
    /\ \A p \in PS!ActionPlan : \A i \in DOMAIN p.steps :
          /\ [p EXCEPT !.steps[i].status = "Running"] \in PS!ActionPlan
          /\ [p EXCEPT !.current = i - 1] \in PS!ActionPlan
  <1>1. ASSUME NEW n \in Nat, NEW f \in [1..n -> PS!PlanStep], NEW c \in Nat
        PROVE  [steps |-> f, current |-> c] \in PS!ActionPlan
    <2>1. f \in Seq(PS!PlanStep)
      OBVIOUS
    <2> QED BY <2>1 DEF PS!ActionPlan
  <1>2. ASSUME NEW d \in Drafts PROVE PS!parseActionPlan(d) \in PS!ActionPlan
    <2>1. d \in Seq(PS!DraftStep) /\ Len(d) \in Nat /\ DOMAIN d = 1..Len(d)
      BY SharedAssumption
    <2>2. \A i \in 1..Len(d) : d[i] \in PS!DraftStep
      BY <2>1
    <2> DEFINE f == [i \in DOMAIN d |->
                        [id |-> IF d[i].id = 0 THEN i ELSE d[i].id,
                         act |-> d[i].act, status |-> "Pending", result |-> FALSE]]
    <2>3. f \in [1..Len(d) -> PS!PlanStep]
      BY <2>1, <2>2 DEF PS!PlanStep, PS!DraftStep, PS!StepStatus
    <2>4. PS!parseActionPlan(d) = [steps |-> f, current |-> 0]
      BY DEF PS!parseActionPlan
    <2> HIDE DEF f
    <2> QED BY <1>1, <2>1, <2>3, <2>4
  <1>3. ASSUME NEW p \in PS!ActionPlan, NEW i \in DOMAIN p.steps, NEW st \in PS!StepStatus
        PROVE  /\ [p EXCEPT !.steps[i].status = st] \in PS!ActionPlan
               /\ [p EXCEPT !.current = i - 1] \in PS!ActionPlan
    <2> DEFINE n == Len(p.steps)
    <2>1. /\ p = [steps |-> p.steps, current |-> p.current] /\ p.current \in Nat
          /\ n \in Nat /\ i \in 1..n /\ p.steps \in [1..n -> PS!PlanStep]
      BY StepFound DEF PS!ActionPlan
    <2>2. p.steps[i] \in PS!PlanStep
      BY <2>1
    <2> DEFINE one == [p.steps[i] EXCEPT !.status = st]
               f == [p.steps EXCEPT ![i] = one]
    <2>3. one \in PS!PlanStep
      BY <2>2 DEF PS!PlanStep
    <2> HIDE DEF one
    <2>4. f \in [1..n -> PS!PlanStep]
      BY <2>1, <2>3
    <2>5. [p EXCEPT !.steps[i].status = st] = [steps |-> f, current |-> p.current]
      BY <2>1 DEF one
    <2>6. [p EXCEPT !.current = i - 1] = [steps |-> p.steps, current |-> i - 1] /\ i - 1 \in Nat
      BY <2>1
    <2> HIDE DEF f
    <2>7. [steps |-> f, current |-> p.current] \in PS!ActionPlan
      BY <1>1, <2>1, <2>4
    <2>8. [steps |-> p.steps, current |-> i - 1] \in PS!ActionPlan
      BY <1>1, <2>1, <2>6
    <2> QED BY <2>5, <2>6, <2>7, <2>8
  <1>4. "Running" \in PS!StepStatus /\ "Done" \in PS!StepStatus /\ "Failed" \in PS!StepStatus
    BY DEF PS!StepStatus
  <1>5. ASSUME NEW p \in PS!ActionPlan, NEW n \in Int, NEW st \in {"Done", "Failed"}
        PROVE  PS!MarkStep(p, n, st, TRUE) \in PS!ActionPlan
    <2> DEFINE M == {i \in DOMAIN p.steps : p.steps[i].id = n}
               m == PS!First(M)
               z == [p.steps[m] EXCEPT !.status = st, !.result = TRUE]
               f == [p.steps EXCEPT ![m] = z]
    <2>1. CASE M = {}
      BY <2>1 DEF PS!MarkStep
    <2>2. CASE M # {}
      <3>1. m \in DOMAIN p.steps
        BY <2>2, StepFound
      <3>2. /\ Len(p.steps) \in Nat /\ DOMAIN p.steps = 1..Len(p.steps) /\ p.current \in Nat
            /\ p.steps \in [1..Len(p.steps) -> PS!PlanStep]
        BY StepFound DEF PS!ActionPlan
      <3>3. p.steps[m] \in PS!PlanStep
        BY <3>1, <3>2
      <3>4. PS!MarkStep(p, n, st, TRUE) = [steps |-> f, current |-> p.current]
        BY <2>2, <3>1, <3>3 DEF PS!MarkStep, PS!ActionPlan
      <3> HIDE DEF m
      <3>5. z \in PS!PlanStep
        BY <1>4, <3>3 DEF PS!PlanStep
      <3> HIDE DEF z
      <3>6. f \in [1..Len(p.steps) -> PS!PlanStep]
        BY <3>1, <3>2, <3>5
      <3> HIDE DEF f
      <3> QED BY <1>1, <3>2, <3>4, <3>6
    <2> QED BY <2>1, <2>2
  <1> QED BY <1>2, <1>3, <1>4, <1>5

\* What the planner's callers see, with one session.
PlanSeen(p, r, w, l) ==
    IF r = 0 THEN Nil
    ELSE IF w = "current" THEN [p[r] EXCEPT !.current = l[2] - 1] ELSE p[r]
ResultSeen(p, w, l, res) == IF w = "current" THEN p[l[1]].steps[l[2]].act ELSE res

(* They see what the session makes them see.                               *)
LEMMA SeenIs ==
    ASSUME NEW a, Sessions = {a}
    PROVE  /\ planView = PlanSeen(heap, ref, at[a], local[a])
           /\ resultView = ResultSeen(heap, at[a], local[a], result)
           /\ planView' = PlanSeen(heap', ref', at'[a], local'[a])
           /\ resultView' = ResultSeen(heap', at'[a], local'[a], result')
  <1>1. Choosing = IF at[a] = "current" THEN {a} ELSE {}
    BY DEF Choosing
  <1>2. Choosing' = IF at'[a] = "current" THEN {a} ELSE {}
    BY DEF Choosing
  <1>3. (CHOOSE s \in {a} : TRUE) = a
    OBVIOUS
  <1>4. planView = PlanSeen(heap, ref, at[a], local[a])
    <2>1. CASE at[a] = "current"
      <3>1. Choosing = {a}
        BY ONLY <1>1, <2>1
      <3> QED BY <1>3, <2>1, <3>1 DEF planView, PlanSeen
    <2>2. CASE at[a] # "current"
      <3>1. Choosing = {}
        BY ONLY <1>1, <2>2
      <3> QED BY <2>2, <3>1 DEF planView, PlanSeen
    <2> QED BY <2>1, <2>2
  <1>5. resultView = ResultSeen(heap, at[a], local[a], result)
    BY <1>1, <1>3 DEF resultView, ResultSeen
  <1>6. planView' = PlanSeen(heap', ref', at'[a], local'[a])
    <2>1. CASE at'[a] = "current"
      <3>1. Choosing' = {a}
        BY ONLY <1>2, <2>1
      <3> QED BY <1>3, <2>1, <3>1 DEF planView, PlanSeen
    <2>2. CASE at'[a] # "current"
      <3>1. Choosing' = {}
        BY ONLY <1>2, <2>2
      <3> QED BY <2>2, <3>1 DEF planView, PlanSeen
    <2> QED BY <2>1, <2>2
  <1>7. resultView' = ResultSeen(heap', at'[a], local'[a], result')
    BY <1>2, <1>3 DEF resultView, ResultSeen
  <1> QED BY <1>4, <1>5, <1>6, <1>7

(* A step of the session that neither changes the plans nor what Plan has  *)
(* returned, nor begins or ends the choice of a step, is not seen.         *)
LEMMA Unseen ==
    ASSUME NEW a, Sessions = {a}, UNCHANGED <<heap, ref, result>>,
           at[a] # "current", at'[a] # "current"
    PROVE  UNCHANGED <<planView, resultView>>
  BY SeenIs DEF PlanSeen, ResultSeen

(* The session starts where the planner starts.                            *)
LEMMA SharedStarts ==
    ASSUME NEW a, Sessions = {a}, SharedInit
    PROVE  SharedInv(a) /\ PS!PSInit
  <1>1. heap = <<>> /\ ref = 0 /\ at[a] = "idle" /\ result = Nil
        /\ at \in [Sessions -> {"idle"}] /\ local \in [Sessions -> {None}]
    BY DEF SharedInit
  <1>2. heap \in Seq(PS!ActionPlan) /\ Len(heap) = 0 /\ ref \in 0..Len(heap)
    BY <1>1
  <1>3. SharedInv(a)
    BY <1>1, <1>2 DEF SharedInv, None
  <1>4. planView = Nil /\ resultView = Nil
    BY <1>1, SeenIs DEF PlanSeen, ResultSeen
  <1> QED BY <1>3, <1>4 DEF PS!PSInit

\* What a step of the session is to the planner's callers.
PlannerStep == PS!PSNext \/ UNCHANGED <<planView, resultView>>

(* The steps before a step of the plan is chosen.                          *)
LEMMA AskingImplements ==
    ASSUME NEW a, Sessions = {a}, SharedInv(a),
           \/ Begin(a) \/ CheckPlan(a) \/ Execute(a) \/ FindRunning(a)
    PROVE  SharedInv(a)' /\ PlannerStep
  <1>0. /\ heap \in Seq(PS!ActionPlan) /\ ref \in 0..Len(heap) /\ local \in [{a} -> Nat \X Int]
        /\ at \in [{a} -> Places]
    BY DEF SharedInv
  <1>1. UNCHANGED <<heap, ref, result>>
    BY DEF Begin, CheckPlan, Execute, FindRunning
  <1>2. CASE Begin(a)
    <2>1. at[a] = "idle" /\ at' = [at EXCEPT ![a] = "plan"] /\ local' = local
      BY <1>2 DEF Begin, Goto
    <2>2. at'[a] = "plan"
      BY <1>0, <2>1
    <2>3. SharedInv(a)'
      BY <1>0, <1>1, <2>1, <2>2 DEF SharedInv
    <2>4. UNCHANGED <<planView, resultView>>
      BY <1>1, <2>1, <2>2, Unseen
    <2> QED BY <2>3, <2>4 DEF PlannerStep
  <1>3. CASE CheckPlan(a)
    <2>1. /\ at[a] = "plan" /\ local' = local
          /\ at' = [at EXCEPT ![a] = IF ref = 0 THEN "generate" ELSE "select"]
      BY <1>3 DEF CheckPlan, Goto
    <2>2. at'[a] = IF ref = 0 THEN "generate" ELSE "select"
      BY <1>0, <2>1
    <2>3. SharedInv(a)'
      BY <1>0, <1>1, <2>1, <2>2 DEF SharedInv
    <2>4. UNCHANGED <<planView, resultView>>
      BY <1>1, <2>1, <2>2, Unseen
    <2> QED BY <2>3, <2>4 DEF PlannerStep
  <1>4. CASE Execute(a)
    <2>1. at[a] = "execute" /\ at' = [at EXCEPT ![a] = "find"] /\ local' = local
      BY <1>4 DEF Execute, Goto
    <2>2. at'[a] = "find"
      BY <1>0, <2>1
    <2>3. SharedInv(a)'
      BY <1>0, <1>1, <2>1, <2>2 DEF SharedInv
    <2>4. UNCHANGED <<planView, resultView>>
      BY <1>1, <2>1, <2>2, Unseen
    <2> QED BY <2>3, <2>4 DEF PlannerStep
  <1>5. CASE FindRunning(a) /\ ref # 0 /\ PS!runningStep(heap[ref]) # 0
    <2> DEFINE k == PS!runningStep(heap[ref])
               n == heap[ref].steps[k].id
    <2>1. /\ at[a] = "find" /\ at' = [at EXCEPT ![a] = "finish"]
          /\ local' = [local EXCEPT ![a] = <<ref, n>>]
      BY <1>5 DEF FindRunning, Goto
    <2>2. at'[a] = "finish" /\ local'[a] = <<ref, n>>
      BY <1>0, <2>1
    <2>3. heap[ref] \in PS!ActionPlan
      BY <1>0, <1>5
    <2>4. n \in Int
      <3>1. heap[ref].steps[k] \in PS!PlanStep
        BY <1>5, <2>3, StepFound DEF PS!ActionPlan
      <3> QED BY <3>1 DEF PS!PlanStep
    <2>5. local' \in [{a} -> Nat \X Int]
      BY <1>0, <2>1, <2>4
    <2>6. SharedInv(a)'
      <3>1. PS!runningStep(heap[ref])' = k
        BY <1>1 DEF PS!runningStep, PS!WithStatus, PS!First
      <3>2. k # 0
        BY <1>5
      <3>3. (heap[ref].steps[PS!runningStep(heap[ref])].id)' = n
        BY <1>1, <3>1
      <3>4. local'[a][2] = n
        BY <2>2
      <3> HIDE DEF k, n
      <3>5. at' \in [{a} -> Places]
        BY <1>0, <2>1
      <3> QED BY <1>0, <1>1, <1>5, <2>2, <2>5, <3>1, <3>2, <3>3, <3>4, <3>5 DEF SharedInv
    <2>7. UNCHANGED <<planView, resultView>>
      BY <1>1, <2>1, <2>2, Unseen
    <2> QED BY <2>6, <2>7 DEF PlannerStep
  <1>6. CASE FindRunning(a) /\ ~(ref # 0 /\ PS!runningStep(heap[ref]) # 0)
    <2>1. at[a] = "find" /\ at' = [at EXCEPT ![a] = "plan"] /\ local' = local
      BY <1>6 DEF FindRunning, Goto
    <2>2. at'[a] = "plan"
      BY <1>0, <2>1
    <2>3. SharedInv(a)'
      BY <1>0, <1>1, <2>1, <2>2 DEF SharedInv
    <2>4. UNCHANGED <<planView, resultView>>
      BY <1>1, <2>1, <2>2, Unseen
    <2> QED BY <2>3, <2>4 DEF PlannerStep
  <1> QED BY <1>2, <1>3, <1>4, <1>5, <1>6

(* A new plan is there, or there is none: Plan fails, or Replan.           *)
LEMMA GeneratingImplements ==
    ASSUME NEW a, Sessions = {a}, SharedInv(a),
           GenerateFails(a) \/ DropPlan(a) \/ \E d \in Drafts : Generate(a, d)
    PROVE  SharedInv(a)' /\ PlannerStep
  <1>0. /\ heap \in Seq(PS!ActionPlan) /\ ref \in 0..Len(heap) /\ local \in [{a} -> Nat \X Int]
        /\ at \in [{a} -> Places]
        /\ at[a] \in {"generate", "regenerate"} => ref = 0
        /\ Len(heap) \in Nat
    BY DEF SharedInv
  <1>1. CASE GenerateFails(a)
    <2>1. /\ at[a] \in {"generate", "regenerate"} /\ at' = [at EXCEPT ![a] = "idle"]
          /\ UNCHANGED <<heap, ref, local>>
          /\ result' = IF at[a] = "generate" THEN PS!GenerateFailed ELSE result
      BY <1>1 DEF GenerateFails, Goto
    <2>2. at'[a] = "idle" /\ ref = 0
      BY <1>0, <2>1
    <2>3. SharedInv(a)'
      BY <1>0, <2>1, <2>2 DEF SharedInv
    <2>4. planView = Nil /\ planView' = Nil /\ resultView = result /\ resultView' = result'
      BY <2>1, <2>2, SeenIs DEF PlanSeen, ResultSeen
    <2>5. PlannerStep
      BY <2>1, <2>4 DEF PlannerStep, PS!PSNext, PS!Plan
    <2> QED BY <2>3, <2>5
  <1>2. CASE DropPlan(a)
    <2>1. /\ at[a] = "plan" /\ at' = [at EXCEPT ![a] = "regenerate"] /\ ref' = 0
          /\ UNCHANGED <<heap, local, result>>
      BY <1>2 DEF DropPlan, Goto
    <2>2. at'[a] = "regenerate"
      BY <1>0, <2>1
    <2>3. SharedInv(a)'
      BY <1>0, <2>1, <2>2 DEF SharedInv
    <2>4. planView' = Nil /\ resultView' = resultView
      BY <2>1, <2>2, SeenIs DEF PlanSeen, ResultSeen
    <2>5. PlannerStep
      BY <2>4 DEF PlannerStep, PS!PSNext, PS!Replan
    <2> QED BY <2>3, <2>5
  <1>3. ASSUME NEW d \in Drafts, Generate(a, d) PROVE SharedInv(a)' /\ PlannerStep
    <2> DEFINE p == PS!parseActionPlan(d)
    <2>1. /\ at[a] \in {"generate", "regenerate"}
          /\ at' = [at EXCEPT ![a] = IF at[a] = "generate" THEN "select" ELSE "plan"]
          /\ heap' = Append(heap, p) /\ ref' = Len(heap) + 1
          /\ UNCHANGED <<local, result>>
      BY <1>3 DEF Generate, Goto
    <2>2. at'[a] \in {"select", "plan"}
      BY <1>0, <2>1
    <2>3. p \in PS!ActionPlan
      BY PlansStayPlans
    <2> HIDE DEF p
    <2>4. heap' \in Seq(PS!ActionPlan) /\ Len(heap') = Len(heap) + 1 /\ heap'[ref'] = p
          /\ ref' \in 0..Len(heap') /\ ref' # 0
      BY <1>0, <2>1, <2>3
    <2>5. at' \in [{a} -> Places]
      BY <1>0, <2>1
    <2>6. SharedInv(a)'
      BY <1>0, <2>1, <2>2, <2>4, <2>5 DEF SharedInv
    <2>7. planView' = p /\ resultView' = resultView
      BY <2>1, <2>2, <2>4, SeenIs DEF PlanSeen, ResultSeen
    <2>8. PlannerStep
      BY <2>7 DEF PlannerStep, PS!PSNext, PS!Replan, p
    <2> QED BY <2>6, <2>8
  <1> QED BY <1>1, <1>2, <1>3

(* Plan answers at once, or chooses the step that it hands out.            *)
LEMMA SelectImplements ==
    ASSUME NEW a, Sessions = {a}, SharedInv(a), Select(a)
    PROVE  SharedInv(a)' /\ PlannerStep
  <1> DEFINE p == heap[ref]
             k == PS!runningStep(p)
             n == PS!nextStep(p)
  <1>0. /\ heap \in Seq(PS!ActionPlan) /\ ref \in 0..Len(heap) /\ local \in [{a} -> Nat \X Int]
        /\ at \in [{a} -> Places]
        /\ at[a] = "select" /\ ref # 0
        /\ UNCHANGED <<heap, ref>>
    BY DEF SharedInv, Select
  <1>1. p \in PS!ActionPlan /\ p # Nil
    BY <1>0, SharedAssumption
  <1>2. planView = p /\ resultView = result
    BY <1>0, SeenIs DEF PlanSeen, ResultSeen
  <1>3. CASE k # 0 \/ n = 0
    <2>1. /\ result' = PS!PlanResult(p) /\ at' = [at EXCEPT ![a] = "idle"]
          /\ UNCHANGED local
      BY <1>0, <1>3 DEF Select, Goto
    <2>2. at'[a] = "idle"
      BY <1>0, <2>1
    <2>3. SharedInv(a)'
      BY <1>0, <2>1, <2>2 DEF SharedInv
    <2>4. planView' = p /\ resultView' = PS!PlanResult(p)
      BY <1>0, <2>1, <2>2, SeenIs DEF PlanSeen, ResultSeen
    <2>5. PS!PlanUpdate(p) = p
      BY <1>3 DEF PS!PlanUpdate
    <2>6. PS!Plan
      BY <1>1, <1>2, <2>4, <2>5 DEF PS!Plan
    <2> QED BY <2>3, <2>6 DEF PlannerStep, PS!PSNext
  <1>4. CASE k = 0 /\ n # 0
    <2>1. /\ local' = [local EXCEPT ![a] = <<ref, n>>] /\ at' = [at EXCEPT ![a] = "mark"]
          /\ result' = result
      BY <1>0, <1>4 DEF Select, Goto
    <2>2. at'[a] = "mark" /\ local'[a] = <<ref, n>>
      BY <1>0, <2>1
    <2>3. n \in DOMAIN p.steps /\ n \in Int
      BY <1>1, <1>4, StepFound
    <2>4. local' \in [{a} -> Nat \X Int]
      BY <1>0, <2>1, <2>3
    <2>5. SharedInv(a)'
      <3>1. PS!runningStep(heap[ref])' = k /\ PS!nextStep(heap[ref])' = n
        BY <1>0 DEF PS!runningStep, PS!nextStep, PS!WithStatus, PS!First
      <3>2. local'[a][1] = ref /\ local'[a][2] = n
        BY <2>2
      <3>3. at' \in [{a} -> Places]
        BY <1>0, <2>1
      <3>4. k = 0 /\ n \in DOMAIN heap[ref].steps
        BY <1>4, <2>3
      <3> HIDE DEF k, n
      <3> QED BY <1>0, <2>2, <2>4, <3>1, <3>2, <3>3, <3>4 DEF SharedInv
    <2>6. UNCHANGED <<planView, resultView>>
      BY <1>0, <2>1, <2>2, Unseen
    <2> QED BY <2>5, <2>6 DEF PlannerStep
  <1> QED BY <1>3, <1>4

(* The mark at the chosen step is where Plan takes effect; the assignment  *)
(* of the current step is not seen any more.                               *)
LEMMA MarkImplements ==
    ASSUME NEW a, Sessions = {a}, SharedInv(a), MarkRunning(a) \/ SetCurrent(a)
    PROVE  SharedInv(a)' /\ PlannerStep
  <1> DEFINE p == heap[ref]
             n == local[a][2]
             q == [p EXCEPT !.steps[n].status = "Running"]
             c == [q EXCEPT !.current = n - 1]
             d == [p EXCEPT !.current = n - 1]
  <1>0. /\ heap \in Seq(PS!ActionPlan) /\ ref \in 0..Len(heap) /\ local \in [{a} -> Nat \X Int]
        /\ at \in [{a} -> Places]
        /\ at[a] \in {"mark", "current"} /\ ref # 0
        /\ local[a][1] = ref /\ n \in DOMAIN p.steps
        /\ UNCHANGED <<ref, local>>
    BY DEF SharedInv, MarkRunning, SetCurrent
  <1>1. p \in PS!ActionPlan /\ p # Nil /\ ref \in 1..Len(heap)
    BY <1>0, SharedAssumption
  <1>2. q \in PS!ActionPlan /\ d \in PS!ActionPlan
    BY <1>0, <1>1, PlansStayPlans
  <1>3. /\ DOMAIN q.steps = DOMAIN p.steps
        /\ q.steps[n].act = p.steps[n].act /\ d.steps = p.steps
    <2>1. p.steps[n] \in PS!PlanStep
      BY <1>0, <1>1 DEF PS!ActionPlan
    <2> QED BY <1>0, <1>1, <2>1 DEF PS!ActionPlan, PS!PlanStep
  <1>4. CASE MarkRunning(a)
    <2>1. /\ at[a] = "mark" /\ at' = [at EXCEPT ![a] = "current"] /\ result' = result
          /\ heap' = [heap EXCEPT ![local[a][1]].steps[local[a][2]].status = "Running"]
      BY <1>4 DEF MarkRunning, Goto
    <2>2. heap' = [heap EXCEPT ![ref] = q]
      BY <1>0, <2>1
    <2>3. at'[a] = "current"
      BY <1>0, <2>1
    <2> HIDE DEF q, n
    <2>4. heap' \in Seq(PS!ActionPlan) /\ Len(heap') = Len(heap) /\ heap'[ref] = q
      BY <1>0, <1>1, <1>2, <2>2
    <2>5. SharedInv(a)'
      <3>1. at' \in [{a} -> Places]
        BY <1>0, <2>1
      <3> QED BY <1>0, <1>3, <2>3, <2>4, <3>1 DEF SharedInv, n
    <2>6. planView = p /\ planView' = c
          /\ resultView' = p.steps[n].act
      BY <1>0, <1>3, <2>1, <2>3, <2>4, SeenIs DEF PlanSeen, ResultSeen, n
    <2>7. PS!runningStep(p) = 0 /\ n = PS!nextStep(p) /\ n # 0
      BY <1>0, <1>1, <2>1, StepFound DEF SharedInv, n
    <2>8. PS!PlanUpdate(p) = c
      BY <2>7 DEF PS!PlanUpdate, q
    <2>9. PS!PlanResult(p) = p.steps[n].act
      BY <2>7 DEF PS!PlanResult
    <2> HIDE DEF p, c
    <2>10. PS!Plan
      BY <1>1, <2>6, <2>8, <2>9 DEF PS!Plan
    <2> QED BY <2>5, <2>10 DEF PlannerStep, PS!PSNext
  <1>5. CASE SetCurrent(a)
    <2>1. /\ at[a] = "current" /\ at' = [at EXCEPT ![a] = "execute"]
          /\ heap' = [heap EXCEPT ![ref].current = local[a][2] - 1]
          /\ result' = heap[local[a][1]].steps[local[a][2]].act
      BY <1>0, <1>5 DEF SetCurrent, Goto
    <2>2. heap' = [heap EXCEPT ![ref] = d]
      BY <1>0, <2>1
    <2>3. at'[a] = "execute"
      BY <1>0, <2>1
    <2> HIDE DEF d, n
    <2>4. heap' \in Seq(PS!ActionPlan) /\ Len(heap') = Len(heap) /\ heap'[ref] = d
      BY <1>0, <1>1, <1>2, <2>2
    <2>5. SharedInv(a)'
      <3>1. at' \in [{a} -> Places]
        BY <1>0, <2>1
      <3> QED BY <1>0, <2>3, <2>4, <3>1 DEF SharedInv
    <2>6. planView = d /\ planView' = d
      BY <1>0, <2>1, <2>3, <2>4, SeenIs DEF PlanSeen, d, n
    <2>7. resultView' = resultView
      BY <1>0, <2>1, <2>3, SeenIs DEF ResultSeen
    <2> QED BY <2>5, <2>6, <2>7 DEF PlannerStep
  <1> QED BY <1>4, <1>5

(* The step that was found running is marked.                              *)
LEMMA FinishImplements ==
    ASSUME NEW a, Sessions = {a}, SharedInv(a), NEW st \in {"Done", "Failed"}, FinishStep(a, st)
    PROVE  SharedInv(a)' /\ PlannerStep
  <1> DEFINE p == heap[ref]
             n == local[a][2]
             q == PS!MarkStep(p, n, st, TRUE)
  <1>0. /\ heap \in Seq(PS!ActionPlan) /\ ref \in 0..Len(heap) /\ local \in [{a} -> Nat \X Int]
        /\ at \in [{a} -> Places]
        /\ at[a] = "finish" /\ ref # 0
        /\ PS!runningStep(p) # 0 /\ n = p.steps[PS!runningStep(p)].id
        /\ UNCHANGED <<ref, local, result>>
        /\ at' = [at EXCEPT ![a] = "plan"]
        /\ heap' = [heap EXCEPT ![ref] = PS!MarkStep(heap[ref], local[a][2], st, TRUE)]
    BY DEF SharedInv, FinishStep, Goto
  <1>1. p \in PS!ActionPlan /\ p # Nil /\ ref \in 1..Len(heap) /\ n \in Int /\ at'[a] = "plan"
    BY <1>0, SharedAssumption
  <1>2. q \in PS!ActionPlan
    BY <1>1, PlansStayPlans
  <1>3. heap' = [heap EXCEPT ![ref] = q]
    BY <1>0
  <1> HIDE DEF q
  <1>4. heap' \in Seq(PS!ActionPlan) /\ Len(heap') = Len(heap) /\ heap'[ref] = q
    <2>1. heap \in Seq(PS!ActionPlan) /\ ref \in 1..Len(heap)
      BY <1>0, <1>1
    <2> QED BY <1>2, <1>3, <2>1
  <1>5. SharedInv(a)'
    <2>1. at' \in [{a} -> Places]
      BY <1>0
    <2> QED BY <1>0, <1>1, <1>4, <2>1 DEF SharedInv
  <1>6. planView = p /\ planView' = q /\ resultView' = resultView
    BY <1>0, <1>1, <1>4, SeenIs DEF PlanSeen, ResultSeen
  <1>7. PS!MarkRunningStep
    <2>1. q = PS!MarkStep(p, p.steps[PS!runningStep(p)].id, st, TRUE)
      BY <1>0 DEF q
    <2> HIDE DEF p
    <2> QED BY <1>0, <1>1, <1>6, <2>1 DEF PS!MarkRunningStep
  <1> QED BY <1>5, <1>7 DEF PlannerStep, PS!PSNext

(* With one session, the planner that the sessions of an agent share does, *)
(* read by read and write by write, what the planner whose operations are  *)
(* atomic does (planner/plan_and_solve.go, agent/loop.go): what is proved  *)
(* of that one holds of it.                                                *)
THEOREM OneSessionImplementsPlanner ==
    ASSUME NEW CONSTANT a, Sessions = {a}
    PROVE  SharedSpec => ImplementsPlanner
  <1>1. SharedInit => SharedInv(a) /\ PS!PSInit
    BY SharedStarts
  <1>2. SharedInv(a) /\ [SharedNext]_sharedVars
           => SharedInv(a)' /\ [PS!PSNext]_<<planView, resultView>>
    <2> SUFFICES ASSUME SharedInv(a), [SharedNext]_sharedVars
                 PROVE  SharedInv(a)' /\ PlannerStep
      BY DEF PlannerStep
    <2>1. CASE SharedNext
      BY <2>1, AskingImplements, GeneratingImplements, SelectImplements, MarkImplements,
         FinishImplements DEF SharedNext
    <2>2. CASE UNCHANGED sharedVars
      <3>1. UNCHANGED <<planView, resultView>>
        BY <2>2, SeenIs DEF sharedVars, PlanSeen, ResultSeen
      <3>2. PS!runningStep(heap[ref])' = PS!runningStep(heap[ref])
            /\ PS!nextStep(heap[ref])' = PS!nextStep(heap[ref])
        BY <2>2 DEF sharedVars, PS!runningStep, PS!nextStep, PS!WithStatus, PS!First
      <3>3. SharedInv(a)'
        BY <2>2, <3>2 DEF sharedVars, SharedInv
      <3> QED BY <3>1, <3>3 DEF PlannerStep
    <2> QED BY <2>1, <2>2
  <1> QED BY <1>1, <1>2, PTL DEF SharedSpec, ImplementsPlanner, PS!PSSpec, PS!psVars

-------------------------------------------------------------------------------
\* The parallel executor.

\* Both counters stand for sets of goroutines.  The invariant ties the tokens in
\* the channel to the goroutines that hold one and the counter of the WaitGroup
\* to the goroutines that have not called Done.
Pending == {i \in Index : step[i] # "done"}

PEInv ==
    /\ PETypeOK
    /\ LimitRespected
    /\ wg = Cardinality(Pending)
    /\ \A i \in Index :
          step[i] \in {"releasing", "finishing", "done"} => results[i] # NoResult
    /\ returned => Pending = {}

-------------------------------------------------------------------------------

(* The goroutines of a batch are finitely many.                            *)
LEMMA BatchSetsFinite == IsFiniteSet(Index) /\ IsFiniteSet(Holders) /\ IsFiniteSet(Pending)
  <1>1. IsFiniteSet(Index)
    BY BatchAssumption, FS_Interval DEF Index
  <1>2. Holders \subseteq Index /\ Pending \subseteq Index
    BY DEF Holders, Pending
  <1> QED
    BY <1>1, <1>2, FS_Subset

(* When a batch starts every goroutine is pending and none holds a token.  *)
LEMMA PEInvInit == PEInit => PEInv
  <1> SUFFICES ASSUME PEInit PROVE PEInv
    OBVIOUS
  <1>1. limit \in 1..N
    BY BatchAssumption DEF PEInit, batchLimit
  <1>2. Holders = {} /\ Pending = Index
    BY DEF PEInit, Holders, Pending
  <1>3. Cardinality(Holders) = 0 /\ Cardinality(Pending) = N
    BY <1>2, BatchAssumption, FS_EmptySet, FS_Interval DEF Index
  <1>4. PETypeOK
    <2>1. expired \in BOOLEAN /\ returned \in BOOLEAN
      BY Zenon DEF PEInit
    <2>2. sem \in 0..limit /\ wg \in 0..N
      BY <1>1, BatchAssumption DEF PEInit
    <2>3. /\ step \in [Index -> {"waiting", "running", "releasing", "finishing", "done"}]
          /\ results \in [Index -> Outcomes \cup {NoResult}]
      BY DEF PEInit
    <2> QED
      BY <1>1, <2>1, <2>2, <2>3 DEF PETypeOK
  <1>5. LimitRespected
    BY <1>1, <1>3, BatchAssumption DEF PEInit, LimitRespected
  <1> QED
    BY <1>3, <1>4, <1>5 DEF PEInit, PEInv

(* A goroutine that takes a token becomes a holder.                        *)
LEMMA AcquireInv ==
  ASSUME PEInv, NEW i \in Index, Acquire(i)
  PROVE  PEInv'
  <1> USE DEF PEInv, PETypeOK, LimitRespected, Acquire
  <1>1. Holders' = Holders \cup {i} /\ i \notin Holders
    BY DEF Holders
  <1>2. Cardinality(Holders') = sem + 1
    BY <1>1, BatchSetsFinite, FS_AddElement
  <1>3. Pending' = Pending
    BY DEF Pending
  <1>4. PETypeOK'
    BY BatchAssumption
  <1> QED
    BY <1>2, <1>3, <1>4, BatchAssumption

(* A goroutine that gives up never held one.                               *)
LEMMA GiveUpInv ==
  ASSUME PEInv, NEW i \in Index, GiveUp(i)
  PROVE  PEInv'
  <1> USE DEF PEInv, PETypeOK, LimitRespected, GiveUp
  <1>1. Holders' = Holders
    BY DEF Holders
  <1>2. Pending' = Pending
    BY DEF Pending
  <1>3. PETypeOK' /\ results'[i] # NoResult
    BY DEF Outcomes, NoResult
  <1> QED
    BY <1>1, <1>2, <1>3

(* A goroutine whose tool has returned holds its token until it releases.  *)
LEMMA FinishInv ==
  ASSUME PEInv, NEW i \in Index, NEW r \in {"output", "error"}, Finish(i, r)
  PROVE  PEInv'
  <1> USE DEF PEInv, PETypeOK, LimitRespected, Finish
  <1>1. Holders' = Holders
    BY DEF Holders
  <1>2. Pending' = Pending
    BY DEF Pending
  <1>3. PETypeOK' /\ results'[i] # NoResult
    BY DEF Outcomes, NoResult
  <1> QED
    BY <1>1, <1>2, <1>3

(* It gives its token back once.                                           *)
LEMMA ReleaseInv ==
  ASSUME PEInv, NEW i \in Index, Release(i)
  PROVE  PEInv'
  <1> USE DEF PEInv, PETypeOK, LimitRespected, Release
  <1>1. Holders' = Holders \ {i} /\ i \in Holders
    BY DEF Holders
  <1>2. Cardinality(Holders') = sem - 1
    BY <1>1, BatchSetsFinite, FS_RemoveElement
  <1>3. Pending' = Pending
    BY DEF Pending
  <1>4. PETypeOK'
    BY BatchAssumption
  <1> QED
    BY <1>2, <1>3, <1>4, BatchAssumption

(* It leaves the pending ones once.                                        *)
LEMMA DoneInv ==
  ASSUME PEInv, NEW i \in Index, Done(i)
  PROVE  PEInv'
  <1> USE DEF PEInv, PETypeOK, LimitRespected, Done
  <1>1. Pending' = Pending \ {i} /\ i \in Pending
    BY DEF Pending
  <1>2. Cardinality(Pending') = wg - 1 /\ wg - 1 \in Nat
    <2>1. Cardinality(Pending') = Cardinality(Pending) - 1
      BY <1>1, BatchSetsFinite, FS_RemoveElement
    <2>2. Cardinality(Pending') \in Nat
      BY <1>1, BatchSetsFinite, FS_RemoveElement, FS_CardinalityType
    <2> QED
      BY <2>1, <2>2
  <1>3. Holders' = Holders
    BY DEF Holders
  <1>4. PETypeOK'
    BY <1>2, BatchAssumption
  <1> QED
    BY <1>1, <1>2, <1>3, <1>4

(* The caller goes on when the counter says that nobody is pending.        *)
LEMMA ReturnInv ==
  ASSUME PEInv, Return
  PROVE  PEInv'
  <1> USE DEF PEInv, PETypeOK, LimitRespected, Return
  <1>1. Pending = {}
    BY BatchSetsFinite, FS_EmptySet
  <1>2. Pending' = Pending /\ Holders' = Holders
    BY DEF Pending, Holders
  <1>3. PETypeOK'
    OBVIOUS
  <1> QED
    BY <1>1, <1>2, <1>3

(* Steps that touch no goroutine.                                          *)
LEMMA OtherInv ==
  ASSUME PEInv, Expire \/ UNCHANGED execVars
  PROVE  PEInv'
  <1> USE DEF PEInv, PETypeOK, LimitRespected, Expire, execVars
  <1>1. Pending' = Pending /\ Holders' = Holders
    BY DEF Pending, Holders
  <1>2. PETypeOK'
    OBVIOUS
  <1> QED
    BY <1>1, <1>2

(* The invariant holds throughout every batch.                             *)
THEOREM PEInvariance == PESpec => []PEInv
  <1>1. ASSUME PEInv, [PENext]_execVars PROVE PEInv'
    BY <1>1, AcquireInv, GiveUpInv, FinishInv, ReleaseInv, DoneInv, ReturnInv, OtherInv
       DEF PENext, Goroutine
  <1> QED
    BY <1>1, PEInvInit, PTL DEF PESpec

(* Type correctness of the executor's state.                               *)
THEOREM BatchTypeCorrect == PESpec => []PETypeOK
  <1>1. PEInv => PETypeOK
    BY DEF PEInv
  <1> QED
    BY <1>1, PEInvariance, PTL

(* The semaphore of ExecuteBatch is respected, for every limit.            *)
THEOREM LimitHolds == PESpec => []LimitRespected
  <1>1. PEInv => LimitRespected
    BY DEF PEInv
  <1> QED
    BY <1>1, PEInvariance, PTL

(* A batch that is returned has all its results and no goroutine left.     *)
THEOREM BatchIsComplete == PESpec => []BatchComplete
  <1>1. PEInv => BatchComplete
    BY DEF PEInv, BatchComplete, Pending
  <1> QED
    BY <1>1, PEInvariance, PTL

===============================================================================
