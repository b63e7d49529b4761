# A TLA+ model of simple-agent-framework

The repository is a Go library for building agents: a loop asks a language
model what to do next, lets a human approve it, runs a tool, evaluates the
outcome and repeats.  This directory models the parts of it that keep state,
run concurrently or depend on the order of calls, checks them with TLC and
proves the most important results with TLAPS.  `PROJECT.json` maps every
definition to the lines it models and lists runs, mutants, hazards, findings
and theorems.

To check a run: `tlc -config AgentLoop.cfg MCAgentLoop` (module and cfg of
each run are in section 3).  To check the proofs: `tlapm AgentLoopProofs.tla`,
and likewise the other modules named `...Proofs`.

## 1. Inventory

An **Agent** is built once and shared; it holds the model, planner, executor,
evaluator, interrupter, registries and settings.  A **Session** belongs to one
conversation and holds memory, loop detector, compressor and content store.
`Session.Run` puts a timeout on the context and calls `runLoop`, a state
machine that calls everything else.

| Component | State it keeps | Operations | Whom it meets, and what is hard | What makes it correct |
|---|---|---|---|---|
| Agent loop, `agent/loop.go` | the loop's state, iteration, pending action and call id, last execution, retries left | one handler per loop state: plan, review the plan, interrupt, execute, evaluate, validate, complete | every other part; the context can end between any two handlers; evaluator decisions jump back past the approval | no nil action is used; nothing runs that was not let through; retries and iterations are bounded; every call in memory is answered; the Run ends |
| Loop detector, `agent/loop_detector.go` | history of call signatures, `warned` | `Record` | called by the loop; survives Runs | warns at the threshold and refuses only real repetitions |
| Plan-and-solve planner, `planner/plan_and_solve.go` | the current plan and its step statuses | `Plan`, `Replan`, `MarkStepDone`, `MarkStepFailed` | belongs to the Agent, has no lock, used by all sessions; step ids come from the model | one step runs at a time, in order, each handed out once |
| Agent object, `agent/agent.go`, `option.go`, `session.go` | sessions by id, mode, planner, evaluator, prompt, rules, skills, tools | `SetExecutionMode`, `Enable/DisableEvaluator`, `AddRule`, `AddSkill`, `GetSession`, ... | called while Runs are under way; some fields are read without the lock | a Run sees one consistent configuration |
| Checkpoints, `interrupter/checkpoint.go` | snapshot by run id | save (in a goroutine), load, delete | saves are unordered and have a timeout of their own | what is loaded was a state of the loop, and the latest |
| Human in the loop, `interrupter/hitl.go` | the question under way | `ShouldInterrupt`, `Interrupt` | a goroutine waits for the human, the Run for a timeout | an answer goes to its own question; nobody waits for ever |
| Conversation memory, `memory/buffer.go`, `store_inmem.go`, `compressor.go` | messages | add, clear, trim, prune failures, compact results, compress | rewritten by the loop after each tool call, with errors ignored | results keep their calls; budget and window hold; the newest message stays |
| Summary memory, `memory/summary.go` | store, summary | `Add`, `Messages`, `Clear` | asks the model, may fail half way | nothing is forgotten; the newest stays verbatim; `Add` returns |
| Long results, `memory/compressor.go`, `content_store.go`, `tool/builtin/fetch_full_result.go` | contents by call id | cut and store, load | ids are reused by retries; fetched results are cut too | the cut holds the limit; an id leads to its content |
| Evaluators, `evaluator/` | none | evaluate with rules, a judge, several members | the loop obeys the decision | every member's verdict counts, in any order |
| Parallel executor, `executor/parallel.go` | semaphore, WaitGroup, results | `ExecuteBatch` | a goroutine per call, an expiring context | the limit holds; the batch is complete; it returns |
| Streaming, `model/model.go`, `metrics_model.go`, providers | two channels per hop | produce, relay, `Next`, collect | three goroutines and a context | chunks in order, the answer whole, no goroutine left |
| Rate limiters, `model/rate_limiter.go` | bucket, ring of times | `Allow`, `Wait` | concurrent callers, sleeping without the lock | limits hold and are not stricter than promised; waits end |
| Retry, `model/retry.go` | attempt, delay | `Do`, `RetryWithBackoff` | an expiring context | stops where it should; waits exponentially |
| Metrics, `metrics/metrics.go` | ring of samples | record, `RPM`, `TPM` | callers take their time before the lock | the ring is the latest samples; rates are exact while calls arrive in the order of their times |
| Skill contexts, `skill/context.go` | its own conversation | `Run` | model and tools of the skill | well-formed conversation; it ends |
| Hybrid retrieval, `retriever/hybrid.go` | none | `Retrieve`, `Merge` | two goroutines, either may fail | every document once; agreed preference kept |
| Providers, `model/provider/` | blocks of the reply under way | translate a conversation, read a reply, whole or streamed | events come in parts, blocks interleave, the stream is cut | the request says what the conversation says; a streamed reply is the reply |
| Output controller, `hook/outputhook/` | none; the Run counts retries | extract, repair, decode, validate | the loop asks the model again | right answers pass, wrong ones do not, retries are counted |
| Runtimes, `runtime/` | the sandbox id in the handle | create, `Exec`, `Close` | users without a lock, lost requests and answers, a time to live on the server | closed means gone; nothing is forgotten |
| Retrieval, `retriever/` | the collection's id in each store, documents on the server | embed, find the collection, `Upsert`, `Search`, filter | callers of a store, several stores, lost answers, a collection that others delete | no document lost silently; vectors and texts stay together |
| Registries and loaders, `rule/`, `skill/`, `tool/registry.go` | maps and lists of names | add, remove, get, list, load files | partial failures of a directory, names that repeat | map and list agree; a load adds everything or nothing |
| Building an agent, `agent/agent.go`, `option.go` | the fields an option sets, the tools `init` registers | `New` with options in any order | options overwrite each other; agents share a registry | an agent is what its options say |

The remaining parts (prompts, built-in tools, MCP client, hooks and logger,
schema generation, examples, vendored libraries) are in `PROJECT.json` with the
reason each is left out.

Things that are hard to test in this code, and that the properties aim at: the
context ends between any two steps; the evaluator sends the loop back; a plan
outlives its Run and is shared without a lock; settings change under a running
loop; a timeout races a late answer; two channels are ready at once; a ring
wraps; one of several calls fails; an answer is lost after the server has
acted on the request; what is found once is kept after it is gone.  `PROJECT.json` lists each at its line
(`hazards`).

## 2. Modules

**The core.**

- `Actions`: the action types of `planner/planner.go`, shared by the next ones.
- `LoopDetector`: `Record` with its history and flag.  `RepeatCounter` says
  what a detector should do, with a counter; `LoopDetectorRefinement` maps one
  to the other.
- `PlanAndSolve`: one plan and the planner's operations, each atomic.
- `AgentLoop`: extends both.  One action per case of `runLoop`'s switch, split
  where the code calls out and may be interrupted (`ExecuteStart` and
  `ToolReturn`), plus `StartRun` (Session.Run) and `Expire` (the context).
  The loop's locals keep their names.  The conversation is reduced to which
  calls have no answer (`openCalls`), and `granted`, `attempts` and similar
  variables only record history for the properties.
- `SharedPlanner`: the planner split at its reads and writes of `p.plan`, for
  several sessions.  With one session it implements `PlanAndSolve`
  (`ImplementsPlanner`), which justifies the atomic planner inside `AgentLoop`.
- `AgentConfig`: the agent's fields, its lock and its session registry, with
  the points at which a Run reads them; unsynchronised reads that overlap a
  write are races, whose outcome is any value the build can produce.  The
  variable `since` records the writes of the evaluator since a Run entered.
- `AgentBuild`: New, the options and init, one agent after the other, with
  tool registries of their own or a shared one.  It extends the next two, and
  states `AgentExact` of the three.
- `Registries`, `Frontmatter`: the registries of rules, skills and tools, the
  loaders over what may be on disk, and what they read in a file's lines.
- `Checkpoint`: the loop's saves as goroutines, the store, load and delete.

**Around the core.**

- `HITL`: approval rules and the wait with its helper goroutine.
- `Conversation`: the memory and what the loop does to it, with messages as
  role, call, tool, failure and tokens; pruning, compaction and compression are
  functions on sequences of messages.
- `SummaryMemory`: messages are the facts they tell, so that forgetting shows.
- `TruncatedResults`: contents as sequences of characters that say where they
  come from; the cut, the store and the fetching tool.
- `Evaluators`: members, rules and judges, with a reference for the verdict.
- `ParallelExecutor`: goroutines of a batch, step by step.
- `Clock`, `SlidingWindow`, `TokenBucket`, `RateLimiter`: a discrete clock, the
  two limiters and their combination.  A step is one critical section.  The
  bucket's float is a number of parts of a token.
- `Stream`: providers, relay, iterator and collector joined by channels.
- `Requests`: what a conversation becomes in a request to each provider, as
  functions on conversations.  `Conversation` and `SkillContext` use it, so it
  is checked on the conversations the code can reach and no others.
- `ProviderReply`: the events of a streamed reply, the accumulation in both
  clients and the action of the ReAct planner, beside the reply in one piece.
- `OutputController`: the check of an answer over the spellings that its steps
  tell apart, for each kind of schema, with the retries of the loop.
- `Sandbox`: the handle with its users, the server with what is alive there,
  and the local process that other types of runtime come down to.
- `Retrieval`: embedder, Chroma store and semantic search, a step per request.
  A text is a number and its own embedding; which of the documents in reach the
  store returns is its choice.
- `HybridRetriever`: two searches in goroutines and the fusion of their lists.
  A score is exact: the shares of the positions over a common denominator, added
  up, where the code adds `float64`.  A weight may be zero; `PreferenceKept`
  counts only lists that have one, since the others add nothing to any score.
- `MetricsWindow`: the ring of samples and the two rates, as counts.
- `Retry`, `SkillContext`.
- `SeqFilter`: the loops over a slice that keep the elements passing a test
  (`SelectIn`) or add numbers up (`Total`), used by the four modules above and
  by `Requests`, `ProviderReply` and `Registries`.

`MC...` modules give TLC its plans, configurations and bounds.  `MCLoopParts`,
`MCMemory`, `MCModelCalls` and `MCAgentConfig` each join several independent
modules in one specification: their variable `part` is chosen in the initial
state, says which module the behaviour exercises, and the others keep their
initial state.  The fairness conditions of the joined modules are restated for
their part there.  `PartsEnd` and `CallsEnd` say that what a part has started
is over at some time: each is one formula `[]<>` over the parts' final states.

`...Proofs` modules extend the modules they are about and hold theorems only:

| Module | Proves about |
|---|---|
| `LoopDetectorProofs` | `LoopDetector` and its refinement of `RepeatCounter` |
| `PlanAndSolveProofs` | `PlanAndSolve` |
| `AgentLoopProofs` | `AgentLoop`, with the lemmas of the two above |
| `AgentConfigProofs` | `AgentConfig`, `AgentBuild`, `Registries`, `Frontmatter` |
| `LoopPartsProofs` | `Sandbox`, `HITL`, `Checkpoint`, `OutputController`, `Evaluators`, `ParallelExecutor`, `SharedPlanner` |
| `RequestsProofs` | `SeqFilter` and `Requests`, lemmas for the next two and for `AgentConfigProofs` |
| `ModelCallsProofs` | `SlidingWindow`, `TokenBucket`, `RateLimiter`, `Stream`, `Retry`, `Retrieval`, `SkillContext`, `ProviderReply`, `MetricsWindow`, `HybridRetriever` |
| `MemoryProofs` | `SummaryMemory`, `Conversation` with its requests, `TruncatedResults` |

Operators marked *Mutant* or *mutation* are plausible bugs: replacing the
definition they stand before must break the property listed with them in
`PROJECT.json`, so that no property holds by construction.

**What is abstracted.**  Texts are members of small sets; a tool call is its
signature; the model, tools, humans and evaluators answer anything they may.
Hooks cannot change the loop (their errors are ignored) and are left out.
A request to a server may be lost, or its answer, and the caller cannot tell.
Durations are ticks; widths of integers do not matter in what is modelled.

## 3. Runs

### Passing

**`agent_run`** (`MCAgentLoop`, `AgentLoop.cfg`; 850 000 states).  One Run in
ReAct or plan-and-solve mode with every reply of the model, plan, approval,
evaluation, tool outcome and expiry, and with agents that have no planner.
`NoNilDereference`, `OnlyGrantedCallsRun`, `RetriesBounded`,
`CallIsRunningStep`, and `RunEnds` under fairness.  Four iterations, threshold
2, two calls of a reviewed tool and one of another: enough for a loop that is
broken off by another call, and for an evaluator's retry after each kind of
approval.  Plans are not reviewed here, see section 5.

**`agent_sessions`** (`MCAgentLoop`, `AgentLoopSessions.cfg`; 9.6 million).
Two Runs in both modes, with plan review, over one memory, detector and plan:
`CallsAnswered`, `StartedInOrder`, `StuckStepExplained`.  Three iterations each;
the plans have three steps or repeated ids, so the second Run meets unfinished
plans of the first, and a Run can go past a step it leaves Running.  The last
property says which steps those are: the loop gives up with "step still
running" over a denied call, a question, an answer or an id that occurs twice,
never over a call that was made.

**`agent_config`** (`MCAgentConfig`, `AgentConfig.cfg`; 2.3 million).

- One Run while rules and skills come and go, or two Runs that ask for one
  session id; mode and evaluator are switched in both, and `New` was given a
  model, or a prompt and a planner.  `CatalogHasTool`, `PlannerFitsMode`,
  `OneSessionPerId`, and `RacesNeedWriter`: the code reads the evaluator and the
  map of tools without a lock, and this says exactly which reconfigurations a
  program has to keep away from its Runs.
- Two agents built from up to four options in any order, with registries of
  their own and a shared one: `BuiltAsTold`.
- Registries through three changes or loads of a file, a directory with two
  files of one name, a directory with an unreadable file, and nothing:
  `RegistryExact`.
- All files of up to four lines, in LF and CR LF: `FrontmatterExact`.

`AgentExact` joins the last three.

**`loop_parts`** (`MCLoopParts`, `LoopParts.cfg`; 86 000).

- Loop detector: 8 calls of 3 signatures with threshold 3, room for two loops
  with another call between.  The refinement `ImplementsCounter` fixes every
  verdict; what follows from it (exact warnings, refusals of loops only, a
  warning first) is proved, see section 4.
- Planner: one session, plans with distinct and repeated ids, replanned once;
  the refinement `ImplementsPlanner`.
- Checkpoints: a Run of two iterations with its saves, loads and deletes.
  `RestoreExact`: what is loaded was a state of the loop, and a snapshot without
  a failed step can be loaded once it was saved; every save ends.  Snapshots with
  a failed step are left to `checkpoint_failed_step` below.
- Human in the loop: three questions in a row with answers in time, late and
  never.  `AnswerIsForQuestion`; the wait and its goroutine end.
- Executor: three calls with limits 0, 1, 2 and 9.  `LimitRespected`,
  `BatchComplete`, and the batch returns.
- Evaluators: three members with two rules.  `CompositeExact`, that is
  `StrongestWins` and `FeedbackComplete`.  Whether one member's complete may
  outweigh the others is left open (section 6).
- Output controller: every schema with every text of a code block, a value
  outside and prose around them, and a retry.  Values are classed by what
  `encoding/json` and `strconv` make of them: numbers JSON knows, those only
  ParseInt or ParseFloat do, the spellings of ParseBool, each with quotation
  marks and without.  `OutputExact` (`AcceptedConforms`, `RejectedExplained`),
  which leaves slices open.
- Sandbox: two users with three calls each and two creations, lost requests
  and answers, and the time to live.  `SandboxExact` (`ClosedIsGone`,
  `NoneForgotten`, `NothingRunsClosed`).

`PartsEnd` says that saves, waits for a human, the goroutines that ask, and
batches come to an end.

**`memory`** (`MCMemory`, `Memory.cfg`; 560 000).

- Conversation: two Runs, calls with results and retries, an unbounded memory
  and a window of four messages.  `ResultsFollowCalls`; `WindowKept`
  (`WindowBounded`, `LatestIsKept`); `RewriteExact` (`BudgetRespected`: the
  results seen in full fit the budget and are the newest; `CompactExact`: no
  more are cleared than the budget asks for; `PruneExact`: the failures that
  are dropped are those another one of the same tool follows);
  `RequestFaithful`: what both providers make of each of these
  conversations is well formed and says the same.
- Summary memory: thresholds 0 to 4, 6 messages, 3 failures.  `SummaryExact`
  (`NothingForgotten`, `NewestVerbatim`, `AddSettles`) and `AddReturns`.
- Long results: three executions and fetches, contents at and beyond limits
  longer and shorter than the notice needs, and a store that fails before it
  writes or after any part of the content (`os.WriteFile` empties the file
  first).  `ResultsKept` (`CutWithinLimit`, `NoticeLoads`, `FetchedIsOriginal`):
  what a fetch finds is a beginning of one output, and all of it if no Store
  failed.  How much of it the message shows is left open.

**`model_calls`** (`MCModelCalls`, `ModelCalls.cfg`; 590 000).

- Sliding window and token bucket, each called at any time: three windows of
  time and six admissions, so that the ring's head goes round three times.
  `LimitersExact`, that is `WindowExact` (`RingIsLog`, `WindowRespected`,
  `RefusesOnlyWhenFull`) and `BucketExact` (`BucketRespected`,
  `RefusesOnlyWhenEmpty`).
- The combined limiter with three callers for two places, each calling `Allow`
  or `Wait`: all of them return.
- Metrics: two callers whose times and samples come in any order.
  `MetricsExact`, that is `RingKeepsYoung` (`RingIsSuffix`, `YoungKept`) and
  `ReportExact`.
- Streams, with and without the metrics relay: 5 deltas through channels of 2,
  so that senders block.  `ChunksInOrder`.
- Replies of two blocks in two parts, text and calls in any order, cut at any
  event, and OpenAI replies without choices, for both clients: `StreamExact`
  (`StreamAgrees`, `CutCallsWhole`).
- Retry with -1, 0, 1 and 4 retries: `RetryExact` (`VerdictExact`,
  `WaitsExponential`).
- Skills: three model calls of up to two tool calls.  `SkillExact`
  (`SkillCallsAnswered`, `SkillRequestAccepted`, `AnswerExplained`).
- Hybrid retrieval: all pairs of lists of up to three documents, with ids
  missing and repeated.  `FusionExact` (`EachDocumentOnce`, `PreferenceKept`).
- Vector store: two callers of one or of two stores, three calls in all, each
  request or answer lost or not, the collection deleted once, and searches for
  two hits where three documents may lie.
  `RetrievalExact` (`VectorsFit`, `NoSilentLoss`, `OneCollection`, `HitsFit`).

`CallsEnd` says that streams with their goroutines, retries, skills and the
callers of the combined limiter come to an end.  The one goroutine it lets stay
is a provider with a full channel whose relay has left on `ctx.Done`.

Deadlock is not checked: in every run the system may stop, since a Run that has
returned, or a bounded number of calls that is used up, has no next step.  What
must go on is said by the liveness properties.

### Violations

`agent_rejected_plan`, `agent_plan_reuse`, `shared_planner_nil`,
`stream_truncated`, `checkpoint_order` and `checkpoint_failed_step` each state
what a comment or a document of the repository says, and TLC shows a behaviour
of the code that does otherwise; section 6 describes them.

## 4. Proofs

Eight modules hold proofs; all theorems are listed in `PROJECT.json`.  They
hold for every value of the constants that satisfies the named assumptions,
which say only that numbers are natural (or, where the code takes any `int`,
integers), that limits the constructors default are positive, that `Nil` is not
a value, and that configurations, plans and replies have their types.  A bound
such as `MaxRuns` or `MaxCalls` is any natural number there.

**Detector, planner and loop.**

- `LoopDetectorProofs`.  `LDInv` ties `warned` and the latest verdict to the
  history: both say whether the last `Threshold` calls are identical.
  `WarnedExact` alone is not inductive, because `Record` decides on the flag
  and on the new window and both have to speak of the same calls.  `LDInv2`
  adds that a refusal means `Threshold + 1` identical calls, which needs
  `Threshold >= 2`; for a threshold of 1 see section 6.  From it: `DetectorExact`,
  `DetectorRefusesLoops`, `DetectorWarnsFirst` and the refinement
  `DetectorImplementsCounter`, whose mapping takes the length of the longest
  run at the end of the history (`RunExists`, `RunUnique`).
- `PlanAndSolveProofs`.  `PlanInv` says of any plan that at most one step runs,
  that started steps form a prefix and that no step is skipped.  Lemmas show
  that parsing establishes it and that taking the next step and marking the
  first step with an id preserve it, also when ids repeat: the first step with
  the id of the running one is the running one or already started.
  `PlansInOrder` follows.
- `AgentLoopProofs`.  `Control` says what each handler finds in the loop's
  variables; it is what makes `NoNilDereference` and `OnlyGrantedCallsRun`
  inductive, since Retry jumps to execution and only the last execution
  remembers what was approved.  `RetryInv` relates the attempts of a call to
  the end of the detector's history, so that the detector's threshold bounds
  the retries that no counter bounds; it uses `LDInv`.  `OpenInv` says that the
  only call of this Run without an answer is the one in execution.  The plan
  keeps `PlanInv` by the lemmas of the planner.  `StepInv` adds that the first
  step of a generated plan, which waits in `planGenFirst`, is the running one
  until the next planning takes it; `StuckInv` that a running step of the Run's
  own plan is the one in hand or explained.  Theorems: `LoopTypes`,
  `ActionsAreSet`, `CallsGuarded`, `RetriesAreBounded`, `CallsAreAnswered`,
  `LoopPlansInOrder`, `CallsAreRunningSteps`, `StuckStepsAreExplained`.
  `CallsAreRunningSteps` has a hypothesis, that the interrupter does not review
  plans: with review it is false, and the run `agent_rejected_plan` shows why.
- `OneSessionImplementsPlanner` (`LoopPartsProofs`): with one session the small
  steps of `SharedPlanner` implement `PlanAndSolve`.  `SharedInv` says what
  the session's goroutine knows at each place: there is a plan, and the step it
  has chosen is the one the atomic operation would choose.  Each operation has
  one step that maps to the operation of `PlanAndSolve`; the others stutter, and
  a lemma per step says which.

**Configuration** (`AgentConfigProofs`).  `ConfigInv` says of the agent that the
tools needed for its items are there or being added, and of a Run (`RunInv`)
that the catalogue in its prompt stays covered, since tools are never removed,
until it reads the tools; that its copies of mode and planner fit; and that as
long as nobody has stored nil since it entered there is an evaluator to call.
The last is why `since` is needed: nothing in the agent's own state tells a Run
that the evaluator went away and came back.  `PlannersFitModes`,
`CatalogsHaveTools`, `SessionsAreUnique` and `RacesNeedWriters` follow.

`AgentsAreExact` joins three theorems of the same module.

- `AgentsAreBuiltAsTold`.  `BuiltAsTold` speaks of finished agents only, so
  `BuildInv` says for each field what the options told so far make of it, at
  any time (`Asked`), as long as more options may come (`Waiting`), and once init
  has filled in its defaults (`Ready`).  `OneMore` says what an option added at the end does
  to the options of each kind, and one lemma per option does the rest.  The
  tools need `ToolsInv`: a registry may be shared, and then a later agent may
  replace this one's `rule_view`, but no tool ever leaves it; only an agent
  that is `Alone` in its registry is sure of its own.
- `RegistriesAreExact`.  Registries stay proper: the names in order are those
  of the items, each once.  Add with any number of items is a recursive function
  (`putAll`); `PutAllWhole` says what it makes of a proper registry, from which
  it follows that a directory is loaded whole or not at all.
- `FilesAreRead`.  `FMInv` says that what was parsed is what `parseFrontmatter`
  makes of the text; without a line of dashes between the fences, the line
  found by `strings.Index` is the first later fence.

**Concurrent parts.**

- The parallel executor.  The invariant ties the tokens in the channel to
  the set of goroutines that hold one, and the counter of the WaitGroup to the
  set of those that have not called Done; cardinalities change by one with each
  step.  Theorems: `TypeCorrect`, `LimitHolds`, `BatchIsComplete`.
- `SandboxIsExact`.  `SandboxInv` says that what is alive on the server is the
  handle's sandbox or one whose creation nobody learned of, that the id in the
  handle is that sandbox or none, none only when it is gone, and that a user
  past its DELETE knows it is gone.  Close reads the id twice without a lock in
  between, so a user may have built its URL from an id another has emptied; the
  invariant says less of that place.
- `AnswersAreForQuestions`.  `HITLInv`: a channel only ever holds the answer to
  the question it was made for.
- `RestoresAreExact`.  `CPInv`: every snapshot under way or stored is one the
  loop was in, and its number is its own; `RoundTrip` says which snapshots JSON
  gives back.
- `LimitersAreExact`, for any number of callers.  `HoldsLatest` says that the
  ring, read from its head, is the end of the log of admissions and that all
  before it has left the window; this makes the wrap of the head and the
  cleanup (how many are expired) one argument.  For the bucket, the invariant
  keeps an account for each earlier admission: the tokens now, with those taken
  since, are no more than the capacity and what has flowed in.
- `ChunksAreInOrder`.  `StreamInv` says where the chunks are: what was collected,
  followed by the channels and the chunk in the relay's hand, is what was sent,
  as long as the relay passes chunks on; afterwards a prefix.

**Memory** (`MemoryProofs`).

- `SummariesAreExact`.  `SMInv` says at each place of Add and of the loop's
  rewrite where the facts are: in the store and the summary, or in the copy
  the rewrite writes back.
- `ResultsStayExplained` and `WindowIsKept`.  `ConvInv` says that the memory is
  `Well`: before each result, with nothing but results between, there is its
  call, or the end of the system messages where the window has cut.  That alone
  is not kept by adding a result; the latest call has to stay open to results
  (`Open`) until the loop is done with it, through pruning, compression and
  the window.  `PruneKeeps`, `CompactKeeps`, `CompressKeeps` and `TrimKeeps`
  show it for each rewrite.
- `RewritesAreExact`.  Fitting the budget is not inductive: the window and
  pruning change what is counted.  `RewriteInv` adds that the results seen in full are the
  newest (`Newest`), and lemmas show that every rewrite leaves results in their
  order (`Taken`), so that it weighs no more and keeps the newest newest.
  `PruneExact` counts what is dropped (`FS_CountingElements`).
- `LongResultsAreKept`.  `TruncInv` traces what the store holds to a cut result
  with its id (`Traced`), and to an output of a tool (`Original`), as a beginning
  of either and as the whole where the Stores worked: a chain of fetches ends
  there.  Beginnings are compared character by character (`BeginsIs`).
- `RequestsAreFaithful`.  `NamedInv` adds to `ConvInv` that calls and results
  name what they are; together they make what the loop sends `Sendable`.  For
  every such conversation `RequestsProofs` shows that the blocks of the request
  that the loop over the messages has put together from position i on are those
  that the messages from i on tell (`BlocksAreRest`), downward from the end: at
  a call the loop takes the results that follow it along and goes on behind
  them, so the step is as long as that.

**Model calls** (`ModelCallsProofs`, besides the limiters and streams above).

- `RetrievalIsExact`.  `RetrievalInv` follows a batch from its embedding to the
  store and says of each caller what it knows: its vectors are those of its
  texts in their order, whatever order the embedder answered in, and the id it
  keeps was that of the collection of its name.
- `SkillCallsAreExact`.  `SkillReplies` says of each reply in the conversation
  that it is closed (answered call for call, and followed by the next reply or
  nothing) or open (the latest one, whose calls still to be made are those
  without an answer).  Only with that is a conversation which is about to be
  sent one whose answers both providers find (`AnswersFound`).
- `StreamsAreExact`.  `ReplyInv`: what has been accumulated is the part of the
  reply whose events came, block by block, and the text passed on is that of
  the blocks in turn.  The blocks are gathered by their index at the end, and a
  sorted list of numbers without gaps is the list of the first ones.
- `MetricsAreExact`.  `HoldsSamples` is the counterpart of `HoldsLatest` for
  callers whose times are not in the order of their locks: what has left the
  ring was old at the time of some call that was added, and `MWInv` adds that
  whoever reads the rates has been added itself.  If the samples are in the
  order of their times, those in the window are the end of the list, and so is
  the ring, which gives `ReportStep`.
- `FusionIsExact`.  `HybridInv` says that nothing runs once Retrieve has
  returned, so its result is `Outcome` of what the searches left.  The rest is
  about `Merge`: the number of documents ahead of a document is injective into
  the positions, hence a bijection (counting), so each has its place once.  The
  denominator is divisible by every K + rank, so an earlier position is worth
  strictly more, and sums of shares compare as the shares do.

**The smaller ones.**  `OutputsAreExact` and `CompositesAreExact` are about what
a pipeline computes: each has lemmas for its stages (`AcceptsConforming`,
`RefusalExplained`; `RuleBasedDecides`, `JudgeDecides`, `FeedbackKept`,
`StrongestKept`) and a short invariant.  The proof of `OutputExact` found that
two guards of `extractContent` in the model overlapped, so that the model left
open which of them applied; they are alternatives in the order of the code now.
`RetriesAreExact`: `RetryInv` says that the delay in hand is as long as the next
wait should be; the reference is a recursive function (`GrowthExists`,
`GrowthUnique`).

**How recursion is proved about.**  The provers cannot use induction theorems
that take a predicate.  Where a fact is about all positions of a sequence
(`sysHead`, the end of a run of failures, the tokens from a position on, the
growth of delays) the proofs take the least position at which it fails
(`LeastNumber`, from `WFMin`) and lead that to a contradiction.  This replaces
induction, at the price of stating each function by what it does at one place
and the next.  `RequestsProofs` does it once for the numbers up to N (`Upward`,
`Downward`), and from these for the operators that loops over slices become:
`FlattenSeq`, `SelectIn` and `Total`, and for the rounds of any loop that steps
from one state to the next (`RoundsExist`, used for `putAll`).

**Only model-checked.**  Everything about liveness (`RunEnds`, `PartsEnd`,
`CallsEnd`, `AddReturns`), which needs fairness and ENABLED.  Every safety
property of a passing run is the subject of a theorem.

## 5. Fairness

- `AgentLoop`: weak fairness of the loop's own step: model, tools, evaluator
  and human answer at some time.  With plan review a human may reject plan after
  plan and nothing counts the rejections; only the deadline of the Run ends
  that, so `RunEnds` is checked without plan review, where iterations and the
  loop detector have to do it and no expiry is assumed.
- `HITL`: a timer that is set fires, and goroutines run; the human may never
  answer.  `Checkpoint`: a save ends, at the latest with its own timeout.
- `ParallelExecutor`: strong fairness of each goroutine, since a buffered Go
  channel serves its waiting senders in order.
- `RateLimiter`: goroutines run (weak) and time passes, also while callers go
  round (strong).
- `Stream`, `Retry`, `SkillContext`, `SummaryMemory`: a goroutine that can take
  a step takes it.  A server that sends nothing is ended by the context.

## 6. What the runs refute, and other observations

| Run | What the code does | What the repository says |
|---|---|---|
| `agent_rejected_plan` | after a rejected review the rejected plan's first step is executed | the plan is generated anew, td.md:1628 |
| `agent_plan_reuse` | a Run goes on with the plan of an earlier one | plan state belongs to the session, sessions do not disturb each other, td.md:75, 77 |
| `shared_planner_nil` | a session meets the nil plan of another's Replan | one Agent serves sessions concurrently, td.md:77 |
| `stream_truncated` | a reply can end early without an error | the loop accumulates the complete response; the finding in `PROJECT.json` quotes the line |
| `checkpoint_order` | an older snapshot overwrites a newer one | the current state can be had, agent.go:432 |
| `checkpoint_failed_step` | a snapshot with a failed step is saved and cannot be loaded (checkpoint.go:28) | the step results are in the snapshot and the history is restored from it, td.md:3102, 3113 |

Behaviours that the passing properties name as their exceptions:

- A denied call of a plan leaves its step Running, and the next `Plan` fails the
  Run with "step still running" (plan_and_solve.go:75); td.md:1635 goes back to
  Planning with the feedback.  A question, an answer that is sent back, and a
  step whose id another one has too are left Running likewise
  (`StuckStepExplained`).
- The evaluator (loop.go:445, 463) and the map of tools (registry.go:54) are read
  without the lock while they are written; td.md:74 calls the Agent safe for
  concurrent use.  `AgentConfig` reaches "panic", "torn" and "fatal"
  (`RacesNeedWriter`).
- A snapshot with a failed step holds an `error`, which JSON cannot decode again.
  Step results accumulate, so after the first failed step no checkpoint of the Run
  can be restored: `RestoreExact` leaves them out, `checkpoint_failed_step` is about
  them.
- With a slice as its schema the output controller refuses every answer
  (output_controller.go:92); slices are among the schemas that
  output_controller.go:29 lists (`RejectedExplained`).
- One member's complete outweighs every other verdict of the composite evaluator
  (composite.go:19); td.md:728 wants all to pass (`StrongestWins`).
- What `fetch_full_result` returns is cut again by the same limit (loop.go:403),
  though the notice promises the complete content (compressor.go:180)
  (`CutWithinLimit`).  A Store of files that fails half way leaves the beginning of
  the content (content_store.go:63), which a fetch then returns without an error
  (`FetchedIsOriginal`).
- A call that the detector refused or the deadline lost stays in the conversation
  without a result; the next Run of the session shows it to the model
  (`CallsAnswered`).
- The window can cut between a call and its result (buffer.go:85), at its edge
  (`ResultsFollowCalls`).
- A provider does not watch the context while it sends (openai.go:436): if the
  relay has left on `ctx.Done` and the channel is full, its goroutine and
  connection stay (`CallsEnd`).
- An OpenAI reply without choices is an error to `Generate` (openai.go:342) and an
  empty answer to `Stream` (`StreamAgrees`).
- An answer to the creation of a sandbox that is lost leaves the sandbox to its
  time to live (`NoneForgotten`).
- Two fences with nothing between them, in a file with LF, are no frontmatter;
  with a further line of dashes the text up to it is lost (`FrontmatterExact`).
- A call whose arguments never came before the stream ended runs with `{}`
  (`CutCallsWhole`).

What reading the code for the models showed besides.  The models have these
behaviours where they have the part, but no run of the list above is about them.

- A loop detection threshold of 1, which option.go:222 accepts, refuses every
  second call, whatever it is; loop_detector.go:74 speaks of the same tool with
  the same parameters.
- `nextStep` takes a Failed step for the end of the plan, so the Run returns an
  answer and no error (plan_and_solve.go:170); td.md:1643 has Error.
- Two sessions can be handed the same step of the shared plan
  (plan_and_solve.go:77), besides the nil plan above.
- The prompt is read for every model call (session.go:109), so a switch of mode
  reaches a running loop; td.md:605 says that it does not.
- A keyword anywhere in a tool's name makes it read-like (hitl.go:67), where the
  comment at hitl.go:62 speaks of prefixes.
- Without weights both searches count the same (hybrid.go:27); td.md:2153 has 0.7
  and 0.3.
- Jitter is added after the cap, so a wait can exceed MaxDelay (retry.go:146), as
  `WaitsExponential` bounds it; retry.go:38 calls it the maximum.
- Long results: a limit shorter than the notice cuts without giving the id
  (compressor.go:184); a retry stores its result under the id an earlier notice
  still names (loop.go:489).
- `RetryWithBackoff` has no function to retry: it waits through all attempts and
  returns `ErrMaxRetriesExceeded` unless the context ends.  Nothing in the
  repository calls `model/retry.go`.
- All Runs of a session save under one run id; `Resume` only returns the
  snapshot.
- Metrics count an expired sample that stands behind a live one, and read RPM
  and TPM under separate locks.
- The rule-based evaluator drops the feedback of rules that say continue.
- Evaluator retries: the result of a repeated call is added under the id of the
  first, so a conversation may hold two results of one call.
- Output controller: a pointer schema is not validated, `null` is accepted as the
  zero value, `{"data": []}` is an error, and the value that was decoded is
  thrown away; the Run returns the text.
- Runtimes: the Docker and worktree types run on the host, where td.md:1237 and
  td.md:1871 describe isolation; a local command that was killed is reported as
  exit code -1 without an error; an empty id of a created sandbox is not noticed.
- Chroma: documents without an id are numbered per batch, so a later batch
  overwrites an earlier one; the id of a collection is kept for good, also after
  others have deleted it; the options `Filters` and `Collection` are not read.
- Building an agent: options apply in their order, so metrics given before the
  model are lost, `WithToolRegistry` after `WithTools` drops the tools, and
  `WithMemory(nil)` leaves no memory.  Agents that share a ToolRegistry share
  `rule_view`, which then looks up the rules of the last one built.
- A nil `*PlanAndSolvePlanner` becomes a planner that is not nil as an interface
  (agent.go:160), so the check at loop.go:85 passes and the one at loop.go:113
  ends the Run.
- `InjectSkills` on a directory that is itself a skill adds nothing, where
  `WithSkillPaths` adds it; rule files of one name in different subdirectories
  replace each other.
- An error event inside an OpenAI stream is skipped; of several calls in a reply
  only the first is made.
- Summary memory loses what it knew when the model's summary is empty, or when
  the loop's rewrite of the memory is cut short.

## 7. Not modelled, and the plan

Not modelled, and why:

- Prompts, log formatting, error wording: text without state; the prompt a Run
  uses is a value in `AgentConfig`.
- Hooks: called in order, and the loop ignores their errors.
- Built-in file, shell and rule tools, and the MCP client: one system call or
  request per call and no state between calls, so what they return is any
  outcome of a tool in `AgentLoop`.
- Schema generation: reflection over Go types, a pure function with no
  counterpart in TLA+'s data.
- Examples and vendored libraries: not the framework's logic.
- Concurrent Runs of one session, which are outside the contract (td.md:75), and
  a resumed execution: `Resume` returns a snapshot and nothing reads it.

The order followed so far: loop detector, planner and loop first, since every
Run passes through them; then what runs concurrently (shared planner, executor,
streams, limiters, configuration, checkpoints, human in the loop); then memory
and the smaller parts; then what stands between the agent and the outside:
requests and replies of the providers, output controller, sandboxes, vector
store, files and options.  What
is left is to compose `AgentLoop` with `Conversation` in place of `openCalls`,
and the loop's interrupt with `HITL`.
