---------------------------- MODULE AgentConfig ----------------------------
(***************************************************************************)
(* The shared Agent object (agent/agent.go) being reconfigured while Runs  *)
(* of its sessions are under way.  A Run copies planner, mode and evaluator*)
(* flag once, under the read lock; it reads the prompt builder and the     *)
(* tools afresh for every model call, each under a lock of its own, and    *)
(* the evaluator and the map of tools without any lock.                    *)
(*                                                                         *)
(* A rule or a skill is a name; an interface value is the pair of words Go *)
(* stores it in.  What a Run does with a model's reply is in AgentLoop.    *)
(***************************************************************************)
EXTENDS Naturals, FiniteSets

CONSTANTS
  Runs,            \* goroutines calling Agent.Run
  Ids,             \* session ids they use
  Items,           \* names of rules and of skills
  OnDemand,        \* the names whose AlwaysApply is false
  Evaluators,      \* evaluators that can be installed, of different types
  Givens,          \* what New may be given: subsets of Options
  MaxIterations    \* model calls of one Run

\* A system prompt; a model, from which both planners are built; WithPlanner, a
\* ReAct planner.
Options == {"prompt", "model", "planner"}

ASSUME AgentConfigAssumption ==
  /\ OnDemand \subseteq Items
  /\ Givens \subseteq SUBSET Options
  /\ MaxIterations \in Nat \ {0}

Modes == {"react", "planAndSolve"}
Kinds == {"rule", "skill"}
None == "none"

Nil == [tab |-> "nil", data |-> "nil"]
NotWriting == [tab |-> "idle", data |-> "idle"]
Whole(e) == [tab |-> e, data |-> e]
EvaluatorValues == {Nil} \union {Whole(e) : e \in Evaluators}

VARIABLES
  given,      \* what New was given
  mode,       \* a.currentMode
  planner,    \* a.planner: which of the two planners it points to
  registry,   \* the rule and the skill registry
  builder,    \* a.promptBuilder: its base prompt and its summaries
  builtin,    \* the kinds whose built-in tool is registered
  adding,     \* the kinds whose tool is being written to the map of tools
  evaluator,  \* a.evaluator
  evalOn,     \* a.evalEnabled
  writing,    \* the evaluator being stored under a.mu, or NotWriting
  sessions,   \* a.sessions: the Run that created the session of an id
  pc, id, session,        \* per Run: its place, its id, the session it got
  runMode, runPlanner, runEval,   \* what it copied at its start
  prompt, tools,          \* what the current model call is given
  iteration,              \* model calls made
  since                   \* what was stored in a.evaluator since the Run entered

agentVars == <<mode, planner, registry, builder, builtin, adding, evaluator, evalOn, writing>>
runVars == <<pc, id, session, runMode, runPlanner, runEval, prompt, tools, iteration,
             since>>
vars == <<given, agentVars, sessions, runVars>>

-----------------------------------------------------------------------------
(* The agent's own helpers; all are called with a.mu held. *)

DefaultPrompt(m) == IF "prompt" \in given THEN "custom" ELSE m

\* A mutation of NeededTools: a single item needs no tool.
NeededToolsFew(reg) == {k \in Kinds : Cardinality(reg[k]) > 1}

rebuildPromptBuilder(m, reg) == [base |-> DefaultPrompt(m), items |-> reg]

NeededTools(reg) == {k \in Kinds : reg[k] # {}}

\* BuildRuleCatalog, BuildSkillCatalog: what the prompt tells the model to look up.
Catalog(b, k) == b.items[k] \intersect OnDemand

\* A planner field is nil, or in plan-and-solve mode holds a nil pointer, when
\* nothing to build it from was given.
Exists(m) == "model" \in given \/ (m = "react" /\ "planner" \in given)

Init ==
  /\ given \in Givens
  /\ mode \in Modes
  /\ planner = mode
  /\ registry \in [Kinds -> SUBSET Items]
  /\ builder = rebuildPromptBuilder(mode, registry)
  /\ builtin = NeededTools(registry)
  /\ adding = {}
  /\ evaluator \in EvaluatorValues
  /\ evalOn = (evaluator # Nil)
  /\ writing = NotWriting
  /\ sessions = [i \in Ids |-> None]
  /\ pc = [r \in Runs |-> "start"]
  /\ id \in [Runs -> Ids]
  /\ session = [r \in Runs |-> None]
  /\ runMode = [r \in Runs |-> None]
  /\ runPlanner = [r \in Runs |-> None]
  /\ runEval = [r \in Runs |-> FALSE]
  /\ prompt = [r \in Runs |-> [base |-> "custom", items |-> [k \in Kinds |-> {}]]]
  /\ tools = [r \in Runs |-> {}]
  /\ iteration = [r \in Runs |-> 0]
  /\ since = [r \in Runs |-> {}]

Unlocked == writing = NotWriting /\ adding = {}

-----------------------------------------------------------------------------
(* Reconfiguration. *)

\* Mutant: the planner reference is not switched.
SetExecutionModeNoSync(m) ==
  /\ Unlocked
  /\ mode' = m
  /\ builder' = IF "prompt" \in given THEN builder ELSE rebuildPromptBuilder(m, registry)
  /\ UNCHANGED <<planner, registry, builtin, adding, evaluator, evalOn, writing, sessions, runVars>>

SetExecutionMode(m) ==
  /\ Unlocked
  /\ mode' = m
  /\ planner' = m
  /\ builder' = IF "prompt" \in given THEN builder ELSE rebuildPromptBuilder(m, registry)
  /\ UNCHANGED <<registry, builtin, adding, evaluator, evalOn, writing, sessions, runVars>>

\* The registries keep one entry per name; their order shows in the prompt's
\* text only.
registryAdd(reg, k, names) == [reg EXCEPT ![k] = @ \union names]
registryRemove(reg, k, n) == [reg EXCEPT ![k] = @ \ {n}]

\* Mutant: the built-in tool is written again for each rule or skill.
AddItemsAgain(k, names) ==
  /\ Unlocked
  /\ registry' = registryAdd(registry, k, names)
  /\ builder' = rebuildPromptBuilder(mode, registry')
  /\ adding' = NeededTools(registry')
  /\ UNCHANGED <<mode, planner, builtin, evaluator, evalOn, writing, sessions, runVars>>

AddItems(k, names) ==
  /\ Unlocked
  /\ registry' = registryAdd(registry, k, names)
  /\ builder' = rebuildPromptBuilder(mode, registry')
  /\ adding' = NeededTools(registry') \ builtin
  /\ UNCHANGED <<mode, planner, builtin, evaluator, evalOn, writing, sessions, runVars>>

\* ensureBuiltinToolsUnlocked writes to the map of tools, which has no lock of
\* its own, with a.mu held.
ToolsAdded ==
  /\ adding # {}
  /\ builtin' = builtin \union adding
  /\ adding' = {}
  /\ UNCHANGED <<mode, planner, registry, builder, evaluator, evalOn, writing, sessions, runVars>>

\* The built-in tool stays.
RemoveItem(k, n) ==
  /\ Unlocked
  /\ registry' = registryRemove(registry, k, n)
  /\ builder' = rebuildPromptBuilder(mode, registry')
  /\ UNCHANGED <<mode, planner, builtin, adding, evaluator, evalOn, writing, sessions, runVars>>

AddRule(n) == AddItems("rule", {n})
AddSkill(n) == AddItems("skill", {n})
InjectRules(names) == AddItems("rule", names)
InjectSkills(names) == AddItems("skill", names)
RemoveRule(n) == RemoveItem("rule", n)
RemoveSkill(n) == RemoveItem("skill", n)

\* EnableEvaluator(ev) and DisableEvaluator take a.mu; the two words of the
\* field are stored one after the other.
StoreEvaluator(e) ==
  /\ Unlocked
  /\ writing' = e
  /\ since' = [r \in Runs |-> IF runMode[r] = None THEN {} ELSE since[r] \union {e}]
  /\ UNCHANGED <<mode, planner, registry, builder, builtin, adding, evaluator, evalOn, sessions,
                 pc, id, session, runMode, runPlanner, runEval, prompt, tools, iteration>>

EnableEvaluator(e) == StoreEvaluator(e)
DisableEvaluator == StoreEvaluator(Nil)

EvaluatorStored ==
  /\ writing # NotWriting
  /\ evaluator' = writing
  /\ evalOn' = (writing # Nil)
  /\ writing' = NotWriting
  /\ UNCHANGED <<mode, planner, registry, builder, builtin, adding, sessions, runVars>>

\* What a read of the field without the lock can return.
SeenEvaluators ==
  IF writing = NotWriting THEN {evaluator}
  ELSE {[tab |-> t, data |-> d] : t \in {evaluator.tab, writing.tab},
                                  d \in {evaluator.data, writing.data}}

-----------------------------------------------------------------------------
(* Getting a session: Load, newSessionInternal, LoadOrStore. *)

Load(r) ==
  /\ pc[r] = "start"
  /\ IF sessions[id[r]] = None
     THEN /\ pc' = [pc EXCEPT ![r] = "create"]
          /\ UNCHANGED session
     ELSE /\ pc' = [pc EXCEPT ![r] = "enter"]
          /\ session' = [session EXCEPT ![r] = sessions[id[r]]]
  /\ UNCHANGED <<agentVars, sessions, id, runMode, runPlanner, runEval, prompt, tools, iteration, since>>

newSessionInternal(r) ==
  /\ pc[r] = "create"
  /\ Unlocked
  /\ pc' = [pc EXCEPT ![r] = "store"]
  /\ UNCHANGED <<agentVars, sessions, id, session, runMode, runPlanner, runEval, prompt, tools, iteration, since>>

\* Mutant: Store instead of LoadOrStore.
StoreAlways(r) ==
  /\ pc[r] = "store"
  /\ sessions' = [sessions EXCEPT ![id[r]] = r]
  /\ session' = [session EXCEPT ![r] = r]
  /\ pc' = [pc EXCEPT ![r] = "enter"]
  /\ UNCHANGED <<agentVars, id, runMode, runPlanner, runEval, prompt, tools, iteration, since>>

LoadOrStore(r) ==
  /\ pc[r] = "store"
  /\ sessions' = IF sessions[id[r]] = None THEN [sessions EXCEPT ![id[r]] = r] ELSE sessions
  /\ session' = [session EXCEPT ![r] = sessions'[id[r]]]
  /\ pc' = [pc EXCEPT ![r] = "enter"]
  /\ UNCHANGED <<agentVars, id, runMode, runPlanner, runEval, prompt, tools, iteration, since>>

-----------------------------------------------------------------------------
(* The loop of a Run, as far as it reads the agent. *)

\* The copies made under the read lock, and the checks for missing planners: of
\* the interface first, and in PlanGen of the pointer to the plan-and-solve
\* planner; no field of the agent is read in between.
Enter(r) ==
  /\ pc[r] = "enter"
  /\ Unlocked
  /\ runMode' = [runMode EXCEPT ![r] = mode]
  /\ runPlanner' = [runPlanner EXCEPT ![r] = planner]
  /\ runEval' = [runEval EXCEPT ![r] = evalOn /\ evaluator # Nil]
  /\ pc' = [pc EXCEPT ![r] = IF Exists(planner) THEN "plan" ELSE "done"]
  /\ UNCHANGED <<agentVars, sessions, id, session, prompt, tools, iteration, since>>

\* buildPlanState, first half: the prompt.
ReadPrompt(r) ==
  /\ pc[r] = "plan"
  /\ Unlocked
  /\ prompt' = [prompt EXCEPT ![r] = builder]
  /\ pc' = [pc EXCEPT ![r] = "tools"]
  /\ UNCHANGED <<agentVars, sessions, id, session, runMode, runPlanner, runEval, tools, iteration, since>>

\* buildPlanState, second half: the tools.
ReadTools(r) ==
  /\ pc[r] = "tools"
  /\ Unlocked
  /\ tools' = [tools EXCEPT ![r] = builtin]
  /\ iteration' = [iteration EXCEPT ![r] = @ + 1]
  /\ pc' = [pc EXCEPT ![r] = "reply"]
  /\ UNCHANGED <<agentVars, sessions, id, session, runMode, runPlanner, runEval, prompt, since>>

\* The model answers, or calls tools.
Reply(r, final) ==
  /\ pc[r] = "reply"
  /\ pc' = [pc EXCEPT ![r] = IF final \/ iteration[r] = MaxIterations THEN "done" ELSE "execute"]
  /\ UNCHANGED <<agentVars, sessions, id, session, runMode, runPlanner, runEval, prompt, tools, iteration, since>>

\* The executor looks the tool up in the map, without a lock: a read during a
\* write may go well or stop the process.
Execute(r, lucky) ==
  /\ pc[r] = "execute"
  /\ pc' = [pc EXCEPT ![r] =
       IF adding # {} /\ ~ lucky THEN "fatal" ELSE IF runEval[r] THEN "check" ELSE "plan"]
  /\ UNCHANGED <<agentVars, sessions, id, session, runMode, runPlanner, runEval, prompt, tools, iteration, since>>

\* The first unlocked read compares the field with nil: one word decides.
CheckEvaluator(r) ==
  /\ pc[r] = "check"
  /\ \E v \in SeenEvaluators :
       pc' = [pc EXCEPT ![r] = IF v.tab = "nil" THEN "plan" ELSE "evaluate"]
  /\ UNCHANGED <<agentVars, sessions, id, session, runMode, runPlanner, runEval, prompt, tools, iteration, since>>

\* The second one calls a method: nil panics, a torn value calls the method
\* of one evaluator on the data of another.
Evaluate(r) ==
  /\ pc[r] = "evaluate"
  /\ \E v \in SeenEvaluators :
       pc' = [pc EXCEPT ![r] =
         IF v.tab = "nil" THEN "panic"
         ELSE IF v.tab # v.data THEN "torn" ELSE "plan"]
  /\ UNCHANGED <<agentVars, sessions, id, session, runMode, runPlanner, runEval, prompt, tools, iteration, since>>

RunStep(r) ==
  \/ Load(r) \/ newSessionInternal(r) \/ LoadOrStore(r) \/ Enter(r)
  \/ ReadPrompt(r) \/ ReadTools(r) \/ CheckEvaluator(r) \/ Evaluate(r)
  \/ \E b \in BOOLEAN : Reply(r, b) \/ Execute(r, b)

\* Rules and skills come and go.
ChangeItems ==
  \/ \E names \in SUBSET Items : InjectRules(names) \/ InjectSkills(names)
  \/ \E n \in Items : AddRule(n) \/ AddSkill(n) \/ RemoveRule(n) \/ RemoveSkill(n)
  \/ ToolsAdded

\* Mode and evaluator are switched.
Switch ==
  \/ \E m \in Modes : SetExecutionMode(m)
  \/ \E e \in EvaluatorValues : EnableEvaluator(e)
  \/ DisableEvaluator
  \/ EvaluatorStored

Next == (ChangeItems \/ Switch \/ \E r \in Runs : RunStep(r)) /\ UNCHANGED given

Spec == Init /\ [][Next]_vars

-----------------------------------------------------------------------------
(* Properties. *)

Started(r) == pc[r] \notin {"start", "create", "store", "enter"}

\* A Run never starts planning with a planner that does not fit the mode whose
\* states it walks, or that is nil, however SetExecutionMode interleaves with
\* the copies made at its start (agent/loop.go 72-83).
PlannerFitsMode ==
  \A r \in Runs : Started(r) =>
    /\ runPlanner[r] = runMode[r]
    /\ pc[r] # "done" => Exists(runPlanner[r])

\* Prompt and tools of one model call are read under two locks, and rules and
\* skills can come and go in between: a catalog that tells the model to call
\* rule_view or skill_call is still always sent with that tool.
CatalogHasTool ==
  \A r \in Runs, k \in Kinds :
    pc[r] = "reply" /\ Catalog(prompt[r], k) # {} => k \in tools[r]

\* Runs that ask for the same session id at the same time get one session, the
\* one later callers get too (agent/session.go 58-67): memory is never split.
OneSessionPerId ==
  \A r \in Runs : session[r] # None => session[r] = sessions[id[r]]

\* Without a lock around the evaluator and the map of tools, these are the
\* configurations in which Runs are safe.  A Run panics in Evaluate only if the
\* evaluator was disabled after the Run had entered, and calls a torn value only
\* if it was replaced (agent/loop.go 445-463).  A lookup in the map of tools can
\* stop the process only as long as one of the two built-in tools is missing:
\* once there has been a rule and a skill, more of them do no harm.
RacesNeedWriter ==
  /\ [](\A r \in Runs : /\ pc[r] = "panic" => Nil \in since[r]
                        /\ pc[r] = "torn" => since[r] # {})
  /\ [][\A r \in Runs :
         pc[r] # "fatal" /\ pc'[r] = "fatal" => builtin # Kinds]_vars
=============================================================================
