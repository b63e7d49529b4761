-------------------------- MODULE AgentConfigProofs --------------------------
(***************************************************************************)
(* An agent may be reconfigured while any number of Runs are under way:    *)
(* the safety of AgentConfig for every set of Runs, session ids, rules and *)
(* skills, evaluators and options.  Then how it came to be, for every      *)
(* number of agents and options, every set of items and paths and texts of *)
(* any length: the files of rules and skills as the parser reads them      *)
(* (Frontmatter), the registries they are loaded into (Registries), and    *)
(* the agents that New builds from their options (AgentBuild).             *)
(***************************************************************************)
EXTENDS AgentConfig, AgentBuild, RequestsProofs, FiniteSetTheorems, TLAPS

\* The agent itself.  Whoever waits for a.mu finds the two planner fields in
\* step, and every kind with an item either has its built-in tool or is just
\* getting it.
AgentInv ==
  /\ mode \in Modes /\ planner = mode
  /\ registry \in [Kinds -> SUBSET Items]
  /\ builder.items = registry
  /\ NeededTools(registry) \subseteq builtin \union adding
  /\ adding \subseteq Kinds \ builtin
  /\ evaluator \in EvaluatorValues
  /\ writing \in EvaluatorValues \union {NotWriting}

\* One Run.  The catalog it has read stays covered until it reads the tools,
\* since tools are never removed; and as long as nobody has stored nil since it
\* entered, there is an evaluator to call.
RunInv(r) ==
  /\ Started(r) =>
       /\ runMode[r] \in Modes /\ runPlanner[r] = runMode[r]
       /\ pc[r] # "done" => Exists(runPlanner[r])
       /\ runEval[r] => Nil \in since[r] \/ (evaluator # Nil /\ writing # Nil)
       /\ since[r] = {} => writing = NotWriting
  /\ pc[r] = "tools" => NeededTools(prompt[r].items) \subseteq builtin
  /\ pc[r] = "reply" => NeededTools(prompt[r].items) \subseteq tools[r]
  /\ pc[r] \in {"check", "evaluate"} => runEval[r]
  /\ pc[r] = "panic" => Nil \in since[r]
  /\ pc[r] = "torn" => since[r] # {}

RunTypes ==
  /\ DOMAIN pc = Runs /\ DOMAIN session = Runs /\ DOMAIN runMode = Runs
  /\ DOMAIN runPlanner = Runs /\ DOMAIN runEval = Runs /\ DOMAIN prompt = Runs
  /\ DOMAIN tools = Runs /\ DOMAIN since = Runs
  /\ id \in [Runs -> Ids] /\ DOMAIN sessions = Ids

ConfigInv == AgentInv /\ RunTypes /\ (\A r \in Runs : RunInv(r)) /\ OneSessionPerId

-----------------------------------------------------------------------------

(* A rule or a skill that comes or goes leaves every prompt that a Run has *)
(* read covered by the tools it will read.                                 *)
LEMMA ItemsKeep == ConfigInv /\ ChangeItems /\ UNCHANGED given => ConfigInv'
  <1> SUFFICES ASSUME ConfigInv, ChangeItems, UNCHANGED given PROVE ConfigInv'
    OBVIOUS
  <1>1. /\ UNCHANGED <<given, mode, planner, evaluator, evalOn, writing, sessions, runVars>>
        /\ builtin \subseteq builtin'
    BY DEF ChangeItems, InjectRules, InjectSkills, AddRule, AddSkill, RemoveRule, RemoveSkill,
           AddItems, RemoveItem, ToolsAdded
  <1>2. RunTypes' /\ OneSessionPerId'
    BY <1>1 DEF ConfigInv, RunTypes, OneSessionPerId, runVars
  <1>3. ASSUME NEW r \in Runs PROVE RunInv(r)'
    <2>1. RunInv(r)
      BY DEF ConfigInv
    <2> QED BY <1>1, <2>1 DEF RunInv, Started, Exists, NeededTools, runVars
  <1>4. AgentInv'
    <2>1. ASSUME NEW k \in Kinds, NEW names \in SUBSET Items, AddItems(k, names)
          PROVE  AgentInv'
      <3>1. registry' \in [Kinds -> SUBSET Items] /\ builder'.items = registry'
        BY <2>1 DEF AddItems, registryAdd, rebuildPromptBuilder, ConfigInv, AgentInv
      <3>2. adding' = NeededTools(registry') \ builtin /\ builtin' = builtin
        BY <2>1 DEF AddItems
      <3> QED BY <1>1, <3>1, <3>2 DEF ConfigInv, AgentInv, NeededTools
    <2>2. ASSUME NEW k \in Kinds, NEW n \in Items, RemoveItem(k, n)
          PROVE  AgentInv'
      <3>1. registry' \in [Kinds -> SUBSET Items] /\ builder'.items = registry'
        BY <2>2 DEF RemoveItem, registryRemove, rebuildPromptBuilder, ConfigInv, AgentInv
      <3>2. NeededTools(registry') \subseteq NeededTools(registry)
        BY <2>2 DEF RemoveItem, registryRemove, NeededTools, ConfigInv, AgentInv
      <3> QED BY <1>1, <2>2, <3>1, <3>2 DEF RemoveItem, ConfigInv, AgentInv
    <2>3. CASE ToolsAdded
      BY <1>1, <2>3 DEF ToolsAdded, ConfigInv, AgentInv, NeededTools
    <2> QED BY <2>1, <2>2, <2>3
            DEF ChangeItems, InjectRules, InjectSkills, AddRule, AddSkill, RemoveRule,
                RemoveSkill, Kinds
  <1> QED BY <1>2, <1>3, <1>4 DEF ConfigInv

(* A switch of the mode or the evaluator does.                             *)
LEMMA SwitchKeeps == ConfigInv /\ Switch /\ UNCHANGED given => ConfigInv'
  <1> SUFFICES ASSUME ConfigInv, Switch, UNCHANGED given PROVE ConfigInv'
    OBVIOUS
  <1>1. ASSUME NEW m \in Modes, SetExecutionMode(m) PROVE ConfigInv'
    <2>1. AgentInv'
      BY <1>1 DEF SetExecutionMode, rebuildPromptBuilder, ConfigInv, AgentInv
    <2>2. RunTypes' /\ OneSessionPerId'
      BY <1>1 DEF SetExecutionMode, ConfigInv, RunTypes, OneSessionPerId, runVars
    <2>3. ASSUME NEW r \in Runs PROVE RunInv(r)'
      <3>1. RunInv(r)
        BY DEF ConfigInv
      <3> QED BY <1>1, <3>1 DEF SetExecutionMode, RunInv, Started, Exists, NeededTools, runVars
    <2> QED BY <2>1, <2>2, <2>3 DEF ConfigInv
  <1>2. ASSUME NEW e \in EvaluatorValues, StoreEvaluator(e) PROVE ConfigInv'
    <2>1. AgentInv'
      BY <1>2 DEF StoreEvaluator, ConfigInv, AgentInv, NeededTools
    <2>2. RunTypes' /\ OneSessionPerId'
      BY <1>2 DEF StoreEvaluator, ConfigInv, RunTypes, OneSessionPerId
    <2>3. ASSUME NEW r \in Runs PROVE RunInv(r)'
      <3>1. RunInv(r) /\ None \notin Modes
        BY DEF ConfigInv, None, Modes
      <3>2. since'[r] = IF runMode[r] = None THEN {} ELSE since[r] \union {e}
        BY <1>2 DEF StoreEvaluator
      <3>3. /\ UNCHANGED <<given, builtin, evaluator, pc, runMode, runPlanner, runEval,
                           prompt, tools>>
            /\ writing' = e
        BY <1>2 DEF StoreEvaluator
      <3>4. Started(r) => runMode[r] # None
        BY <3>1 DEF RunInv
      <3>5. pc[r] \in {"panic", "torn"} => Started(r)
        BY DEF Started
      <3> QED BY <3>1, <3>2, <3>3, <3>4, <3>5 DEF RunInv, Started, Exists, NeededTools
    <2> QED BY <2>1, <2>2, <2>3 DEF ConfigInv
  <1>3. CASE EvaluatorStored
    <2>1. AgentInv'
      BY <1>3 DEF EvaluatorStored, ConfigInv, AgentInv, NeededTools
    <2>2. RunTypes' /\ OneSessionPerId'
      BY <1>3 DEF EvaluatorStored, ConfigInv, RunTypes, OneSessionPerId, runVars
    <2>3. ASSUME NEW r \in Runs PROVE RunInv(r)'
      <3>1. RunInv(r) /\ NotWriting # Nil
        BY DEF ConfigInv, NotWriting, Nil
      <3> QED BY <1>3, <3>1 DEF EvaluatorStored, RunInv, Started, Exists, NeededTools, runVars
    <2> QED BY <2>1, <2>2, <2>3 DEF ConfigInv
  <1> QED BY <1>1, <1>2, <1>3 DEF Switch, EnableEvaluator, DisableEvaluator, EvaluatorValues

(* A read of the evaluator without the lock sees nil, or two halves, only  *)
(* if one was stored.                                                      *)
LEMMA SeenIsWhole ==
  ASSUME ConfigInv, NEW v \in SeenEvaluators
  PROVE  /\ evaluator # Nil /\ writing # Nil => v.tab # "nil"
         /\ writing = NotWriting => v.tab = v.data
  <1>1. \A e \in EvaluatorValues : e.tab = e.data /\ (e # Nil => e.tab # "nil")
    BY DEF EvaluatorValues, Whole, Nil
  <1>2. /\ evaluator \in EvaluatorValues
        /\ writing # NotWriting => writing \in EvaluatorValues
    BY DEF ConfigInv, AgentInv
  <1>3. CASE writing = NotWriting
    BY <1>1, <1>2, <1>3 DEF SeenEvaluators
  <1>4. CASE writing # NotWriting
    <2>1. v.tab \in {evaluator.tab, writing.tab}
      BY <1>4 DEF SeenEvaluators
    <2> QED BY <1>1, <1>2, <1>4, <2>1
  <1> QED BY <1>3, <1>4

(* The steps of one Run keep what holds of it.                             *)
LEMMA OwnStepKeeps ==
  ASSUME ConfigInv, NEW r \in Runs, RunStep(r), UNCHANGED given
  PROVE  RunInv(r)'
  <1>1. RunInv(r) /\ AgentInv /\ RunTypes
    BY DEF ConfigInv
  <1> USE DEF RunInv, Started, Exists, NeededTools, RunTypes, agentVars
  <1>2. CASE Load(r) \/ newSessionInternal(r) \/ LoadOrStore(r)
    BY <1>1, <1>2 DEF Load, newSessionInternal, LoadOrStore
  <1>3. CASE Enter(r)
    <2>1. NotWriting # Nil
      BY DEF NotWriting, Nil
    <2> QED BY <1>1, <1>3, <2>1 DEF Enter, AgentInv, Unlocked
  <1>4. CASE ReadPrompt(r)
    BY <1>1, <1>4 DEF ReadPrompt, AgentInv, Unlocked
  <1>5. CASE ReadTools(r)
    BY <1>1, <1>5 DEF ReadTools
  <1>6. ASSUME NEW final \in BOOLEAN, Reply(r, final) PROVE RunInv(r)'
    BY <1>1, <1>6 DEF Reply
  <1>7. ASSUME NEW lucky \in BOOLEAN, Execute(r, lucky) PROVE RunInv(r)'
    BY <1>1, <1>7 DEF Execute
  <1>8. CASE CheckEvaluator(r)
    BY <1>1, <1>8 DEF CheckEvaluator
  <1>9. CASE Evaluate(r)
    <2>1. PICK v \in SeenEvaluators :
            pc' = [pc EXCEPT ![r] =
              IF v.tab = "nil" THEN "panic"
              ELSE IF v.tab # v.data THEN "torn" ELSE "plan"]
      BY <1>9 DEF Evaluate
    <2>2. /\ UNCHANGED <<evaluator, writing, builtin, runMode, runPlanner, runEval, prompt, tools,
                         since>>
          /\ pc[r] = "evaluate"
      BY <1>9 DEF Evaluate
    <2>3. v.tab = "nil" => Nil \in since[r]
      BY <1>1, <2>2, SeenIsWhole
    <2>4. v.tab # v.data => since[r] # {}
      BY <1>1, <2>2, SeenIsWhole
    <2> QED BY <1>1, <2>1, <2>2, <2>3, <2>4
  <1> QED BY <1>2, <1>3, <1>4, <1>5, <1>6, <1>7, <1>8, <1>9 DEF RunStep

(* The steps of one Run touch neither the agent nor another Run; and it    *)
(* takes the session that is stored, or stores its own.                    *)
LEMMA RunStepKeeps ==
  ASSUME ConfigInv, NEW r \in Runs, RunStep(r), UNCHANGED given
  PROVE  ConfigInv'
  <1>1. UNCHANGED <<agentVars, given, id>>
    BY DEF RunStep, Load, newSessionInternal, LoadOrStore, Enter, ReadPrompt, ReadTools, Reply,
           Execute, CheckEvaluator, Evaluate
  <1>2. AgentInv'
    BY <1>1 DEF ConfigInv, AgentInv, agentVars, NeededTools
  <1>3. RunTypes'
    BY DEF ConfigInv, RunTypes, RunStep, Load, newSessionInternal, LoadOrStore, Enter,
           ReadPrompt, ReadTools, Reply, Execute, CheckEvaluator, Evaluate
  <1>4. ASSUME NEW q \in Runs, q # r PROVE RunInv(q)'
    <2>1. /\ pc'[q] = pc[q] /\ runMode'[q] = runMode[q] /\ runPlanner'[q] = runPlanner[q]
          /\ runEval'[q] = runEval[q] /\ prompt'[q] = prompt[q] /\ tools'[q] = tools[q]
          /\ since'[q] = since[q]
      BY <1>4 DEF ConfigInv, RunTypes, RunStep, Load, newSessionInternal, LoadOrStore, Enter,
                  ReadPrompt, ReadTools, Reply, Execute, CheckEvaluator, Evaluate
    <2>2. RunInv(q)
      BY DEF ConfigInv
    <2> QED BY <1>1, <2>1, <2>2 DEF RunInv, Started, Exists, NeededTools, agentVars
  <1>5. OneSessionPerId'
    <2>1. CASE UNCHANGED <<session, sessions>>
      BY <1>1, <2>1 DEF ConfigInv, OneSessionPerId
    <2>2. CASE Load(r)
      BY <2>2 DEF Load, ConfigInv, OneSessionPerId, RunTypes
    <2>3. CASE LoadOrStore(r)
      BY <2>3 DEF LoadOrStore, ConfigInv, OneSessionPerId, RunTypes
    <2> QED BY <2>1, <2>2, <2>3
            DEF RunStep, newSessionInternal, Enter, ReadPrompt, ReadTools, Reply, Execute,
                CheckEvaluator, Evaluate
  <1> QED BY <1>2, <1>3, <1>4, <1>5, OwnStepKeeps DEF ConfigInv

-----------------------------------------------------------------------------

(* ConfigInv holds in every state of an agent.                             *)
THEOREM ConfigInvariant == Spec => []ConfigInv
  <1>1. Init => ConfigInv
    <2> SUFFICES ASSUME Init PROVE ConfigInv
      OBVIOUS
    <2>1. AgentInv
      BY DEF Init, AgentInv, rebuildPromptBuilder, NeededTools
    <2>2. RunTypes /\ OneSessionPerId
      BY DEF Init, RunTypes, OneSessionPerId
    <2>3. \A r \in Runs : RunInv(r)
      BY DEF Init, RunInv, Started
    <2> QED BY <2>1, <2>2, <2>3 DEF ConfigInv
  <1>2. ConfigInv /\ [Next]_vars => ConfigInv'
    <2> SUFFICES ASSUME ConfigInv, [Next]_vars PROVE ConfigInv'
      OBVIOUS
    <2>1. CASE UNCHANGED vars
      <3>1. AgentInv'
        BY <2>1 DEF ConfigInv, AgentInv, vars, agentVars, NeededTools
      <3>2. RunTypes' /\ OneSessionPerId'
        BY <2>1 DEF ConfigInv, RunTypes, OneSessionPerId, vars, runVars
      <3>3. ASSUME NEW r \in Runs PROVE RunInv(r)'
        <4>1. RunInv(r)
          BY DEF ConfigInv
        <4> QED BY <2>1, <4>1
                DEF RunInv, Started, Exists, NeededTools, vars, agentVars, runVars
      <3> QED BY <3>1, <3>2, <3>3 DEF ConfigInv
    <2>2. CASE Next
      BY <2>2, ItemsKeep, SwitchKeeps, RunStepKeeps DEF Next
    <2> QED BY <2>1, <2>2
  <1> QED BY <1>1, <1>2, PTL DEF Spec

(* A Run never walks the states of one mode with the planner of the other, *)
(* nor with one that is nil, for any number of Runs and of switches.       *)
THEOREM PlannersFitModes == Spec => []PlannerFitsMode
  <1>1. ConfigInv => PlannerFitsMode
    BY DEF ConfigInv, RunInv, PlannerFitsMode
  <1> QED BY <1>1, ConfigInvariant, PTL

(* The prompt and the tools of one model call fit each other although they *)
(* are read under two locks, for any rules and skills that come and go.    *)
THEOREM CatalogsHaveTools == Spec => []CatalogHasTool
  <1>1. ConfigInv => CatalogHasTool
    BY DEF ConfigInv, RunInv, CatalogHasTool, Catalog, NeededTools
  <1> QED BY <1>1, ConfigInvariant, PTL

(* Any number of Runs with one session id share one session.               *)
THEOREM SessionsAreUnique == Spec => []OneSessionPerId
  <1>1. ConfigInv => OneSessionPerId
    BY DEF ConfigInv
  <1> QED BY <1>1, ConfigInvariant, PTL

(* The reads without a lock go wrong only in a Run that a writer overtook, *)
(* and the map of tools is harmless once both built-in tools are in it.    *)
THEOREM RacesNeedWriters == Spec => RacesNeedWriter
  <1>1. ConfigInv => \A r \in Runs : /\ pc[r] = "panic" => Nil \in since[r]
                                     /\ pc[r] = "torn" => since[r] # {}
    BY DEF ConfigInv, RunInv
  <1>2. ConfigInv /\ [Next]_vars
          => [\A r \in Runs : pc[r] # "fatal" /\ pc'[r] = "fatal" => builtin # Kinds]_vars
    <2> SUFFICES ASSUME ConfigInv, Next, NEW r \in Runs, pc[r] # "fatal", pc'[r] = "fatal"
                 PROVE  builtin # Kinds
      OBVIOUS
    <2>1. adding # {} => builtin # Kinds
      BY DEF ConfigInv, AgentInv
    <2>2. CASE UNCHANGED pc
      BY <2>2
    <2>3. ASSUME NEW q \in Runs, RunStep(q) PROVE adding # {}
      BY <2>3 DEF ConfigInv, RunTypes, RunStep, Load, newSessionInternal, LoadOrStore, Enter,
                  ReadPrompt, ReadTools, Reply, Execute, CheckEvaluator, Evaluate
    <2>4. CASE ChangeItems
      BY <2>2, <2>4 DEF ChangeItems, InjectRules, InjectSkills, AddRule, AddSkill, RemoveRule,
                        RemoveSkill, AddItems, RemoveItem, ToolsAdded, runVars
    <2>5. CASE Switch
      BY <2>2, <2>5 DEF Switch, SetExecutionMode, EnableEvaluator, DisableEvaluator,
                        StoreEvaluator, EvaluatorStored, runVars
    <2> QED BY <2>1, <2>3, <2>4, <2>5 DEF Next
  <1> QED BY <1>1, <1>2, ConfigInvariant, PTL DEF Spec, RacesNeedWriter

-----------------------------------------------------------------------------
\* The files.

(* The least of a set of places.                                           *)
LEMMA LeastPlace ==
    ASSUME NEW S, S \subseteq Nat, S # {}
    PROVE  Min(S) \in S /\ \A y \in S : Min(S) <= y
  <1>1. \E x \in S : \A y \in S : x <= y
    BY LeastNumber
  <1> QED BY <1>1 DEF Min

(* The greatest of a set of places.                                        *)
LEMMA GreatestPlace ==
    ASSUME NEW N \in Nat, NEW S, S \subseteq 1..N, S # {}
    PROVE  Max(S) \in S /\ \A y \in S : Max(S) >= y
  <1> DEFINE R == {N - i : i \in S}
  <1>1. R \subseteq Nat /\ R # {}
    <2>1. \A i \in S : N - i \in Nat
      OBVIOUS
    <2>2. R \subseteq Nat
      BY <2>1
    <2>3. PICK i \in S : TRUE
      OBVIOUS
    <2>4. N - i \in R
      BY <2>3
    <2> QED BY <2>2, <2>4
  <1>2. PICK r \in R : \A q \in R : r <= q
    BY <1>1, LeastNumber
  <1>3. PICK x \in S : r = N - x
    OBVIOUS
  <1>4. \A y \in S : x >= y
    <2> TAKE y \in S
    <2>1. N - y \in R /\ x \in 1..N /\ y \in 1..N
      OBVIOUS
    <2>2. N - x <= N - y
      BY <1>2, <1>3, <2>1
    <2> QED BY <2>1, <2>2
  <1> QED BY <1>4 DEF Max

\* The text is lines, and was parsed as it is.
FMInv == text \in Seq(Line) /\ crlf \in BOOLEAN /\ parsed = parseFrontmatter(text, crlf)

(* What the last line that says it says is one of those it could say, or   *)
(* the default if none does.                                               *)
LEMMA LastOfIs ==
    ASSUME NEW t \in Seq(Line), NEW S, NEW default
    PROVE  \/ /\ \A i \in 1..Len(t) : t[i] \notin S
              /\ lastOf(t, S, default) = default
           \/ \E i \in 1..Len(t) : t[i] \in S /\ lastOf(t, S, default) = t[i]
  <1> DEFINE places == {i \in 1..Len(t) : t[i] \in S}
  <1>1. CASE places = {}
    BY <1>1 DEF lastOf
  <1>2. CASE places # {}
    <2>1. Len(t) \in Nat /\ places \subseteq 1..Len(t)
      OBVIOUS
    <2>2. Max(places) \in places
      BY <1>2, <2>1, GreatestPlace
    <2>3. lastOf(t, S, default) = t[Max(places)]
      BY <1>2 DEF lastOf
    <2> QED BY <2>2, <2>3
  <1> QED BY <1>1, <1>2

(* A text without a frontmatter is read as its first line and the others.  *)
LEMMA PlainText ==
    ASSUME FMInv, text # <<>>, text[1] # "fence"
    PROVE  <<parsed.description>> \o parsed.body = text /\ ~parsed.alwaysApply
  <1>1. parsed = [description |-> text[1], alwaysApply |-> FALSE, body |-> Tail(text)]
    BY DEF FMInv, parseFrontmatter
  <1>2. text = <<Head(text)>> \o Tail(text) /\ Head(text) = text[1]
    BY DEF FMInv
  <1> QED BY <1>1, <1>2

(* The line that ends the frontmatter is the first fence but one, if no    *)
(* line of dashes comes before it.                                         *)
LEMMA EndIsFence ==
    ASSUME FMInv, Closing # {},
           \A i \in 2..(Min(Closing) - 1) : text[i] # "rule",
           Min(Closing) # 2 \/ crlf
    PROVE  LET from == IF crlf THEN 2 ELSE 3
           IN  /\ endOf(text, from) = Min(Closing) /\ Min(Closing) \in Closing
  <1> DEFINE end == Min(Closing)
             from == IF crlf THEN 2 ELSE 3
             D == DashesFrom(text, from)
             N == Len(text)
  <1>1. N \in Nat /\ Closing \subseteq Nat /\ \A i \in Closing : i \in 2..N /\ text[i] = "fence"
    BY DEF Closing, FMInv
  <1>2. end \in Closing /\ \A j \in Closing : end <= j
    BY <1>1, LeastPlace
  <1> HIDE DEF end, N
  <1>3. end \in 2..N /\ text[end] = "fence"
    BY <1>1, <1>2
  <1>4. end \in from..N
    <2>1. CASE crlf
      BY <1>3, <2>1
    <2>2. CASE ~crlf
      <3>1. end # 2
        BY <2>2 DEF end
      <3> QED BY <1>1, <1>3, <2>2, <3>1
    <2> QED BY <2>1, <2>2
  <1>5. end \in D
    BY <1>3, <1>4 DEF DashesFrom, Dashes, N
  <1>6. \A j \in D : end <= j
    <2> SUFFICES ASSUME NEW j \in D, ~(end <= j) PROVE FALSE
      OBVIOUS
    <2>1. j \in from..N /\ text[j] \in Dashes
      BY DEF DashesFrom, N
    <2>2. j \in 2..N
      BY <1>1, <2>1
    <2>3. j \in 2..(end - 1)
      BY <1>1, <1>3, <2>2
    <2>4. text[j] # "rule"
      BY <2>3 DEF end
    <2>5. text[j] = "fence"
      BY <2>1, <2>4 DEF Dashes
    <2>6. j \in Closing
      BY <2>2, <2>5 DEF Closing, N
    <2> QED BY <1>2, <2>6
  <1>7. D \subseteq Nat
    BY <1>1 DEF DashesFrom, N
  <1> HIDE DEF D
  <1>8. Min(D) = end
    <2>1. Min(D) \in D /\ \A y \in D : Min(D) <= y
      BY <1>5, <1>7, LeastPlace
    <2>2. Min(D) \in Nat /\ end \in Nat /\ Min(D) <= end /\ end <= Min(D)
      BY <1>1, <1>3, <1>5, <1>6, <1>7, <2>1
    <2> QED BY <2>2
  <1>9. endOf(text, from) = end
    BY <1>5, <1>8 DEF endOf, D
  <1> QED BY <1>2, <1>9 DEF end

(* A text with a frontmatter.                                              *)
LEMMA Fenced ==
    ASSUME FMInv, text # <<>>, text[1] = "fence", Closing # {}
    PROVE  LET end == Min(Closing)
               meta == SubSeq(text, 2, end - 1)
               has(S) == \E i \in DOMAIN meta : meta[i] \in S
           IN  \/ has({"rule"})
               \/ end = 2 /\ ~crlf
               \/ /\ parsed.body = SubSeq(text, end + 1, Len(text))
                  /\ has({"title", "heading"}) <=> parsed.description # ""
                  /\ ~has({"other"}) => parsed.alwaysApply = has({"true"})
  <1> DEFINE end == Min(Closing)
             meta == SubSeq(text, 2, end - 1)
             has(S) == \E i \in DOMAIN meta : meta[i] \in S
             N == Len(text)
  <1> SUFFICES ASSUME ~has({"rule"}), ~(end = 2 /\ ~crlf)
               PROVE  /\ parsed.body = SubSeq(text, end + 1, Len(text))
                      /\ has({"title", "heading"}) <=> parsed.description # ""
                      /\ ~has({"other"}) => parsed.alwaysApply = has({"true"})
    OBVIOUS
  <1>1. N \in Nat /\ Closing \subseteq Nat /\ \A i \in Closing : i \in 2..N /\ text[i] = "fence"
    BY DEF Closing, FMInv
  <1>2. end \in Closing
    BY <1>1, LeastPlace
  <1> HIDE DEF end
  <1>3. end \in 2..N /\ text[end] = "fence"
    BY <1>1, <1>2
  <1>4. /\ meta \in Seq(Line) /\ Len(meta) = end - 2 /\ DOMAIN meta = 1..(end - 2)
        /\ \A i \in 1..(end - 2) : meta[i] = text[i + 1]
    <2>1. text \in Seq(Line) /\ end - 1 \in 1..N /\ 2 \in 1..N
      BY <1>1, <1>3 DEF FMInv
    <2> QED BY <1>1, <1>3, <2>1
  <1> HIDE DEF meta
  <1>5. ASSUME NEW i \in 2..(end - 1) PROVE text[i] # "rule"
    <2>1. i - 1 \in 1..(end - 2) /\ (i - 1) + 1 = i
      BY <1>1, <1>3
    <2>2. meta[i - 1] # "rule"
      BY <1>4, <2>1
    <2>3. meta[i - 1] = text[i]
      BY <1>4, <2>1
    <2> QED BY <2>2, <2>3
  <1>6. endOf(text, IF crlf THEN 2 ELSE 3) = end
    BY <1>5, EndIsFence DEF end
  <1>7. parsed = [description |-> lastOf(meta, {"title", "heading"}, ""),
                  alwaysApply |-> lastOf(meta, {"true", "other"}, "other") = "true",
                  body |-> afterDashes(text[end]) \o SubSeq(text, end + 1, Len(text))]
    <2>1. end # 0
      BY <1>3
    <2> QED BY <1>6, <2>1 DEF FMInv, parseFrontmatter, meta
  <1>8. parsed.body = SubSeq(text, end + 1, Len(text))
    <2>1. SubSeq(text, end + 1, Len(text)) \in Seq(Line)
      BY <1>1, <1>3 DEF FMInv
    <2>2. <<>> \o SubSeq(text, end + 1, Len(text)) = SubSeq(text, end + 1, Len(text))
      BY <2>1
    <2> QED BY <1>3, <1>7, <2>2 DEF afterDashes
  <1>9. has({"title", "heading"}) <=> parsed.description # ""
    <2> DEFINE d == lastOf(meta, {"title", "heading"}, "")
    <2>1. parsed.description = d
      BY <1>7
    <2> DEFINE S == {"title", "heading"}
               none == ""
    <2>2. d = lastOf(meta, S, none) /\ none = "" /\ none \notin S
      OBVIOUS
    <2>3. \A i : i \in S <=> i \in {"title", "heading"}
      OBVIOUS
    <2> HIDE DEF d, S, none
    <2>4. \/ (\A i \in 1..Len(meta) : meta[i] \notin S) /\ lastOf(meta, S, none) = none
          \/ \E i \in 1..Len(meta) : meta[i] \in S /\ lastOf(meta, S, none) = meta[i]
      BY <1>4, LastOfIs
    <2>5. DOMAIN meta = 1..Len(meta)
      BY <1>4
    <2> QED BY <2>1, <2>2, <2>3, <2>4, <2>5
  <1>10. ASSUME ~has({"other"}) PROVE parsed.alwaysApply = has({"true"})
    <2> DEFINE v == lastOf(meta, {"true", "other"}, "other")
    <2>1. parsed.alwaysApply = (v = "true")
      BY <1>7
    <2>2. \/ /\ \A i \in 1..Len(meta) : meta[i] \notin {"true", "other"}
             /\ v = "other"
          \/ \E i \in 1..Len(meta) : meta[i] \in {"true", "other"} /\ v = meta[i]
      BY <1>4, LastOfIs
    <2> HIDE DEF v
    <2>3. (v = "true") <=> has({"true"})
      BY <1>4, <1>10, <2>2
    <2>4. (v = "true") = has({"true"})
      BY <2>3
    <2> QED BY <2>1, <2>4
  <1> QED BY <1>8, <1>9, <1>10 DEF end

(* parseFrontmatter reads every file of any number of lines as             *)
(* FrontmatterExact says: without a fence no text is lost, and a           *)
(* frontmatter closed by the first later fence gives the description and   *)
(* the flag, with all that follows it as the body, but for the two         *)
(* exceptions named there (rule/loader.go, skill/loader.go).               *)
THEOREM FilesAreRead == FMSpec => []FrontmatterExact
  <1>1. FMInit => FMInv
    BY DEF FMInit, FMInv
  <1>2. FMInv /\ [FMNext]_fmVars => FMInv'
    <2> SUFFICES ASSUME FMInv, [FMNext]_fmVars PROVE FMInv'
      OBVIOUS
    <2>1. ASSUME NEW l \in Line, LoadText(l) PROVE FMInv'
      BY <2>1 DEF FMInv, LoadText
    <2>2. CASE UNCHANGED fmVars
      BY <2>2 DEF FMInv, fmVars
    <2> QED BY <2>1, <2>2 DEF FMNext
  <1>3. FMInv => FrontmatterExact
    <2> SUFFICES ASSUME FMInv PROVE FrontmatterExact
      OBVIOUS
    <2>1. text # <<>> /\ text[1] # "fence"
             => <<parsed.description>> \o parsed.body = text /\ ~parsed.alwaysApply
      BY PlainText
    <2> QED BY <2>1, Fenced DEF FrontmatterExact
  <1> QED BY <1>1, <1>2, <1>3, PTL DEF FMSpec

-----------------------------------------------------------------------------
\* The registries.

\* All that a program may add or a file may hold.
Things == Entries \union UNION {{f.item : f \in Range(p.files) \union Range(p.own)} : p \in Paths}
Names == {x.name : x \in Things}

Registry ==
    [items : UNION {[D -> Things] : D \in SUBSET Names}, order : Seq(Names)]

\* The names in their order are those of the items, each once.
Proper(r) ==
    /\ \A n \in DOMAIN r.items : r.items[n].name = n
    /\ \A i \in 1..Len(r.order) : r.order[i] \in DOMAIN r.items
    /\ \A i, j \in 1..Len(r.order) : r.order[i] = r.order[j] => i = j
    /\ \A n \in DOMAIN r.items : \E i \in 1..Len(r.order) : r.order[i] = n

(* A registry has these parts, and these parts are one.                    *)
LEMMA RegistryIs ==
    ASSUME NEW r \in Registry
    PROVE  /\ r = [items |-> r.items, order |-> r.order]
           /\ DOMAIN r.items \subseteq Names /\ r.items \in [DOMAIN r.items -> Things]
           /\ r.order \in Seq(Names) /\ Len(r.order) \in Nat
           /\ \A i \in 1..Len(r.order) : r.order[i] \in Names
  <1>1. /\ r = [items |-> r.items, order |-> r.order] /\ r.order \in Seq(Names)
        /\ r.items \in UNION {[D -> Things] : D \in SUBSET Names}
    BY DEF Registry
  <1>2. PICK D \in SUBSET Names : r.items \in [D -> Things]
    BY <1>1
  <1>3. DOMAIN r.items = D
    BY <1>2
  <1>4. Len(r.order) \in Nat /\ \A i \in 1..Len(r.order) : r.order[i] \in Names
    BY <1>1
  <1> QED BY <1>1, <1>2, <1>3, <1>4

(* Such a map and such a list make a registry.                             *)
LEMMA RegistryHas ==
    ASSUME NEW D \in SUBSET Names, NEW f \in [D -> Things], NEW o \in Seq(Names)
    PROVE  [items |-> f, order |-> o] \in Registry
  <1>1. f \in UNION {[E -> Things] : E \in SUBSET Names}
    OBVIOUS
  <1> QED BY <1>1 DEF Registry

(* What List returns.                                                      *)
LEMMA ListIs ==
    ASSUME NEW r \in Registry, Proper(r)
    PROVE  /\ list(r) \in Seq(Things) /\ Len(list(r)) = Len(r.order)
           /\ DOMAIN list(r) = 1..Len(r.order)
           /\ \A i \in 1..Len(r.order) :
                /\ r.order[i] \in DOMAIN r.items
                /\ list(r)[i] = r.items[r.order[i]] /\ list(r)[i].name = r.order[i]
  <1> DEFINE o == r.order
             D == DOMAIN r.items
  <1>1. o \in Seq(Names) /\ Len(o) \in Nat /\ r.items \in [D -> Things]
        /\ \A i \in 1..Len(o) : o[i] \in D
    BY RegistryIs DEF Proper
  <1>2. SelectIn(o, D) = o
    <2> HIDE DEF o, D
    <2> QED BY <1>1, SelectAll
  <1>3. list(r) = [i \in 1..Len(o) |-> r.items[o[i]]]
    BY <1>2 DEF list
  <1>4. \A n \in D : r.items[n].name = n
    BY DEF Proper
  <1> HIDE DEF o, D
  <1>5. \A i \in 1..Len(o) : r.items[o[i]] \in Things /\ r.items[o[i]].name = o[i]
    BY <1>1, <1>4
  <1>6. list(r) \in Seq(Things) /\ Len(list(r)) = Len(o) /\ DOMAIN list(r) = 1..Len(o)
    BY <1>1, <1>3, <1>5
  <1>7. \A i \in 1..Len(o) : list(r)[i] = r.items[o[i]]
    BY <1>3
  <1> QED BY <1>1, <1>5, <1>6, <1>7 DEF o, D

(* The list and the map of a registry agree.                               *)
LEMMA ProperAgrees ==
    ASSUME NEW r \in Registry, Proper(r)
    PROVE  Agrees(r)
  <1> DEFINE l == list(r)
  <1>1. /\ DOMAIN l = 1..Len(r.order)
        /\ \A i \in 1..Len(r.order) :
             /\ r.order[i] \in DOMAIN r.items
             /\ l[i] = r.items[r.order[i]] /\ l[i].name = r.order[i]
    BY ListIs
  <1> HIDE DEF l
  <1>2. \A i, j \in DOMAIN l : l[i].name = l[j].name => i = j
    BY <1>1 DEF Proper
  <1>3. \A i \in DOMAIN l : get(r, l[i].name) = {l[i]}
    BY <1>1 DEF get
  <1>4. ASSUME NEW n \in DOMAIN r.items PROVE \E i \in DOMAIN l : l[i].name = n
    <2>1. PICK i \in 1..Len(r.order) : r.order[i] = n
      BY DEF Proper
    <2>2. i \in DOMAIN l /\ l[i].name = n
      BY <1>1, <2>1
    <2> QED BY <2>2
  <1> QED BY <1>2, <1>3, <1>4 DEF Agrees, l

(* An item more, or another one of a name that is there.                   *)
LEMMA PutIsAdded ==
    ASSUME NEW r \in Registry, Proper(r), NEW x \in Things, x # NilItem
    PROVE  LET q == put(r, x)
           IN  /\ q \in Registry /\ Proper(q)
               /\ DOMAIN q.items = DOMAIN r.items \union {x.name} /\ q.items[x.name] = x
               /\ \A m \in DOMAIN r.items : m # x.name => q.items[m] = r.items[m]
               /\ q.order = IF x.name \in DOMAIN r.items THEN r.order ELSE Append(r.order, x.name)
  <1> DEFINE D == DOMAIN r.items \union {x.name}
             f == [m \in D |-> IF m = x.name THEN x ELSE r.items[m]]
             o == IF x.name \in DOMAIN r.items THEN r.order ELSE Append(r.order, x.name)
             q == put(r, x)
             N == Len(r.order)
  <1>1. q = [items |-> f, order |-> o]
    BY DEF put
  <1>2. /\ DOMAIN r.items \subseteq Names /\ r.items \in [DOMAIN r.items -> Things]
        /\ r.order \in Seq(Names) /\ N \in Nat /\ x.name \in Names
    BY RegistryIs DEF Names
  <1>3. f \in [D -> Things] /\ D \in SUBSET Names /\ f[x.name] = x
        /\ \A m \in DOMAIN r.items : m # x.name => f[m] = r.items[m]
    BY <1>2
  <1>4. o \in Seq(Names)
    BY <1>2
  <1>5. DOMAIN f = D
    OBVIOUS
  <1>6. \A n \in D : f[n].name = n
    BY <1>3 DEF Proper
  <1>7. /\ \A i \in 1..Len(o) : o[i] \in D
        /\ \A i, j \in 1..Len(o) : o[i] = o[j] => i = j
        /\ \A n \in D : \E i \in 1..Len(o) : o[i] = n
    <2>1. /\ \A i \in 1..N : r.order[i] \in DOMAIN r.items
          /\ \A i, j \in 1..N : r.order[i] = r.order[j] => i = j
          /\ \A n \in DOMAIN r.items : \E i \in 1..N : r.order[i] = n
      BY DEF Proper
    <2>2. CASE x.name \in DOMAIN r.items
      <3>1. o = r.order /\ D = DOMAIN r.items
        BY <2>2
      <3> QED BY <2>1, <3>1
    <2>3. CASE x.name \notin DOMAIN r.items
      <3>1. o = Append(r.order, x.name)
        BY <2>3
      <3> HIDE DEF o
      <3>2. Len(o) = N + 1 /\ o[N + 1] = x.name /\ \A i \in 1..N : o[i] = r.order[i]
        BY <1>2, <3>1
      <3> HIDE DEF N
      <3>3. /\ N + 1 \in 1..(N + 1) /\ \A i \in 1..(N + 1) : i = N + 1 \/ i \in 1..N
            /\ \A i \in 1..N : i \in 1..(N + 1)
        BY <1>2
      <3>4. \A i \in 1..(N + 1) : o[i] \in D
        BY <2>1, <3>2, <3>3
      <3>5. \A i, j \in 1..(N + 1) : o[i] = o[j] => i = j
        BY <2>1, <2>3, <3>2, <3>3
      <3>6. \A n \in D : \E i \in 1..(N + 1) : o[i] = n
        BY <2>1, <3>2, <3>3
      <3> QED BY <3>2, <3>4, <3>5, <3>6
    <2> QED BY <2>2, <2>3
  <1> HIDE DEF f, D, q
  <1>8. q.items = f /\ q.order = o
    BY <1>1
  <1>9. q \in Registry
    <2> HIDE DEF o
    <2> QED BY <1>1, <1>3, <1>4, RegistryHas
  <1>10. Proper(q)
    <2> HIDE DEF o
    <2> QED BY <1>5, <1>6, <1>7, <1>8 DEF Proper
  <1> QED BY <1>3, <1>5, <1>8, <1>9, <1>10 DEF q, D

(* One item more, or nil, keeps names and items in step.                   *)
LEMMA PutKeeps ==
    ASSUME NEW r \in Registry, Proper(r), NEW x \in Things \union {NilItem}
    PROVE  put(r, x) \in Registry /\ Proper(put(r, x))
  <1>1. CASE x = NilItem
    BY <1>1 DEF put
  <1>2. CASE x # NilItem
    BY <1>2, PutIsAdded
  <1> QED BY <1>1, <1>2

ProperRegistries == {r \in Registry : Proper(r)}

(* Adding several is adding one after the other.                           *)
LEMMA PutAllIs ==
    ASSUME NEW r \in ProperRegistries, NEW xs \in Seq(Things)
    PROVE  \E f : /\ f \in [0..Len(xs) -> ProperRegistries] /\ f[0] = r
                  /\ \A n \in 1..Len(xs) : f[n] = put(f[n - 1], xs[n])
                  /\ putAll(r, xs) = f[Len(xs)]
  <1> DEFINE N == Len(xs)
             T == ProperRegistries
             Solves(t) == t = [n \in 0..N |-> IF n = 0 THEN r ELSE put(t[n - 1], xs[n])]
             g == [n \in 1..N |-> [q \in T |-> put(q, xs[n])]]
             u == CHOOSE t : Solves(t)
  <1>1. N \in Nat /\ \A n \in 1..N : xs[n] \in Things
    OBVIOUS
  <1>2. \A q \in T, x \in Things : put(q, x) \in T
    BY PutKeeps DEF ProperRegistries
  <1> HIDE DEF N, T
  <1>3. g \in [1..N -> [T -> T]]
    <2> SUFFICES ASSUME NEW n \in 1..N PROVE [q \in T |-> put(q, xs[n])] \in [T -> T]
      OBVIOUS
    <2> QED BY <1>1, <1>2
  <1>4. \A n \in 1..N, q \in T : g[n][q] = put(q, xs[n])
    OBVIOUS
  <1> HIDE DEF g
  <1>5. PICK f : Rounds(f, N, T, r, g)
    <2>1. r \in T
      BY DEF T
    <2> QED BY ONLY <1>1, <1>3, <2>1, RoundsExist
  <1>6. f \in [0..N -> T] /\ f[0] = r /\ \A n \in 1..N : f[n] = put(f[n - 1], xs[n])
    <2>1. \A n \in 1..N : n - 1 \in 0..N
      BY <1>1
    <2> QED BY <1>4, <1>5, <2>1 DEF Rounds
  <1>7. Solves(f)
    <2>1. \A n \in 0..N : f[n] = IF n = 0 THEN r ELSE put(f[n - 1], xs[n])
      BY <1>1, <1>6
    <2> QED BY <1>6, <2>1
  <1>8. Solves(u)
    <2> HIDE DEF Solves
    <2> QED BY <1>7
  <1>9. putAll(r, xs) = u[N]
    BY DEF putAll, N
  <1> HIDE DEF u
  <1>10. u[0] = r /\ \A n \in 1..N : u[n] = put(u[n - 1], xs[n])
    BY <1>1, <1>8
  <1>11. \A n \in 0..N : u[n] \in T
    <2> DEFINE G == {n \in 0..N : u[n] \in T}
    <2>1. 0 \in G
      BY <1>1, <1>10 DEF T
    <2>2. ASSUME NEW n \in 0..(N - 1), n \in G PROVE n + 1 \in G
      <3>1. n + 1 \in 1..N /\ n + 1 \in 0..N /\ (n + 1) - 1 = n
        BY <1>1
      <3>2. u[n + 1] = put(u[n], xs[n + 1]) /\ xs[n + 1] \in Things /\ u[n] \in T
        BY <1>1, <1>10, <2>2, <3>1
      <3> QED BY <1>2, <3>1, <3>2
    <2> HIDE DEF G
    <2>3. \A n \in 0..N : n \in G
      BY <1>1, <2>1, <2>2, Upward
    <2> QED BY <2>3 DEF G
  <1>12. u \in [0..N -> T]
    BY <1>8, <1>11
  <1> QED BY <1>9, <1>10, <1>12 DEF N, T

(* So do several items.                                                    *)
LEMMA PutAllKeeps ==
    ASSUME NEW r \in ProperRegistries, NEW xs \in Seq(Things)
    PROVE  putAll(r, xs) \in ProperRegistries
  <1>1. PICK f : /\ f \in [0..Len(xs) -> ProperRegistries]
                 /\ putAll(r, xs) = f[Len(xs)]
    BY PutAllIs
  <1>2. Len(xs) \in 0..Len(xs)
    OBVIOUS
  <1> QED BY <1>1, <1>2

(* A name less.                                                            *)
LEMMA DropKeeps ==
    ASSUME NEW r \in ProperRegistries, NEW n
    PROVE  drop(r, n) \in ProperRegistries
  <1>1. CASE n \notin DOMAIN r.items
    BY <1>1 DEF drop
  <1>2. CASE n \in DOMAIN r.items
    <2> DEFINE o == r.order
               N == Len(o)
               places == {i \in 1..N : o[i] = n}
               k == Min(places)
               D == DOMAIN r.items \ {n}
               f == [m \in D |-> r.items[m]]
               u == RemoveAt(o, k)
    <2>1. /\ DOMAIN r.items \subseteq Names /\ r.items \in [DOMAIN r.items -> Things]
          /\ o \in Seq(Names) /\ N \in Nat
      BY RegistryIs DEF ProperRegistries
    <2>2. /\ \A i \in 1..N : o[i] \in DOMAIN r.items
          /\ \A i, j \in 1..N : o[i] = o[j] => i = j
          /\ \A m \in DOMAIN r.items : \E i \in 1..N : o[i] = m
          /\ \A m \in DOMAIN r.items : r.items[m].name = m
      BY DEF ProperRegistries, Proper
    <2>3. places # {} /\ places \subseteq Nat
      BY <1>2, <2>1, <2>2
    <2>4. k \in 1..N /\ o[k] = n
      BY <2>3, LeastPlace
    <2>5. drop(r, n) = [items |-> f, order |-> u]
      BY <1>2, <2>3 DEF drop
    <2> HIDE DEF places, k
    <2>6. f \in [D -> Things] /\ DOMAIN f = D /\ D \in SUBSET Names /\ \A m \in D : f[m].name = m
      BY <2>1, <2>2
    <2>7. /\ u \in Seq(Names) /\ Len(u) = N - 1
          /\ \A i \in 1..(N - 1) : u[i] = IF i < k THEN o[i] ELSE o[i + 1]
      <3> HIDE DEF o
      <3> DEFINE v == SubSeq(o, 1, k - 1)
                 w == SubSeq(o, k + 1, N)
      <3>1. v \in Seq(Names) /\ Len(v) = k - 1 /\ \A i \in 1..(k - 1) : v[i] = o[i]
        BY <2>1, <2>4
      <3>2. w \in Seq(Names) /\ Len(w) = N - k /\ \A i \in 1..(N - k) : w[i] = o[k + i]
        BY <2>1, <2>4
      <3>3. u = v \o w
        BY DEF RemoveAt
      <3> HIDE DEF u, v, w, N
      <3>4. /\ u \in Seq(Names) /\ Len(u) = Len(v) + Len(w)
            /\ \A i \in 1..(Len(v) + Len(w)) : u[i] = IF i <= Len(v) THEN v[i] ELSE w[i - Len(v)]
        BY <3>1, <3>2, <3>3, ConcatIs
      <3>5. Len(u) = N - 1
        BY <2>1, <2>4, <3>1, <3>2, <3>4
      <3>6. ASSUME NEW i \in 1..(N - 1) PROVE u[i] = IF i < k THEN o[i] ELSE o[i + 1]
        <4>1. i \in 1..(Len(v) + Len(w)) /\ (i <= Len(v) <=> i < k)
          BY <2>1, <2>4, <3>1, <3>2
        <4>2. CASE i < k
          <5>1. i \in 1..(k - 1)
            BY <2>4, <4>2
          <5> QED BY <3>1, <3>4, <4>1, <4>2, <5>1
        <4>3. CASE ~(i < k)
          <5>1. i - Len(v) \in 1..(N - k) /\ k + (i - Len(v)) = i + 1
            BY <2>1, <2>4, <3>1, <4>3
          <5> QED BY <3>2, <3>4, <4>1, <4>3, <5>1
        <4> QED BY <4>2, <4>3
      <3> QED BY <3>4, <3>5, <3>6
    <2> HIDE DEF u, f, N
    <2>8. \A i \in 1..(N - 1) : /\ i \in 1..N /\ i + 1 \in 1..N
                                /\ (i < k => i # k) /\ (~(i < k) => i + 1 # k)
      BY <2>1, <2>4
    <2>9. \A i \in 1..(N - 1) : u[i] \in D
      <3>1. \A j \in 1..N : j # k => o[j] \in D
        BY <2>2, <2>4
      <3> HIDE DEF D, o
      <3> TAKE i \in 1..(N - 1)
      <3>2. CASE i < k
        BY <2>7, <2>8, <3>1, <3>2
      <3>3. CASE ~(i < k)
        BY <2>7, <2>8, <3>1, <3>3
      <3> QED BY <3>2, <3>3
    <2>10. \A i, j \in 1..(N - 1) : u[i] = u[j] => i = j
      <3> SUFFICES ASSUME NEW i \in 1..(N - 1), NEW j \in 1..(N - 1), u[i] = u[j] PROVE i = j
        OBVIOUS
      <3> DEFINE a1 == IF i < k THEN i ELSE i + 1
                 b1 == IF j < k THEN j ELSE j + 1
      <3>1. u[i] = o[a1] /\ u[j] = o[b1] /\ a1 \in 1..N /\ b1 \in 1..N
        BY <2>7, <2>8
      <3>2. a1 = b1
        BY <2>2, <3>1
      <3> QED BY <2>4, <3>2
    <2>11. \A m \in D : \E i \in 1..(N - 1) : u[i] = m
      <3> TAKE m \in D
      <3>1. PICK j \in 1..N : o[j] = m
        BY <2>2
      <3>2. j # k
        BY <2>4, <3>1
      <3>3. CASE j < k
        <4>1. j \in 1..(N - 1)
          BY <2>1, <2>4, <3>3
        <4> QED BY <2>7, <3>1, <3>3, <4>1
      <3>4. CASE ~(j < k)
        <4>1. j - 1 \in 1..(N - 1) /\ ~(j - 1 < k) /\ (j - 1) + 1 = j
          BY <2>1, <2>4, <3>2, <3>4
        <4> QED BY <2>7, <3>1, <4>1
      <3> QED BY <3>3, <3>4
    <2> HIDE DEF D
    <2>12. [items |-> f, order |-> u] \in Registry
      BY <2>6, <2>7, RegistryHas
    <2>13. Proper([items |-> f, order |-> u])
      BY <2>6, <2>7, <2>9, <2>10, <2>11 DEF Proper
    <2> QED BY <2>5, <2>12, <2>13 DEF ProperRegistries
  <1> QED BY <1>1, <1>2

(* Two lists that differ only in what is left out.                         *)
LEMMA SelectSame ==
    ASSUME NEW T, NEW s \in Seq(T), NEW t \in Seq(T), Len(s) = Len(t), NEW S, NEW R,
           \A i \in 1..Len(s) : (s[i] \in S <=> t[i] \in R) /\ (s[i] \in S => s[i] = t[i])
    PROVE  SelectIn(s, S) = SelectIn(t, R)
  <1>1. DOMAIN s = 1..Len(s) /\ DOMAIN t = 1..Len(s)
    OBVIOUS
  <1>2. Take(s, S) = Take(t, R)
    BY <1>1 DEF Take
  <1>3. SelectIn(s, S) = FlattenSeq(Take(s, S))
    BY TakeIs
  <1>4. SelectIn(t, R) = FlattenSeq(Take(t, R))
    BY TakeIs
  <1> QED BY <1>2, <1>3, <1>4

(* One of the names that do not count is given to the registry.            *)
LEMMA OthersStay ==
    ASSUME NEW r \in ProperRegistries, NEW x \in Things, x # NilItem, NEW names, x.name \in names
    PROVE  Other(list(put(r, x)), names) = Other(list(r), names)
  <1> DEFINE q == put(r, x)
             l == list(r)
             m == list(q)
             N == Len(r.order)
             S == {y \in Range(l) : y.name \notin names}
             R == {y \in Range(m) : y.name \notin names}
  <1>1. r \in Registry /\ Proper(r) /\ N \in Nat
    BY RegistryIs DEF ProperRegistries
  <1>2. /\ q \in Registry /\ Proper(q) /\ q.items[x.name] = x
        /\ \A n \in DOMAIN r.items : n # x.name => q.items[n] = r.items[n]
        /\ q.order = IF x.name \in DOMAIN r.items THEN r.order ELSE Append(r.order, x.name)
    BY <1>1, PutIsAdded
  <1>3. /\ l \in Seq(Things) /\ Len(l) = N /\ DOMAIN l = 1..N
        /\ \A i \in 1..N : /\ r.order[i] \in DOMAIN r.items
                           /\ l[i] = r.items[r.order[i]] /\ l[i].name = r.order[i]
    BY <1>1, ListIs
  <1>4. /\ m \in Seq(Things) /\ Len(m) = Len(q.order) /\ DOMAIN m = 1..Len(q.order)
        /\ \A i \in 1..Len(q.order) : /\ q.order[i] \in DOMAIN q.items
                                      /\ m[i] = q.items[q.order[i]] /\ m[i].name = q.order[i]
    BY <1>2, ListIs
  <1>5. /\ \A i \in 1..N : l[i] \in S <=> l[i].name \notin names
        /\ \A i \in 1..Len(q.order) : m[i] \in R <=> m[i].name \notin names
    BY <1>3, <1>4 DEF Range
  <1> HIDE DEF l, m, q, S, R, N
  <1>6. CASE x.name \in DOMAIN r.items
    <2>1. q.order = r.order /\ Len(q.order) = N
      BY <1>2, <1>6 DEF N
    <2>2. ASSUME NEW i \in 1..N PROVE (l[i] \in S <=> m[i] \in R) /\ (l[i] \in S => l[i] = m[i])
      <3>1. l[i].name = m[i].name
        BY <1>3, <1>4, <2>1
      <3>2. ASSUME l[i] \in S PROVE l[i] = m[i]
        <4>1. r.order[i] # x.name
          BY <1>3, <1>5, <3>2
        <4>2. l[i] = r.items[r.order[i]] /\ r.order[i] \in DOMAIN r.items
          BY <1>3
        <4>3. m[i] = q.items[r.order[i]]
          BY <1>4, <2>1
        <4>4. q.items[r.order[i]] = r.items[r.order[i]]
          BY <1>2, <4>1, <4>2
        <4> QED BY <4>2, <4>3, <4>4
      <3> QED BY <1>5, <2>1, <3>1, <3>2
    <2>3. SelectIn(l, S) = SelectIn(m, R)
      BY <1>3, <1>4, <2>1, <2>2, SelectSame
    <2> QED BY <2>3 DEF Other, l, m, q, S, R
  <1>7. CASE x.name \notin DOMAIN r.items
    <2>1. /\ q.order = Append(r.order, x.name) /\ Len(q.order) = N + 1
          /\ q.order[N + 1] = x.name /\ \A i \in 1..N : q.order[i] = r.order[i]
      BY <1>1, <1>2, <1>7, RegistryIs DEF N
    <2>2. /\ N + 1 \in 1..(N + 1) /\ \A i \in 1..(N + 1) : i = N + 1 \/ i \in 1..N
          /\ \A i \in 1..N : i \in 1..(N + 1)
      BY <1>1
    <2>3. m[N + 1] = x
      BY <1>2, <1>4, <2>1, <2>2
    <2>4. \A i \in 1..N : m[i] = l[i]
      <3> TAKE i \in 1..N
      <3>1. i \in 1..Len(q.order) /\ q.order[i] = r.order[i] /\ r.order[i] \in DOMAIN r.items
        BY <1>3, <2>1, <2>2
      <3>2. r.order[i] # x.name
        BY <1>7, <3>1
      <3> QED BY <1>2, <1>3, <1>4, <3>1, <3>2
    <2>5. m = Append(l, x)
      <3>1. /\ Append(l, x) \in Seq(Things) /\ Len(Append(l, x)) = N + 1
            /\ Append(l, x)[N + 1] = x /\ \A i \in 1..N : Append(l, x)[i] = l[i]
        BY <1>3
      <3>2. \A i \in 1..(N + 1) : m[i] = Append(l, x)[i]
        BY <2>2, <2>3, <2>4, <3>1
      <3> QED BY <1>4, <2>1, <3>1, <3>2, SeqEqual
    <2>6. x \notin R
      BY DEF R
    <2>7. SelectIn(m, R) = SelectIn(l, R)
      BY <1>3, <2>5, <2>6, SelectLast
    <2>8. \A i \in 1..N : l[i] \in S <=> l[i] \in R
      BY <1>5, <2>1, <2>2, <2>4
    <2>9. SelectIn(l, S) = SelectIn(l, R)
      BY <1>3, <2>8, SelectSame
    <2> QED BY <2>7, <2>9 DEF Other, l, m, q, S, R
  <1> QED BY <1>6, <1>7

(* All that is added is there, the latest of each name, and everything     *)
(* else where and as it was.                                               *)
LEMMA PutAllWhole ==
    ASSUME NEW r \in ProperRegistries, NEW xs \in Seq(Things),
           \A i \in 1..Len(xs) : xs[i] # NilItem
    PROVE  LET q == putAll(r, xs)
               names == {xs[i].name : i \in 1..Len(xs)}
           IN  /\ q \in ProperRegistries /\ names \subseteq DOMAIN q.items
               /\ \A i \in 1..Len(xs) :
                    (\A j \in (i + 1)..Len(xs) : xs[j].name # xs[i].name)
                      => q.items[xs[i].name] = xs[i]
               /\ Other(list(q), names) = Other(list(r), names)
  <1> DEFINE N == Len(xs)
             names == {xs[i].name : i \in 1..N}
  <1>1. PICK f : /\ f \in [0..N -> ProperRegistries] /\ f[0] = r
                 /\ \A n \in 1..N : f[n] = put(f[n - 1], xs[n])
                 /\ putAll(r, xs) = f[N]
    BY PutAllIs
  <1>2. N \in Nat /\ \A n \in 1..N : xs[n] \in Things /\ xs[n] # NilItem /\ xs[n].name \in names
    OBVIOUS
  <1> DEFINE Latest(i, n) == \A j \in (i + 1)..n : xs[j].name # xs[i].name
             AllIn(n) == /\ \A i \in 1..n : xs[i].name \in DOMAIN f[n].items
                         /\ \A i \in 1..n : Latest(i, n) => f[n].items[xs[i].name] = xs[i]
                         /\ Other(list(f[n]), names) = Other(list(r), names)
             G == {n \in 0..N : AllIn(n)}
  <1> HIDE DEF N, names
  <1>3. 0 \in G
    BY <1>1, <1>2
  <1>4. ASSUME NEW n \in 0..(N - 1), n \in G PROVE n + 1 \in G
    <2> DEFINE x == xs[n + 1]
               p == f[n]
               q == f[n + 1]
    <2>1. n \in Nat /\ n + 1 \in 1..N /\ n + 1 \in 0..N /\ (n + 1) - 1 = n /\ n \in 0..N
      BY <1>2
    <2>2. q = put(p, x) /\ p \in ProperRegistries /\ x \in Things /\ x # NilItem /\ x.name \in names
      BY <1>1, <1>2, <2>1
    <2>3. AllIn(n)
      BY <1>4
    <2> HIDE DEF x, p, q
    <2>4. /\ DOMAIN q.items = DOMAIN p.items \union {x.name} /\ q.items[x.name] = x
          /\ \A m \in DOMAIN p.items : m # x.name => q.items[m] = p.items[m]
      BY <2>2, PutIsAdded DEF ProperRegistries
    <2>5. Other(list(q), names) = Other(list(p), names)
      BY <2>2, OthersStay
    <2>6. \A i \in 1..(n + 1) : i = n + 1 \/ i \in 1..n
      BY <2>1
    <2>7. \A i \in 1..(n + 1) : xs[i].name \in DOMAIN q.items
      BY <2>3, <2>4, <2>6 DEF p, x
    <2>8. ASSUME NEW i \in 1..(n + 1), Latest(i, n + 1) PROVE q.items[xs[i].name] = xs[i]
      <3>1. CASE i = n + 1
        BY <2>4, <3>1 DEF x
      <3>2. CASE i \in 1..n
        <4>1. n + 1 \in (i + 1)..(n + 1) /\ \A j \in (i + 1)..n : j \in (i + 1)..(n + 1)
          BY <2>1, <3>2
        <4>2. xs[i].name # x.name /\ Latest(i, n)
          BY <2>8, <4>1 DEF x
        <4>3. p.items[xs[i].name] = xs[i] /\ xs[i].name \in DOMAIN p.items
          <5> HIDE DEF Latest
          <5> QED BY <2>3, <3>2, <4>2 DEF p
        <4> QED BY <2>4, <4>2, <4>3
      <3> QED BY <2>6, <3>1, <3>2
    <2>9. AllIn(n + 1)
      <3> HIDE DEF Latest
      <3> QED BY <2>3, <2>5, <2>7, <2>8 DEF p, q
    <2> HIDE DEF AllIn
    <2> QED BY <2>1, <2>9
  <1>5. AllIn(N)
    <2> HIDE DEF AllIn
    <2>1. \A n \in 0..N : n \in G
      <3> HIDE DEF G
      <3> QED BY <1>2, <1>3, <1>4, Upward
    <2> QED BY <1>2, <2>1
  <1>6. f[N] \in ProperRegistries
    BY <1>1, <1>2
  <1>7. names \subseteq DOMAIN f[N].items
    BY <1>5 DEF names
  <1> QED BY <1>1, <1>5, <1>6, <1>7 DEF N, names

(* What the loaders find: the items of the files that are wanted, if all   *)
(* of these can be read.                                                   *)
LEMMA FromFilesIs ==
    ASSUME NEW p \in Paths, NEW files \in {p.files, p.own}
    PROVE  LET w == Wanted(files)
               all == \A i \in 1..Len(w) : w[i].readable
               found == [i \in 1..Len(w) |-> w[i].item]
           IN  /\ Len(w) \in Nat /\ DOMAIN w = 1..Len(w)
               /\ found \in Seq(Things) /\ Len(found) = Len(w)
               /\ \A i \in 1..Len(w) : found[i] = w[i].item /\ found[i] # NilItem
               /\ found # LoadFailed
               /\ all => FromFiles(files) = found
               /\ ~all => FromFiles(files) = LoadFailed
  <1> DEFINE w == Wanted(files)
             R == Range(files)
             S == {f \in R : f.wanted}
             N == Len(w)
             found == [i \in 1..N |-> w[i].item]
  <1>1. files \in Seq(R) /\ \A f \in R : f.item # NilItem
    BY RegistriesAssumption
  <1>2. \A f \in R : f.item \in Things
    BY DEF Things
  <1>3. w \in Seq(R \cap S)
    <2> HIDE DEF R, S
    <2>1. SelectIn(files, S) \in Seq(R \cap S)
      BY <1>1, SelectedAre
    <2> QED BY <2>1 DEF Wanted, R, S
  <1>4. FromFiles(files) = IF \E i \in 1..N : ~w[i].readable THEN LoadFailed ELSE found
    BY DEF FromFiles
  <1> HIDE DEF w, R, S
  <1>5. N \in Nat /\ DOMAIN w = 1..N /\ \A i \in 1..N : w[i] \in R
    BY <1>3
  <1>6. found \in Seq(Things) /\ Len(found) = N
    <2>1. \A i \in 1..N : w[i].item \in Things
      BY <1>2, <1>5
    <2> HIDE DEF N
    <2> QED BY <1>5, <2>1
  <1>7. \A i \in 1..N : found[i] = w[i].item /\ found[i] # NilItem
    BY <1>1, <1>5
  <1>8. found # LoadFailed
    <2> SUFFICES ASSUME found = LoadFailed PROVE FALSE
      OBVIOUS
    <2>1. Len(LoadFailed) = 1 /\ LoadFailed[1] = NilItem
      BY DEF LoadFailed
    <2>2. 1 \in 1..N
      BY <1>5, <1>6, <2>1
    <2> QED BY <1>7, <2>1, <2>2
  <1> HIDE DEF N
  <1>9. /\ (\A i \in 1..N : w[i].readable) => FromFiles(files) = found
        /\ ~(\A i \in 1..N : w[i].readable) => FromFiles(files) = LoadFailed
    BY <1>4
  <1> QED BY <1>5, <1>6, <1>7, <1>8, <1>9 DEF w, N

(* A loader returns items, or fails.                                       *)
LEMMA LoadersReturn ==
    ASSUME NEW p \in Paths
    PROVE  \A found \in {ruleLoadDir(p), skillLoadDir(p), ruleLoadPath(p), skillLoadPath(p)} :
             found # LoadFailed => found \in Seq(Things)
  <1>1. \A files \in {p.files, p.own} :
          FromFiles(files) # LoadFailed => FromFiles(files) \in Seq(Things)
    BY FromFilesIs
  <1>2. ruleLoadDir(p) \in {LoadFailed, FromFiles(p.files)}
        /\ skillLoadDir(p) \in {LoadFailed, FromFiles(p.files)}
    BY DEF ruleLoadDir, skillLoadDir
  <1>3. ruleLoadPath(p) \in {LoadFailed, FromFiles(p.files)}
    <2>1. CASE p.kind = "dir"
      BY <1>2, <2>1 DEF ruleLoadPath
    <2>2. CASE p.kind = "file"
      BY <2>2 DEF ruleLoadPath
    <2>3. CASE p.kind # "dir" /\ p.kind # "file"
      BY <2>3 DEF ruleLoadPath
    <2> QED BY <2>1, <2>2, <2>3
  <1>4. skillLoadPath(p) \in {LoadFailed, FromFiles(p.files), FromFiles(p.own)}
    <2>1. CASE p.kind = "dir" /\ p.own # <<>>
      BY <2>1 DEF skillLoadPath
    <2>2. CASE p.kind = "dir" /\ p.own = <<>>
      BY <1>2, <2>2 DEF skillLoadPath
    <2>3. CASE p.kind = "file"
      BY <2>3 DEF skillLoadPath
    <2>4. CASE p.kind # "dir" /\ p.kind # "file"
      BY <2>4 DEF skillLoadPath
    <2> QED BY <2>1, <2>2, <2>3, <2>4
  <1> QED BY <1>1, <1>2, <1>3, <1>4

RegistryInv == rules \in ProperRegistries /\ skills \in ProperRegistries

(* Whatever is done to a registry, its names and its items stay in step.   *)
LEMMA RegistryKeeps == RegistryInv /\ [RegNext]_registryVars => RegistryInv'
  <1> SUFFICES ASSUME RegistryInv, [RegNext]_registryVars PROVE RegistryInv'
    OBVIOUS
  <1>0. rules \in ProperRegistries /\ skills \in ProperRegistries
    BY DEF RegistryInv
  <1>1. ASSUME NEW x \in Entries, NEW y \in Entries, AddRules(<<x, y>>) \/ AddSkills(<<x, y>>)
        PROVE  RegistryInv'
    <2>1. x \in Things /\ y \in Things
      BY DEF Things
    <2>2. <<x, y>> \in Seq(Things)
      BY <2>1
    <2> QED BY <1>0, <1>1, <2>2, PutAllKeeps DEF AddRules, AddSkills, RegistryInv
  <1>2. ASSUME NEW x \in Entries, DropRule(x.name) \/ DropSkill(x.name)
        PROVE  RegistryInv'
    BY <1>0, <1>2, DropKeeps DEF DropRule, DropSkill, RegistryInv
  <1>3. ASSUME NEW p \in Paths, InjectRuleDir(p) \/ InjectSkillDir(p)
        PROVE  RegistryInv'
    <2>1. CASE InjectRuleDir(p)
      <3>1. ruleLoadDir(p) # LoadFailed => ruleLoadDir(p) \in Seq(Things)
        BY LoadersReturn
      <3> QED BY <1>0, <2>1, <3>1, PutAllKeeps DEF InjectRuleDir, RegistryInv
    <2>2. CASE InjectSkillDir(p)
      <3>1. skillLoadDir(p) # LoadFailed => skillLoadDir(p) \in Seq(Things)
        BY LoadersReturn
      <3> QED BY <1>0, <2>2, <3>1, PutAllKeeps DEF InjectSkillDir, RegistryInv
    <2> QED BY <1>3, <2>1, <2>2
  <1>4. ASSUME NEW p \in Paths, NEW q \in Paths, RulePaths(p, q) \/ SkillPaths(p, q)
        PROVE  RegistryInv'
    <2>1. \A r \in Paths : /\ Skipped(ruleLoadPath(r)) \in Seq(Things)
                           /\ Skipped(skillLoadPath(r)) \in Seq(Things)
      <3> TAKE r \in Paths
      <3>1. /\ ruleLoadPath(r) # LoadFailed => ruleLoadPath(r) \in Seq(Things)
            /\ skillLoadPath(r) # LoadFailed => skillLoadPath(r) \in Seq(Things)
        BY LoadersReturn
      <3> QED BY <3>1 DEF Skipped
    <2>2. CASE RulePaths(p, q)
      <3>1. putAll(rules, Skipped(ruleLoadPath(p))) \in ProperRegistries
        BY <1>0, <2>1, PutAllKeeps
      <3>2. putAll(putAll(rules, Skipped(ruleLoadPath(p))), Skipped(ruleLoadPath(q)))
              \in ProperRegistries
        BY <2>1, <3>1, PutAllKeeps
      <3> QED BY <1>0, <2>2, <3>2 DEF RulePaths, RegistryInv
    <2>3. CASE SkillPaths(p, q)
      <3>1. putAll(skills, Skipped(skillLoadPath(p))) \in ProperRegistries
        BY <1>0, <2>1, PutAllKeeps
      <3>2. putAll(putAll(skills, Skipped(skillLoadPath(p))), Skipped(skillLoadPath(q)))
              \in ProperRegistries
        BY <2>1, <3>1, PutAllKeeps
      <3> QED BY <1>0, <2>3, <3>2 DEF SkillPaths, RegistryInv
    <2> QED BY <1>4, <2>2, <2>3
  <1>5. CASE UNCHANGED registryVars
    BY <1>0, <1>5 DEF RegistryInv, registryVars
  <1> QED BY <1>1, <1>2, <1>3, <1>4, <1>5 DEF RegNext

(* A directory of rules is loaded as a whole or not at all.                *)
LEMMA DirIsWhole ==
    ASSUME RegistryInv, RegistryInv', NEW p \in Paths, InjectRuleDir(p)
    PROVE  LET wanted == Wanted(p.files)
               all == p.kind # "missing" /\ \A i \in DOMAIN wanted : wanted[i].readable
               names == {wanted[i].item.name : i \in DOMAIN wanted}
           IN  IF ~all THEN rules' = rules
               ELSE /\ names \subseteq NamesOf(list(rules'))
                    /\ Other(list(rules'), names) = Other(list(rules), names)
                    /\ \A i \in DOMAIN wanted :
                          (\A j \in (i+1)..Len(wanted) :
                              wanted[j].item.name # wanted[i].item.name)
                            => get(rules', wanted[i].item.name) = {wanted[i].item}
  <1> DEFINE w == Wanted(p.files)
             N == Len(w)
             found == [i \in 1..N |-> w[i].item]
             all == p.kind # "missing" /\ \A i \in DOMAIN w : w[i].readable
             names == {w[i].item.name : i \in DOMAIN w}
             q == rules'
  <1>1. /\ N \in Nat /\ DOMAIN w = 1..N
        /\ found \in Seq(Things) /\ Len(found) = N
        /\ \A i \in 1..N : found[i] = w[i].item /\ found[i] # NilItem
        /\ found # LoadFailed
        /\ (\A i \in 1..N : w[i].readable) => FromFiles(p.files) = found
        /\ ~(\A i \in 1..N : w[i].readable) => FromFiles(p.files) = LoadFailed
    BY FromFilesIs
  <1>2. rules' = IF ruleLoadDir(p) = LoadFailed THEN rules ELSE putAll(rules, ruleLoadDir(p))
    BY DEF InjectRuleDir
  <1>3. ruleLoadDir(p) = IF p.kind = "missing" THEN LoadFailed ELSE FromFiles(p.files)
    BY DEF ruleLoadDir
  <1> HIDE DEF w, N, found
  <1>4. CASE ~all
    <2>1. ruleLoadDir(p) = LoadFailed
      BY <1>1, <1>3, <1>4
    <2>2. rules' = rules
      BY <1>2, <2>1
    <2> HIDE DEF all
    <2> QED BY <1>4, <2>2 DEF w, all
  <1>5. CASE all
    <2>1. q = putAll(rules, found)
      BY <1>1, <1>2, <1>3, <1>5
    <2>2. rules \in ProperRegistries /\ q \in ProperRegistries
      BY DEF RegistryInv
    <2> DEFINE given0 == {found[i].name : i \in 1..Len(found)}
    <2>3. given0 = names
      BY <1>1
    <2>4. /\ given0 \subseteq DOMAIN putAll(rules, found).items
          /\ \A i \in 1..Len(found) :
               (\A j \in (i + 1)..Len(found) : found[j].name # found[i].name)
                 => putAll(rules, found).items[found[i].name] = found[i]
          /\ Other(list(putAll(rules, found)), given0) = Other(list(rules), given0)
      <3>1. \A i \in 1..Len(found) : found[i] # NilItem
        BY <1>1
      <3> QED BY <1>1, <2>2, <3>1, PutAllWhole
    <2> HIDE DEF q, given0, names, all
    <2>5. /\ names \subseteq DOMAIN q.items
          /\ \A i \in 1..N :
               (\A j \in (i + 1)..N : found[j].name # found[i].name)
                 => q.items[found[i].name] = found[i]
          /\ Other(list(q), names) = Other(list(rules), names)
      BY <1>1, <2>1, <2>3, <2>4
    <2>6. names \subseteq NamesOf(list(q))
      <3>1. Agrees(q)
        BY <2>2, ProperAgrees DEF ProperRegistries
      <3> QED BY <2>5, <3>1 DEF Agrees, NamesOf
    <2>7. ASSUME NEW i \in 1..N, \A j \in (i + 1)..N : w[j].item.name # w[i].item.name
          PROVE  get(q, w[i].item.name) = {w[i].item}
      <3>1. found[i] = w[i].item /\ found[i].name \in names
        BY <1>1 DEF names
      <3>2. \A j \in (i + 1)..N : j \in 1..N
        BY <1>1
      <3>3. \A j \in (i + 1)..N : found[j].name # found[i].name
        BY <1>1, <2>7, <3>1, <3>2
      <3>4. q.items[found[i].name] = found[i]
        BY <2>5, <3>3
      <3> QED BY <2>5, <3>1, <3>4 DEF get
    <2> QED BY <1>1, <1>5, <2>5, <2>6, <2>7 DEF all, w, N, names, q
  <1> HIDE DEF all
  <1> QED BY <1>4, <1>5

(* Whatever is added, removed and loaded, for all items and paths: List    *)
(* and Get agree after every change, and a directory is loaded as a whole  *)
(* or not at all (rule/registry.go, skill/registry.go, the loaders).       *)
THEOREM RegistriesAreExact == RegSpec => [][RegistryExact]_registryVars
  <1>1. RegInit => RegistryInv
    <2> SUFFICES NewRegistry \in ProperRegistries
      BY DEF RegInit, RegistryInv
    <2> DEFINE e == << >>
    <2>1. e \in [{} -> Things] /\ DOMAIN e = {} /\ e \in Seq(Names) /\ Len(e) = 0
      OBVIOUS
    <2> HIDE DEF e
    <2>2. NewRegistry = [items |-> e, order |-> e]
      BY DEF NewRegistry, e
    <2>3. [items |-> e, order |-> e] \in Registry
      BY <2>1, RegistryHas
    <2>4. Proper([items |-> e, order |-> e])
      BY <2>1 DEF Proper
    <2> QED BY <2>2, <2>3, <2>4 DEF ProperRegistries
  <1>2. RegistryInv /\ [RegNext]_registryVars => RegistryInv'
    BY RegistryKeeps
  <1>3. RegistryInv /\ RegistryInv' /\ [RegNext]_registryVars => [RegistryExact]_registryVars
    <2> SUFFICES ASSUME RegistryInv, RegistryInv' PROVE RegistryExact
      OBVIOUS
    <2>1. Agrees(rules)' /\ Agrees(skills)'
      BY ProperAgrees DEF RegistryInv, ProperRegistries
    <2>2. LoadsWhole
      BY DirIsWhole DEF LoadsWhole
    <2> QED BY <2>1, <2>2 DEF RegistryExact
  <1> QED BY <1>1, <1>2, <1>3, PTL DEF RegSpec

-----------------------------------------------------------------------------
\* Agents as they are built.

AgentOptions ==
    {<<"metrics">>, <<"planner">>, <<"mode", "planAndSolve">>, <<"prompt", "custom">>,
     <<"rule">>, <<"registry">>}
      \union {<<"model", m>> : m \in {0, 1, 2}}
      \union {<<"evaluator", e>> : e \in {NilValue, "e"}}
      \union {<<"factory", f>> : f \in {NilValue, "factory"}}
      \union {<<"memory", m>> : m \in {NilValue, "m"}}
      \union {<<"limit", n>> : n \in {0, 3}}
      \union {<<"schema", n>> : n \in {-1, 2}}
      \union {<<"hook", n>> : n \in Agents}
      \union {<<"tool", t>> : t \in {"tool", "rule_view"}}

WrappedModel == [base : {0, 1, 2}, meters : Nat]

\* What the fields of an agent may hold.
PlannerValues == {NilValue, "given", "built"}
SolveValues == {NilValue, "built"}
InUseValues == {NilValue, NilPointer, "given", "built"}
ModeValues == {"react", "planAndSolve"}
PromptValues == {"", "custom"}
BaseValues == {"", "custom", "react", "planAndSolve"}
EvalValues == {NilValue, "e"}
MemoryValues == {NilValue, "factory", "returnsNil", "shared", "buffer"}
LimitValues == {DefaultLimit, 3}
SchemaValues == {NilValue, "s"}
Holders == {Shared} \union Agents

AgentObject ==
    [model : WrappedModel, react : PlannerValues, solve : SolveValues,
     plannerModel : WrappedModel, planner : InUseValues, mode : ModeValues,
     systemPrompt : PromptValues, base : BaseValues, evaluator : EvalValues,
     evalEnabled : BOOLEAN, memory : MemoryValues, limit : LimitValues,
     schema : SchemaValues, autoRetry : Nat, hooks : Seq(Agents), rules : Nat,
     tools : Holders, executor : Holders, ruleViewRegistered : BOOLEAN]

Boxes == UNION {[D -> {Program} \union Agents] : D \in SUBSET {"tool", "rule_view"}}

BuildTypes ==
    /\ agents \in Seq(AgentObject) /\ told \in Seq(Seq(AgentOptions))
    /\ Len(told) = Len(agents) /\ Len(agents) <= MaxAgents
    /\ phase \in {"options", "built"} /\ (phase = "options" => Len(agents) > 0)
    /\ registries \in [Holders -> Boxes]

\* What has been asked for in the options o.
At(o, kind) == {i \in DOMAIN o : o[i][1] = kind}
LastAt(o, kind) == CHOOSE i \in At(o, kind) : \A j \in At(o, kind) : j <= i
LastValue(o, kind) == o[LastAt(o, kind)][2]

ModelTold(o, m) ==
    /\ At(o, "model") = {} => m = NilModel
    /\ At(o, "model") # {} => m.base = LastValue(o, "model")
    /\ m.base = 0 => m.meters = 0
    /\ m.base # 0 =>
         m.meters = Cardinality({i \in At(o, "metrics") : LastAt(o, "model") < i})

PromptTold(o, p) == p = IF At(o, "prompt") # {} THEN "custom" ELSE ""
EvaluatorTold(o, e) ==
    e # NilValue <=> At(o, "evaluator") # {} /\ LastValue(o, "evaluator") # NilValue
LimitTold(o, l) ==
    l = IF {i \in At(o, "limit") : o[i][2] > 0} # {} THEN 3 ELSE DefaultLimit
HooksTold(o, h) == Len(h) = Cardinality(At(o, "hook"))

\* At any time.
Asked(o, b) ==
    /\ ModelTold(o, b.model) /\ PromptTold(o, b.systemPrompt)
    /\ EvaluatorTold(o, b.evaluator) /\ (b.evalEnabled <=> b.evaluator # NilValue)
    /\ LimitTold(o, b.limit) /\ HooksTold(o, b.hooks)
    /\ At(o, "planner") # {} => b.react = "given"

\* While there may be more options.
Waiting(o, b) ==
    /\ At(o, "planner") = {} => b.react = NilValue
    /\ b.solve = NilValue /\ b.plannerModel = NilModel /\ ~b.ruleViewRegistered

\* The planner of the mode.
InUse(b) ==
    IF b.mode # "planAndSolve" THEN b.react
    ELSE IF b.solve = NilValue THEN NilPointer ELSE b.solve

\* When it is built.
Ready(o, b) ==
    /\ b.plannerModel = b.model
    /\ b.planner \notin {NilValue, NilPointer}
         <=> b.model # NilModel \/ (b.mode = "react" /\ At(o, "planner") # {})
    /\ b.base = IF b.systemPrompt = "" THEN b.mode ELSE b.systemPrompt
    /\ b.memory # NilValue /\ b.executor = b.tools
    /\ b.ruleViewRegistered <=> b.rules > 0

Alone(n) == \A k \in 1..Current : k # n => agents[k].tools # agents[n].tools

ToolsInv(n) ==
    /\ agents[n].tools \in {Shared, n}
    /\ \A i \in At(told[n], "tool") :
          (\A j \in At(told[n], "registry") : j < i)
             => told[n][i][2] \in DOMAIN registries[agents[n].tools]
    /\ Built(n) /\ agents[n].rules > 0
          => /\ "rule_view" \in DOMAIN registries[agents[n].tools]
             /\ Alone(n) => registries[agents[n].tools]["rule_view"] = n

AgentInvAt(n) ==
    /\ Asked(told[n], agents[n])
    /\ ~Built(n) => Waiting(told[n], agents[n])
    /\ Built(n) => Ready(told[n], agents[n])

BuildInv == BuildTypes /\ \A n \in 1..Current : AgentInvAt(n) /\ ToolsInv(n)

(* One option more.                                                        *)
LEMMA OneMore ==
    ASSUME NEW o \in Seq(AgentOptions), NEW x \in AgentOptions
    PROVE  LET p == Append(o, x)
               L == Len(o)
           IN  /\ p \in Seq(AgentOptions) /\ L \in Nat /\ p[L + 1] = x
               /\ \A i \in 1..L : p[i] = o[i]
               /\ \A k : At(o, k) \subseteq 1..L
               /\ \A k : At(p, k) = IF x[1] = k THEN At(o, k) \union {L + 1} ELSE At(o, k)
  <1> DEFINE p == Append(o, x)
             L == Len(o)
  <1>1. /\ p \in Seq(AgentOptions) /\ L \in Nat /\ p[L + 1] = x /\ DOMAIN o = 1..L
        /\ DOMAIN p = 1..(L + 1) /\ \A i \in 1..L : p[i] = o[i]
    OBVIOUS
  <1> HIDE DEF p, L
  <1>2. \A k : At(o, k) \subseteq 1..L
    BY <1>1 DEF At
  <1>3. ASSUME NEW k PROVE At(p, k) = IF x[1] = k THEN At(o, k) \union {L + 1} ELSE At(o, k)
    <2>1. \A i : i \in 1..(L + 1) <=> i \in 1..L \/ i = L + 1
      BY <1>1
    <2>2. L + 1 \notin 1..L
      BY <1>1
    <2> QED BY <1>1, <2>1, <2>2 DEF At
  <1> QED BY <1>1, <1>2, <1>3 DEF p, L

(* The last of a kind is the one that has just been given, or the same as  *)
(* before.                                                                 *)
LEMMA LastIs ==
    ASSUME NEW o \in Seq(AgentOptions), NEW x \in AgentOptions, NEW k
    PROVE  LET p == Append(o, x)
           IN  /\ x[1] = k => LastAt(p, k) = Len(o) + 1 /\ LastValue(p, k) = x[2]
               /\ x[1] # k => LastAt(p, k) = LastAt(o, k)
               /\ x[1] # k /\ At(o, k) # {} => /\ LastAt(o, k) \in 1..Len(o)
                                               /\ LastValue(p, k) = LastValue(o, k)
  <1> DEFINE p == Append(o, x)
             L == Len(o)
  <1>1. /\ L \in Nat /\ p[L + 1] = x /\ \A i \in 1..L : p[i] = o[i]
        /\ At(o, k) \subseteq 1..L
        /\ At(p, k) = IF x[1] = k THEN At(o, k) \union {L + 1} ELSE At(o, k)
    BY OneMore
  <1> HIDE DEF p, L
  <1>2. ASSUME x[1] = k PROVE LastAt(p, k) = L + 1 /\ LastValue(p, k) = x[2]
    <2>1. L + 1 \in At(p, k) /\ \A j \in At(p, k) : j <= L + 1 /\ j \in Nat
      BY <1>1, <1>2
    <2>2. ASSUME NEW i \in At(p, k), \A j \in At(p, k) : j <= i PROVE i = L + 1
      <3>1. L + 1 <= i /\ i <= L + 1 /\ i \in Nat
        BY <2>1, <2>2
      <3> QED BY <1>1, <3>1
    <2>3. LastAt(p, k) = L + 1
      BY <2>1, <2>2 DEF LastAt
    <2> QED BY <1>1, <2>3 DEF LastValue
  <1>3. ASSUME x[1] # k PROVE LastAt(p, k) = LastAt(o, k)
    BY <1>1, <1>3 DEF LastAt
  <1>4. ASSUME x[1] # k, At(o, k) # {}
        PROVE  LastAt(o, k) \in 1..L /\ LastValue(p, k) = LastValue(o, k)
    <2>1. \E i \in At(o, k) : \A j \in At(o, k) : j <= i
      <3> DEFINE S == At(o, k)
      <3>1. S \subseteq 1..L /\ S # {}
        BY <1>1, <1>4
      <3> HIDE DEF S
      <3>2. Max(S) \in S /\ \A y \in S : Max(S) >= y
        BY <1>1, <3>1, GreatestPlace
      <3>3. \A y \in S : y \in Nat
        BY <1>1, <3>1
      <3>4. \A y \in S : y <= Max(S)
        BY <3>2, <3>3
      <3> QED BY <3>2, <3>4 DEF S
    <2>2. LastAt(o, k) \in At(o, k)
      BY <2>1 DEF LastAt
    <2> QED BY <1>1, <1>3, <1>4, <2>2 DEF LastValue
  <1> QED BY <1>2, <1>3, <1>4 DEF p, L

(* AgentOptions of other kinds change nothing.                                  *)
LEMMA OtherKinds ==
    ASSUME NEW o \in Seq(AgentOptions), NEW x \in AgentOptions
    PROVE  LET p == Append(o, x)
           IN  /\ \A m : ModelTold(o, m) /\ x[1] \notin {"model", "metrics"} => ModelTold(p, m)
               /\ \A q : PromptTold(o, q) /\ x[1] # "prompt" => PromptTold(p, q)
               /\ \A e : EvaluatorTold(o, e) /\ x[1] # "evaluator" => EvaluatorTold(p, e)
               /\ \A l : LimitTold(o, l) /\ x[1] # "limit" => LimitTold(p, l)
               /\ \A h : HooksTold(o, h) /\ x[1] # "hook" => HooksTold(p, h)
               /\ x[1] # "planner" => At(p, "planner") = At(o, "planner")
  <1> DEFINE p == Append(o, x)
             L == Len(o)
  <1>1. /\ \A i \in 1..L : p[i] = o[i]
        /\ \A k : At(o, k) \subseteq 1..L
        /\ \A k : x[1] # k => At(p, k) = At(o, k)
    BY OneMore
  <1>2. \A k : /\ x[1] # k => LastAt(p, k) = LastAt(o, k)
               /\ x[1] # k /\ At(o, k) # {} => LastValue(p, k) = LastValue(o, k)
    BY LastIs
  <1> HIDE DEF p, L
  <1>3. ASSUME NEW m, ModelTold(o, m), x[1] \notin {"model", "metrics"} PROVE ModelTold(p, m)
    <2>1. At(p, "model") = At(o, "model") /\ At(p, "metrics") = At(o, "metrics")
          /\ LastAt(p, "model") = LastAt(o, "model")
          /\ (At(o, "model") # {} => LastValue(p, "model") = LastValue(o, "model"))
      BY <1>1, <1>2, <1>3
    <2> QED BY <1>3, <2>1 DEF ModelTold
  <1>4. ASSUME NEW q, PromptTold(o, q), x[1] # "prompt" PROVE PromptTold(p, q)
    BY <1>1, <1>4 DEF PromptTold
  <1>5. ASSUME NEW e, EvaluatorTold(o, e), x[1] # "evaluator" PROVE EvaluatorTold(p, e)
    BY <1>1, <1>2, <1>5 DEF EvaluatorTold
  <1>6. ASSUME NEW l, LimitTold(o, l), x[1] # "limit" PROVE LimitTold(p, l)
    <2>1. At(p, "limit") = At(o, "limit") /\ \A i \in At(o, "limit") : p[i] = o[i]
      BY <1>1, <1>6
    <2>2. {i \in At(p, "limit") : p[i][2] > 0} = {i \in At(o, "limit") : o[i][2] > 0}
      BY <2>1
    <2> QED BY <1>6, <2>2 DEF LimitTold
  <1>7. ASSUME NEW h, HooksTold(o, h), x[1] # "hook" PROVE HooksTold(p, h)
    BY <1>1, <1>7 DEF HooksTold
  <1>8. x[1] # "planner" => At(p, "planner") = At(o, "planner")
    BY <1>1
  <1> QED BY <1>3, <1>4, <1>5, <1>6, <1>7, <1>8 DEF p

(* WithModel: the model without meters, whatever came before.              *)
LEMMA ModelGiven ==
    ASSUME NEW o \in Seq(AgentOptions), NEW m \in {0, 1, 2}
    PROVE  ModelTold(Append(o, <<"model", m>>), [base |-> m, meters |-> 0])
  <1> DEFINE x == <<"model", m>>
             p == Append(o, x)
             L == Len(o)
             S == {i \in At(p, "metrics") : LastAt(p, "model") < i}
  <1>1. x \in AgentOptions /\ x[1] = "model" /\ x[2] = m
    BY DEF AgentOptions
  <1> HIDE DEF x
  <1>2. /\ L \in Nat /\ At(o, "metrics") \subseteq 1..L
        /\ At(p, "model") = At(o, "model") \union {L + 1} /\ At(p, "metrics") = At(o, "metrics")
    BY <1>1, OneMore
  <1>3. LastAt(p, "model") = L + 1 /\ LastValue(p, "model") = m
    BY <1>1, LastIs
  <1> HIDE DEF p, L
  <1>4. S = {}
    BY <1>2, <1>3
  <1>5. Cardinality(S) = 0
    BY <1>4, FS_EmptySet
  <1> HIDE DEF S
  <1>6. /\ At(p, "model") # {} /\ [base |-> m, meters |-> 0].base = m
        /\ [base |-> m, meters |-> 0].meters = 0
    BY <1>2
  <1> QED BY <1>3, <1>5, <1>6 DEF ModelTold, S, p, x

(* WithMetricsHandler: one meter more on the model there is, or nothing if *)
(* there is none.                                                          *)
LEMMA MetricsGiven ==
    ASSUME NEW o \in Seq(AgentOptions), NEW m \in WrappedModel, ModelTold(o, m)
    PROVE  ModelTold(Append(o, <<"metrics">>),
                     IF m = NilModel THEN m ELSE [m EXCEPT !.meters = @ + 1])
  <1> DEFINE x == <<"metrics">>
             p == Append(o, x)
             L == Len(o)
             last == LastAt(o, "model")
             S == {i \in At(o, "metrics") : last < i}
             R == {i \in At(p, "metrics") : LastAt(p, "model") < i}
             new == [m EXCEPT !.meters = @ + 1]
  <1>1. x \in AgentOptions /\ x[1] = "metrics"
    BY DEF AgentOptions
  <1> HIDE DEF x
  <1>2. /\ L \in Nat /\ At(o, "metrics") \subseteq 1..L
        /\ At(p, "metrics") = At(o, "metrics") \union {L + 1} /\ At(p, "model") = At(o, "model")
    BY <1>1, OneMore
  <1>3. /\ LastAt(p, "model") = last
        /\ At(o, "model") # {} => last \in 1..L /\ LastValue(p, "model") = LastValue(o, "model")
    BY <1>1, LastIs
  <1>4. m.base \in {0, 1, 2} /\ m.meters \in Nat /\ new.base = m.base /\ new.meters = m.meters + 1
        /\ (m.base = 0 /\ m.meters = 0 => m = NilModel) /\ NilModel.base = 0 /\ NilModel.meters = 0
    BY DEF WrappedModel, NilModel
  <1>5. CASE m = NilModel
    <2>1. m.base = 0 /\ m.meters = 0
      BY <1>4, <1>5
    <2>2. ModelTold(p, m)
      <3> HIDE DEF p, last, new
      <3> QED BY <1>2, <1>3, <1>5, <2>1 DEF ModelTold
    <2> QED BY <1>5, <2>2 DEF x
  <1>6. CASE m # NilModel
    <2>1. m.base # 0 /\ At(o, "model") # {}
      BY <1>4, <1>6 DEF ModelTold
    <2>2. m.meters = Cardinality(S) /\ m.base = LastValue(o, "model")
      BY <2>1 DEF ModelTold
    <2> HIDE DEF p, L, last, new
    <2>3. R = S \union {L + 1}
      BY <1>2, <1>3, <2>1
    <2>4. L + 1 \notin S /\ S \subseteq 1..L
      BY <1>2
    <2> HIDE DEF S, R
    <2>5. IsFiniteSet(S)
      <3>1. IsFiniteSet(1..L)
        BY <1>2, FS_Interval
      <3> QED BY <2>4, <3>1, FS_Subset
    <2>6. Cardinality(R) = m.meters + 1
      BY <2>2, <2>3, <2>4, <2>5, FS_AddElement
    <2>7. ModelTold(p, new)
      BY <1>2, <1>3, <1>4, <2>1, <2>2, <2>6 DEF ModelTold, R
    <2> QED BY <1>6, <2>7 DEF p, x, new
  <1> QED BY <1>5, <1>6

(* WithSystemPrompt.                                                       *)
LEMMA PromptGiven ==
    ASSUME NEW o \in Seq(AgentOptions)
    PROVE  PromptTold(Append(o, <<"prompt", "custom">>), "custom")
  <1> DEFINE x == <<"prompt", "custom">>
  <1>1. x \in AgentOptions /\ x[1] = "prompt"
    BY DEF AgentOptions
  <1> HIDE DEF x
  <1>2. Len(o) + 1 \in At(Append(o, x), "prompt")
    BY <1>1, OneMore
  <1> QED BY <1>2 DEF PromptTold, x

(* WithEvaluator: the last one counts, also if it is nil.                  *)
LEMMA EvaluatorGiven ==
    ASSUME NEW o \in Seq(AgentOptions), NEW e \in {NilValue, "e"}
    PROVE  EvaluatorTold(Append(o, <<"evaluator", e>>), e)
  <1> DEFINE x == <<"evaluator", e>>
             p == Append(o, x)
  <1>1. x \in AgentOptions /\ x[1] = "evaluator" /\ x[2] = e
    BY DEF AgentOptions
  <1> HIDE DEF x
  <1>2. Len(o) + 1 \in At(p, "evaluator")
    BY <1>1, OneMore
  <1>3. LastValue(p, "evaluator") = e
    BY <1>1, LastIs
  <1> QED BY <1>2, <1>3 DEF EvaluatorTold, x

(* WithMaxIterations and the other limits: one that is not positive is     *)
(* passed over.                                                            *)
LEMMA LimitGiven ==
    ASSUME NEW o \in Seq(AgentOptions), NEW n \in {0, 3}, NEW l, LimitTold(o, l)
    PROVE  LimitTold(Append(o, <<"limit", n>>), IF n > 0 THEN n ELSE l)
  <1> DEFINE x == <<"limit", n>>
             p == Append(o, x)
             L == Len(o)
             S == {i \in At(o, "limit") : o[i][2] > 0}
             R == {i \in At(p, "limit") : p[i][2] > 0}
  <1>1. x \in AgentOptions /\ x[1] = "limit" /\ x[2] = n
    BY DEF AgentOptions
  <1> HIDE DEF x
  <1>2. /\ L \in Nat /\ At(o, "limit") \subseteq 1..L /\ p[L + 1] = x
        /\ \A i \in 1..L : p[i] = o[i]
        /\ At(p, "limit") = At(o, "limit") \union {L + 1}
    BY <1>1, OneMore
  <1> HIDE DEF p, L
  <1>3. CASE n = 0
    <2>1. ~(n > 0) /\ ~(p[L + 1][2] > 0)
      BY <1>1, <1>2, <1>3
    <2>2. R = S
      BY <1>2, <2>1
    <2> QED BY <2>1, <2>2 DEF LimitTold, p, x
  <1>4. CASE n = 3
    <2>1. n > 0 /\ L + 1 \in R
      BY <1>1, <1>2, <1>4
    <2> QED BY <1>4, <2>1 DEF LimitTold, p, x
  <1> QED BY <1>3, <1>4

(* WithHook: one hook more.                                                *)
LEMMA HookGiven ==
    ASSUME NEW o \in Seq(AgentOptions), NEW n \in Agents, NEW h \in Seq(Agents), HooksTold(o, h)
    PROVE  HooksTold(Append(o, <<"hook", n>>), Append(h, n))
  <1> DEFINE x == <<"hook", n>>
             p == Append(o, x)
             L == Len(o)
             S == At(o, "hook")
  <1>1. x \in AgentOptions /\ x[1] = "hook"
    BY DEF AgentOptions
  <1> HIDE DEF x
  <1>2. L \in Nat /\ S \subseteq 1..L /\ At(p, "hook") = S \union {L + 1}
    BY <1>1, OneMore
  <1>3. Len(Append(h, n)) = Len(h) + 1 /\ Len(h) = Cardinality(S)
    BY DEF HooksTold
  <1> HIDE DEF p, L, S
  <1>4. IsFiniteSet(S) /\ L + 1 \notin S
    <2>1. IsFiniteSet(1..L)
      BY <1>2, FS_Interval
    <2>2. L + 1 \notin 1..L
      BY <1>2
    <2> QED BY <1>2, <2>1, <2>2, FS_Subset
  <1>5. Cardinality(At(p, "hook")) = Cardinality(S) + 1
    BY <1>2, <1>4, FS_AddElement
  <1> QED BY <1>3, <1>5 DEF HooksTold, p, x

\* An option x that is no tool, and what it makes of the agent that is being built.
Makes(x, b) ==
    \/ \E m \in {0, 1, 2} : x = <<"model", m>> /\ b = WithModel(m)
    \/ x = <<"metrics">> /\ b = WithMetricsHandler
    \/ x = <<"planner">> /\ b = WithPlanner
    \/ x = <<"mode", "planAndSolve">> /\ b = WithExecutionMode("planAndSolve")
    \/ x = <<"prompt", "custom">> /\ b = WithSystemPrompt("custom")
    \/ \E e \in {NilValue, "e"} : x = <<"evaluator", e>> /\ b = WithEvaluator(e)
    \/ \E f \in {NilValue, "factory"} : x = <<"factory", f>> /\ b = WithMemoryFactory(f)
    \/ \E m \in {NilValue, "m"} : x = <<"memory", m>> /\ b = WithMemory(m)
    \/ \E n \in {0, 3} : x = <<"limit", n>> /\ b = WithLimit(n)
    \/ \E n \in {-1, 2} : x = <<"schema", n>> /\ b = WithOutputSchema("s", n)
    \/ x = <<"hook", Current>> /\ b = WithHook(Current)
    \/ x = <<"rule">> /\ b = WithRule
    \/ x = <<"registry">> /\ b = WithToolRegistry

\* The agent b is the agent c but for what these fields hold.
SameBut(b, c, fields) ==
    /\ "model" \notin fields => b.model = c.model
    /\ "systemPrompt" \notin fields => b.systemPrompt = c.systemPrompt
    /\ "evaluator" \notin fields => b.evaluator = c.evaluator /\ b.evalEnabled = c.evalEnabled
    /\ "limit" \notin fields => b.limit = c.limit
    /\ "hooks" \notin fields => b.hooks = c.hooks
    /\ "react" \notin fields => b.react = c.react
    /\ "tools" \notin fields => b.tools = c.tools
    /\ b.solve = c.solve /\ b.plannerModel = c.plannerModel
    /\ b.ruleViewRegistered = c.ruleViewRegistered

(* What the fields of an agent hold.                                       *)
LEMMA FieldsAre ==
    ASSUME NEW c \in AgentObject
    PROVE  /\ c.model \in WrappedModel /\ c.evaluator \in {NilValue, "e"}
           /\ c.evalEnabled \in BOOLEAN /\ c.hooks \in Seq(Agents)
           /\ c.tools \in Holders /\ c.rules \in Nat
           /\ c.ruleViewRegistered \in BOOLEAN
           /\ c.systemPrompt \in {"", "custom"} /\ c.mode \in {"react", "planAndSolve"}
           /\ c.react \in {NilValue, "given", "built"} /\ c.solve \in {NilValue, "built"}
           /\ c.memory \in {NilValue, "factory", "returnsNil", "shared", "buffer"}
  <1>1. /\ c.model \in WrappedModel /\ c.evaluator \in EvalValues /\ c.evalEnabled \in BOOLEAN
        /\ c.hooks \in Seq(Agents) /\ c.tools \in Holders /\ c.rules \in Nat
        /\ c.ruleViewRegistered \in BOOLEAN /\ c.systemPrompt \in PromptValues
        /\ c.mode \in ModeValues /\ c.react \in PlannerValues /\ c.solve \in SolveValues
        /\ c.memory \in MemoryValues
    BY DEF AgentObject
  <1> QED BY <1>1 DEF EvalValues, PromptValues, ModeValues, PlannerValues, SolveValues,
                      MemoryValues

(* What an option does not concern is as it was told before.               *)
LEMMA StaysTold ==
    ASSUME NEW o \in Seq(AgentOptions), NEW x \in AgentOptions, NEW c, NEW b,
           Asked(o, c), Waiting(o, c), NEW fields, SameBut(b, c, fields),
           ("model" \notin fields /\ x[1] \notin {"model", "metrics"})
             \/ ModelTold(Append(o, x), b.model),
           ("systemPrompt" \notin fields /\ x[1] # "prompt")
             \/ PromptTold(Append(o, x), b.systemPrompt),
           ("evaluator" \notin fields /\ x[1] # "evaluator")
             \/ (/\ EvaluatorTold(Append(o, x), b.evaluator)
                 /\ b.evalEnabled <=> b.evaluator # NilValue),
           ("limit" \notin fields /\ x[1] # "limit") \/ LimitTold(Append(o, x), b.limit),
           ("hooks" \notin fields /\ x[1] # "hook") \/ HooksTold(Append(o, x), b.hooks),
           ("react" \notin fields /\ x[1] # "planner") \/ (b.react = "given" /\ x[1] = "planner")
    PROVE  Asked(Append(o, x), b) /\ Waiting(Append(o, x), b)
  <1> DEFINE p == Append(o, x)
  <1>1. /\ \A m : ModelTold(o, m) /\ x[1] \notin {"model", "metrics"} => ModelTold(p, m)
        /\ \A q : PromptTold(o, q) /\ x[1] # "prompt" => PromptTold(p, q)
        /\ \A e : EvaluatorTold(o, e) /\ x[1] # "evaluator" => EvaluatorTold(p, e)
        /\ \A l : LimitTold(o, l) /\ x[1] # "limit" => LimitTold(p, l)
        /\ \A h : HooksTold(o, h) /\ x[1] # "hook" => HooksTold(p, h)
        /\ x[1] # "planner" => At(p, "planner") = At(o, "planner")
    BY OtherKinds
  <1>2. x[1] = "planner" => At(p, "planner") # {}
    <2>1. x[1] = "planner" => At(p, "planner") = At(o, "planner") \union {Len(o) + 1}
      BY OneMore
    <2> QED BY <2>1
  <1> HIDE DEF p
  <1>3. ModelTold(p, b.model)
    BY <1>1 DEF Asked, SameBut, p
  <1>4. PromptTold(p, b.systemPrompt)
    BY <1>1 DEF Asked, SameBut, p
  <1>5. EvaluatorTold(p, b.evaluator) /\ (b.evalEnabled <=> b.evaluator # NilValue)
    BY <1>1 DEF Asked, SameBut, p
  <1>6. LimitTold(p, b.limit) /\ HooksTold(p, b.hooks)
    BY <1>1 DEF Asked, SameBut, p
  <1>7. /\ At(p, "planner") # {} => b.react = "given"
        /\ At(p, "planner") = {} => b.react = NilValue
    BY <1>1, <1>2 DEF Asked, Waiting, SameBut
  <1>8. b.solve = NilValue /\ b.plannerModel = NilModel /\ ~b.ruleViewRegistered
    BY DEF Waiting, SameBut
  <1> QED BY <1>3, <1>4, <1>5, <1>6, <1>7, <1>8 DEF Asked, Waiting, p

(* An option makes of an agent that is what its options say one that is    *)
(* what they and this option say.                                          *)
LEMMA OptionMakes ==
    ASSUME a \in AgentObject, Current \in Agents, NEW o \in Seq(AgentOptions),
           Asked(o, a), Waiting(o, a), NEW x, NEW b, Makes(x, b)
    PROVE  /\ x \in AgentOptions /\ x[1] # "tool" /\ b \in AgentObject
           /\ Asked(Append(o, x), b) /\ Waiting(Append(o, x), b)
           /\ b.tools = IF x[1] = "registry" THEN Shared ELSE a.tools
  <1> DEFINE c == a
             p == Append(o, x)
             Goal == /\ x \in AgentOptions /\ x[1] # "tool" /\ b \in AgentObject
                     /\ Asked(p, b) /\ Waiting(p, b)
                     /\ b.tools = IF x[1] = "registry" THEN Shared ELSE c.tools
  <1>0. c \in AgentObject /\ Asked(o, c) /\ Waiting(o, c)
    OBVIOUS
  <1>1. ASSUME NEW m \in {0, 1, 2}, x = <<"model", m>>, b = WithModel(m) PROVE Goal
    <2>1. x \in AgentOptions /\ x[1] = "model"
      BY <1>1 DEF AgentOptions
    <2>2. b = [c EXCEPT !.model = [base |-> m, meters |-> 0]]
      BY <1>1 DEF WithModel
    <2> DEFINE v == [base |-> m, meters |-> 0]
    <2>3. v \in WrappedModel
      BY <1>1 DEF WrappedModel
    <2>4. ModelTold(p, v)
      BY <1>1, ModelGiven
    <2> HIDE DEF c, v, p
    <2>5. b \in AgentObject /\ SameBut(b, c, {"model"}) /\ b.model = v
      <3>1. b = [c EXCEPT !.model = v]
        BY <2>2 DEF v
      <3>2. b \in AgentObject
        BY <1>0, <2>3, <3>1 DEF AgentObject
      <3>3. SameBut(b, c, {"model"}) /\ b.model = v
        BY <1>0, <2>3, <3>1 DEF AgentObject, SameBut
      <3> QED BY <3>2, <3>3
    <2>6. ModelTold(p, b.model)
      BY <2>4, <2>5
    <2>7. Asked(p, b) /\ Waiting(p, b)
      <3> DEFINE fs == {"model"}
      <3>1. SameBut(b, c, fs)
        BY <2>1, <2>5, <2>6
      <3> QED BY <1>0, <2>1, <2>5, <2>6, <3>1, StaysTold DEF p
    <2> QED BY <2>1, <2>5, <2>6, <2>7, <1>0 DEF SameBut
  <1>2. ASSUME x = <<"metrics">>, b = WithMetricsHandler PROVE Goal
    <2>1. x \in AgentOptions /\ x[1] = "metrics"
      BY <1>2 DEF AgentOptions
    <2> DEFINE v == IF c.model = NilModel THEN c.model ELSE [c.model EXCEPT !.meters = @ + 1]
    <2>2. c.model \in WrappedModel
      BY <1>0, FieldsAre
    <2>3. v \in WrappedModel
      BY <2>2 DEF WrappedModel
    <2>4. ModelTold(p, v)
      BY <1>0, <1>2, <2>2, MetricsGiven DEF Asked
    <2>5. b \in AgentObject /\ SameBut(b, c, {"model"}) /\ b.model = v
      <3>1. CASE c.model = NilModel
        <4>1. b = c
          BY <1>2, <3>1 DEF WithMetricsHandler
        <4> QED BY <1>0, <3>1, <4>1 DEF SameBut
      <3>2. CASE c.model # NilModel
        <4>1. b = [c EXCEPT !.model.meters = @ + 1]
          BY <1>2, <3>2 DEF WithMetricsHandler
        <4> HIDE DEF c
        <4>2. [c EXCEPT !.model.meters = @ + 1] = [c EXCEPT !.model = v]
          BY <1>0, <3>2 DEF AgentObject
        <4> HIDE DEF v
        <4>3. b = [c EXCEPT !.model = v]
          BY <4>1, <4>2
        <4>4. b \in AgentObject
          BY <1>0, <2>3, <4>3 DEF AgentObject
        <4>5. SameBut(b, c, {"model"}) /\ b.model = v
          BY <1>0, <2>3, <4>3 DEF AgentObject, SameBut
        <4> QED BY <4>4, <4>5
      <3> QED BY <3>1, <3>2
    <2> HIDE DEF c, v, p
    <2>6. ModelTold(p, b.model)
      BY <2>4, <2>5
    <2>7. Asked(p, b) /\ Waiting(p, b)
      <3> DEFINE fs == {"model"}
      <3>1. SameBut(b, c, fs)
        BY <2>1, <2>5, <2>6
      <3> QED BY <1>0, <2>1, <2>5, <2>6, <3>1, StaysTold DEF p
    <2> QED BY <2>1, <2>5, <2>6, <2>7, <1>0 DEF SameBut
  <1>3. ASSUME x = <<"planner">>, b = WithPlanner PROVE Goal
    <2>1. x \in AgentOptions /\ x[1] = "planner"
      BY <1>3 DEF AgentOptions
    <2>2. b \in AgentObject /\ SameBut(b, c, {"react"}) /\ b.react = "given"
      <3>1. b = [c EXCEPT !.react = "given"]
        BY <1>3 DEF WithPlanner
      <3> DEFINE v == "given"
      <3>2. b = [c EXCEPT !.react = v] /\ v \in PlannerValues
        BY <3>1 DEF PlannerValues
      <3> HIDE DEF c, v
      <3>3. b \in AgentObject
        BY <1>0, <3>2 DEF AgentObject
      <3>4. SameBut(b, c, {"react"}) /\ b.react = v
        BY <1>0, <3>2 DEF AgentObject, SameBut
      <3> QED BY <3>3, <3>4 DEF v
    <2> HIDE DEF c, p
    <2>7. Asked(p, b) /\ Waiting(p, b)
      <3> DEFINE fs == {"react"}
      <3>1. SameBut(b, c, fs)
        BY <2>1, <2>2
      <3> QED BY <1>0, <2>1, <2>2, <3>1, StaysTold DEF p
    <2> QED BY <2>1, <2>2, <2>7, <1>0 DEF SameBut
  <1>4. ASSUME x = <<"mode", "planAndSolve">>, b = WithExecutionMode("planAndSolve") PROVE Goal
    <2>1. x \in AgentOptions /\ x[1] = "mode"
      BY <1>4 DEF AgentOptions
    <2>2. b \in AgentObject /\ SameBut(b, c, {})
      <3>1. b = [c EXCEPT !.mode = "planAndSolve"]
        BY <1>4 DEF WithExecutionMode
      <3> DEFINE v == "planAndSolve"
      <3>2. b = [c EXCEPT !.mode = v] /\ v \in ModeValues
        BY <3>1 DEF ModeValues
      <3> HIDE DEF c, v
      <3>3. b \in AgentObject
        BY <1>0, <3>2 DEF AgentObject
      <3>4. SameBut(b, c, {})
        BY <1>0, <3>2 DEF AgentObject, SameBut
      <3> QED BY <3>3, <3>4
    <2> HIDE DEF c, p
    <2>7. Asked(p, b) /\ Waiting(p, b)
      <3> DEFINE fs == {}
      <3>1. SameBut(b, c, fs)
        BY <2>1, <2>2
      <3> QED BY <1>0, <2>1, <2>2, <3>1, StaysTold DEF p
    <2> QED BY <2>1, <2>2, <2>7, <1>0 DEF SameBut
  <1>5. ASSUME x = <<"prompt", "custom">>, b = WithSystemPrompt("custom") PROVE Goal
    <2>1. x \in AgentOptions /\ x[1] = "prompt"
      BY <1>5 DEF AgentOptions
    <2>2. b \in AgentObject /\ SameBut(b, c, {"systemPrompt"}) /\ b.systemPrompt = "custom"
      <3>1. b = [c EXCEPT !.systemPrompt = "custom"]
        BY <1>5 DEF WithSystemPrompt
      <3> DEFINE v == "custom"
      <3>2. b = [c EXCEPT !.systemPrompt = v] /\ v \in PromptValues
        BY <3>1 DEF PromptValues
      <3> HIDE DEF c, v
      <3>3. b \in AgentObject
        BY <1>0, <3>2 DEF AgentObject
      <3>4. SameBut(b, c, {"systemPrompt"}) /\ b.systemPrompt = v
        BY <1>0, <3>2 DEF AgentObject, SameBut
      <3> QED BY <3>3, <3>4 DEF v
    <2>3. PromptTold(p, b.systemPrompt)
      BY <1>5, <2>2, PromptGiven
    <2> HIDE DEF c, p
    <2>7. Asked(p, b) /\ Waiting(p, b)
      <3> DEFINE fs == {"systemPrompt"}
      <3>1. SameBut(b, c, fs)
        BY <2>1, <2>2, <2>3
      <3> QED BY <1>0, <2>1, <2>2, <2>3, <3>1, StaysTold DEF p
    <2> QED BY <2>1, <2>2, <2>3, <2>7, <1>0 DEF SameBut
  <1>6. ASSUME NEW e \in {NilValue, "e"}, x = <<"evaluator", e>>, b = WithEvaluator(e) PROVE Goal
    <2>1. x \in AgentOptions /\ x[1] = "evaluator"
      BY <1>6 DEF AgentOptions
    <2>2. /\ b \in AgentObject /\ SameBut(b, c, {"evaluator"})
          /\ b.evaluator = e /\ (b.evalEnabled <=> e # NilValue)
      <3>1. b = [c EXCEPT !.evaluator = e, !.evalEnabled = e # NilValue]
        BY <1>6 DEF WithEvaluator
      <3> DEFINE t == e # NilValue
      <3>2. b = [c EXCEPT !.evaluator = e, !.evalEnabled = t] /\ t \in BOOLEAN
        BY <3>1
      <3>3. e \in EvalValues
        BY <1>6 DEF EvalValues
      <3> HIDE DEF c, t
      <3>4. /\ b \in AgentObject /\ SameBut(b, c, {"evaluator"})
            /\ b.evaluator = e /\ b.evalEnabled = t
        BY <1>0, <3>2, <3>3 DEF AgentObject, SameBut
      <3> QED BY <3>4 DEF t
    <2>3. EvaluatorTold(p, b.evaluator) /\ (b.evalEnabled <=> b.evaluator # NilValue)
      BY <1>6, <2>2, EvaluatorGiven
    <2> HIDE DEF c, p
    <2>7. Asked(p, b) /\ Waiting(p, b)
      <3> DEFINE fs == {"evaluator"}
      <3>1. SameBut(b, c, fs)
        BY <2>1, <2>2, <2>3
      <3> QED BY <1>0, <2>1, <2>2, <2>3, <3>1, StaysTold DEF p
    <2> QED BY <2>1, <2>2, <2>3, <2>7, <1>0 DEF SameBut
  <1>7. ASSUME NEW f \in {NilValue, "factory"}, x = <<"factory", f>>, b = WithMemoryFactory(f)
        PROVE  Goal
    <2>1. x \in AgentOptions /\ x[1] = "factory"
      BY <1>7 DEF AgentOptions
    <2>2. b \in AgentObject /\ SameBut(b, c, {})
      <3>1. b = [c EXCEPT !.memory = f]
        BY <1>7 DEF WithMemoryFactory
      <3> HIDE DEF c
      <3>2. f \in MemoryValues
        BY <1>7 DEF MemoryValues
      <3>3. b \in AgentObject
        BY <1>0, <3>1, <3>2 DEF AgentObject
      <3>4. SameBut(b, c, {})
        BY <1>0, <3>1, <3>2 DEF AgentObject, SameBut
      <3> QED BY <3>3, <3>4
    <2> HIDE DEF c, p
    <2>7. Asked(p, b) /\ Waiting(p, b)
      <3> DEFINE fs == {}
      <3>1. SameBut(b, c, fs)
        BY <2>1, <2>2
      <3> QED BY <1>0, <2>1, <2>2, <3>1, StaysTold DEF p
    <2> QED BY <2>1, <2>2, <2>7, <1>0 DEF SameBut
  <1>8. ASSUME NEW m \in {NilValue, "m"}, x = <<"memory", m>>, b = WithMemory(m) PROVE Goal
    <2>1. x \in AgentOptions /\ x[1] = "memory"
      BY <1>8 DEF AgentOptions
    <2>2. b \in AgentObject /\ SameBut(b, c, {})
      <3>1. b = [c EXCEPT !.memory = IF m = NilValue THEN "returnsNil" ELSE "shared"]
        BY <1>8 DEF WithMemory
      <3> DEFINE v == IF m = NilValue THEN "returnsNil" ELSE "shared"
      <3>2. b = [c EXCEPT !.memory = v] /\ v \in MemoryValues
        BY <3>1 DEF MemoryValues
      <3> HIDE DEF c, v
      <3>3. b \in AgentObject
        BY <1>0, <3>2 DEF AgentObject
      <3>4. SameBut(b, c, {})
        BY <1>0, <3>2 DEF AgentObject, SameBut
      <3> QED BY <3>3, <3>4
    <2> HIDE DEF c, p
    <2>7. Asked(p, b) /\ Waiting(p, b)
      <3> DEFINE fs == {}
      <3>1. SameBut(b, c, fs)
        BY <2>1, <2>2
      <3> QED BY <1>0, <2>1, <2>2, <3>1, StaysTold DEF p
    <2> QED BY <2>1, <2>2, <2>7, <1>0 DEF SameBut
  <1>9. ASSUME NEW n \in {0, 3}, x = <<"limit", n>>, b = WithLimit(n) PROVE Goal
    <2>1. x \in AgentOptions /\ x[1] = "limit"
      BY <1>9 DEF AgentOptions
    <2>2. b \in AgentObject /\ SameBut(b, c, {"limit"}) /\ b.limit = IF n > 0 THEN n ELSE c.limit
      <3>1. CASE n = 3
        <4>1. b = [c EXCEPT !.limit = 3] /\ n > 0
          BY <1>9, <3>1 DEF WithLimit
        <4> HIDE DEF c
        <4>2. 3 \in LimitValues
          BY DEF LimitValues
        <4>3. b \in AgentObject
          BY <1>0, <4>1, <4>2 DEF AgentObject
        <4>4. SameBut(b, c, {"limit"}) /\ b.limit = 3
          BY <1>0, <4>1 DEF AgentObject, SameBut
        <4> QED BY <3>1, <4>1, <4>3, <4>4
      <3>2. CASE n = 0
        <4>1. b = c /\ ~(n > 0)
          BY <1>9, <3>2 DEF WithLimit
        <4> HIDE DEF c
        <4> QED BY <1>0, <4>1 DEF SameBut
      <3> QED BY <1>9, <3>1, <3>2
    <2>3. LimitTold(o, c.limit)
      BY <1>0 DEF Asked
    <2>4. LimitTold(p, IF n > 0 THEN n ELSE c.limit)
      BY <1>9, <2>3, LimitGiven
    <2> HIDE DEF c, p
    <2>5. LimitTold(p, b.limit)
      BY <2>2, <2>4
    <2>7. Asked(p, b) /\ Waiting(p, b)
      <3> DEFINE fs == {"limit"}
      <3>1. SameBut(b, c, fs)
        BY <2>1, <2>2, <2>5
      <3> QED BY <1>0, <2>1, <2>2, <2>5, <3>1, StaysTold DEF p
    <2> QED BY <2>1, <2>2, <2>5, <2>7, <1>0 DEF SameBut
  <1>10. ASSUME NEW n \in {-1, 2}, x = <<"schema", n>>, b = WithOutputSchema("s", n) PROVE Goal
    <2>1. x \in AgentOptions /\ x[1] = "schema"
      BY <1>10 DEF AgentOptions
    <2>2. b \in AgentObject /\ SameBut(b, c, {})
      <3>1. b = [c EXCEPT !.schema = "s", !.autoRetry = IF n >= 0 THEN n ELSE @]
        BY <1>10 DEF WithOutputSchema
      <3> DEFINE v == IF n >= 0 THEN n ELSE c.autoRetry
                 w == "s"
      <3>2. b = [c EXCEPT !.schema = w, !.autoRetry = v] /\ w \in SchemaValues
        BY <3>1 DEF SchemaValues
      <3> HIDE DEF c, w
      <3>3. c.autoRetry \in Nat
        BY <1>0 DEF AgentObject
      <3>4. v \in Nat
        BY <1>10, <3>3
      <3> HIDE DEF v
      <3>5. b \in AgentObject
        BY <1>0, <3>2, <3>4 DEF AgentObject
      <3>6. SameBut(b, c, {})
        BY <1>0, <3>2, <3>4 DEF AgentObject, SameBut
      <3> QED BY <3>5, <3>6
    <2> HIDE DEF c, p
    <2>7. Asked(p, b) /\ Waiting(p, b)
      <3> DEFINE fs == {}
      <3>1. SameBut(b, c, fs)
        BY <2>1, <2>2
      <3> QED BY <1>0, <2>1, <2>2, <3>1, StaysTold DEF p
    <2> QED BY <2>1, <2>2, <2>7, <1>0 DEF SameBut
  <1>11. ASSUME x = <<"hook", Current>>, b = WithHook(Current) PROVE Goal
    <2>1. x \in AgentOptions /\ x[1] = "hook"
      BY <1>11 DEF AgentOptions
    <2>2. c.hooks \in Seq(Agents)
      BY <1>0, FieldsAre
    <2>3. HooksTold(p, Append(c.hooks, Current))
      BY <1>0, <1>11, <2>2, HookGiven DEF Asked
    <2>4. b \in AgentObject /\ SameBut(b, c, {"hooks"}) /\ b.hooks = Append(c.hooks, Current)
      <3> DEFINE v == Append(c.hooks, Current)
      <3>1. b = [c EXCEPT !.hooks = v]
        BY <1>11 DEF WithHook
      <3>2. v \in Seq(Agents)
        BY <2>2
      <3> HIDE DEF c, v
      <3>3. b \in AgentObject /\ SameBut(b, c, {"hooks"}) /\ b.hooks = v
        BY <1>0, <3>1, <3>2 DEF AgentObject, SameBut
      <3> QED BY <3>3 DEF v
    <2> HIDE DEF c, p
    <2>5. HooksTold(p, b.hooks)
      BY <2>3, <2>4
    <2>7. Asked(p, b) /\ Waiting(p, b)
      <3> DEFINE fs == {"hooks"}
      <3>1. SameBut(b, c, fs)
        BY <2>1, <2>4, <2>5
      <3> QED BY <1>0, <2>1, <2>4, <2>5, <3>1, StaysTold DEF p
    <2> QED BY <2>1, <2>4, <2>5, <2>7, <1>0 DEF SameBut
  <1>12. ASSUME x = <<"rule">>, b = WithRule PROVE Goal
    <2>1. x \in AgentOptions /\ x[1] = "rule"
      BY <1>12 DEF AgentOptions
    <2>2. b \in AgentObject /\ SameBut(b, c, {})
      <3> DEFINE v == c.rules + 1
      <3>1. b = [c EXCEPT !.rules = v]
        BY <1>12 DEF WithRule
      <3>2. c.rules \in Nat
        BY <1>0, FieldsAre
      <3>3. v \in Nat
        BY <3>2
      <3> HIDE DEF c, v
      <3>4. b \in AgentObject
        BY <1>0, <3>1, <3>3 DEF AgentObject
      <3>5. SameBut(b, c, {})
        BY <1>0, <3>1, <3>3 DEF AgentObject, SameBut
      <3> QED BY <3>4, <3>5
    <2> HIDE DEF c, p
    <2>7. Asked(p, b) /\ Waiting(p, b)
      <3> DEFINE fs == {}
      <3>1. SameBut(b, c, fs)
        BY <2>1, <2>2
      <3> QED BY <1>0, <2>1, <2>2, <3>1, StaysTold DEF p
    <2> QED BY <2>1, <2>2, <2>7, <1>0 DEF SameBut
  <1>13. ASSUME x = <<"registry">>, b = WithToolRegistry PROVE Goal
    <2>1. x \in AgentOptions /\ x[1] = "registry"
      BY <1>13 DEF AgentOptions
    <2>2. b \in AgentObject /\ SameBut(b, c, {"tools"}) /\ b.tools = Shared
      <3>1. b = [c EXCEPT !.tools = Shared]
        BY <1>13 DEF WithToolRegistry
      <3> HIDE DEF c
      <3>4. Shared \in Holders
        BY DEF Holders
      <3>2. b \in AgentObject
        BY <1>0, <3>1, <3>4 DEF AgentObject
      <3>3. SameBut(b, c, {"tools"}) /\ b.tools = Shared
        BY <1>0, <3>1 DEF AgentObject, SameBut
      <3> QED BY <3>2, <3>3
    <2> HIDE DEF c, p
    <2>7. Asked(p, b) /\ Waiting(p, b)
      <3> DEFINE fs == {"tools"}
      <3>1. SameBut(b, c, fs)
        BY <2>1, <2>2
      <3> QED BY <1>0, <2>1, <2>2, <3>1, StaysTold DEF p
    <2> QED BY <2>1, <2>2, <2>7, <1>0 DEF SameBut
  <1> HIDE DEF Goal
  <1>14. Goal
    BY <1>1, <1>2, <1>3, <1>4, <1>5, <1>6, <1>7, <1>8, <1>9, <1>10, <1>11, <1>12, <1>13 DEF Makes
  <1> QED BY <1>14 DEF Goal

(* A tool more in one of the registries.                                   *)
LEMMA ToolAdded ==
    ASSUME BuildTypes, NEW r \in Holders, NEW name \in {"tool", "rule_view"},
           NEW w \in {Program} \union Agents
    PROVE  LET t == AddTool(r, name, w)
           IN  /\ t \in [Holders -> Boxes]
               /\ name \in DOMAIN t[r] /\ t[r][name] = w
               /\ \A q \in Holders :
                    DOMAIN registries[q] \subseteq DOMAIN t[q] /\ (q # r => t[q] = registries[q])
  <1> DEFINE t == AddTool(r, name, w)
             Q == Holders
             D == DOMAIN registries[r] \union {name}
             f == [m \in D |-> IF m = name THEN w ELSE registries[r][m]]
  <1>1. registries \in [Q -> Boxes] /\ r \in Q
    BY DEF BuildTypes
  <1>2. t = [registries EXCEPT ![r] = f]
    BY DEF AddTool
  <1>3. f \in Boxes
    <2>1. registries[r] \in Boxes
      BY <1>1
    <2>2. PICK E \in SUBSET {"tool", "rule_view"} : registries[r] \in [E -> {Program} \union Agents]
      BY <2>1 DEF Boxes
    <2>3. D \in SUBSET {"tool", "rule_view"} /\ f \in [D -> {Program} \union Agents]
      BY <2>2
    <2> HIDE DEF D, f
    <2> QED BY <2>3 DEF Boxes
  <1>4. DOMAIN f = D /\ f[name] = w
    OBVIOUS
  <1> HIDE DEF t, Q, f
  <1>5. t \in [Q -> Boxes] /\ t[r] = f /\ \A q \in Q : q # r => t[q] = registries[q]
    BY <1>1, <1>2, <1>3
  <1>6. \A q \in Q : DOMAIN registries[q] \subseteq DOMAIN t[q]
    BY <1>4, <1>5
  <1> QED BY <1>4, <1>5, <1>6 DEF t, Q

(* The agents and their options, by their numbers.                         *)
LEMMA AgentsAre ==
    ASSUME BuildTypes
    PROVE  /\ Current \in Nat /\ 1..Current \subseteq Agents /\ Shared \notin Agents
           /\ \A n \in 1..Current : /\ agents[n] \in AgentObject /\ told[n] \in Seq(AgentOptions)
                                    /\ agents[n].tools \in Holders
                                    /\ n \in Nat
  <1>1. /\ Current \in Nat /\ Current <= MaxAgents /\ MaxAgents \in Nat
        /\ \A n \in 1..Current : agents[n] \in AgentObject /\ told[n] \in Seq(AgentOptions)
    BY BuildAssumption DEF BuildTypes, Current
  <1>2. 1..Current \subseteq Agents /\ Shared \notin Agents
    BY <1>1 DEF Agents, Shared
  <1>3. ASSUME NEW n \in 1..Current
        PROVE  agents[n].tools \in Holders /\ n \in Nat
    <2>1. agents[n] \in AgentObject
      BY <1>1
    <2>2. agents[n].tools \in Holders
      BY <2>1, FieldsAre
    <2> QED BY <1>1, <2>2
  <1> QED BY <1>1, <1>2, <1>3

(* An agent that no step touches keeps what it has: its registry only      *)
(* grows, and its rule_view is replaced only by one who has the registry.  *)
LEMMA UntouchedKeeps ==
    ASSUME NEW n, AgentInvAt(n), ToolsInv(n), agents'[n] = agents[n], told'[n] = told[n],
           Built(n)' <=> Built(n),
           DOMAIN registries[agents[n].tools] \subseteq DOMAIN registries'[agents[n].tools],
           Built(n) /\ Alone(n)'
             => Alone(n) /\ registries'[agents[n].tools] = registries[agents[n].tools]
    PROVE  AgentInvAt(n)' /\ ToolsInv(n)'
  <1>1. AgentInvAt(n)'
    <2>1. AgentInvAt(n)' <=> /\ Asked(told'[n], agents'[n])
                             /\ ~(Built(n)') => Waiting(told'[n], agents'[n])
                             /\ Built(n)' => Ready(told'[n], agents'[n])
      BY DEF AgentInvAt
    <2> QED BY <2>1 DEF AgentInvAt
  <1>2. ToolsInv(n)'
    BY DEF ToolsInv
  <1> QED BY <1>1, <1>2

(* The next agent.                                                         *)
LEMMA BeginKeeps == BuildInv /\ BeginAgent => BuildInv'
  <1> SUFFICES ASSUME BuildInv, BeginAgent PROVE BuildInv'
    OBVIOUS
  <1>00. PICK C : C = Current
    OBVIOUS
  <1> DEFINE new == Fresh(C + 1)
  <1>0. BuildTypes /\ \A n \in 1..C : AgentInvAt(n) /\ ToolsInv(n)
    BY <1>00 DEF BuildInv
  <1>1. /\ C \in Nat /\ 1..C \subseteq Agents /\ Shared \notin Agents
        /\ \A n \in 1..C : agents[n] \in AgentObject /\ n \in Nat
    BY <1>00, <1>0, AgentsAre
  <1>2. /\ phase = "built" /\ C < MaxAgents /\ agents' = Append(agents, new)
        /\ told' = Append(told, <<>>) /\ phase' = "options" /\ registries' = registries
    BY <1>00 DEF BeginAgent
  <1>3. C + 1 \in Agents
    BY <1>1, <1>2, BuildAssumption DEF Agents
  <1>4. NilModel \in WrappedModel
    BY DEF NilModel, WrappedModel
  <1>5. new \in AgentObject
    <2>1. <<>> \in Seq(Agents)
      OBVIOUS
    <2> DEFINE none == <<>>
    <2>2. new = [model |-> NilModel, react |-> NilValue, solve |-> NilValue,
                 plannerModel |-> NilModel, planner |-> NilValue, mode |-> "react",
                 systemPrompt |-> "", base |-> "", evaluator |-> NilValue, evalEnabled |-> FALSE,
                 memory |-> NilValue, limit |-> DefaultLimit, schema |-> NilValue, autoRetry |-> 0,
                 hooks |-> none, rules |-> 0, tools |-> C + 1, executor |-> C + 1,
                 ruleViewRegistered |-> FALSE]
      BY DEF Fresh
    <2>3. none \in Seq(Agents)
      BY <2>1
    <2>4. C + 1 \in Holders
      BY <1>3 DEF Holders
    <2>5. /\ NilValue \in PlannerValues \cap InUseValues
          /\ NilValue \in SolveValues /\ "react" \in ModeValues
          /\ "" \in PromptValues /\ "" \in BaseValues /\ NilValue \in EvalValues
          /\ NilValue \in MemoryValues /\ DefaultLimit \in LimitValues /\ NilValue \in SchemaValues
      BY DEF PlannerValues, InUseValues, SolveValues, ModeValues, PromptValues, BaseValues,
             EvalValues, MemoryValues, LimitValues, SchemaValues
    <2> HIDE DEF none, new
    <2> QED BY <1>4, <2>2, <2>3, <2>4, <2>5 DEF AgentObject
  <1>6. /\ new.model = NilModel /\ new.react = NilValue /\ new.solve = NilValue
        /\ new.plannerModel = NilModel /\ new.systemPrompt = "" /\ new.evaluator = NilValue
        /\ ~new.evalEnabled /\ new.limit = DefaultLimit /\ new.hooks = <<>> /\ new.rules = 0
        /\ new.tools = C + 1 /\ ~new.ruleViewRegistered
    BY DEF Fresh
  <1> HIDE DEF new
  <1>7. /\ Len(agents') = C + 1 /\ Current' = C + 1 /\ agents'[C + 1] = new
        /\ told'[C + 1] = <<>> /\ \A n \in 1..C : agents'[n] = agents[n] /\ told'[n] = told[n]
    BY <1>00, <1>0, <1>2 DEF BuildTypes, Current
  <1>8. BuildTypes'
    <2>1. /\ agents' \in Seq(AgentObject) /\ told' \in Seq(Seq(AgentOptions))
          /\ Len(told') = Len(agents')
      <3>1. <<>> \in Seq(AgentOptions)
        OBVIOUS
      <3> QED BY <1>00, <1>0, <1>2, <1>5, <3>1 DEF BuildTypes, Current
    <2>2. Len(agents') <= MaxAgents /\ Len(agents') > 0
      BY <1>1, <1>2, <1>7, BuildAssumption
    <2> QED BY <1>0, <1>2, <2>1, <2>2 DEF BuildTypes
  <1>9. ASSUME NEW n \in 1..C PROVE AgentInvAt(n)' /\ ToolsInv(n)'
    <2>1. AgentInvAt(n) /\ ToolsInv(n) /\ agents'[n] = agents[n] /\ told'[n] = told[n]
      BY <1>0, <1>7
    <2>2. Built(n)' /\ Built(n)
      <3>1. n < C + 1
        BY <1>1
      <3> QED BY <1>00, <1>2, <1>7, <3>1 DEF Built
    <2>3. Alone(n)' => Alone(n)
      <3>1. \A k \in 1..C : k \in 1..(C + 1)
        BY <1>1
      <3> QED BY <1>00, <1>7, <3>1 DEF Alone
    <2> QED BY <1>2, <2>1, <2>2, <2>3, UntouchedKeeps
  <1>10. AgentInvAt(C + 1)' /\ ToolsInv(C + 1)'
    <2>1. \A k : At(<<>>, k) = {}
      BY DEF At
    <2>2. Asked(<<>>, new) /\ Waiting(<<>>, new)
      <3>1. ModelTold(<<>>, NilModel)
        BY <2>1 DEF ModelTold, NilModel
      <3>2. PromptTold(<<>>, "") /\ EvaluatorTold(<<>>, NilValue)
        BY <2>1 DEF PromptTold, EvaluatorTold
      <3>3. LimitTold(<<>>, DefaultLimit)
        <4>1. {i \in At(<<>>, "limit") : <<>>[i][2] > 0} = {}
          BY <2>1
        <4> QED BY <4>1 DEF LimitTold
      <3>4. HooksTold(<<>>, <<>>)
        BY <2>1, FS_EmptySet DEF HooksTold
      <3> QED BY <1>6, <2>1, <3>1, <3>2, <3>3, <3>4 DEF Asked, Waiting
    <2>3. ~(Built(C + 1)')
      <3>1. ~(C + 1 < C + 1)
        BY <1>1
      <3> QED BY <1>00, <1>2, <1>7, <3>1 DEF Built
    <2>4. AgentInvAt(C + 1)'
      BY <1>7, <2>2, <2>3 DEF AgentInvAt
    <2>5. ToolsInv(C + 1)'
      BY <1>6, <1>7, <2>1, <2>3 DEF ToolsInv
    <2> QED BY <2>4, <2>5
  <1>11. \A n \in 1..(C + 1) : n \in 1..C \/ n = C + 1
    BY <1>1
  <1> QED BY <1>7, <1>8, <1>9, <1>10, <1>11 DEF BuildInv

(* An option of the agent that is being built leaves the others alone.     *)
LEMMA GivenKeeps ==
    ASSUME BuildInv, NEW x \in AgentOptions, NEW b \in AgentObject, Given(x, b),
           Asked(Append(told[Current], x), b), Waiting(Append(told[Current], x), b),
           b.tools \in {Shared, a.tools}, registries' \in [Holders -> Boxes],
           \A q \in Holders :
             DOMAIN registries[q] \subseteq DOMAIN registries'[q]
               /\ (q # a.tools => registries'[q] = registries[q]),
           LET p == Append(told[Current], x)
           IN  \A i \in At(p, "tool") :
                 (\A j \in At(p, "registry") : j < i) => p[i][2] \in DOMAIN registries'[b.tools]
    PROVE  BuildInv'
  <1>00. PICK C : C = Current
    OBVIOUS
  <1>0. BuildTypes /\ \A n \in 1..C : AgentInvAt(n) /\ ToolsInv(n)
    BY <1>00 DEF BuildInv
  <1>1. /\ C \in Nat /\ 1..C \subseteq Agents /\ Shared \notin Agents
        /\ \A n \in 1..C : /\ agents[n] \in AgentObject /\ told[n] \in Seq(AgentOptions)
                           /\ agents[n].tools \in Holders /\ n \in Nat
    BY <1>00, <1>0, AgentsAre
  <1>2. /\ phase = "options" /\ phase' = "options"
        /\ told' = [told EXCEPT ![C] = Append(@, x)] /\ agents' = [agents EXCEPT ![C] = b]
    BY <1>00 DEF Given
  <1>3. C \in 1..C /\ C > 0
    BY <1>00, <1>0, <1>1, <1>2 DEF BuildTypes, Current
  <1> DEFINE p == Append(told[C], x)
  <1>4. /\ agents' \in Seq(AgentObject) /\ Len(agents') = C /\ agents'[C] = b
        /\ \A n \in 1..C : n # C => agents'[n] = agents[n]
    BY <1>00, <1>0, <1>2, <1>3 DEF BuildTypes, Current
  <1>5. /\ told' \in Seq(Seq(AgentOptions)) /\ Len(told') = C /\ told'[C] = p
        /\ \A n \in 1..C : n # C => told'[n] = told[n]
    <2>1. p \in Seq(AgentOptions)
      BY <1>1, <1>3
    <2>2. told \in Seq(Seq(AgentOptions)) /\ Len(told) = C
      BY <1>00, <1>0 DEF BuildTypes, Current
    <2>3. told' = [told EXCEPT ![C] = p]
      BY <1>2
    <2> HIDE DEF p
    <2> QED BY <1>3, <2>1, <2>2, <2>3
  <1>6. Current' = C
    BY <1>4 DEF Current
  <1>7. BuildTypes'
    <2>1. Len(agents') <= MaxAgents /\ Len(agents') > 0
      BY <1>00, <1>0, <1>3, <1>4 DEF BuildTypes, Current
    <2> QED BY <1>2, <1>4, <1>5, <2>1 DEF BuildTypes
  <1>8. \A n \in 1..C : n # C => n < C
    BY <1>1
  <1>9. ~(C < C)
    BY <1>1
  <1>10. a = agents[C] /\ a.tools \in {Shared, C}
    BY <1>00, <1>0, <1>3 DEF a, ToolsInv
  <1> DEFINE mine == agents[C].tools
  <1>11. ASSUME NEW n \in 1..C, n # C PROVE AgentInvAt(n)' /\ ToolsInv(n)'
    <2> DEFINE his == agents[n].tools
    <2>1. AgentInvAt(n) /\ ToolsInv(n) /\ agents'[n] = agents[n] /\ told'[n] = told[n]
      BY <1>0, <1>4, <1>5, <1>11
    <2>2. Built(n)' /\ Built(n)
      BY <1>00, <1>6, <1>8, <1>11 DEF Built
    <2>3. his \in {Shared, n} /\ his \in Holders
      BY <1>1, <2>1 DEF ToolsInv
    <2>4. ASSUME Alone(n)' PROVE Alone(n) /\ registries'[his] = registries[his]
      <3>1. b.tools # his
        BY <1>3, <1>4, <1>6, <1>11, <2>1, <2>4 DEF Alone
      <3>2. mine # his
        <4>1. CASE b.tools = mine
          BY <3>1, <4>1
        <4>2. CASE b.tools = Shared
          <5>1. his = n
            BY <2>3, <3>1, <4>2
          <5>2. mine \in {Shared, C} /\ n # Shared
            BY <1>1, <1>10
          <5> QED BY <1>11, <5>1, <5>2
        <4> QED BY <1>10, <4>1, <4>2
      <3>3. Alone(n)
        <4> SUFFICES ASSUME NEW k \in 1..C, k # n PROVE agents[k].tools # his
          BY <1>00 DEF Alone
        <4>1. CASE k = C
          BY <3>2, <4>1
        <4>2. CASE k # C
          <5>1. agents'[k] = agents[k]
            BY <1>4, <4>2
          <5>2. agents'[k].tools # agents'[n].tools
            BY <1>6, <2>4 DEF Alone
          <5> QED BY <2>1, <5>1, <5>2
        <4> QED BY <4>1, <4>2
      <3> QED BY <1>10, <2>3, <3>2, <3>3
    <2>5. DOMAIN registries[his] \subseteq DOMAIN registries'[his]
      BY <2>3
    <2> QED BY <2>1, <2>2, <2>4, <2>5, UntouchedKeeps
  <1>12. AgentInvAt(C)' /\ ToolsInv(C)'
    <2>1. ~(Built(C)')
      BY <1>2, <1>6, <1>9 DEF Built
    <2>2. Asked(p, b) /\ Waiting(p, b)
      BY <1>00
    <2>3. \A i \in At(p, "tool") :
            (\A j \in At(p, "registry") : j < i) => p[i][2] \in DOMAIN registries'[b.tools]
      BY <1>00
    <2>4. b.tools \in {Shared, C}
      BY <1>10
    <2> HIDE DEF p
    <2>5. AgentInvAt(C)'
      BY <1>4, <1>5, <2>1, <2>2 DEF AgentInvAt
    <2>6. ToolsInv(C)'
      BY <1>4, <1>5, <2>1, <2>3, <2>4 DEF ToolsInv
    <2> QED BY <2>5, <2>6
  <1> QED BY <1>6, <1>7, <1>11, <1>12 DEF BuildInv

(* No option breaks what the options before it have made.                  *)
LEMMA OptionKeeps == BuildInv /\ Option => BuildInv'
  <1> SUFFICES ASSUME BuildInv, Option PROVE BuildInv'
    OBVIOUS
  <1> DEFINE o == told[Current]
             Q == Holders
  <1>1. BuildTypes /\ phase = "options"
    BY DEF BuildInv, Option, Given
  <1>2. /\ Current \in Nat /\ 1..Current \subseteq Agents
        /\ \A n \in 1..Current : /\ agents[n] \in AgentObject /\ told[n] \in Seq(AgentOptions)
                                 /\ agents[n].tools \in Q
    BY <1>1, AgentsAre
  <1>3. Current \in 1..Current
    BY <1>1, <1>2 DEF BuildTypes, Current
  <1>4. /\ Current \in Agents /\ a \in AgentObject /\ o \in Seq(AgentOptions) /\ a.tools \in Q
        /\ AgentInvAt(Current) /\ ToolsInv(Current)
    BY <1>2, <1>3 DEF a, BuildInv
  <1>5. Asked(o, a) /\ Waiting(o, a)
    <2>1. ~Built(Current)
      BY <1>1, <1>2 DEF Built
    <2> QED BY <1>4, <2>1 DEF AgentInvAt, a
  <1>6. registries \in [Q -> Boxes]
    BY <1>1 DEF BuildTypes
  <1>7. \A i \in At(o, "tool") :
          (\A j \in At(o, "registry") : j < i) => o[i][2] \in DOMAIN registries[a.tools]
    BY <1>4 DEF ToolsInv, a
  <1> HIDE DEF o, Q
  <1>8. ASSUME NEW x, NEW b, Makes(x, b), Given(x, b), UNCHANGED registries PROVE BuildInv'
    <2> DEFINE p == Append(o, x)
               L == Len(o)
    <2>1. /\ x \in AgentOptions /\ x[1] # "tool" /\ b \in AgentObject
          /\ Asked(p, b) /\ Waiting(p, b)
          /\ b.tools = IF x[1] = "registry" THEN Shared ELSE a.tools
      BY <1>4, <1>5, <1>8, OptionMakes
    <2>2. /\ L \in Nat /\ \A i \in 1..L : p[i] = o[i]
          /\ \A k : At(o, k) \subseteq 1..L
          /\ \A k : At(p, k) = IF x[1] = k THEN At(o, k) \union {L + 1} ELSE At(o, k)
      BY <1>4, <2>1, OneMore
    <2> HIDE DEF p, L
    <2>3. ASSUME NEW i \in At(p, "tool"), \A j \in At(p, "registry") : j < i
          PROVE  p[i][2] \in DOMAIN registries'[b.tools]
      <3>1. i \in At(o, "tool") /\ i \in 1..L /\ p[i] = o[i]
        BY <2>1, <2>2, <2>3
      <3>2. x[1] # "registry"
        <4> SUFFICES ASSUME x[1] = "registry" PROVE FALSE
          OBVIOUS
        <4>1. L + 1 \in At(p, "registry")
          BY <2>2
        <4>2. L + 1 < i
          BY <2>3, <4>1
        <4> QED BY <2>2, <3>1, <4>2
      <3>3. At(p, "registry") = At(o, "registry") /\ b.tools = a.tools
        BY <2>1, <2>2, <3>2
      <3> QED BY <1>7, <1>8, <2>3, <3>1, <3>3
    <2>4. /\ b.tools \in {Shared, a.tools}
          /\ registries' \in [Q -> Boxes] /\ registries' = registries
      BY <1>6, <1>8, <2>1
    <2> QED BY <1>8, <2>1, <2>3, <2>4, GivenKeeps DEF p, o, Q
  <1>9. ASSUME NEW name \in {"tool", "rule_view"}, Given(<<"tool", name>>, a),
               registries' = AddTool(a.tools, name, Program)
        PROVE  BuildInv'
    <2> DEFINE x == <<"tool", name>>
               p == Append(o, x)
               L == Len(o)
    <2>1. x \in AgentOptions /\ x[1] = "tool" /\ x[2] = name
      BY <1>9 DEF AgentOptions
    <2>2. /\ registries' \in [Q -> Boxes] /\ name \in DOMAIN registries'[a.tools]
          /\ \A q \in Q : /\ DOMAIN registries[q] \subseteq DOMAIN registries'[q]
                          /\ q # a.tools => registries'[q] = registries[q]
      <3>1. Program \in {Program} \union Agents
        OBVIOUS
      <3> DEFINE r == a.tools
                 t == AddTool(r, name, Program)
      <3>2. r \in Holders
        BY <1>4 DEF Q
      <3>4. registries' = t
        BY <1>9
      <3> HIDE DEF r
      <3>3. t \in [Holders -> Boxes]
        BY <1>1, <3>1, <3>2, ToolAdded
      <3>5. name \in DOMAIN t[r]
        BY <1>1, <3>1, <3>2, ToolAdded
      <3>6. \A q \in Holders :
              DOMAIN registries[q] \subseteq DOMAIN t[q] /\ (q # r => t[q] = registries[q])
        BY <1>1, <3>1, <3>2, ToolAdded
      <3> HIDE DEF t
      <3> QED BY <3>3, <3>4, <3>5, <3>6 DEF Q, r
    <2>3. Given(x, a)
      BY <1>9
    <2> HIDE DEF x
    <2>4. /\ L \in Nat /\ p[L + 1] = x /\ \A i \in 1..L : p[i] = o[i]
          /\ \A k : At(o, k) \subseteq 1..L
          /\ \A k : At(p, k) = IF x[1] = k THEN At(o, k) \union {L + 1} ELSE At(o, k)
      BY <1>4, <2>1, OneMore
    <2>5. Asked(p, a) /\ Waiting(p, a)
      <3>1. SameBut(a, a, {})
        BY DEF SameBut
      <3> DEFINE c == a
                 fs == {}
      <3>2. Asked(o, c) /\ Waiting(o, c) /\ SameBut(c, c, fs)
        BY <1>5, <3>1
      <3>3. \A y : y \notin fs
        OBVIOUS
      <3> HIDE DEF c, fs
      <3>4. Asked(Append(o, x), c) /\ Waiting(Append(o, x), c)
        BY <1>4, <2>1, <3>2, <3>3, StaysTold
      <3> QED BY <3>4 DEF c
    <2> HIDE DEF p, L
    <2>6. ASSUME NEW i \in At(p, "tool"), \A j \in At(p, "registry") : j < i
          PROVE  p[i][2] \in DOMAIN registries'[a.tools]
      <3>1. At(p, "registry") = At(o, "registry") /\ At(p, "tool") = At(o, "tool") \union {L + 1}
        BY <2>1, <2>4
      <3>2. CASE i = L + 1
        BY <2>1, <2>2, <2>4, <3>2
      <3>3. CASE i \in At(o, "tool")
        <4>1. p[i] = o[i] /\ o[i][2] \in DOMAIN registries[a.tools]
          BY <1>7, <2>4, <2>6, <3>1, <3>3
        <4> QED BY <1>4, <2>2, <4>1
      <3> QED BY <3>1, <3>2, <3>3
    <2> QED BY <1>4, <2>1, <2>2, <2>3, <2>5, <2>6, GivenKeeps DEF p, o, Q
  <1>10. \/ \E x, b : Makes(x, b) /\ Given(x, b) /\ UNCHANGED registries
         \/ \E name \in {"tool", "rule_view"} :
               Given(<<"tool", name>>, a) /\ registries' = AddTool(a.tools, name, Program)
    BY DEF Option, Makes
  <1> QED BY <1>8, <1>9, <1>10

\* An agent when ensureBuiltinTools is done with it.
Ensured(b) == [b EXCEPT !.ruleViewRegistered = @ \/ b.rules > 0]

(* ensureBuiltinTools sets one field of the agent.                         *)
LEMMA EnsuredIs ==
    ASSUME NEW b \in AgentObject
    PROVE  /\ Ensured(b) \in AgentObject
           /\ Ensured(b).ruleViewRegistered <=> b.ruleViewRegistered \/ b.rules > 0
           /\ Ensured(b).rules = b.rules /\ Ensured(b).tools = b.tools
           /\ Ensured(b).executor = b.executor /\ Ensured(b).model = b.model
           /\ Ensured(b).plannerModel = b.plannerModel /\ Ensured(b).planner = b.planner
           /\ Ensured(b).mode = b.mode /\ Ensured(b).base = b.base
           /\ Ensured(b).systemPrompt = b.systemPrompt /\ Ensured(b).react = b.react
           /\ Ensured(b).memory = b.memory /\ Ensured(b).evaluator = b.evaluator
           /\ Ensured(b).evalEnabled = b.evalEnabled /\ Ensured(b).limit = b.limit
           /\ Ensured(b).hooks = b.hooks
  <1> DEFINE t == b.ruleViewRegistered \/ b.rules > 0
             c == [b EXCEPT !.ruleViewRegistered = t]
  <1>1. t \in BOOLEAN
    OBVIOUS
  <1>2. Ensured(b) = c
    BY DEF Ensured
  <1> HIDE DEF t
  <1>3. c \in AgentObject
    BY <1>1 DEF AgentObject
  <1>4. c.ruleViewRegistered = t
    BY <1>1 DEF AgentObject
  <1>5. c.ruleViewRegistered <=> b.ruleViewRegistered \/ b.rules > 0
    BY <1>4 DEF t
  <1>6. /\ c.rules = b.rules /\ c.tools = b.tools /\ c.executor = b.executor /\ c.model = b.model
        /\ c.plannerModel = b.plannerModel /\ c.planner = b.planner /\ c.mode = b.mode
        /\ c.base = b.base /\ c.systemPrompt = b.systemPrompt /\ c.react = b.react
        /\ c.memory = b.memory /\ c.evaluator = b.evaluator /\ c.evalEnabled = b.evalEnabled
        /\ c.limit = b.limit /\ c.hooks = b.hooks
    BY DEF AgentObject
  <1> HIDE DEF c
  <1> QED BY <1>2, <1>3, <1>5, <1>6

(* init and AddRule: the agent n is b, with the tools it needs; the others *)
(* are as they were.                                                       *)
LEMMA EnsuredKeeps ==
    ASSUME BuildInv, NEW n \in 1..Current, NEW b \in AgentObject, ensureBuiltinTools(n, b),
           b.tools = agents[n].tools, Asked(told[n], Ensured(b)), Ready(told[n], Ensured(b)),
           told' = told, phase' = "built", phase = "built" \/ n = Current,
           b.ruleViewRegistered => Built(n) /\ agents[n].rules > 0
    PROVE  BuildInv'
  <1>00. PICK C : C = Current
    OBVIOUS
  <1> DEFINE e == Ensured(b)
             r == agents[n].tools
             Q == Holders
             adds == b.rules > 0 /\ ~b.ruleViewRegistered
  <1>0. BuildTypes /\ n \in 1..C /\ \A m \in 1..C : AgentInvAt(m) /\ ToolsInv(m)
    BY <1>00 DEF BuildInv
  <1>1. /\ C \in Nat /\ 1..C \subseteq Agents
        /\ \A m \in 1..C : agents[m].tools \in Q /\ m \in Nat
    BY <1>00, <1>0, AgentsAre
  <1>2. agents' = [agents EXCEPT ![n] = e]
    BY DEF ensureBuiltinTools, Ensured
  <1>3. registries' = IF adds THEN AddTool(r, "rule_view", n) ELSE registries
    BY DEF ensureBuiltinTools
  <1>4. e \in AgentObject /\ e.tools = r /\ e.rules = b.rules
    BY EnsuredIs
  <1> HIDE DEF e, Q
  <1>5. /\ agents' \in Seq(AgentObject) /\ Len(agents') = C /\ agents'[n] = e
        /\ \A m \in 1..C : m # n => agents'[m] = agents[m]
    BY <1>00, <1>0, <1>2, <1>4 DEF BuildTypes, Current
  <1>6. Current' = C /\ \A m \in 1..C : agents'[m].tools = agents[m].tools
    BY <1>4, <1>5 DEF Current
  <1>7. \A m \in 1..C : Built(m)' /\ (m # n => Built(m))
    <2>1. \A m \in 1..C : m # C => m < C
      BY <1>1
    <2> QED BY <1>00, <2>1 DEF Built
  <1>8. /\ registries' \in [Q -> Boxes] /\ r \in Q
        /\ \A q \in Q : /\ DOMAIN registries[q] \subseteq DOMAIN registries'[q]
                        /\ q # r => registries'[q] = registries[q]
        /\ adds => "rule_view" \in DOMAIN registries'[r] /\ registries'[r]["rule_view"] = n
        /\ ~adds => registries' = registries
    <2>1. registries \in [Q -> Boxes] /\ r \in Q /\ n \in {Program} \union Agents
      BY <1>0, <1>1 DEF BuildTypes, Q
    <2>2. CASE ~adds
      BY <1>3, <2>1, <2>2
    <2>3. CASE adds
      <3> DEFINE name == "rule_view"
                 t == AddTool(r, name, n)
      <3>1. registries' = t /\ name \in {"tool", "rule_view"}
        BY <1>3, <2>3
      <3> HIDE DEF r, name
      <3>2. t \in [Q -> Boxes]
        BY <1>0, <2>1, <3>1, ToolAdded DEF Q
      <3>3. name \in DOMAIN t[r] /\ t[r][name] = n
        BY <1>0, <2>1, <3>1, ToolAdded DEF Q
      <3>4. \A q \in Q : /\ DOMAIN registries[q] \subseteq DOMAIN t[q]
                         /\ q # r => t[q] = registries[q]
        BY <1>0, <2>1, <3>1, ToolAdded DEF Q
      <3> HIDE DEF t
      <3> QED BY <2>1, <2>3, <3>1, <3>2, <3>3, <3>4 DEF name
    <2> HIDE DEF r, adds
    <2> QED BY <2>2, <2>3
  <1> HIDE DEF adds
  <1>9. \A m \in 1..C : Alone(m)' <=> Alone(m)
    BY <1>00, <1>6 DEF Alone
  <1>10. BuildTypes'
    BY <1>00, <1>0, <1>5, <1>8 DEF BuildTypes, Current, Q
  <1>11. ASSUME NEW m \in 1..C, m # n PROVE AgentInvAt(m)' /\ ToolsInv(m)'
    <2> DEFINE his == agents[m].tools
    <2>1. /\ AgentInvAt(m) /\ ToolsInv(m) /\ agents'[m] = agents[m] /\ told'[m] = told[m]
          /\ Built(m)' /\ Built(m) /\ his \in Q
      BY <1>0, <1>1, <1>5, <1>7, <1>11
    <2>2. Alone(m)' => Alone(m) /\ registries'[his] = registries[his]
      <3>1. Alone(m) => his # r
        BY <1>00, <1>0, <1>11 DEF Alone
      <3> QED BY <1>8, <1>9, <2>1, <3>1
    <2>3. DOMAIN registries[his] \subseteq DOMAIN registries'[his]
      BY <1>8, <2>1
    <2> QED BY <2>1, <2>2, <2>3, UntouchedKeeps
  <1>12. AgentInvAt(n)' /\ ToolsInv(n)'
    <2>1. Built(n)' /\ told'[n] = told[n] /\ agents'[n] = e
      BY <1>0, <1>5, <1>7
    <2>2. AgentInvAt(n)'
      BY <2>1 DEF AgentInvAt, e
    <2>3. ToolsInv(n)
      BY <1>0
    <2>4. ASSUME b.rules > 0
          PROVE  /\ "rule_view" \in DOMAIN registries'[r]
                 /\ Alone(n) => registries'[r]["rule_view"] = n
      <3>1. CASE adds
        BY <1>8, <3>1
      <3>2. CASE ~adds
        <4>1. registries' = registries /\ b.ruleViewRegistered
          BY <1>8, <2>4, <3>2 DEF adds
        <4> QED BY <2>3, <4>1 DEF ToolsInv
      <3> QED BY <3>1, <3>2
    <2>5. agents'[n].tools = r /\ agents'[n].rules = b.rules /\ (Alone(n)' <=> Alone(n))
      BY <1>0, <1>4, <1>9, <2>1
    <2>6. DOMAIN registries[r] \subseteq DOMAIN registries'[r]
      BY <1>8
    <2>7. r \in {Shared, n}
          /\ \A i \in At(told[n], "tool") :
               (\A j \in At(told[n], "registry") : j < i) => told[n][i][2] \in DOMAIN registries[r]
      BY <2>3 DEF ToolsInv
    <2> HIDE DEF r
    <2>8. ToolsInv(n)'
      BY <2>1, <2>4, <2>5, <2>6, <2>7 DEF ToolsInv
    <2> QED BY <2>2, <2>8
  <1> QED BY <1>6, <1>10, <1>11, <1>12 DEF BuildInv

\* The agents b and c are told the same, and do not differ in what init reads.
SameAsked(b, c) ==
    /\ b.model = c.model /\ b.systemPrompt = c.systemPrompt /\ b.mode = c.mode
    /\ b.evaluator = c.evaluator /\ b.limit = c.limit /\ b.hooks = c.hooks
    /\ b.rules = c.rules /\ b.tools = c.tools
    /\ b.ruleViewRegistered = c.ruleViewRegistered

SameSet(b, c) ==
    b.memory = c.memory /\ b.executor = c.executor /\ b.evalEnabled = c.evalEnabled

SamePlanners(b, c) ==
    b.react = c.react /\ b.solve = c.solve /\ b.plannerModel = c.plannerModel

(* The memory, the executor and the evaluator that init sets.              *)
LEMMA DefaultsAre ==
    ASSUME NEW c \in AgentObject
    PROVE  LET d == Defaults(c)
           IN  /\ d \in AgentObject /\ SameAsked(d, c) /\ SamePlanners(d, c)
               /\ d.memory # NilValue /\ d.executor = c.tools
               /\ d.evalEnabled <=> c.evalEnabled \/ c.evaluator # NilValue
  <1> DEFINE t == c.evalEnabled \/ c.evaluator # NilValue
             m == IF c.memory = NilValue THEN "buffer" ELSE c.memory
             d == [c EXCEPT !.memory = m, !.executor = c.tools, !.evalEnabled = t]
  <1>1. Defaults(c) = d
    BY DEF Defaults
  <1>2. t \in BOOLEAN
    OBVIOUS
  <1>3. m \in MemoryValues /\ m # NilValue
    BY FieldsAre DEF NilValue, MemoryValues
  <1>4. c.tools \in Holders
    BY FieldsAre
  <1> HIDE DEF t, m
  <1>5. d \in AgentObject
    BY <1>2, <1>3, <1>4 DEF AgentObject
  <1>6. SameAsked(d, c) /\ SamePlanners(d, c)
    BY DEF AgentObject, SameAsked, SamePlanners
  <1>7. d.memory = m /\ d.executor = c.tools /\ d.evalEnabled = t
    BY DEF AgentObject
  <1> HIDE DEF d
  <1> QED BY <1>1, <1>3, <1>5, <1>6, <1>7 DEF t

(* With a model there are two planners, and they plan with it; without one *)
(* there is only the planner that was given.                               *)
LEMMA PlannersAre ==
    ASSUME NEW d \in AgentObject
    PROVE  LET p == Planners(d)
           IN  /\ p \in AgentObject /\ SameAsked(p, d) /\ SameSet(p, d)
               /\ d.model = NilModel => SamePlanners(p, d)
               /\ d.model # NilModel =>
                    /\ p.react = (IF d.react = NilValue THEN "built" ELSE d.react)
                    /\ p.solve = "built" /\ p.plannerModel = d.model
  <1>1. CASE d.model = NilModel
    <2>1. Planners(d) = d
      BY <1>1 DEF Planners
    <2> QED BY <1>1, <2>1 DEF SameAsked, SameSet, SamePlanners
  <1>2. CASE d.model # NilModel
    <2> DEFINE v == IF d.react = NilValue THEN "built" ELSE d.react
               q == [d EXCEPT !.react = v, !.solve = "built"]
               p == [q EXCEPT !.plannerModel = d.model]
    <2>1. Planners(d) = p
      BY <1>2 DEF Planners, PlannersFor
    <2>2. v \in PlannerValues /\ d.model \in WrappedModel /\ "built" \in SolveValues
      BY FieldsAre DEF PlannerValues, SolveValues
    <2> HIDE DEF v
    <2>3. q \in AgentObject
      BY <2>2 DEF AgentObject
    <2>4. SameAsked(q, d) /\ SameSet(q, d) /\ q.react = v /\ q.solve = "built"
      BY DEF AgentObject, SameAsked, SameSet
    <2> HIDE DEF q
    <2>5. p \in AgentObject
      BY <2>2, <2>3 DEF AgentObject
    <2>6. /\ SameAsked(p, q) /\ SameSet(p, q) /\ p.react = q.react /\ p.solve = q.solve
          /\ p.plannerModel = d.model
      BY <2>3 DEF AgentObject, SameAsked, SameSet
    <2> HIDE DEF p
    <2>7. SameAsked(p, d) /\ SameSet(p, d)
      BY <2>4, <2>6 DEF SameAsked, SameSet
    <2> QED BY <1>2, <2>1, <2>4, <2>5, <2>6, <2>7 DEF v
  <1> QED BY <1>1, <1>2

(* The prompt builder takes the prompt that was given, or the one of the   *)
(* mode.                                                                   *)
LEMMA PromptIs ==
    ASSUME NEW c \in AgentObject
    PROVE  LET w == withPromptBuilder(c)
           IN  /\ w \in AgentObject /\ SameAsked(w, c) /\ SameSet(w, c) /\ SamePlanners(w, c)
               /\ w.planner = c.planner
               /\ w.base = IF c.systemPrompt = "" THEN c.mode ELSE c.systemPrompt
  <1> DEFINE v == IF c.systemPrompt = "" THEN c.mode ELSE c.systemPrompt
             w == [c EXCEPT !.base = v]
  <1>1. withPromptBuilder(c) = w
    BY DEF withPromptBuilder
  <1>2. v \in BaseValues
    BY FieldsAre DEF BaseValues
  <1> HIDE DEF v
  <1>3. w \in AgentObject /\ w.base = v /\ w.planner = c.planner
    <2>1. w \in AgentObject
      BY <1>2 DEF AgentObject
    <2>2. w.base = v /\ w.planner = c.planner
      BY DEF AgentObject
    <2> QED BY <2>1, <2>2
  <1>4. SameAsked(w, c) /\ SameSet(w, c) /\ SamePlanners(w, c)
    BY DEF AgentObject, SameAsked, SameSet, SamePlanners
  <1> HIDE DEF w
  <1> QED BY <1>1, <1>3, <1>4 DEF v

(* The planner in use is the one of the mode.                              *)
LEMMA PlannerIs ==
    ASSUME NEW c \in AgentObject
    PROVE  LET s == syncPlannerRef(c)
           IN  /\ s \in AgentObject /\ SameAsked(s, c) /\ SameSet(s, c) /\ SamePlanners(s, c)
               /\ s.base = c.base
               /\ s.planner = InUse(c)
  <1> DEFINE v == InUse(c)
             s == [c EXCEPT !.planner = v]
  <1>1. syncPlannerRef(c) = s
    BY DEF syncPlannerRef, InUse
  <1>2. v \in InUseValues
    BY FieldsAre DEF InUseValues, InUse
  <1> HIDE DEF v
  <1>3. s \in AgentObject /\ s.base = c.base /\ s.planner = v
    <2>1. s \in AgentObject
      BY <1>2 DEF AgentObject
    <2>2. s.base = c.base /\ s.planner = v
      BY DEF AgentObject
    <2> QED BY <2>1, <2>2
  <1>4. SameAsked(s, c) /\ SameSet(s, c) /\ SamePlanners(s, c)
    BY DEF AgentObject, SameAsked, SameSet, SamePlanners
  <1> HIDE DEF s
  <1> QED BY <1>1, <1>3, <1>4 DEF v

(* init makes of what was asked for an agent that is ready.                *)
LEMMA InitMakesReady ==
    ASSUME NEW o, NEW c \in AgentObject, Asked(o, c), Waiting(o, c)
    PROVE  LET s == syncPlannerRef(withPromptBuilder(Planners(Defaults(c))))
           IN  /\ s \in AgentObject /\ s.tools = c.tools /\ ~s.ruleViewRegistered
               /\ Asked(o, Ensured(s)) /\ Ready(o, Ensured(s))
  <1> DEFINE d == Defaults(c)
             p == Planners(d)
             w == withPromptBuilder(p)
             s == syncPlannerRef(w)
  <1>1. /\ d \in AgentObject /\ SameAsked(d, c) /\ SamePlanners(d, c)
        /\ d.memory # NilValue /\ d.executor = c.tools
        /\ d.evalEnabled <=> c.evalEnabled \/ c.evaluator # NilValue
    BY DefaultsAre
  <1> HIDE DEF d
  <1>2. /\ p \in AgentObject /\ SameAsked(p, d) /\ SameSet(p, d)
        /\ d.model = NilModel => SamePlanners(p, d)
        /\ d.model # NilModel =>
             /\ p.react = (IF d.react = NilValue THEN "built" ELSE d.react)
             /\ p.solve = "built" /\ p.plannerModel = d.model
    BY <1>1, PlannersAre
  <1> HIDE DEF p
  <1>3. /\ w \in AgentObject /\ SameAsked(w, p) /\ SameSet(w, p) /\ SamePlanners(w, p)
        /\ w.base = IF p.systemPrompt = "" THEN p.mode ELSE p.systemPrompt
    BY <1>2, PromptIs
  <1> HIDE DEF w
  <1>4. /\ s \in AgentObject /\ SameAsked(s, w) /\ SameSet(s, w) /\ SamePlanners(s, w)
        /\ s.base = w.base
        /\ s.planner = InUse(w)
    BY <1>3, PlannerIs
  <1> HIDE DEF s
  <1> DEFINE e == Ensured(s)
  <1>5. /\ e.ruleViewRegistered <=> s.ruleViewRegistered \/ s.rules > 0
        /\ e.rules = s.rules /\ e.tools = s.tools /\ e.executor = s.executor /\ e.model = s.model
        /\ e.plannerModel = s.plannerModel /\ e.planner = s.planner /\ e.mode = s.mode
        /\ e.base = s.base /\ e.systemPrompt = s.systemPrompt /\ e.react = s.react
        /\ e.memory = s.memory /\ e.evaluator = s.evaluator /\ e.evalEnabled = s.evalEnabled
        /\ e.limit = s.limit /\ e.hooks = s.hooks
    BY <1>4, EnsuredIs
  <1> HIDE DEF e
  <1>6. SameAsked(s, c)
    <2>1. SameAsked(p, c)
      BY <1>1, <1>2 DEF SameAsked
    <2>2. SameAsked(s, p)
      BY <1>3, <1>4 DEF SameAsked
    <2> QED BY <2>1, <2>2 DEF SameAsked
  <1>7. /\ s.memory = d.memory /\ s.executor = d.executor /\ s.evalEnabled = d.evalEnabled
    BY <1>2, <1>3, <1>4 DEF SameSet
  <1>8. SamePlanners(s, p) /\ p.mode = c.mode /\ w.mode = c.mode /\ p.systemPrompt = c.systemPrompt
        /\ d.model = c.model
    BY <1>1, <1>2, <1>3, <1>4 DEF SamePlanners, SameAsked
  <1>9. c.react \in {NilValue, "given", "built"} /\ c.mode \in {"react", "planAndSolve"}
        /\ c.evalEnabled \in BOOLEAN
    BY FieldsAre
  <1>10. At(o, "planner") # {} => s.react = "given"
    BY <1>1, <1>2, <1>8 DEF Asked, SamePlanners, NilValue
  <1>11. e.evalEnabled <=> e.evaluator # NilValue
    BY <1>1, <1>5, <1>6, <1>7 DEF Asked, SameAsked
  <1>12. Asked(o, e)
    <2>1. e.model = c.model /\ e.systemPrompt = c.systemPrompt /\ e.evaluator = c.evaluator
          /\ e.limit = c.limit /\ e.hooks = c.hooks /\ e.react = s.react
      BY <1>5, <1>6 DEF SameAsked
    <2> QED BY <1>10, <1>11, <2>1 DEF Asked
  <1>13. e.plannerModel = e.model
    <2>1. CASE c.model = NilModel
      BY <1>1, <1>2, <1>5, <1>6, <1>8, <2>1 DEF SamePlanners, SameAsked, Waiting
    <2>2. CASE c.model # NilModel
      BY <1>2, <1>5, <1>6, <1>8, <2>2 DEF SamePlanners, SameAsked
    <2> QED BY <2>1, <2>2
  <1>14. e.planner \notin {NilValue, NilPointer}
           <=> e.model # NilModel \/ (e.mode = "react" /\ At(o, "planner") # {})
    <2>1. e.model = c.model /\ e.mode = c.mode /\ e.planner = s.planner
      BY <1>5, <1>6 DEF SameAsked
    <2>2. s.planner = IF c.mode # "planAndSolve" THEN p.react
                      ELSE IF p.solve = NilValue THEN NilPointer ELSE p.solve
      BY <1>3, <1>4, <1>8 DEF SamePlanners, InUse
    <2>3. CASE c.model = NilModel
      <3>1. p.solve = NilValue /\ p.react = c.react
        BY <1>1, <1>2, <1>8, <2>3 DEF SamePlanners, Waiting
      <3>2. c.react # NilValue <=> At(o, "planner") # {}
        BY DEF Asked, Waiting, NilValue
      <3> QED BY <1>9, <2>1, <2>2, <2>3, <3>1, <3>2 DEF NilPointer, NilValue
    <2>4. CASE c.model # NilModel
      <3>1. {p.solve, p.react} \subseteq {"given", "built"}
        BY <1>1, <1>2, <1>8, <1>9, <2>4 DEF SamePlanners
      <3> QED BY <2>1, <2>2, <2>4, <3>1 DEF NilPointer, NilValue
    <2> QED BY <2>3, <2>4
  <1>15. e.base = IF e.systemPrompt = "" THEN e.mode ELSE e.systemPrompt
    <2>1. e.base = w.base /\ e.systemPrompt = p.systemPrompt /\ e.mode = p.mode
      BY <1>4, <1>5, <1>6, <1>8 DEF SameAsked
    <2> QED BY <1>3, <2>1
  <1>16. e.memory # NilValue /\ e.executor = e.tools
    BY <1>1, <1>5, <1>6, <1>7 DEF SameAsked
  <1>17. ~s.ruleViewRegistered /\ s.tools = c.tools
    BY <1>6 DEF Waiting, SameAsked
  <1>18. e.ruleViewRegistered <=> e.rules > 0
    BY <1>5, <1>17
  <1>19. Ready(o, e)
    BY <1>13, <1>14, <1>15, <1>16, <1>18 DEF Ready
  <1> QED BY <1>4, <1>12, <1>17, <1>19 DEF s, w, p, d, e

(* New makes the agent ready and leaves the others alone.                  *)
LEMMA NewKeeps == BuildInv /\ New => BuildInv'
  <1> SUFFICES ASSUME BuildInv, New PROVE BuildInv'
    OBVIOUS
  <1>0. PICK n : n = Current
    OBVIOUS
  <1>1. BuildTypes /\ phase = "options" /\ phase' = "built" /\ told' = told
    BY DEF BuildInv, New
  <1>2. n \in 1..Current /\ a = agents[n]
    BY <1>0, <1>1 DEF BuildTypes, Current, a
  <1> DEFINE c == agents[n]
             s == syncPlannerRef(withPromptBuilder(Planners(Defaults(c))))
  <1>3. c \in AgentObject /\ AgentInvAt(n)
    BY <1>1, <1>2, AgentsAre DEF BuildInv
  <1>4. Asked(told[n], c) /\ Waiting(told[n], c)
    <2>1. ~Built(n)
      <3>1. ~(n < Current)
        BY <1>0, <1>1 DEF BuildTypes, Current
      <3> QED BY <1>1, <3>1 DEF Built
    <2> QED BY <1>3, <2>1 DEF AgentInvAt
  <1>5. ensureBuiltinTools(n, s)
    BY <1>0, <1>2 DEF New
  <1>6. /\ s \in AgentObject /\ s.tools = c.tools /\ ~s.ruleViewRegistered
        /\ Asked(told[n], Ensured(s)) /\ Ready(told[n], Ensured(s))
    BY <1>3, <1>4, InitMakesReady
  <1> HIDE DEF s
  <1> QED BY <1>0, <1>1, <1>2, <1>5, <1>6, EnsuredKeeps

(* A rule that is added to a built agent leaves it what its options say,   *)
(* and rule_view is registered with the first.                             *)
LEMMA LaterRuleKeeps == \A n \in 1..Current : BuildInv /\ LaterRule(n) => BuildInv'
  <1> SUFFICES ASSUME NEW n \in 1..Current, BuildInv, LaterRule(n) PROVE BuildInv'
    OBVIOUS
  <1> DEFINE c == agents[n]
             k == c.rules + 1
             d == [c EXCEPT !.rules = k]
             b == withPromptBuilder(d)
             e == Ensured(b)
             o == told[n]
  <1>1. /\ BuildTypes /\ phase = "built" /\ phase' = "built" /\ told' = told
        /\ ensureBuiltinTools(n, b)
    BY DEF BuildInv, LaterRule
  <1>2. c \in AgentObject /\ AgentInvAt(n)
    BY <1>1, AgentsAre DEF BuildInv
  <1>3. Built(n) /\ Asked(o, c) /\ Ready(o, c)
    BY <1>1, <1>2 DEF Built, AgentInvAt
  <1> HIDE DEF c, o
  <1>4. c.rules \in Nat /\ k \in Nat /\ k > 0
    <2>1. c.rules \in Nat
      BY <1>2, FieldsAre
    <2> QED BY <2>1
  <1> HIDE DEF k
  <1>5. d \in AgentObject
    BY <1>2, <1>4 DEF AgentObject
  <1>6. /\ d.model = c.model /\ d.systemPrompt = c.systemPrompt /\ d.mode = c.mode
        /\ d.evaluator = c.evaluator /\ d.limit = c.limit /\ d.hooks = c.hooks
        /\ d.rules = k /\ d.tools = c.tools /\ d.ruleViewRegistered = c.ruleViewRegistered
        /\ SameSet(d, c) /\ SamePlanners(d, c) /\ d.planner = c.planner
    BY <1>2 DEF AgentObject, SameSet, SamePlanners
  <1> HIDE DEF d
  <1>7. /\ b \in AgentObject /\ SameAsked(b, d) /\ SameSet(b, d) /\ SamePlanners(b, d)
        /\ b.planner = d.planner
        /\ b.base = IF d.systemPrompt = "" THEN d.mode ELSE d.systemPrompt
    BY <1>5, PromptIs
  <1> HIDE DEF b
  <1>8. /\ e.ruleViewRegistered <=> b.ruleViewRegistered \/ b.rules > 0
        /\ e.rules = b.rules /\ e.tools = b.tools /\ e.executor = b.executor /\ e.model = b.model
        /\ e.plannerModel = b.plannerModel /\ e.planner = b.planner /\ e.mode = b.mode
        /\ e.base = b.base /\ e.systemPrompt = b.systemPrompt /\ e.react = b.react
        /\ e.memory = b.memory /\ e.evaluator = b.evaluator /\ e.evalEnabled = b.evalEnabled
        /\ e.limit = b.limit /\ e.hooks = b.hooks
    BY <1>7, EnsuredIs
  <1> HIDE DEF e
  <1>9. /\ e.model = c.model /\ e.systemPrompt = c.systemPrompt /\ e.mode = c.mode
        /\ e.evaluator = c.evaluator /\ e.limit = c.limit /\ e.hooks = c.hooks
        /\ e.rules = k /\ e.tools = c.tools /\ b.tools = c.tools
        /\ b.ruleViewRegistered = c.ruleViewRegistered /\ e.ruleViewRegistered
    BY <1>4, <1>6, <1>7, <1>8 DEF SameAsked
  <1>10. /\ e.memory = c.memory /\ e.executor = c.executor /\ e.evalEnabled = c.evalEnabled
         /\ e.react = c.react /\ e.plannerModel = c.plannerModel /\ e.planner = c.planner
    BY <1>6, <1>7, <1>8 DEF SameSet, SamePlanners
  <1>11. e.base = IF e.systemPrompt = "" THEN e.mode ELSE e.systemPrompt
    BY <1>6, <1>7, <1>8, <1>9
  <1>12. Asked(o, e)
    BY <1>3, <1>9, <1>10 DEF Asked
  <1>13. Ready(o, e)
    BY <1>3, <1>4, <1>9, <1>10, <1>11 DEF Ready
  <1>14. b.ruleViewRegistered => c.rules > 0
    BY <1>3, <1>9 DEF Ready
  <1> QED BY <1>1, <1>3, <1>7, <1>9, <1>12, <1>13, <1>14, EnsuredKeeps DEF c, o, e

(* Before the first agent.                                                 *)
LEMMA BuildInitHolds == BuildInit => BuildInv
  <1> SUFFICES ASSUME BuildInit PROVE BuildInv
    OBVIOUS
  <1> DEFINE none == << >>
  <1>1. /\ agents = none /\ told = none /\ phase = "built"
        /\ registries = [r \in Holders |-> none]
    BY DEF BuildInit, Holders
  <1>2. none \in Seq(AgentObject) /\ none \in Seq(Seq(AgentOptions)) /\ Len(none) = 0
    OBVIOUS
  <1>3. none \in Boxes
    <2>1. none \in [{} -> {Program} \union Agents]
      OBVIOUS
    <2> QED BY <2>1 DEF Boxes
  <1> HIDE DEF none
  <1>4. registries \in [Holders -> Boxes]
    BY <1>1, <1>3
  <1>5. 0 <= MaxAgents
    BY BuildAssumption
  <1>6. Current = 0
    BY <1>1, <1>2 DEF Current
  <1>7. BuildTypes
    BY <1>1, <1>2, <1>4, <1>5 DEF BuildTypes
  <1> QED BY <1>6, <1>7 DEF BuildInv

(* What the invariant says of an agent that is built.                      *)
LEMMA InvBuilds == BuildInv => BuiltAsTold
  <1> SUFFICES ASSUME BuildInv, NEW n \in 1..Current, Built(n) PROVE OptionsTold(n) /\ ToolsTold(n)
    BY DEF BuiltAsTold
  <1> DEFINE o == told[n]
             b == agents[n]
  <1>1. BuildTypes /\ Asked(o, b) /\ Ready(o, b) /\ ToolsInv(n)
    BY DEF BuildInv, AgentInvAt
  <1>2. b \in AgentObject
    BY <1>1, AgentsAre
  <1>3. \A k : Told(n, k) = At(o, k) /\ LastOf(n, k) = LastAt(o, k) /\ Value(n, k) = LastValue(o, k)
    BY DEF Told, LastOf, Value, At, LastAt, LastValue
  <1>4. ToolsTold(n)
    BY <1>1, <1>3 DEF ToolsTold, ToolsInv, Ready, Alone
  <1>5. OptionsTold(n)
    <2> DEFINE has == HasModel(n)
               meters == {i \in Told(n, "metrics") : has /\ LastOf(n, "model") < i}
               S == {i \in At(o, "metrics") : LastAt(o, "model") < i}
    <2>1. ModelTold(o, b.model) /\ b.model \in WrappedModel
      BY <1>1, <1>2, FieldsAre DEF Asked
    <2>2. has <=> b.model.base # 0
      BY <1>3, <2>1 DEF HasModel, ModelTold, NilModel
    <2>3. b.model.base = 0 <=> b.model = NilModel
      BY <2>1 DEF ModelTold, WrappedModel, NilModel
    <2>4. has => b.model.base = Value(n, "model")
      BY <1>3, <2>1 DEF HasModel, ModelTold
    <2>5. b.model.meters = Cardinality(meters)
      <3>1. CASE has
        <4>1. meters = S
          BY <1>3, <3>1
        <4> QED BY <2>1, <2>2, <3>1, <4>1 DEF ModelTold
      <3>2. CASE ~has
        <4>1. meters = {}
          BY <3>2
        <4> QED BY <2>1, <2>2, <3>2, <4>1, FS_EmptySet DEF ModelTold
      <3> QED BY <3>1, <3>2
    <2>6. b.planner \notin {NilValue, NilPointer}
            <=> has \/ (b.mode = "react" /\ Told(n, "planner") # {})
      BY <1>1, <1>3, <2>2, <2>3 DEF Ready
    <2>7. b.plannerModel = b.model /\ (Told(n, "planner") # {} => b.react = "given")
      BY <1>1, <1>3 DEF Ready, Asked
    <2>8. b.base = IF Told(n, "prompt") # {} THEN "custom" ELSE b.mode
      BY <1>1, <1>3 DEF Ready, Asked, PromptTold
    <2>9. b.evalEnabled <=> Told(n, "evaluator") # {} /\ Value(n, "evaluator") # NilValue
      BY <1>1, <1>3 DEF Asked, EvaluatorTold
    <2>10. b.limit = IF {i \in Told(n, "limit") : told[n][i][2] > 0} # {} THEN 3 ELSE DefaultLimit
      BY <1>1, <1>3 DEF Asked, LimitTold
    <2>11. b.memory # NilValue /\ Len(b.hooks) = Cardinality(Told(n, "hook"))
      BY <1>1, <1>3 DEF Ready, Asked, HooksTold
    <2> QED BY <2>4, <2>5, <2>6, <2>7, <2>8, <2>9, <2>10, <2>11 DEF OptionsTold
  <1> QED BY <1>4, <1>5

(* Any number of agents, given any options in any order, with registries   *)
(* of their own or one they share: each is what its options say, and stays *)
(* so when rules are added later (New, the options and init of             *)
(* agent/agent.go and agent/option.go).                                    *)
THEOREM AgentsAreBuiltAsTold == BuildSpec => []BuiltAsTold
  <1>1. BuildInit => BuildInv
    BY BuildInitHolds
  <1>2. BuildInv /\ [BuildNext]_buildVars => BuildInv'
    <2> SUFFICES ASSUME BuildInv, [BuildNext]_buildVars PROVE BuildInv'
      OBVIOUS
    <2>1. CASE UNCHANGED buildVars
      BY <2>1 DEF buildVars, BuildInv, BuildTypes, AgentInvAt, ToolsInv, Current, Built, Alone
    <2> QED BY <2>1, BeginKeeps, OptionKeeps, NewKeeps, LaterRuleKeeps DEF BuildNext
  <1>3. BuildInv => BuiltAsTold
    BY InvBuilds
  <1> QED BY <1>1, <1>2, <1>3, PTL DEF BuildSpec

(* An agent is what its options say, with its rules and skills as their    *)
(* files have them: agents are built, registries changed and files read in *)
(* any interleaving, for every number of agents and options and all items, *)
(* paths and texts.                                                        *)
THEOREM AgentsAreExact == BuildSpec /\ RegSpec /\ FMSpec => AgentExact
  BY AgentsAreBuiltAsTold, RegistriesAreExact, FilesAreRead, PTL DEF AgentExact
=============================================================================
