------------------------------ MODULE AgentBuild ------------------------------
(***************************************************************************)
(* Building agents: New, its options and init (agent/agent.go,             *)
(* agent/option.go), one agent after the other, and the tools that init,   *)
(* AddRule and AddSkill register.  Agents may be given one ToolRegistry.   *)
(*                                                                         *)
(* A tool is known by its name and its owner: the program, or the agent    *)
(* whose rules it looks up.  All limits (iterations, timeout, thresholds,  *)
(* lengths, ratio) are set in the same way; one of them is followed.       *)
(***************************************************************************)
EXTENDS Integers, Sequences, FiniteSets, Registries, Frontmatter

CONSTANTS
    MaxAgents,   \* bound: agents
    MaxOptions   \* bound: options of all agents together

ASSUME BuildAssumption == MaxAgents \in Nat /\ MaxOptions \in Nat

Agents == 1..MaxAgents
Shared == 0           \* a ToolRegistry the program made; agent n has its own, n
Program == 0          \* the owner of a tool the program wrote
DefaultLimit == 10
NilValue == "nil"
NilPointer == "nilPointer"   \* an interface that holds a nil pointer: not nil itself

NilModel == [base |-> 0, meters |-> 0]

VARIABLES
    agents,    \* the agents, in the order they are built
    phase,     \* of the last one: options, or built
    registries,  \* the contents of the ToolRegistries: owners by names
    told,      \* the options of each agent, in order
    total      \* options so far

buildVars == <<agents, phase, registries, told, total>>

Current == Len(agents)
a == agents[Current]

Fresh(n) ==
    [model |-> NilModel, react |-> NilValue, solve |-> NilValue, plannerModel |-> NilModel,
     planner |-> NilValue, mode |-> "react", systemPrompt |-> "", base |-> "",
     evaluator |-> NilValue, evalEnabled |-> FALSE, memory |-> NilValue, limit |-> DefaultLimit,
     schema |-> NilValue, autoRetry |-> 0, hooks |-> <<>>, rules |-> 0, tools |-> n,
     executor |-> n, ruleViewRegistered |-> FALSE]

BuildInit ==
    /\ agents = <<>> /\ phase = "built"
    /\ registries = [r \in {Shared} \cup Agents |-> << >>]
    /\ told = <<>> /\ total = 0

BeginAgent ==
    /\ phase = "built" /\ Current < MaxAgents
    /\ agents' = Append(agents, Fresh(Current + 1))
    /\ told' = Append(told, <<>>)
    /\ phase' = "options"
    /\ UNCHANGED <<registries, total>>

-------------------------------------------------------------------------------
\* The options

WithModel(m) == [a EXCEPT !.model = [base |-> m, meters |-> 0]]

\* Wraps the model there is.
WithMetricsHandler ==
    IF a.model = NilModel THEN a ELSE [a EXCEPT !.model.meters = @ + 1]

WithPlanner == [a EXCEPT !.react = "given"]
WithExecutionMode(m) == [a EXCEPT !.mode = m]
WithSystemPrompt(p) == [a EXCEPT !.systemPrompt = p]
WithEvaluator(e) == [a EXCEPT !.evaluator = e, !.evalEnabled = e # NilValue]

\* A factory may be nil; a memory that is nil still makes a factory.
WithMemoryFactory(f) == [a EXCEPT !.memory = f]
WithMemory(m) == [a EXCEPT !.memory = IF m = NilValue THEN "returnsNil" ELSE "shared"]

\* WithMaxIterations, and the other limits.
WithLimit(n) == IF n > 0 THEN [a EXCEPT !.limit = n] ELSE a

WithOutputSchema(s, retries) ==
    [a EXCEPT !.schema = s, !.autoRetry = IF retries >= 0 THEN retries ELSE @]

WithHook(h) == [a EXCEPT !.hooks = Append(@, h)]
WithRule == [a EXCEPT !.rules = @ + 1]
WithToolRegistry == [a EXCEPT !.tools = Shared]

AddTool(r, name, owner) ==
    [registries EXCEPT ![r] = [m \in DOMAIN @ \union {name} |-> IF m = name THEN owner ELSE @[m]]]

Given(o, b) ==
    /\ phase = "options" /\ total < MaxOptions
    /\ total' = total + 1
    /\ told' = [told EXCEPT ![Current] = Append(@, o)]
    /\ agents' = [agents EXCEPT ![Current] = b]
    /\ UNCHANGED phase

Option ==
    \/ /\ \/ \E m \in {0, 1, 2} : Given(<<"model", m>>, WithModel(m))
          \/ Given(<<"metrics">>, WithMetricsHandler)
          \/ Given(<<"planner">>, WithPlanner)
          \/ Given(<<"mode", "planAndSolve">>, WithExecutionMode("planAndSolve"))
          \/ Given(<<"prompt", "custom">>, WithSystemPrompt("custom"))
          \/ \E e \in {NilValue, "e"} : Given(<<"evaluator", e>>, WithEvaluator(e))
          \/ \E f \in {NilValue, "factory"} : Given(<<"factory", f>>, WithMemoryFactory(f))
          \/ \E m \in {NilValue, "m"} : Given(<<"memory", m>>, WithMemory(m))
          \/ \E n \in {0, 3} : Given(<<"limit", n>>, WithLimit(n))
          \/ \E n \in {-1, 2} : Given(<<"schema", n>>, WithOutputSchema("s", n))
          \/ Given(<<"hook", Current>>, WithHook(Current))
          \/ Given(<<"rule">>, WithRule)
          \/ Given(<<"registry">>, WithToolRegistry)
       /\ UNCHANGED registries
    \/ \E name \in {"tool", "rule_view"} :   \* WithTools
          /\ Given(<<"tool", name>>, a)
          /\ registries' = AddTool(a.tools, name, Program)

-------------------------------------------------------------------------------
\* init, and rules that are added later

\* The planners that are not there yet.
PlannersFor(b) == [b EXCEPT !.react = IF @ = NilValue THEN "built" ELSE @, !.solve = "built"]

\* A mutation of Planners: they get the model without its metrics.
PlannersUnmetered(b) ==
    IF b.model = NilModel THEN b
    ELSE [PlannersFor(b) EXCEPT !.plannerModel = [b.model EXCEPT !.meters = 0]]

Planners(b) ==
    IF b.model = NilModel THEN b
    ELSE [PlannersFor(b) EXCEPT !.plannerModel = b.model]

\* planner and reactPlanner are interfaces, planAndSolvePlanner is a pointer.
syncPlannerRef(b) ==
    [b EXCEPT !.planner = IF b.mode # "planAndSolve" THEN b.react
                          ELSE IF b.solve = NilValue THEN NilPointer ELSE b.solve]

withPromptBuilder(b) ==
    [b EXCEPT !.base = IF b.systemPrompt = "" THEN b.mode ELSE b.systemPrompt]

Defaults(b) ==
    [b EXCEPT !.memory = IF @ = NilValue THEN "buffer" ELSE @,
              !.executor = b.tools,
              !.evalEnabled = @ \/ b.evaluator # NilValue]

\* The first rule brings rule_view; AddTool replaces a tool of that name.
ensureBuiltinTools(n, b) ==
    /\ agents' = [agents EXCEPT ![n] = [b EXCEPT !.ruleViewRegistered = @ \/ b.rules > 0]]
    /\ registries' = IF b.rules > 0 /\ ~b.ruleViewRegistered
                   THEN AddTool(b.tools, "rule_view", n) ELSE registries

New ==
    /\ phase = "options"
    /\ phase' = "built"
    /\ ensureBuiltinTools(Current,
          syncPlannerRef(withPromptBuilder(Planners(Defaults(a)))))
    /\ UNCHANGED <<told, total>>

LaterRule(n) ==
    /\ phase = "built" /\ total < MaxOptions
    /\ total' = total + 1
    /\ ensureBuiltinTools(n, withPromptBuilder([agents[n] EXCEPT !.rules = @ + 1]))
    /\ UNCHANGED <<phase, told>>

BuildNext == BeginAgent \/ Option \/ New \/ \E n \in 1..Current : LaterRule(n)

BuildSpec == BuildInit /\ [][BuildNext]_buildVars

-------------------------------------------------------------------------------

\* The places of a kind of option in what agent n was told.
Told(n, kind) == {i \in DOMAIN told[n] : told[n][i][1] = kind}
LastOf(n, kind) == CHOOSE i \in Told(n, kind) : \A j \in Told(n, kind) : j <= i
Value(n, kind) == told[n][LastOf(n, kind)][2]
Built(n) == n < Current \/ phase = "built"
HasModel(n) == Told(n, "model") # {} /\ Value(n, "model") # 0

(* What was asked for is what was built, in whatever order the options     *)
(* came: the last value of each, limits that are not positive ignored, and *)
(* the model that plans is the model the agent has.  There is a planner to *)
(* call if there is a model, or one was given and the mode is its own.     *)
(* (Without one the field may hold a nil pointer, which the first check of *)
(* a Run lets pass; PlanGen's own check then ends the Run.)  The           *)
(* exception: only the metrics handlers after the last WithModel count.    *)
OptionsTold(n) ==
    LET b == agents[n]
        meters == {i \in Told(n, "metrics") : HasModel(n) /\ LastOf(n, "model") < i}
        limits == {i \in Told(n, "limit") : told[n][i][2] > 0}
    IN  /\ HasModel(n) => b.model.base = Value(n, "model")
        /\ b.model.meters = Cardinality(meters)
        /\ b.plannerModel = b.model
        /\ b.planner \notin {NilValue, NilPointer}
             <=> HasModel(n) \/ (b.mode = "react" /\ Told(n, "planner") # {})
        /\ Told(n, "planner") # {} => b.react = "given"
        /\ b.base = IF Told(n, "prompt") # {} THEN "custom" ELSE b.mode
        /\ b.evalEnabled <=> Told(n, "evaluator") # {} /\ Value(n, "evaluator") # NilValue
        /\ b.limit = IF limits # {} THEN 3 ELSE DefaultLimit
        /\ b.memory # NilValue
        /\ Len(b.hooks) = Cardinality(Told(n, "hook"))

(* The tools the model is told of are those the executor finds, and hold   *)
(* what WithTools was given, unless a WithToolRegistry came after it.  The *)
(* agent's rule_view looks up the agent's own rules, also if the program   *)
(* has a tool of that name; unless another agent has the same registry:    *)
(* the last to get its first rule then answers for both.                   *)
ToolsTold(n) ==
    LET b == agents[n]
        alone == \A m \in 1..Current : m # n => agents[m].tools # b.tools
    IN  /\ b.executor = b.tools
        /\ \A i \in Told(n, "tool") :
              (\A j \in Told(n, "registry") : j < i)
                 => told[n][i][2] \in DOMAIN registries[b.tools]
        /\ b.rules > 0
              => /\ "rule_view" \in DOMAIN registries[b.tools]
                 /\ alone => registries[b.tools]["rule_view"] = n

(* An agent is what its options say.                                       *)
BuiltAsTold == \A n \in 1..Current : Built(n) => OptionsTold(n) /\ ToolsTold(n)

(* An agent is what its options say, with its rules and skills as their    *)
(* files have them, through the parser and the registries: so it is after  *)
(* every step, and at first there is neither agent, registry nor file.     *)
AgentExact ==
    [][ /\ BuiltAsTold'
        /\ [RegistryExact]_registryVars
        /\ FrontmatterExact' ]_<<buildVars, registryVars, fmVars>>
===============================================================================
