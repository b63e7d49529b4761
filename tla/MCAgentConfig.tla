---------------------------- MODULE MCAgentConfig ----------------------------
(***************************************************************************)
(* The Agent object for TLC: agents being built, the registries of rules   *)
(* and skills and the files they come from, and AgentConfig: one Run while *)
(* rules and skills come and go, or all the Runs of a session id while     *)
(* they do not; mode and evaluator are switched in both.  A behaviour      *)
(* exercises one of these, its part.                                       *)
(***************************************************************************)
EXTENDS AgentConfig, AgentBuild

CONSTANT FirstRun

VARIABLE part

Item(n, v) == [name |-> n, is |-> v]
File(n, v, wanted, readable) ==
  [item |-> Item(n, v), wanted |-> wanted, readable |-> readable]

MCEntries == {NilItem, Item("a", 1), Item("a", 2), Item("b", 1)}

\* Nothing; a file; a directory with two files of one name, one file of another
\* type, and a skill.md of its own; a directory with a file that cannot be read.
MCPaths ==
  {[kind |-> "missing", files |-> <<>>, own |-> <<>>],
   [kind |-> "file", files |-> <<File("b", 3, TRUE, TRUE)>>, own |-> <<>>],
   [kind |-> "dir", own |-> <<File("d", 6, TRUE, TRUE)>>,
    files |-> <<File("a", 4, TRUE, TRUE), File("x", 4, FALSE, FALSE),
                File("c", 4, TRUE, TRUE), File("a", 5, TRUE, TRUE)>>],
   [kind |-> "dir", own |-> <<>>,
    files |-> <<File("c", 7, TRUE, TRUE), File("b", 7, TRUE, FALSE)>>]}

\* The first agent gets up to three options, the second only those that
\* concern tools.
FewOptions ==
  /\ Current > 0 => Len(told[1]) <= 3
  /\ Current = 2 => \A i \in DOMAIN told[2] : told[2][i][1] \in {"registry", "rule", "tool"}

allVars == <<vars, buildVars, registryVars, fmVars, part>>

MCInit ==
  /\ Init /\ BuildInit /\ RegInit /\ FMInit
  /\ part \in {"items", "runs", "build", "registries", "frontmatter"}
  /\ part # "items" => registry = [k \in Kinds |-> {}]
  /\ part \notin {"items", "runs"} =>
       given = {"model"} /\ mode = "react" /\ evaluator = Nil /\ id \in [Runs -> Ids]
  /\ part # "frontmatter" => ~crlf

Only(p) ==
  /\ part = p /\ UNCHANGED part
  /\ p \notin {"items", "runs"} => UNCHANGED vars
  /\ p # "build" => UNCHANGED buildVars
  /\ p # "registries" => UNCHANGED registryVars
  /\ p # "frontmatter" => UNCHANGED fmVars

MCNext ==
  \/ Only("items") /\ UNCHANGED given /\ (Switch \/ ChangeItems \/ RunStep(FirstRun))
  \/ Only("runs") /\ UNCHANGED given /\ (Switch \/ \E r \in Runs : RunStep(r))
  \/ Only("build") /\ BuildNext /\ FewOptions'
  \/ Only("registries") /\ RegNext
  \/ Only("frontmatter") /\ FMNext

MCSpec == MCInit /\ [][MCNext]_allVars
=============================================================================
