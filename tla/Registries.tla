------------------------------ MODULE Registries ------------------------------
(***************************************************************************)
(* The registries of rules and of skills (rule/registry.go and             *)
(* skill/registry.go), of tools (tool/registry.go), and the loaders that   *)
(* fill the first two from files (rule/loader.go, skill/loader.go).        *)
(*                                                                         *)
(* A registry is a map from names to items and the list of names in the    *)
(* order they came; an item is a name and what it stands for.  A path on   *)
(* disk is missing, a file or a directory, with the files a loader would   *)
(* look at in the order it does: whether it is one the loader wants,       *)
(* whether it can be read, and the item it holds; a path that is a file    *)
(* has that one.  There are no symbolic links.  A directory may be a skill *)
(* itself; its own skill.md is apart.                                      *)
(***************************************************************************)
EXTENDS Naturals, Sequences, FiniteSetsExt, SeqFilter

CONSTANTS
    Entries,   \* items a program may add; also NilItem
    Paths,     \* what may be on disk
    MaxChanges \* bound: changes of a registry

NilItem == [name |-> "nil", is |-> 0]
LoadFailed == <<NilItem>>

\* The files of a path are a sequence, and each of them holds an item.
ASSUME RegistriesAssumption ==
    /\ MaxChanges \in Nat
    /\ \A p \in Paths : \A files \in {p.files, p.own} :
         /\ files \in Seq(Range(files))
         /\ \A f \in Range(files) : f.item # NilItem

VARIABLES
    rules, skills,  \* the two registries
    changes

registryVars == <<rules, skills, changes>>

NewRegistry == [items |-> << >>, order |-> <<>>]

RegInit == rules = NewRegistry /\ skills = NewRegistry /\ changes = 0

-------------------------------------------------------------------------------
\* The operations of a registry, each under its lock

\* A mutation of put: a name that is there already is listed again.
putAgain(r, x) ==
    [items |-> [m \in DOMAIN r.items \union {x.name} |-> IF m = x.name THEN x ELSE r.items[m]],
     order |-> Append(r.order, x.name)]

\* ToolRegistry.AddTool, and one round of the loop of the other two.
put(r, x) ==
    IF x = NilItem THEN r
    ELSE [items |-> [m \in DOMAIN r.items \union {x.name} |->
                        IF m = x.name THEN x ELSE r.items[m]],
          order |-> IF x.name \in DOMAIN r.items THEN r.order ELSE Append(r.order, x.name)]

putAll(r, xs) ==
    LET after[n \in 0..Len(xs)] == IF n = 0 THEN r ELSE put(after[n - 1], xs[n])
    IN  after[Len(xs)]

drop(r, n) ==
    IF n \notin DOMAIN r.items THEN r
    ELSE LET places == {i \in 1..Len(r.order) : r.order[i] = n}
         IN  [items |-> [m \in DOMAIN r.items \ {n} |-> r.items[m]],
              order |-> IF places = {} THEN r.order ELSE RemoveAt(r.order, Min(places))]

\* Get: the item, or none.
get(r, n) == IF n \in DOMAIN r.items THEN {r.items[n]} ELSE {}

\* List, and ToolRegistry.Tools.
list(r) ==
    LET known == SelectIn(r.order, DOMAIN r.items)
    IN  [i \in 1..Len(known) |-> r.items[known[i]]]

-------------------------------------------------------------------------------
\* The loaders: what a path holds, or LoadFailed

Wanted(files) == SelectIn(files, {f \in Range(files) : f.wanted})

\* A mutation of FromFiles: files that cannot be read are left out.
FromFilesReadable(files) ==
    LET wanted == SelectIn(files, {f \in Range(files) : f.wanted /\ f.readable})
    IN  [i \in 1..Len(wanted) |-> wanted[i].item]

\* FromFile of the files that are wanted: one failure fails all of them.
FromFiles(files) ==
    LET wanted == Wanted(files)
    IN  IF \E i \in 1..Len(wanted) : ~wanted[i].readable THEN LoadFailed
        ELSE [i \in 1..Len(wanted) |-> wanted[i].item]

\* All the .md files below a directory, in the order of their paths; WalkDir of
\* a file visits that file.
ruleLoadDir(p) == IF p.kind = "missing" THEN LoadFailed ELSE FromFiles(p.files)

\* The skill.md of each directory in a directory; other files are passed over.
\* ReadDir of a file fails.
skillLoadDir(p) == IF p.kind # "dir" THEN LoadFailed ELSE FromFiles(p.files)

\* LoadPath also takes a single file, and for skills a directory that is one.
ruleLoadPath(p) ==
    CASE p.kind = "dir" -> ruleLoadDir(p)
      [] p.kind = "file" -> FromFiles(p.files)
      [] OTHER -> LoadFailed

skillLoadPath(p) ==
    CASE p.kind = "dir" /\ p.own # <<>> -> FromFiles(p.own)
      [] p.kind = "dir" /\ p.own = <<>> -> skillLoadDir(p)
      [] p.kind = "file" -> FromFiles(p.files)
      [] OTHER -> LoadFailed

-------------------------------------------------------------------------------
\* What an agent does with them

Changed == changes < MaxChanges /\ changes' = changes + 1

AddRules(xs) == Changed /\ rules' = putAll(rules, xs) /\ UNCHANGED skills
AddSkills(xs) == Changed /\ skills' = putAll(skills, xs) /\ UNCHANGED rules
DropRule(n) == Changed /\ rules' = drop(rules, n) /\ UNCHANGED skills
DropSkill(n) == Changed /\ skills' = drop(skills, n) /\ UNCHANGED rules

\* InjectRules, InjectSkills: all that was found, or an error and nothing.
InjectRuleDir(p) ==
    LET found == ruleLoadDir(p)
    IN  Changed /\ rules' = (IF found = LoadFailed THEN rules ELSE putAll(rules, found))
        /\ UNCHANGED skills

InjectSkillDir(p) ==
    LET found == skillLoadDir(p)
    IN  Changed /\ skills' = (IF found = LoadFailed THEN skills ELSE putAll(skills, found))
        /\ UNCHANGED rules

\* WithRulePaths, WithSkillPaths: a path that fails is passed over.
Skipped(found) == IF found = LoadFailed THEN <<>> ELSE found

RulePaths(p, q) ==
    /\ Changed
    /\ rules' = putAll(putAll(rules, Skipped(ruleLoadPath(p))), Skipped(ruleLoadPath(q)))
    /\ UNCHANGED skills

SkillPaths(p, q) ==
    /\ Changed
    /\ skills' = putAll(putAll(skills, Skipped(skillLoadPath(p))), Skipped(skillLoadPath(q)))
    /\ UNCHANGED rules

RegNext ==
    \/ \E x, y \in Entries : AddRules(<<x, y>>) \/ AddSkills(<<x, y>>)
    \/ \E x \in Entries : DropRule(x.name) \/ DropSkill(x.name)
    \/ \E p \in Paths : InjectRuleDir(p) \/ InjectSkillDir(p)
    \/ \E p, q \in Paths : RulePaths(p, q) \/ SkillPaths(p, q)

RegSpec == RegInit /\ [][RegNext]_registryVars

-------------------------------------------------------------------------------

(* The prompt, which lists a registry, and the tools rule_view and         *)
(* skill_call, which look a name up, show the same: every name once, in    *)
(* the order the names came, and what it was last given.                   *)
Agrees(r) ==
    /\ \A i, j \in DOMAIN list(r) : list(r)[i].name = list(r)[j].name => i = j
    /\ \A i \in DOMAIN list(r) : get(r, list(r)[i].name) = {list(r)[i]}
    /\ \A n \in DOMAIN r.items : \E i \in DOMAIN list(r) : list(r)[i].name = n

(* A failed load adds nothing, a load that succeeds adds everything it     *)
(* found but for items that a later one of the same name replaced, and     *)
(* neither moves or takes away any other item.                             *)
NamesOf(xs) == {xs[i].name : i \in DOMAIN xs}
Other(xs, names) == SelectIn(xs, {x \in Range(xs) : x.name \notin names})

LoadsWhole ==
    changes' # changes => \A p \in Paths :
        InjectRuleDir(p) =>
           LET wanted == Wanted(p.files)
               all == p.kind # "missing" /\ \A i \in DOMAIN wanted : wanted[i].readable
               names == {wanted[i].item.name : i \in DOMAIN wanted}
           IN  IF ~all THEN rules' = rules
               ELSE /\ names \subseteq NamesOf(list(rules'))
                    /\ Other(list(rules'), names) = Other(list(rules), names)
                    /\ \A i \in DOMAIN wanted :
                          (\A j \in (i+1)..Len(wanted) :
                              wanted[j].item.name # wanted[i].item.name)
                            => get(rules', wanted[i].item.name) = {wanted[i].item}

(* The registries, whatever is added, removed and loaded in any order: of  *)
(* every change, and of what it leads to.                                  *)
RegistryExact == Agrees(rules)' /\ Agrees(skills)' /\ LoadsWhole
===============================================================================
