--------------------------- MODULE OutputController ---------------------------
(***************************************************************************)
(* The check of a Run's answer against the agent's output schema           *)
(* (hook/outputhook/output_controller.go, called by validateFinalOutput in *)
(* agent/agent.go) and the retries it leads to (StateCompleting of         *)
(* agent/loop.go).                                                         *)
(*                                                                         *)
(* A schema is the kind of its Go type; a struct has a required field.  A  *)
(* value is a spelling that the steps of the check tell apart; a text is   *)
(* the value of its first code block, the value outside of code blocks,    *)
(* and the prose around them.                                              *)
(***************************************************************************)
EXTENDS Naturals

CONSTANT MaxAutoRetry   \* bound: a.autoRetry

ASSUME OutputAssumption == MaxAutoRetry \in Nat

Schemas == {"struct", "pointer", "map", "slice", "string", "int", "float", "bool"}

\* Objects: one that fits, one that breaks a validation rule, one with a field
\* of another type, one with a trailing comma.  "objects" is an array of one
\* fitting object, "array" one of fitting elements, "broken" only starts like
\* an object.
Objects == {"object", "violating", "mistyped", "trailing"}

\* Words, and what json or strconv reads: "digits" is an int, "bit" 0 or 1,
\* "decimal" a number that is no int, "true" a JSON boolean.  The others are no
\* JSON: "padded" is an int with a plus sign or leading zeros, "special" what
\* only ParseFloat knows (infinity, .5), "flag" what only ParseBool does (t, F,
\* True).
Scalars == {"digits", "bit", "decimal", "true", "padded", "special", "flag", "words"}

\* Scalars in quotation marks, and what is left without them.
Unquoted == [quotedDigits |-> "digits", quotedBit |-> "bit", quotedDecimal |-> "decimal",
             quotedTrue |-> "true", quotedPadded |-> "padded", quotedSpecial |-> "special",
             quotedFlag |-> "flag", quotedWords |-> "words"]
Quoted == DOMAIN Unquoted

Values == Objects \cup Scalars \cup Quoted \cup {"objects", "array", "broken", "null"}
Absent == "none"

FinalTexts == [fenced : Values \cup {Absent}, bare : Values \cup {Absent},
               prose : {Absent, "plain", "braces"}]

VARIABLES
    schema,     \* a.outputSchema
    autoRetry,  \* a.autoRetry
    left,       \* validateLeft
    text,       \* the answer of the outcome
    tries,      \* answers so far
    outcome     \* asked, accepted, or rejected

outputVars == <<schema, autoRetry, left, text, tries, outcome>>

OutputInit ==
    /\ schema \in Schemas
    /\ autoRetry \in 0..MaxAutoRetry
    /\ left = autoRetry
    /\ text = [fenced |-> Absent, bare |-> Absent, prose |-> Absent]
    /\ tries = 0
    /\ outcome = "asked"

-------------------------------------------------------------------------------
\* ValidateOutput

Blank(t) == t.fenced = Absent /\ t.bare = Absent /\ t.prose = Absent

\* From the first brace to the last one, if there are two.
Braced(v) ==
    CASE v \in Objects \cup {"broken"} -> v
      [] v = "objects" -> "object"
      [] OTHER -> Absent

Bracketed(v) == IF v \in {"array", "objects"} THEN v ELSE Absent

\* A mutation of extractContent: a brace in front of the code block wins.
extractBracesFirst(s, t) ==
    IF t.prose = "braces" THEN "broken"
    ELSE IF t.fenced # Absent THEN t.fenced
    ELSE IF s = "struct" /\ Braced(t.bare) # Absent THEN Braced(t.bare)
    ELSE IF s = "slice" /\ Bracketed(t.bare) # Absent THEN Bracketed(t.bare)
    ELSE IF t.prose # Absent THEN "words"
    ELSE t.bare

\* A code block first, then what the braces or brackets enclose, then all.
\* Braces of the prose make nonsense of what they enclose.
extractContent(s, t) ==
    IF t.fenced # Absent THEN t.fenced
    ELSE IF s = "struct" /\ t.prose = "braces" THEN "broken"
    ELSE IF s = "struct" /\ Braced(t.bare) # Absent THEN Braced(t.bare)
    ELSE IF s = "slice" /\ Bracketed(t.bare) # Absent THEN Bracketed(t.bare)
    ELSE IF t.prose # Absent THEN "words"
    ELSE t.bare

\* Trailing commas and comments go; what cannot be parsed stays as it is.
repairJSON(v) == IF v = "trailing" THEN "object" ELSE v

\* What json.Unmarshal takes for a value of the schema; null leaves the zero
\* value of any type.
Unmarshals(s, v) ==
    \/ v = "null"
    \/ s \in {"struct", "pointer"} /\ v \in {"object", "violating"}
    \/ s = "map" /\ v \in {"object", "violating", "mistyped"}
    \/ s = "slice" /\ v = "array"
    \/ s = "string" /\ v \in Quoted
    \/ s = "int" /\ v \in {"digits", "bit"}
    \/ s = "float" /\ v \in {"digits", "bit", "decimal"}
    \/ s = "bool" /\ v = "true"

\* strings.Trim(content, "\"").
cleanContent(v) == IF v \in Quoted THEN Unquoted[v] ELSE v

\* What strconv reads as a value of the schema.
Parses(s, v) ==
    \/ s = "int" /\ v \in {"digits", "bit", "padded"}
    \/ s = "float" /\ v \in {"digits", "bit", "padded", "decimal", "special"}
    \/ s = "bool" /\ v \in {"true", "flag", "bit"}

\* Any text is a string; quotes are stripped for numbers and booleans.
fallbackBasicTypes(s, v) == s = "string" \/ Parses(s, cleanContent(v))

\* validator.Struct, by the tags of a struct, the zero value included; it
\* returns InvalidValidationError for a pointer to a slice, and is not called
\* for the other kinds.
Validates(s, v) ==
    CASE s = "struct" -> v \notin {"violating", "null"}
      [] s = "slice" -> FALSE
      [] OTHER -> TRUE

ValidateOutput(s, t) ==
    /\ ~Blank(t)
    /\ LET content == extractContent(s, t)
           v == repairJSON(content)
       IN  /\ Unmarshals(s, v) \/ fallbackBasicTypes(s, content)
           /\ Validates(s, v)

-------------------------------------------------------------------------------
\* StateCompleting: the reason goes back to the model as long as retries are
\* left, then the Run fails.

Complete(t) ==
    /\ outcome = "asked"
    /\ tries' = tries + 1
    /\ IF ValidateOutput(schema, t) THEN outcome' = "accepted" /\ UNCHANGED left
       ELSE IF left > 0 THEN left' = left - 1 /\ UNCHANGED outcome
       ELSE outcome' = "rejected" /\ UNCHANGED left
    /\ text' = IF outcome' = "asked" THEN text ELSE t
    /\ UNCHANGED <<schema, autoRetry>>

OutputNext == \E t \in FinalTexts : Complete(t)

OutputSpec == OutputInit /\ [][OutputNext]_outputVars

-------------------------------------------------------------------------------

\* The values that stand for a value of the schema, as a reader would see it: a
\* number or a boolean in any spelling of Go, with quotation marks or without.
Numbers == {"digits", "bit", "padded"}
Means(s, v) ==
    CASE s \in {"struct", "pointer"} -> v \in {"object", "trailing"}
      [] s = "map" -> v \in Objects
      [] s = "slice" -> v = "array"
      [] s = "string" -> TRUE
      [] s = "int" -> cleanContent(v) \in Numbers
      [] s = "float" -> cleanContent(v) \in Numbers \cup {"decimal", "special"}
      [] s = "bool" -> cleanContent(v) \in {"bit", "true", "flag"}

Mentioned(t) == {t.fenced, t.bare} \cup (IF t.bare = "objects" THEN {"object"} ELSE {})

(* An accepted answer holds a value of the schema.  The exceptions: null   *)
(* passes for every kind but a struct, and behind a pointer the rules of a *)
(* struct are not looked at.                                               *)
AcceptedConforms ==
    outcome = "accepted"
        => \E v \in Mentioned(text) :
              \/ Means(schema, v)
              \/ schema # "struct" /\ v = "null"
              \/ schema = "pointer" /\ v = "violating"

(* An answer whose one value is right is accepted, in a code block with    *)
(* any prose around it, and, for a struct, between plain words; unless the *)
(* schema is a slice.  (The refusals are those of the last answer: the     *)
(* model has had autoRetry further ones.)                                  *)
RejectedExplained ==
    outcome = "rejected"
        => /\ tries = autoRetry + 1
           /\ schema # "slice" /\ Means(schema, text.fenced) => text.fenced = Absent
           /\ schema # "slice" /\ text.fenced = Absent /\ Means(schema, text.bare)
                => \/ text.bare = Absent
                   \/ text.prose = "braces"
                   \/ schema # "struct" /\ text.prose # Absent

(* The pipeline of regular expressions, repair, decoding, fallbacks and    *)
(* validation accepts the right answers, and a Run gets autoRetry retries. *)
OutputExact == AcceptedConforms /\ RejectedExplained
===============================================================================
