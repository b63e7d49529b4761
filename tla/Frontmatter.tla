----------------------------- MODULE Frontmatter -----------------------------
(***************************************************************************)
(* parseFrontmatter (rule/loader.go, and the same in skill/loader.go): the *)
(* description, the flag and the body of a rule or a skill, from the text  *)
(* of its file.  A text is its lines; all of them end in LF, or in CR LF.  *)
(* Blank space around a body and a byte order mark make no difference.     *)
(***************************************************************************)
EXTENDS Naturals, Sequences, FiniteSetsExt

CONSTANT MaxLines   \* bound: lines of a text

ASSUME FrontmatterAssumption == MaxLines \in Nat

\* "fence" is ---, "rule" another line that starts with three dashes, "title"
\* and "heading" are descriptions, "true" and "other" values of alwaysApply,
\* "words" has no meaning in a frontmatter.
Line == {"fence", "rule", "title", "heading", "true", "other", "words"}
Dashes == {"fence", "rule"}

VARIABLES text, crlf, parsed

fmVars == <<text, crlf, parsed>>

DashesFrom(t, from) == {i \in from..Len(t) : t[i] \in Dashes}

\* A mutation of endOf: the last one is found.
endOfLast(t, from) == IF DashesFrom(t, from) = {} THEN 0 ELSE Max(DashesFrom(t, from))

\* The line that strings.Index(rest, "\n---") finds, or 0; rest begins after the
\* first fence, and with its LF if the lines end in CR LF.
endOf(t, from) == IF DashesFrom(t, from) = {} THEN 0 ELSE Min(DashesFrom(t, from))

\* The loop over the lines of the frontmatter: the last one that says it.
lastOf(t, of, default) ==
    LET places == {i \in 1..Len(t) : t[i] \in of}
    IN  IF places = {} THEN default ELSE t[Max(places)]

\* What is left of a line of the body that began with the three dashes.
afterDashes(l) == IF l = "rule" THEN <<"words">> ELSE <<>>

parseFrontmatter(t, cr) ==
    IF t = <<>> \/ t[1] # "fence"
    THEN [description |-> IF t = <<>> THEN "" ELSE t[1], alwaysApply |-> FALSE,
          body |-> IF t = <<>> THEN <<>> ELSE Tail(t)]
    ELSE LET end == endOf(t, IF cr THEN 2 ELSE 3)
             meta == SubSeq(t, 2, end - 1)
         IN  IF end = 0
             THEN [description |-> "", alwaysApply |-> FALSE, body |-> t]
             ELSE [description |-> lastOf(meta, {"title", "heading"}, ""),
                   alwaysApply |-> lastOf(meta, {"true", "other"}, "other") = "true",
                   body |-> afterDashes(t[end]) \o SubSeq(t, end + 1, Len(t))]

FMInit == text = <<>> /\ crlf \in BOOLEAN /\ parsed = parseFrontmatter(<<>>, crlf)

\* The file gets another line, and is loaded.
LoadText(l) ==
    /\ Len(text) < MaxLines
    /\ text' = Append(text, l)
    /\ parsed' = parseFrontmatter(text', crlf)
    /\ UNCHANGED crlf

FMNext == \E l \in Line : LoadText(l)

FMSpec == FMInit /\ [][FMNext]_fmVars

-----------------------------------------------------------------------------

Closing == {i \in 2..Len(text) : text[i] = "fence"}

(* A file with a frontmatter, two fences with lines between them, is read  *)
(* as the comment of FromFile says, whatever its body looks like: later    *)
(* fences belong to the body.  The exceptions: a line between the fences   *)
(* that starts with three dashes ends the frontmatter; and two fences with *)
(* nothing between them, in a file with LF, are no frontmatter: the whole  *)
(* text is the body, or, with a further line of dashes, all up to that is  *)
(* lost.  No text is lost in a file without fences.                        *)
FrontmatterExact ==
    /\ text # <<>> /\ text[1] # "fence"
         => <<parsed.description>> \o parsed.body = text /\ ~parsed.alwaysApply
    /\ text # <<>> /\ text[1] = "fence" /\ Closing # {}
         => LET end == Min(Closing)
                meta == SubSeq(text, 2, end - 1)
                has(S) == \E i \in DOMAIN meta : meta[i] \in S
            IN  \/ has({"rule"})
                \/ end = 2 /\ ~crlf
                \/ /\ parsed.body = SubSeq(text, end + 1, Len(text))
                   /\ has({"title", "heading"}) <=> parsed.description # ""
                   /\ ~has({"other"}) => parsed.alwaysApply = has({"true"})
=============================================================================
