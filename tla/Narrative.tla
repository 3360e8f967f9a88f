------------------------------- MODULE Narrative -------------------------------
(***************************************************************************)
(* The text of a summary (ai/summarize.rs): what the program lets a model  *)
(* write around the week's numbers.  Text is a sequence of characters; a   *)
(* character is the class of characters the code treats alike, and the     *)
(* words of MEASURE, the two halves of the facts heading and a whole       *)
(* placeholder are each one character.                                     *)
(***************************************************************************)
EXTENDS Integers, Sequences, FiniteSets, SequencesExt

CONSTANT MaxNarrativeChars \* MAX_NARRATIVE_CHARS

Placeholders == {"{{f1}}", "{{t1}}"}

\* The brackets of a unit, and those of a title.
Reserved == {"unit", "quote"}

\* What a model may type.  Both "marker" and "bullet" open a block at the start of
\* a line; a title's markers are escaped, its bullets - + = are not.  "{{f9}}" is any key parse_key or the tables refuse,
\* and "{{" an opening without its close.
Typeable ==
    Placeholders \cup
    Reserved \cup
    {"letter", "digit", "numeral", "measure", "format", "space", "newline",
     "control", "marker", "bullet", "angle", "heading", "word", "{{f9}}", "{{"}

Whitespace == {"space", "newline"}

is_format_char(c) == c = "format"
is_forbidden_control(c) == c = "control"

\* The members of a set in the order that before gives them.
InOrder(S, before(_, _)) ==
    [k \in 1..Cardinality(S) |-> CHOOSE x \in S : Cardinality({y \in S : before(y, x)}) = k - 1]

\* What s holds at some of its positions.
Picked(s, at) == LET order == InOrder(at, <) IN [k \in DOMAIN order |-> s[order[k]]]

\* Cf goes, and a run of spaces is one space.
normalize(s) ==
    LET t == Picked(s, {i \in 1..Len(s) : ~is_format_char(s[i])})
    IN  Picked(t, {i \in 1..Len(t) : t[i] # "space" \/ i = 1 \/ t[i - 1] # "space"})

Allowed(s) == Picked(s, {i \in 1..Len(s) : ~is_forbidden_control(s[i])})

Inert(c) ==
    CASE c \in Reserved \cup {"angle"} -> "letter"
      [] c = "newline" -> "space"
      [] c = "marker" -> "escaped"
      [] OTHER -> c

Trim(s) ==
    LET kept == {i \in 1..Len(s) : s[i] \notin Whitespace}
    IN  IF kept = {} THEN <<>> ELSE SubSeq(s, Min(kept), Max(kept))

\* Mutant: a title keeps its line breaks and brackets.
sanitize_inline_raw(s) == normalize(Allowed(s))

\* Titles are the user's: one line, no bracket, no tag, Markdown escaped.
sanitize_inline(s) ==
    LET flat == Trim(normalize(Allowed(s)))
    IN  [i \in 1..Len(flat) |-> Inert(flat[i])]

MeasureFollows(s, i) ==
    LET j == IF i \in 1..Len(s) /\ s[i] = "space" THEN i + 1 ELSE i
    IN  j \in 1..Len(s) /\ s[j] = "measure"

\* A placeholder ends a literal, so a rule about neighbours can be asked of the
\* whole text.
check_literal(s) ==
    \A i \in 1..Len(s) :
        /\ s[i] \notin {"digit"} \cup Reserved
        /\ ~(s[i] = "numeral" /\ MeasureFollows(s, i + 1))

\* A key no table has, or no key at all.
parse_key(s) == \A i \in 1..Len(s) : s[i] \notin {"{{f9}}", "{{"}

measure_after_unit(s) == \E i \in 1..Len(s) : s[i] = "{{f1}}" /\ MeasureFollows(s, i + 1)

MentionsFactsHeading(s) ==
    \E i, j \in 1..Len(s) : /\ i < j /\ s[i] = "heading" /\ s[j] = "word"
                            /\ \A k \in (i + 1)..(j - 1) : s[k] \in Whitespace

\* fill_narrative has an answer; any error is the reply's bad_output.
Accepted(narr) ==
    /\ \A i \in 1..Len(narr) : ~is_forbidden_control(narr[i])
    /\ LET s == normalize(narr)
       IN  /\ Trim(s) # <<>>
           /\ Len(s) <= MaxNarrativeChars
           /\ ~MentionsFactsHeading(s)
           /\ check_literal(s) /\ parse_key(s) /\ ~measure_after_unit(s)

render_unit(title) == <<"unit">> \o sanitize_inline(title) \o <<"digit", "unit">>
render_title(title) == <<"quote">> \o sanitize_inline(title) \o <<"quote">>

Rendered(c, title) ==
    IF c = "{{f1}}" THEN render_unit(title)
    ELSE IF c = "{{t1}}" THEN render_title(title)
    ELSE <<c>>

Lines(s) ==
    LET ends == InOrder({i \in 1..Len(s) : s[i] = "newline"} \cup {0, Len(s) + 1}, <)
    IN  [k \in 1..(Len(ends) - 1) |-> SubSeq(s, ends[k] + 1, ends[k + 1] - 1)]

\* Block markers and spaces at the start of a line go, however they alternate.
plain_line(l) ==
    LET kept == {i \in 1..Len(l) : l[i] \notin {"marker", "bullet", "space"}}
        t == IF kept = {} THEN <<>> ELSE SubSeq(l, Min(kept), Len(l))
    IN  [i \in 1..Len(t) |-> IF t[i] = "angle" THEN "letter" ELSE t[i]]

\* The paragraphs of the narrative.
fill_narrative(narr, title) ==
    LET s == normalize(narr)
        out == FoldLeft(LAMBDA text, c : text \o Rendered(c, title), <<>>, s)
        lines == Lines(out)
        paras == [k \in 1..Len(lines) |-> plain_line(lines[k])]
    IN  Picked(paras, {k \in DOMAIN paras : paras[k] # <<>>})

-----------------------------------------------------------------------------

InBrackets(l, i) == Cardinality({j \in 1..i : l[j] \in Reserved}) % 2 = 1

\* A paragraph claims no figure of its own: each digit stands in brackets, which
\* only the program makes and which pair up; no unit is given a second measure
\* and no numeral a first; and outside the brackets no paragraph repeats the
\* facts heading, opens a block of Markdown or HTML, or leaves a placeholder.
HonestParagraph(l) ==
    LET typed == [i \in 1..Len(l) |-> IF InBrackets(l, i) THEN "quote" ELSE l[i]]
    IN  /\ \A c \in Reserved : Cardinality({i \in 1..Len(l) : l[i] = c}) % 2 = 0
        /\ \A i \in 1..Len(l) : typed[i] \in {"numeral", "unit"} => ~MeasureFollows(l, i + 1)
        /\ \A c \in {"digit", "angle", "control", "format", "{{f9}}", "{{"} \cup Placeholders :
              ~Contains(typed, c)
        /\ ~MentionsFactsHeading(typed)
        /\ l[1] \notin {"marker", "bullet", "space"}
================================================================================
