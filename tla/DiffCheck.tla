------------------------------ MODULE DiffCheck -----------------------------
(***************************************************************************)
(* The page differ on pairs of files, sequences of lines and three-sided   *)
(* merges: what it reports is enough to rebuild the new version from the   *)
(* old, and what both sides of a merge changed is announced.               *)
(***************************************************************************)
EXTENDS SectionDiff, Tables

CONSTANTS Bodies,     \* bodies of sections
          Longest,    \* sections of a page
          Letters,    \* lines of a line diff
          LongestRun, \* lines of a line diff's side
          Values      \* values of a frontmatter field

UpTo(S, n) == UNION {[1 .. k -> S] : k \in 0 .. n}

Heads == H2Lines \cup {NoHeading}

(* A page's text from its sections; the first may be the preamble. *)
TextOf(sections) ==
    LET upTo[k \in 0 .. Len(sections)] ==
           IF k = 0 THEN << >>
           ELSE upTo[k - 1] \o (IF sections[k].heading = NoHeading THEN << >>
                                ELSE <<sections[k].heading>>) \o sections[k].body
    IN  upTo[Len(sections)]

AllSections == {Section(h, b) : h \in H2Lines, b \in Bodies}
ReadablePage(f, l) == [readable |-> TRUE, fields |-> f, lines |-> l]
Unreadable(l)  == [readable |-> FALSE, fields |-> << >>, lines |-> l]

TextPages  == {ReadablePage(<< >>, TextOf(s)) : s \in UpTo(AllSections, Longest)}
FieldPages == UNION {{ReadablePage(f, << >>) : f \in [D -> Values]} : D \in SUBSET {"title", "tags"}}
OddPages   == {ReadablePage(<< >>, b) : b \in Bodies} \cup {Unreadable(b) : b \in Bodies} \cup {EmptyFile}

(* Pages without two sections of one heading. *)
Distinct(s) == \A i, j \in 1 .. Len(s) : s[i].heading = s[j].heading => i = j
Simple      == {s \in UpTo(AllSections, 2) : Distinct(s)}

AskDiff ==
    \/ \E P \in {TextPages \cup OddPages, FieldPages \cup OddPages} : \E f, t \in P :
          asked = [table |-> "pages", from |-> f, to |-> t]
    \/ \E a, b \in UpTo(Letters, LongestRun) : asked = [table |-> "lines", from |-> a, to |-> b]
    \/ \E o, m, t \in Simple : asked = [table |-> "merge", old |-> o, mine |-> m, theirs |-> t]

AnswerPages == Asked("pages") /\ Answers(PageSections(asked.from, asked.to))
AnswerLines == Asked("lines") /\ Answers([ops |-> LineDiff(asked.from, asked.to)])
AnswerMerge == /\ Asked("merge")
               /\ LET mine   == Diff(asked.old, asked.mine)
                      theirs == Diff(asked.old, asked.theirs)
                  IN  Answers([conflicting |-> Conflicting(mine, theirs),
                               same        |-> Same(mine, theirs)])

-----------------------------------------------------------------------------
Full(lines) == SelectSeq(lines, LAMBDA l : l # "")

(* Every line of a page that is not empty is in its preamble or in one of  *)
(* its sections, in the page's order: what the differ never reads it never *)
(* compares.                                                               *)
EveryLineKept ==
    Asked("pages") =>
        LET lines == asked.to.lines
        IN  Full(Preamble(lines) \o TextOf(Sections(lines))) = Full(lines)

(* How many of a page's sections, and of the changes, carry h and b.       *)
Has(sections, h, b) ==
    Cardinality({i \in 1 .. Len(sections) : sections[i] = Section(h, b)})
Brings(ch, h, b) ==
    Cardinality({i \in 1 .. Len(ch) : /\ ch[i].status \in {"added", "modified", "renamed"}
                                      /\ ch[i].heading = h /\ ch[i].to = b})
Takes(ch, h, b) ==
    Cardinality({i \in 1 .. Len(ch) :
        /\ ch[i].from = b
        /\ \/ ch[i].status \in {"removed", "modified"} /\ ch[i].heading = h
           \/ ch[i].status = "renamed" /\ ch[i].old = h})

(* The reported changes turn the sections of the old page into those of    *)
(* the new one, each as often as it is there: none is lost and none is     *)
(* reported twice, whatever headings and bodies repeat.  A change of the   *)
(* preamble is reported, and so is any change of an unreadable page.       *)
SectionsReplay ==
    Given("pages") =>
        LET from == asked.from   to == asked.to   ch == answer.sections
            old  == Sections(from.lines)   new == Sections(to.lines)
        IN  IF answer.fallback
            THEN (answer.preamble = "unchanged") <=> (from = to)
            ELSE /\ \A s \in {old[i] : i \in 1 .. Len(old)} \cup {new[i] : i \in 1 .. Len(new)} :
                       Has(old, s.heading, s.body) + Brings(ch, s.heading, s.body)
                       = Has(new, s.heading, s.body) + Takes(ch, s.heading, s.body)
                 /\ (answer.preamble \in {"none", "unchanged"})
                    <=> (Preamble(from.lines) = Preamble(to.lines))

(* Removing what the diff of the frontmatter says was removed and adding   *)
(* what it says was added gives the new page's fields, list values one by  *)
(* one.                                                                    *)
After(f) ==
    LET v  == asked.from.fields[f]
        fm == answer.frontmatter
    IN  IF \E c \in fm.changed : c.field = f THEN {(CHOOSE c \in fm.changed : c.field = f).to}
        ELSE IF v.list
             THEN {ListOf((v.value \ {c.from.value : c \in {x \in fm.removed : x.field = f /\ ~x.from.list}})
                        \cup {c.to.value : c \in {x \in fm.added : x.field = f}})}
             ELSE {v}

FieldsReplay ==
    Given("pages") /\ ~answer.fallback =>
        LET from == asked.from.fields   to == asked.to.fields   fm == answer.frontmatter
        IN  /\ {f \in DOMAIN to : f \notin DOMAIN from} = {c.field : c \in fm.added} \ DOMAIN from
            /\ {f \in DOMAIN from : f \notin DOMAIN to} = {c.field : c \in fm.removed} \ DOMAIN to
            /\ \A f \in Both(from, to) : After(f) = {to[f]}

(* The reference definition of the longest common subsequence's length.    *)
Picks(s, K) == SelectSeq([i \in 1 .. Len(s) |-> IF i \in K THEN s[i] ELSE ""], LAMBDA l : l # "")
Subsequences(s) == {Picks(s, K) : K \in SUBSET (1 .. Len(s))}

Kept(kinds) ==
    LET ops == SelectSeq(answer.ops, LAMBDA o : o.kind \in kinds)
    IN  [i \in 1 .. Len(ops) |-> ops[i].line]

(* A line diff reads as the old lines without its insertions and as the    *)
(* new ones without its deletions, and keeps as many lines as can be kept. *)
LinesReplay ==
    Given("lines") /\ asked.from # asked.to =>
        /\ Kept({"equal", "del"}) = asked.from
        /\ Kept({"equal", "ins"}) = asked.to
        /\ \A s \in Subsequences(asked.from) \cap Subsequences(asked.to) :
              Len(s) <= Len(Kept({"equal"}))

BodyOf(page, h) == (CHOOSE s \in {page[i] : i \in 1 .. Len(page)} : s.heading = h).body
HeadsOf(page)   == {page[i].heading : i \in 1 .. Len(page)}
Alike(a, b)     == AtLeast70(Similarity(a, b))

(* A section that both sides of a merge rewrote, under its own heading or  *)
(* renamed alike, is announced: as a conflict when the texts differ, as    *)
(* the same change when they do not.  (One renamed on one side and edited  *)
(* or removed on the other is not: the brief compares new headings.)       *)
BothChangedListed ==
    Given("merge") =>
        LET o == asked.old   m == asked.mine   t == asked.theirs
            listed(h) == IF BodyOf(m, h) = BodyOf(t, h) THEN h \in answer.same
                         ELSE h \in answer.conflicting
        IN  /\ \A h \in HeadsOf(o) \cap HeadsOf(m) \cap HeadsOf(t) :
                  BodyOf(o, h) \notin {BodyOf(m, h), BodyOf(t, h)} => listed(h)
            /\ \A g \in HeadsOf(o), h \in HeadsOf(m) \cap HeadsOf(t) :
                  /\ HeadsOf(o) = {g} /\ HeadsOf(m) = {h} /\ HeadsOf(t) = {h} /\ g # h
                  /\ Alike(BodyOf(o, g), BodyOf(m, h)) /\ Alike(BodyOf(o, g), BodyOf(t, h))
                  => listed(h)

(* A reader who has the old page and the differ's report can write the new *)
(* one: its lines, sections, frontmatter and preamble (DiffSections,       *)
(* lcsDiff).                                                               *)
DiffReplays ==
    /\ EveryLineKept
    /\ SectionsReplay
    /\ FieldsReplay
    /\ LinesReplay
=============================================================================
