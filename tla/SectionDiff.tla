----------------------------- MODULE SectionDiff ----------------------------
(***************************************************************************)
(* The page differ (internal/diff/section.go) behind ctx diff, the diff    *)
(* endpoint and the merge brief, and the brief's comparison of two sides   *)
(* (internal/mcp/merge.go).                                                *)
(*                                                                         *)
(* A file is its frontmatter and its lines.  A line is a heading, "", or a *)
(* word: Mark stands for one that is punctuation only, which the           *)
(* comparison of words drops.  A body is a sequence of lines.              *)
(***************************************************************************)
EXTENDS Naturals, Sequences, FiniteSets

CONSTANT H2Lines   \* the lines that start with "## "

Mark == "..."
NoHeading == ""

Section(h, b) == [heading |-> h, body |-> b]
Words(b) == {b[i] : i \in 1 .. Len(b)} \ {Mark}

-----------------------------------------------------------------------------
(* parseSections: the lines before the first heading, and a section from   *)
(* each heading to the next.  Empty lines around a body are dropped.       *)
IsH2(line) == line \in H2Lines

HeadingsAt(lines) == SelectSeq([i \in 1 .. Len(lines) |-> i], LAMBDA i : IsH2(lines[i]))

Stripped(lines) ==
    LET full == {i \in 1 .. Len(lines) : lines[i] # ""}
        first == CHOOSE i \in full : \A j \in full : i <= j
        last  == CHOOSE i \in full : \A j \in full : j <= i
    IN  IF full = {} THEN << >> ELSE SubSeq(lines, first, last)

(* Variant: the last section is never closed. *)
UntilHeading(lines, at, k) == IF k < Len(at) THEN at[k + 1] - 1 ELSE at[k]

Ends(lines, at, k) == IF k < Len(at) THEN at[k + 1] - 1 ELSE Len(lines)

Preamble(lines) ==
    LET at == HeadingsAt(lines)
    IN  Stripped(IF at = << >> THEN lines ELSE SubSeq(lines, 1, at[1] - 1))

Sections(lines) ==
    LET at == HeadingsAt(lines)
    IN  [k \in 1 .. Len(at) |->
           Section(lines[at[k]], Stripped(SubSeq(lines, at[k] + 1, Ends(lines, at, k))))]

-----------------------------------------------------------------------------
(* The occurrence a section is, among those of its page with its heading.  *)
Ordinal(page, i) == Cardinality({j \in 1 .. i : page[j].heading = page[i].heading})

(* Variant: sections are paired by their heading alone. *)
SameHeading(page, i, other, j) == page[i].heading = other[j].heading

(* diffSections pairs the n-th section of a heading with the n-th.         *)
Pairs(page, i, other, j) ==
    page[i].heading = other[j].heading /\ Ordinal(page, i) = Ordinal(other, j)

Partner(page, i, other) == {j \in 1 .. Len(other) : Pairs(page, i, other, j)}

Change(h, old, status, from, to) ==
    [heading |-> h, old |-> old, status |-> status, from |-> from, to |-> to]

(* The changes in the new page's order, then the removals.                 *)
Arrived(from, to, i) ==
    LET js == Partner(to, i, from)
        b  == to[i].body
        h  == to[i].heading
    IN  CASE js = {} -> Change(h, NoHeading, "added", << >>, b)
          [] js # {} /\ \E j \in js : from[j].body = b -> Change(h, NoHeading, "unchanged", << >>, << >>)
          [] js # {} /\ \A j \in js : from[j].body # b ->
                Change(h, NoHeading, "modified", from[CHOOSE j \in js : TRUE].body, b)

Left(from, to) == SelectSeq([i \in 1 .. Len(from) |-> i], LAMBDA i : Partner(from, i, to) = {})

Paired(from, to) ==
    [i \in 1 .. Len(to) |-> Arrived(from, to, i)]
    \o [k \in 1 .. Len(Left(from, to)) |->
           LET s == from[Left(from, to)[k]] IN Change(s.heading, NoHeading, "removed", s.body, << >>)]

-----------------------------------------------------------------------------
(* bodySimilarity as a fraction, and the threshold of 0.7.                 *)
Similarity(a, b) ==
    CASE a = << >> /\ b = << >> -> <<1, 1>>
      [] (a = << >>) # (b = << >>) -> <<0, 1>>
      [] a # << >> /\ b # << >> ->
            IF Words(a) \cup Words(b) = {} THEN <<1, 1>>
            ELSE <<Cardinality(Words(a) \cap Words(b)), Cardinality(Words(a) \cup Words(b))>>

Higher(s, t)   == s[1] * t[2] > t[1] * s[2]
AtLeast70(s)   == 10 * s[1] >= 7 * s[2]

(* detectRenames: removal by removal, the first of the most similar added  *)
(* sections that none before it took.  The result gives the addition of    *)
(* each removal, 0 for none.                                               *)
Of(changes, status) == {i \in 1 .. Len(changes) : changes[i].status = status}

(* Variant: an added section may be taken twice. *)
FreeAlways(added, taken) == added

Free(added, taken) == added \ taken

BestFor(changes, r, free) ==
    LET sim(a) == Similarity(changes[r].from, changes[a].to)
        best   == {a \in free : /\ AtLeast70(sim(a))
                                /\ \A b \in free : ~Higher(sim(b), sim(a))}
    IN  IF best = {} THEN 0 ELSE CHOOSE a \in best : \A b \in best : a <= b

Renames(changes) ==
    LET added == Of(changes, "added")
        take[r \in 0 .. Len(changes)] ==
           IF r = 0 THEN [i \in {} |-> 0]
           ELSE LET before == take[r - 1]
                    taken  == {before[i] : i \in DOMAIN before}
                    a      == IF r \in Of(changes, "removed")
                              THEN BestFor(changes, r, Free(added, taken)) ELSE 0
                IN  [i \in 1 .. r |-> IF i = r THEN a ELSE before[i]]
    IN  take[Len(changes)]

Diff(from, to) ==
    LET changes == Paired(from, to)
        taken   == Renames(changes)
        gone    == {taken[i] : i \in DOMAIN taken}
        kept    == SelectSeq([i \in 1 .. Len(changes) |-> i], LAMBDA i : i \notin gone)
        final(i) == IF taken[i] = 0 THEN changes[i]
                    ELSE Change(changes[taken[i]].heading, changes[i].heading, "renamed",
                                changes[i].from, changes[taken[i]].to)
    IN  [k \in 1 .. Len(kept) |-> final(kept[k])]

-----------------------------------------------------------------------------
(* overlappingModifiedSections: the headings both sides of a merge changed.*)
Touched(changes) == {i \in 1 .. Len(changes) : changes[i].status \in {"modified", "renamed"}}

(* The text a heading has on my side; a later section with the same        *)
(* heading replaces an earlier one.                                        *)
Mine(changes, h) ==
    LET is == {i \in Touched(changes) : changes[i].heading = h}
    IN  IF is = {} THEN {} ELSE {changes[CHOOSE i \in is : \A j \in is : j <= i].to}

(* Variant: renamed sections are left out. *)
TheirsInPlace(theirs) == {i \in 1 .. Len(theirs) : theirs[i].status = "modified"}

Theirs(theirs) == Touched(theirs)

Conflicting(mine, theirs) ==
    {theirs[i].heading : i \in {j \in Theirs(theirs) :
         Mine(mine, theirs[j].heading) \notin {{}, {theirs[j].to}}}}

Same(mine, theirs) ==
    {theirs[i].heading : i \in {j \in Theirs(theirs) :
         Mine(mine, theirs[j].heading) = {theirs[j].to}}}

-----------------------------------------------------------------------------
(* lcsDiff: the table of the longest common subsequences and the walk back *)
(* through it, which prefers a deletion.                                   *)
Larger(m, n) == IF m >= n THEN m ELSE n

LcsTable(a, b) ==
    LET t[i \in 0 .. Len(a), j \in 0 .. Len(b)] ==
           IF i = 0 \/ j = 0 THEN 0
           ELSE IF a[i] = b[j] THEN t[i - 1, j - 1] + 1
           ELSE Larger(t[i - 1, j], t[i, j - 1])
    IN  t

Op(kind, line) == [kind |-> kind, line |-> line]

(* Variant: the walk prefers an insertion where the table does not. *)
InsertFirst(t, i, j) == FALSE

DeleteFirst(t, i, j) == t[i - 1, j] >= t[i, j - 1]

LineOps(a, b) ==
    LET t == LcsTable(a, b)
        w[i \in 0 .. Len(a), j \in 0 .. Len(b)] ==
           CASE i = 0 /\ j = 0 -> << >>
             [] i > 0 /\ j = 0 -> Append(w[i - 1, 0], Op("del", a[i]))
             [] i = 0 /\ j > 0 -> Append(w[0, j - 1], Op("ins", b[j]))
             [] i > 0 /\ j > 0 ->
                  IF a[i] = b[j] THEN Append(w[i - 1, j - 1], Op("equal", a[i]))
                  ELSE IF DeleteFirst(t, i, j) THEN Append(w[i - 1, j], Op("del", a[i]))
                  ELSE Append(w[i, j - 1], Op("ins", b[j]))
    IN  w[Len(a), Len(b)]

LineDiff(from, to) == IF from = to THEN << >> ELSE LineOps(from, to)

-----------------------------------------------------------------------------
(* diffFrontmatter: a field's value is a scalar or a list of strings, of   *)
(* which the order does not count.  A block gives the fields it has.       *)
Scalar(v) == [list |-> FALSE, value |-> v]
ListOf(s) == [list |-> TRUE, value |-> s]
Field(f, from, to) == [field |-> f, from |-> from, to |-> to]
NoField == [list |-> FALSE, value |-> "none"]

Both(from, to) == DOMAIN from \cap DOMAIN to

Lists(v, w) == v.list /\ w.list

(* Variant: lists of one length are taken for equal. *)
OnlyInLonger(v, w) ==
    IF Cardinality(v.value) = Cardinality(w.value) THEN {} ELSE v.value \ w.value

(* stringSetDiff, for one of its two results. *)
OnlyIn(v, w) == v.value \ w.value

FrontmatterDiff(from, to) ==
    LET both == Both(from, to)
        listed == {f \in both : Lists(from[f], to[f])}
    IN  [added   |-> {Field(f, NoField, to[f]) : f \in DOMAIN to \ DOMAIN from}
                     \cup UNION {{Field(f, NoField, Scalar(x)) : x \in OnlyIn(to[f], from[f])} : f \in listed},
         removed |-> {Field(f, from[f], NoField) : f \in DOMAIN from \ DOMAIN to}
                     \cup UNION {{Field(f, Scalar(x), NoField) : x \in OnlyIn(from[f], to[f])} : f \in listed},
         changed |-> {Field(f, from[f], to[f]) : f \in {g \in both \ listed : from[g] # to[g]}}]

-----------------------------------------------------------------------------
(* PageSections.  A file that has no frontmatter the parser can read makes *)
(* the whole text a preamble; an empty file is a page without fields.      *)
EmptyFile == [readable |-> TRUE, fields |-> << >>, lines |-> << >>]

Whole(file) == IF file = EmptyFile THEN << >> ELSE <<file>>

ChangeOf(from, to) ==
    CASE from = to                     -> "unchanged"
      [] from = << >> /\ to # << >>    -> "added"
      [] from # << >> /\ to = << >>    -> "removed"
      [] OTHER                         -> "modified"

PreambleDiff(from, to) ==
    IF from = << >> /\ to = << >> THEN "none" ELSE ChangeOf(from, to)

PageSections(from, to) ==
    IF ~from.readable \/ ~to.readable
    THEN [fallback |-> TRUE, preamble |-> PreambleDiff(Whole(from), Whole(to)),
          frontmatter |-> FrontmatterDiff(<< >>, << >>), sections |-> << >>]
    ELSE [fallback |-> FALSE,
          preamble |-> PreambleDiff(Preamble(from.lines), Preamble(to.lines)),
          frontmatter |-> FrontmatterDiff(from.fields, to.fields),
          sections |-> Diff(Sections(from.lines), Sections(to.lines))]
=============================================================================
