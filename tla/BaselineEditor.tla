--------------------------- MODULE BaselineEditor ---------------------------
(***************************************************************************)
(* The editor of one file (editor.go, editor_projection.go): every command *)
(* of a script is resolved to spans of the immutable baseline and recorded *)
(* as an edit; the content is rendered from all edits at once.  The driver *)
(* is EditTextBounded (run.go).  What the workspace derives from the edits *)
(* of a file is here too: the report and the target aliases (state.go) and *)
(* the command that a syntax failure is put down to (validation.go).       *)
(*                                                                         *)
(* A text is a sequence of characters, an offset counts the characters     *)
(* before it.  Newline stands for every line terminator.  The edits of one *)
(* command have distinct starts, so the number of the command stands for   *)
(* the sequence number of its edits.                                       *)
(***************************************************************************)
EXTENDS Integers, Sequences, FiniteSets

CONSTANTS
  Characters, Newline,
  Baselines,     \* the texts to edit
  Values,        \* the values of type and add
  Literals,      \* the literals searched for
  Counts,        \* the numbers of matches asked for
  Hash(_),       \* verified-row hash of a line's content
  Valid(_),      \* the syntax check of the file's language
  syntaxLocalizationGroupLimit, \* commands among which the cause of a failure is searched
  MaxCommands, MaxBytes

Text == Seq(Characters)

ASSUME EditorAssumption ==
  /\ Newline \in Characters
  /\ Baselines \subseteq Text /\ Values \subseteq Text
  /\ Literals \subseteq Text /\ << >> \notin Literals
  /\ Counts \subseteq Nat \ {0}
  /\ MaxCommands \in Nat /\ MaxBytes \in Nat /\ syntaxLocalizationGroupLimit \in Nat

VARIABLES
  baseline,  \* the text, fixed
  edits,     \* the recorded edits
  count,     \* commands executed
  status     \* "open", "failed" or "done"

editorVars == <<baseline, edits, count, status>>

Slice(t, i, j) == SubSeq(t, i + 1, j)
Least(S) == CHOOSE x \in S : \A y \in S : x <= y

-----------------------------------------------------------------------------
(* Lines and rows *)

LineStarts(t) == {i \in 0..Len(t) - 1 : i = 0 \/ t[i] = Newline}

FullEnd(t, s) == Least({k \in s + 1..Len(t) : t[k] = Newline \/ k = Len(t)})
Terminated(t) == t # << >> /\ t[Len(t)] = Newline
LineText(t, s) == Slice(t, s, FullEnd(t, s))
HashAt(t, s) == LET line == LineText(t, s) IN
  Hash(IF Terminated(line) THEN SubSeq(line, 1, Len(line) - 1) ELSE line)
RowOf(t, s) == Cardinality({u \in LineStarts(t) : u <= s})

Matching(t, ref) == {s \in LineStarts(t) : HashAt(t, s) = ref.hash}
Hinted(t, ref) == {s \in Matching(t, ref) : RowOf(t, s) = ref.line}
OnlyOne(S) == IF Cardinality(S) = 1 THEN S ELSE {}

\* resolveRow on the baseline: the hinted row, or the only row with the hash.
baselineRow(ref) ==
  IF Hinted(baseline, ref) # {} THEN Hinted(baseline, ref) ELSE OnlyOne(Matching(baseline, ref))

-----------------------------------------------------------------------------
(* Ordering and rendering *)

Insertion(e) == e.start = e.end

\* orderedBaselineEdits
Before(e, f) ==
  \/ e.start < f.start
  \/ e.start = f.start /\ Insertion(e) /\ ~Insertion(f)
  \/ e.start = f.start /\ (Insertion(e) <=> Insertion(f)) /\ e.command < f.command

ordered(es) == [k \in 1..Cardinality(es) |->
  CHOOSE e \in es : Cardinality({f \in es : Before(f, e)}) = k - 1]

Larger(i, j) == IF i < j THEN j ELSE i

\* Mutant: the replaced text is still counted.
ProjectKeeping(p, e) ==
  LET start == p.rendered + e.start - p.base
  IN [base |-> Larger(p.base, e.start), rendered |-> start + Len(e.text), start |-> start]

Project(p, e) ==
  LET start == p.rendered + e.start - p.base
  IN [base |-> Larger(p.base, e.end), rendered |-> start + Len(e.text), start |-> start]

\* projectBaselineEdits: the span of each edit in the rendered content.
Projection(es) ==
  LET o == ordered(es)
      p[k \in 0..Len(o)] ==
        IF k = 0 THEN [base |-> 0, rendered |-> 0, start |-> 0] ELSE Project(p[k - 1], o[k])
  IN p
projected(es) ==
  LET o == ordered(es)
      p == Projection(es)
  IN [k \in 1..Len(o) |-> [edit |-> o[k], start |-> p[k].start, end |-> p[k].rendered]]

\* Mutant: the cursor stays at the start of what is replaced.
WriteKeeping(c, e) ==
  [text |-> c.text \o Slice(baseline, c.cursor, e.start) \o e.text, cursor |-> Larger(c.cursor, e.start)]

Write(c, e) ==
  [text |-> c.text \o Slice(baseline, c.cursor, e.start) \o e.text, cursor |-> Larger(c.cursor, e.end)]

\* contentWithProjection: what is kept before each edit, then the edit.
Rendering(es) ==
  LET o == ordered(es)
      c[k \in 0..Len(o)] == IF k = 0 THEN [text |-> << >>, cursor |-> 0] ELSE Write(c[k - 1], o[k])
  IN c
content(es) ==
  LET all == Rendering(es)[Len(ordered(es))]
  IN all.text \o Slice(baseline, all.cursor, Len(baseline))

\* renderedBaselineLine: is the line untouched, and where is it now?
unbroken(s, e) ==
  \A f \in edits : IF Insertion(f) THEN f.start <= s \/ f.start >= e
                                   ELSE f.start >= e \/ f.end <= s

\* Mutant: an insertion at the boundary is never counted.
ShiftsBefore(f, offset, inclusive) == IF Insertion(f) THEN f.start < offset ELSE f.end <= offset

Shifts(f, offset, inclusive) ==
  IF Insertion(f) THEN f.start < offset \/ (inclusive /\ f.start = offset) ELSE f.end <= offset

SumOver(es, amount) ==
  LET o == ordered(es)
      sum[k \in 0..Len(o)] == IF k = 0 THEN 0 ELSE sum[k - 1] + amount[o[k]]
  IN sum[Len(o)]
Removed(es) == SumOver(es, [e \in es |-> e.end - e.start])
Added(es) == SumOver(es, [e \in es |-> Len(e.text)])

renderedBoundary(offset, inclusive) ==
  LET before == {f \in edits : Shifts(f, offset, inclusive)}
  IN offset + SumOver(before, [f \in before |-> Len(f.text) - (f.end - f.start)])

\* Mutant: the hash of the pending row is enough.
SameHash(s, q, pending) == HashAt(pending, q) = HashAt(baseline, s)

SameSpan(s, q, pending) ==
  /\ renderedBoundary(s, TRUE) = q
  /\ renderedBoundary(FullEnd(baseline, s), FALSE) = FullEnd(pending, q)

\* editor.resolveRow: else an unchanged baseline line at that pending row.
resolveRow(ref) ==
  IF baselineRow(ref) # {} \/ edits = {} THEN baselineRow(ref)
  ELSE LET pending == content(edits) IN
       OnlyOne({s \in Matching(baseline, ref) :
                  /\ unbroken(s, FullEnd(baseline, s))
                  /\ \E q \in Hinted(pending, ref) : SameSpan(s, q, pending)})

-----------------------------------------------------------------------------
(* Targets *)

Occurs(literal, i) ==
  i + Len(literal) <= Len(baseline) /\ Slice(baseline, i, i + Len(literal)) = literal

\* nonOverlappingLiteralOffsets, without the limit
offsets(literal, from) ==
  LET n == Len(literal)
      searched[i \in from..Len(baseline)] ==
        \/ i = from
        \/ searched[i - 1] /\ ~Occurs(literal, i - 1)
        \/ i >= from + n /\ searched[i - n] /\ Occurs(literal, i - n)
  IN {i \in from..Len(baseline) : Occurs(literal, i) /\ searched[i]}

FirstOf(S, n) == {i \in S : Cardinality({j \in S : j <= i}) <= n}

Span(s, e, linewise) == [start |-> s, end |-> e, linewise |-> linewise]
LineSpan(s, e) == {Span(s, FullEnd(baseline, e), TRUE)}
Matches(literal, S) == {Span(i, i + Len(literal), FALSE) : i \in S}

\* The spans of a target; none when it does not resolve.
resolveTarget(target) ==
  CASE target.kind = "line" -> UNION {LineSpan(s, s) : s \in resolveRow(target.from)}
    [] target.kind = "range" ->
         UNION {LineSpan(w[1], w[2]) :
                  w \in {v \in resolveRow(target.from) \X resolveRow(target.to) : v[1] <= v[2]}}
    [] target.kind = "literal" ->
         LET all == offsets(target.literal, 0) IN
         IF Cardinality(all) < target.count THEN {}
         ELSE Matches(target.literal, FirstOf(all, target.count))
    [] target.kind = "text" ->
         LET anchor == resolveRow(target.from)
             all == offsets(target.literal, IF anchor = {} THEN 0 ELSE Least(anchor)) IN
         IF anchor = {} /\ Cardinality(all) # target.count THEN {}
         ELSE IF Cardinality(all) < target.count THEN {}
         ELSE Matches(target.literal, FirstOf(all, target.count))
    [] target.kind = "EOF" -> {Span(Len(baseline), Len(baseline), FALSE)}

\* The rows an author can know: of the baseline or of the pending content, at
\* their place or one line off.
Seen(t) == {[line |-> RowOf(t, s) + d, hash |-> HashAt(t, s)] : s \in LineStarts(t), d \in {0, 1}}
References == Seen(baseline) \cup Seen(content(edits))

Targets(operation) ==
  [kind : {"line"}, from : References] \cup [kind : {"range"}, from : References, to : References]
  \cup [kind : {"literal"}, literal : Literals, count : Counts]
  \cup [kind : {"text"}, from : References, literal : Literals, count : Counts]
  \cup (IF operation = "add" THEN [kind : {"EOF"}] ELSE {})

-----------------------------------------------------------------------------
(* applyMutation and recordEdits *)

\* A replaced line keeps its terminator unless the value brings one.
replacement(operation, value, span) ==
  IF operation = "type" /\ span.linewise /\ value # << >> /\ ~Terminated(value)
       /\ Terminated(Slice(baseline, span.start, span.end))
  THEN Append(value, Newline) ELSE value

\* renderRowTarget: a row, or the first and the last row, as the author wrote them.
renderRowTarget(target) == IF target.kind = "line" THEN <<target.from>> ELSE <<target.from, target.to>>

edit(operation, target, value, span) ==
  LET rows == operation = "type" /\ span.linewise IN
  [start |-> span.start, end |-> IF operation = "add" THEN span.start ELSE span.end,
   text |-> replacement(operation, value, span), command |-> count + 1,
   rows |-> rows, target |-> IF rows THEN renderRowTarget(target) ELSE << >>]

\* Nothing is inserted, or a text is replaced by itself.
Idle(e) == e.text = Slice(baseline, e.start, e.end)

\* describeEditConflict
Conflict(e, f) ==
  IF Insertion(e) /\ Insertion(f) THEN FALSE
  ELSE IF Insertion(e) THEN f.start < e.start /\ e.start < f.end
  ELSE IF Insertion(f) THEN e.start < f.start /\ f.start < e.end
  ELSE e.start < f.end /\ f.start < e.end

\* Mutant: only the edits of the command before are compared.
ClashesRecent(new) == \E e \in edits, f \in new : e.command = count /\ Conflict(e, f)

Clashes(new) ==
  \/ \E e \in edits, f \in new : Conflict(e, f)
  \/ \E e, f \in new : e # f /\ Conflict(e, f)

\* Mutant: the replaced text is not subtracted.
contentFitsGrown(es, limit) == Len(baseline) + Added(es) <= limit

\* contentFits: what is kept of the baseline first, then the replacements.
contentFits(es, limit) ==
  LET kept == Len(baseline) - Removed(es)
  IN kept <= limit /\ Added(es) <= limit - kept

EditorInit ==
  /\ baseline \in Baselines /\ edits = {} /\ count = 0
  /\ status = IF Len(baseline) > MaxBytes THEN "failed" ELSE "open"

\* One command: it is recorded at all its spans or at none, and ends the script
\* when it does not resolve, conflicts or grows the text too much.
applyMutation(operation, target, value) ==
  LET spans == resolveTarget(target)
      new == {e \in {edit(operation, target, value, s) : s \in spans} : ~Idle(e)} IN
  /\ status = "open" /\ count < MaxCommands
  /\ count' = count + 1
  /\ IF spans = {} \/ Clashes(new)
     THEN status' = "failed" /\ UNCHANGED edits
     ELSE /\ edits' = edits \cup new
          /\ status' = IF contentFits(edits', MaxBytes) THEN "open" ELSE "failed"
  /\ UNCHANGED baseline

finish == status = "open" /\ status' = "done" /\ UNCHANGED <<baseline, edits, count>>

EditorNext ==
  \/ \E operation \in {"type", "add"}, value \in Values :
       \E target \in Targets(operation) : applyMutation(operation, target, value)
  \/ finish

EditorSpec == EditorInit /\ [][EditorNext]_editorVars

-----------------------------------------------------------------------------
(* The report and the target aliases *)

Greatest(S) == CHOOSE x \in S : \A y \in S : y <= x
Executed == {e.command : e \in edits}

\* renderedEditExtents: from the first to the last rendered edit of a command.
extent(p, c) ==
  LET mine == {k \in DOMAIN p : p[k].edit.command = c}
  IN [start |-> Least({p[k].start : k \in mine}), end |-> Greatest({p[k].end : k \in mine})]

\* renderedCoordinateAt: the row of an offset; past the last terminator it is
\* the last row, and an empty text has one.
RowAt(t, offset) ==
  LET content_end(s) == IF t[FullEnd(t, s)] = Newline THEN FullEnd(t, s) - 1 ELSE FullEnd(t, s)
      holding == {s \in LineStarts(t) : offset <= content_end(s)}
  IN IF t = << >> THEN 1
     ELSE IF holding = {} THEN Cardinality(LineStarts(t)) ELSE RowOf(t, Least(holding))

\* writeFinalReferences: the rows shown for a command, with one on each side.
ReportedRows(t, x) == RowAt(t, x.start)..RowAt(t, x.end)

StartOf(t, row) == CHOOSE s \in LineStarts(t) : RowOf(t, s) = row
Reference(t, row) == [line |-> row, hash |-> IF t = << >> THEN Hash(t) ELSE HashAt(t, StartOf(t, row))]

\* renderDocumentRange
RangeOf(t, from, to) ==
  IF from = to THEN <<Reference(t, from)>> ELSE <<Reference(t, from), Reference(t, to)>>
FirstLine(target) == target[1].line
LastLine(target) == target[Len(target)].line

\* Mutant: the row after a terminated value belongs to it.
LastRowAfter(t, x) == RowAt(t, x.end)

LastRow(t, x) == RowAt(t, Larger(x.start, x.end - 1))

\* targetAliases: the target of a replacement as it was written, which the hash
\* or the pending content may have resolved to other rows, and the rows that
\* are there now.
aliasOf(c, t, p) ==
  LET e == CHOOSE f \in edits : f.command = c
      x == extent(p, c)
  IN [before |-> e.target, after |-> RangeOf(t, RowAt(t, x.start), LastRow(t, x)), command |-> c]

Aliased == {c \in Executed : \E e \in edits : e.command = c /\ e.rows /\ e.text # << >>}

\* In the order of the commands.
targetAliases(t, p) ==
  [k \in 1..Cardinality(Aliased) |->
     aliasOf(CHOOSE c \in Aliased : Cardinality({d \in Aliased : d < c}) = k - 1, t, p)]

SameTarget(r, s) == r = s

\* RewriteTargetAliasesWithDiagnostics: one target of the next script, through
\* the aliases in turn.
rewritten(target, aliases) ==
  LET after[k \in 0..Len(aliases)] ==
        IF k = 0 THEN target
        ELSE IF SameTarget(aliases[k].before, after[k - 1]) THEN aliases[k].after ELSE after[k - 1]
  IN after[Len(aliases)]

\* rowSpanRelation, by rank: nothing, overlap, contains, contained, exact.
rowSpanRelation(r, s) ==
  LET within(u, v) == FirstLine(v) <= FirstLine(u) /\ LastLine(u) <= LastLine(v) IN
  IF \/ LastLine(r) < FirstLine(r) \/ LastLine(s) < FirstLine(s)
     \/ LastLine(r) < FirstLine(s) \/ LastLine(s) < FirstLine(r) THEN 0
  ELSE IF within(r, s) /\ within(s, r) THEN 4
  ELSE IF within(r, s) THEN 3 ELSE IF within(s, r) THEN 2 ELSE 1

targetAliasRelation(target, aliases) ==
  Greatest({0} \cup {rowSpanRelation(target, aliases[k].before) : k \in DOMAIN aliases})

-----------------------------------------------------------------------------
(* Whom a syntax failure is put down to *)

OfCommands(cs) == {e \in edits : e.command \in cs}

\* syntaxEditGroups: how far the rendered edits of each command are from a failure.
Distances(p, offset) == [c \in Executed |->
  Least({Larger(Larger(p[k].start - offset, offset - p[k].end), 0) :
           k \in {j \in DOMAIN p : p[j].edit.command = c}})]

\* The order in which commands are left out: the farthest first.
Farther(far, c, d) == far[c] > far[d] \/ (far[c] = far[d] /\ c < d)

\* closestSyntaxEditGroup: the nearest command, of several the last.
Closest(far, cs) ==
  CHOOSE c \in cs : \A d \in cs \ {c} : far[c] < far[d] \/ (far[c] = far[d] /\ d < c)

\* Mutant: a command is left out when the rest is fine without it.
LeavesOutCause(failing, cs) == cs \notin failing

LeavesOut(failing, cs) == cs \in failing

\* contentWithSyntaxGroups: the sets of commands that alone make the file fail.
Failing == {cs \in SUBSET Executed : ~Valid(content(OfCommands(cs)))}

\* syntaxFailureLocationWith: the commands that are left when each in turn is
\* left out as long as the failure stays.
retained(far, failing) ==
  LET n == Cardinality(Executed)
      turn == [k \in 1..n |-> CHOOSE c \in Executed :
                 Cardinality({d \in Executed : Farther(far, d, c)}) = k - 1]
      left[k \in 0..n] ==
        IF k = 0 THEN Executed
        ELSE IF LeavesOut(failing, left[k - 1] \ {turn[k]}) THEN left[k - 1] \ {turn[k]} ELSE left[k - 1]
  IN IF n = 1 \/ n > syntaxLocalizationGroupLimit \/ {} \in failing THEN Executed ELSE left[n]

-----------------------------------------------------------------------------
(* Properties *)

\* Every recorded edit lies within the baseline and belongs to a command that
\* was executed (recordEdits).
EditorTypeOK ==
  /\ baseline \in Baselines /\ count \in 0..MaxCommands
  /\ \A e \in edits : /\ e.start \in 0..Len(baseline) /\ e.end \in e.start..Len(baseline)
                      /\ e.text \in Text /\ e.command \in 1..count
  /\ status \in {"open", "failed", "done"}

\* "Recorded destructive spans are disjoint" (editor.go:451), and no insertion
\* is strictly inside of one, however many commands, matches and failures there
\* were: everything that renders relies on it.
SpansDisjoint == \A e, f \in edits : e # f => ~Conflict(e, f)

\* Position by position: what is inserted here in command order, what replaces
\* the text from here on, and the character itself unless it is replaced.
Texts(o) ==
  LET t[k \in 0..Len(o)] == IF k = 0 THEN << >> ELSE t[k - 1] \o o[k].text IN t[Len(o)]
Piece(es, i) ==
  Texts(ordered({e \in es : e.start = i /\ Insertion(e)}))
  \o Texts(ordered({e \in es : e.start = i /\ ~Insertion(e)}))
  \o (IF i < Len(baseline) /\ ~\E e \in es : e.start <= i /\ i < e.end THEN <<baseline[i + 1]>> ELSE << >>)
Pieces(es) ==
  LET s[i \in 0..Len(baseline) + 1] == IF i = 0 THEN << >> ELSE s[i - 1] \o Piece(es, i - 1) IN s
Substituted(es) == Pieces(es)[Len(baseline) + 1]

\* Rendering with one cursor is the simultaneous substitution of all edits in
\* the baseline (editor_projection.go:42-52), and contentFits tells its size
\* without rendering it, for every limit (editor.go:450-469).
RenderIsSubstitution ==
  /\ content(edits) = Substituted(edits)
  /\ \A limit \in 0..2 * MaxBytes : contentFits(edits, limit) <=> Len(content(edits)) <= limit

\* In the order of rendering every edit starts where the one before it has
\* ended or later: the slice from the cursor to the next edit, which would
\* panic otherwise, never runs backwards (editor_projection.go:46).
SlicesForward == \A e, f \in edits : Before(e, f) => e.end <= f.start

\* Positions are carried through the edits: the projected span of every edit
\* holds exactly its replacement (editor_projection.go:18-30; the report and the
\* aliases are built from it), and a baseline line that no edit touches is
\* found, to the byte, where renderedBaselineLine says (editor.go:175-207).
PositionsSurvive ==
  /\ LET p == projected(edits) IN
     \A k \in DOMAIN p : Slice(content(edits), p[k].start, p[k].end) = p[k].edit.text
  /\ \A s \in LineStarts(baseline) :
       LET e == FullEnd(baseline, s) IN
       unbroken(s, e) =>
         Slice(content(edits), renderedBoundary(s, TRUE), renderedBoundary(e, FALSE)) = Slice(baseline, s, e)

\* A reference read from the baseline means its line whatever was edited since;
\* one that only fits the pending content means the unchanged line at that row
\* (editor.go:139-172, doc/spec/select.md:13-17).
RowsTruthful ==
  /\ \A s \in LineStarts(baseline) :
       resolveRow([line |-> RowOf(baseline, s), hash |-> HashAt(baseline, s)]) = {s}
  /\ \A ref \in References : \A s \in resolveRow(ref) :
       s \notin baselineRow(ref) =>
         \E q \in LineStarts(content(edits)) :
           RowOf(content(edits), q) = ref.line /\ LineText(content(edits), q) = LineText(baseline, s)

\* References and positions mean the same line before and after the edits.
PositionsTruthful == PositionsSurvive /\ RowsTruthful

\* What the next script learns is true.  The alias of a replaced row or range
\* names exactly the rows that hold its replacement, and the report shows no
\* row in between.  In the next script the target that was written then is
\* rewritten to these rows, with the relation "exact", unless an earlier command
\* was given the same target or the outcome is the target of a later one; it
\* always leads to the rows of some replacement (state.go:79-109, 159-200;
\* run.go:227-357).
AliasesFollow ==
  status = "done" /\ edits # {} =>
    LET t == content(edits)
        p == projected(edits)
        aliases == targetAliases(t, p) IN
    \A k \in DOMAIN aliases :
      LET al == aliases[k]
          now == FirstLine(al.after)..LastLine(al.after)
          x == extent(p, al.command)
          holds(s) == s < x.end /\ x.start < FullEnd(t, s) IN
      /\ \A s \in LineStarts(t) : holds(s) <=> RowOf(t, s) \in now
      /\ now \subseteq ReportedRows(t, x)
      /\ FirstLine(al.before) <= LastLine(al.before) => targetAliasRelation(al.before, aliases) = 4
      /\ \E i \in DOMAIN aliases :
           /\ rewritten(al.before, aliases) = aliases[i].after
           /\ \/ i = k
              \/ \E j \in DOMAIN aliases : \/ j < k /\ aliases[j].before = al.before
                                           \/ j > k /\ aliases[j].before = al.after

\* Every command that a syntax failure may be put down to is decisive: some
\* commands, with it and all others that are left, make the file fail, and
\* without it they do not.  It follows that none that is left can be spared, where
\* no command hides the failure of another.  So it is wherever the failure is
\* reported, as long as the file was valid before the script and the commands
\* are not too many (validation.go:598-634).
BlameIsDecisive ==
  status = "done" /\ edits # {} =>
    LET t == content(edits)
        p == projected(edits)
        failing == Failing IN
    /\ Executed \in failing /\ {} \notin failing
    /\ Cardinality(Executed) <= syntaxLocalizationGroupLimit
    => \A offset \in 0..Len(t) :
         LET far == Distances(p, offset)
             left == retained(far, failing) IN
         /\ left \in failing /\ Closest(far, left) \in left
         /\ \A c \in left : \E cs \in failing : left \subseteq cs /\ cs \ {c} \notin failing
=============================================================================
