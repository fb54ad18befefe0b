--------------------------- MODULE EditWorkspace ---------------------------
(***************************************************************************)
(* One edit script from its first command to the host's answer: the        *)
(* pending workspace of workspace.go, the rendering of validation.go, the  *)
(* patch of translate.go, the host operations of run.go and the hooks of   *)
(* hooks.go.  A command or a hook is one step; the caller may cancel       *)
(* between any two steps.                                                  *)
(*                                                                         *)
(* The content of a file is where it came from, which commands changed its *)
(* text, and its layout: whether its spacing differs and how its lines     *)
(* end.  Whether a target resolves is a choice here (BaselineEditor        *)
(* decides it).  The commit is the outcome of EditTransaction.             *)
(***************************************************************************)
EXTENDS EditChange

CONSTANTS
  GoPaths,      \* paths with the extension .go, formatted by gofmt
  PlainPaths,   \* paths of no known language: indentation is not corrected
  Endings,      \* ways in which the lines of a file end, LF and Open among them
  Bare,         \* those that leave the last line without a terminator
  EndsOf,       \* how the lines of each file on disk end
  MaxCommands,  \* bound on the commands of a script
  MaxHooks      \* bound on the hooks configured for one event

New == "new"      \* the origin of a created file, which is no path

LF == "lf"        \* every line ends in a line feed
Open == "open"    \* every line but the last, which has no terminator

\* Whether the spacing differs from the origin's, and how the lines end.
LayoutType == [spacing : BOOLEAN, ends : Endings]

\* Where a content came from, the commands that changed its text, its layout.
FileContents == [from : Names \cup {New}, text : SUBSET Nat, layout : LayoutType]

ASSUME WorkspaceAssumption ==
  /\ MaxCommands \in Nat \ {0} /\ MaxHooks \in Nat
  /\ GoPaths \subseteq Names /\ PlainPaths \subseteq Names \ GoPaths
  /\ LF \in Endings /\ Bare \subseteq Endings /\ Open \in Bare /\ LF \notin Bare
  /\ EndsOf \in [Names -> Endings]
  /\ New \notin Names /\ Absent \notin FileContents

Commands == 1..MaxCommands

VARIABLES
  mode,           \* ApplyForHost or TranslateForHostAt
  disk,           \* the files on disk
  files, paths, blocked, reserved, active, initializable, reported,
  failures,       \* baselineFailures: the commands that failed so far
  count,          \* commands executed
  cancelled,      \* ctx is done
  phase, changes,
  err,            \* "none", "ctx", "invalid", "rejected", "translate" or "commit"
  rejections,     \* the commands that a "rejected" names
  failureStage,   \* the stage that an error is reported with
  written,        \* what the commit did to the disk: "no", "yes" or "torn"
  result,         \* the HostTranslation
  hook,           \* the hooks of the event being reported
  pending         \* ghost: the files as the commands, in turn, change them

wsVars   == <<files, paths, blocked, reserved, active, initializable, reported, failures>>
hostVars == <<changes, err, rejections, failureStage, written, result, hook>>
vars == <<mode, disk, wsVars, count, cancelled, phase, hostVars, pending>>

Content(from, text, layout) == [from |-> from, text |-> text, layout |-> layout]
Layout(spacing, ends) == [spacing |-> spacing, ends |-> ends]
Fresh(from) == Layout(FALSE, IF from = New THEN LF ELSE EndsOf[from])
OnDisk(p) == Content(p, {}, Fresh(p))

None == 0         \* a nil *fileState
Live(f) == ~f.deleted

Init ==
  /\ mode \in {"apply", "translate"}
  /\ \E present \in SUBSET Names :
       disk = [p \in Names |-> IF p \in present THEN OnDisk(p) ELSE Absent]
  /\ files = << >> /\ paths = [p \in Names |-> None]
  /\ blocked = {} /\ reserved = {} /\ active = None /\ initializable = None
  /\ reported = << >> /\ failures = {}
  /\ count = 0 /\ cancelled = FALSE /\ phase = "open"
  /\ changes = << >> /\ err = "none" /\ rejections = {} /\ failureStage = "" /\ written = "no"
  /\ result = [stage |-> "", status |-> "", applied |-> FALSE, published |-> FALSE,
               returned |-> "none", diagnostic |-> {}, failures |-> "none"]
  /\ hook = [routed |-> FALSE, left |-> 0, late |-> FALSE, ran |-> << >>]
  /\ pending = disk

-----------------------------------------------------------------------------
(* evaluate *)

\* An indentation-only replacement in a file that is not corrected later.
Rejects(f) == f.indents # {} /\ f.path \in PlainPaths
indentationFailure == {i \in DOMAIN files : Rejects(files[i])}

\* The earliest such command, which alone is reported.
EarliestIndentation == LET all == UNION {files[i].indents : i \in indentationFailure}
                       IN {c \in all : \A d \in all : c <= d}

\* The workspace belongs to evaluate and goes with it.
Discards ==
  /\ files' = << >> /\ paths' = [p \in Names |-> None] /\ blocked' = {} /\ reserved' = {}
  /\ active' = None /\ initializable' = None /\ reported' = << >> /\ failures' = {}

Rejected(why, commands) ==
  /\ phase' = "finish" /\ err' = why /\ failureStage' = "evaluated" /\ rejections' = commands
  /\ Discards /\ pending' = disk

\* validateWorkspace or validateHostDirectory, then parse: a bad root or
\* directory has no command to name, a script that does not parse has one.
evaluateScript ==
  /\ phase = "open"
  /\ \/ cancelled /\ Rejected("ctx", {})
     \/ ~cancelled /\ Rejected("invalid", {})
     \/ ~cancelled /\ Rejected("rejected", {1})
     \/ ~cancelled /\ phase' = "evaluate" /\ UNCHANGED <<wsVars, err, rejections, failureStage, pending>>
  /\ UNCHANGED <<mode, disk, count, cancelled, changes, written, result, hook>>

\* resolvePath: with a root, an absolute path is taken relative to it and a
\* path that leaves it is refused; without one the path stays as it is.  A path
\* with nothing to resolve it against is refused: an absolute one under a
\* relative root, a relative one without a host directory.
Spellings == {"relative", "absolute", "outside", "unrooted"}
resolvePath(spelling) == spelling # "unrooted" /\ (mode = "apply" => spelling # "outside")

\* A command about to be executed: the loop's ctx check has passed.
Step ==
  /\ phase = "evaluate" /\ ~cancelled /\ count < MaxCommands
  /\ count' = count + 1
  /\ UNCHANGED <<mode, disk, cancelled, changes, written, result, hook>>

\* An indentation failure of an earlier command comes first.
Stop == Rejected("rejected", IF indentationFailure = {} THEN {count'} ELSE EarliestIndentation)

Goes == phase' = "evaluate" /\ UNCHANGED <<err, rejections, failureStage, failures>>

\* Any command other than the bare type forgets the initializable file.
Forgets == initializable' = None

selectFile(p, spelling) ==
  /\ Step /\ resolvePath(spelling) /\ Forgets
  /\ \/ /\ paths[p] # None
        /\ active' = paths[p]
        /\ Goes /\ UNCHANGED <<files, paths>>
     \/ /\ paths[p] = None /\ p \notin blocked /\ disk[p] # Absent
        /\ files' = Append(files, [from |-> p, path |-> p, created |-> FALSE, deleted |-> FALSE,
                                   edits |-> {}, text |-> {}, layout |-> Fresh(p), indents |-> {}, origin |-> 0])
        /\ active' = Len(files')
        /\ paths' = [paths EXCEPT ![p] = Len(files')]
        /\ Goes
  /\ UNCHANGED <<blocked, reserved, reported, pending>>

\* Mutant: only the pending workspace is looked at.
OccupiedPending(p) == paths[p] # None \/ p \in reserved

pathOccupied(p) == paths[p] # None \/ p \in reserved \/ (p \notin blocked /\ disk[p] # Absent)

newFile(p, spelling) ==
  /\ Step /\ resolvePath(spelling) /\ ~pathOccupied(p)
  /\ files' = Append(files, [from |-> New, path |-> p, created |-> TRUE, deleted |-> FALSE,
                             edits |-> {}, text |-> {}, layout |-> Fresh(New), indents |-> {}, origin |-> count'])
  /\ paths' = [paths EXCEPT ![p] = Len(files')]
  /\ active' = Len(files') /\ initializable' = Len(files')
  /\ pending' = [pending EXCEPT ![p] = Content(New, {}, Fresh(New))]
  /\ Goes /\ UNCHANGED <<blocked, reserved, reported>>

\* Mutant: the old name still finds the file on disk.
VacatesQuietly(p, from) == reserved' = reserved \cup {p} /\ UNCHANGED blocked

\* A name that the script gave up can be neither selected nor used again.
Vacates(p, from) ==
  /\ blocked' = blocked \cup ({p, from} \cap Names)
  /\ reserved' = reserved \cup {p}

moveFile(p, spelling) ==
  /\ Step /\ resolvePath(spelling) /\ Forgets /\ active # None /\ ~pathOccupied(p)
  /\ LET old == files[active].path IN
     /\ paths' = [paths EXCEPT ![old] = None, ![p] = active]
     /\ Vacates(old, old)
     /\ files' = [files EXCEPT ![active].path = p, ![active].origin = count']
     /\ pending' = [pending EXCEPT ![p] = pending[old], ![old] = Absent]
  /\ Goes /\ UNCHANGED <<active, reported>>

\* Mutant: the report keeps the edits of a removed file.
RetainedAll(i) == reported

\* The reported edits of the other files.
Retained(i) ==
  LET kept[k \in 0..Len(reported)] ==
        IF k = 0 THEN << >>
        ELSE IF reported[k].file = i THEN kept[k - 1] ELSE Append(kept[k - 1], reported[k])
  IN kept[Len(reported)]

removeFile ==
  /\ Step /\ Forgets /\ active # None
  /\ files[active].created \/ files[active].edits = {}
  /\ LET f == files[active] IN
     /\ paths' = [paths EXCEPT ![f.path] = None]
     /\ Vacates(f.path, f.from)
     /\ pending' = [pending EXCEPT ![f.path] = Absent]
  /\ files' = [files EXCEPT ![active].deleted = TRUE]
  /\ reported' = Retained(active)
  /\ active' = None
  /\ Goes

Reports == reported' = Append(reported, [file |-> active, command |-> count'])

\* The bare type right after a new; an empty value records no edit.
initialize(empty, ends) ==
  /\ Step /\ active # None /\ initializable = active /\ files[active].created
  /\ initializable' = None
  /\ IF empty
     THEN UNCHANGED <<files, pending, reported>>
     ELSE /\ files' = [files EXCEPT ![active].edits = {count'}, ![active].text = {count'},
                                    ![active].layout = Layout(FALSE, ends)]
          /\ pending' = [pending EXCEPT ![files[active].path] = Content(New, {count'}, Layout(FALSE, ends))]
          /\ Reports
  /\ Goes /\ UNCHANGED <<paths, blocked, reserved, active>>

\* A target that resolves without a conflict.  Its effect is on the text, only
\* on the spacing or the line ends, or none: then nothing is recorded.
Effects == {"text", "spacing", "ends", "none"}
applyMutation(effect, ends, indents) ==
  /\ Step /\ Forgets /\ active # None /\ ~files[active].created
  /\ indents => effect = "spacing"
  /\ effect = "ends" => ends # files[active].layout.ends
  /\ IF effect = "none"
     THEN UNCHANGED <<files, pending, reported>>
     ELSE LET f == files[active]
              text == IF effect = "text" THEN f.text \cup {count'} ELSE f.text
              layout == Layout(f.layout.spacing \/ effect = "spacing", ends)
          IN /\ files' = [files EXCEPT ![active] = [f EXCEPT !.edits = @ \cup {count'}, !.text = text,
                            !.layout = layout, !.indents = @ \cup (IF indents THEN {count'} ELSE {})]]
             /\ pending' = [pending EXCEPT ![f.path] = Content(f.from, text, layout)]
             /\ Reports
  /\ Goes /\ UNCHANGED <<paths, blocked, reserved, active>>

\* A missing or stale row, a missing occurrence, a reversed range: collected so
\* that one answer reports all of them, unless an indentation failure comes first.
baselineFailure ==
  /\ Step /\ active # None /\ ~files[active].created
  /\ IF indentationFailure # {}
     THEN Stop
     ELSE /\ Forgets /\ failures' = failures \cup {count'}
          /\ phase' = "evaluate"
          /\ UNCHANGED <<err, rejections, failureStage, files, paths, blocked, reserved, active, reported, pending>>

\* Every other failure ends the evaluation and is reported alone: an occupied or
\* missing path, no active file, an edited file to remove, a conflict, a failing read.
commandFails == Step /\ Stop

refusesPath(spelling) == Step /\ ~resolvePath(spelling) /\ Stop

\* The loop or a check after it finds that the caller has gone.
stopsEarly ==
  /\ phase \in {"evaluate", "render"} /\ cancelled
  /\ Rejected("ctx", {})
  /\ UNCHANGED <<mode, disk, count, cancelled, changes, written, result, hook>>

\* Mutant: the collected failures are forgotten.
DoomedByIndentation == indentationFailure # {}

Doomed == failures # {} \/ indentationFailure # {}

\* The end of the script: collected failures and indentation come before ctx.
evaluated ==
  /\ phase = "evaluate" /\ count > 0
  /\ Doomed \/ ~cancelled
  /\ IF Doomed
     THEN Rejected("rejected", IF failures # {} THEN failures ELSE EarliestIndentation)
     ELSE phase' = "render" /\ UNCHANGED <<wsVars, err, rejections, failureStage, pending>>
  /\ UNCHANGED <<mode, disk, count, cancelled, changes, written, result, hook>>

-----------------------------------------------------------------------------
(* renderFinal and changes *)

\* Mutant: every file of a Go path is formatted.
FormatsAll(f) == f.path \in GoPaths

Formats(f) ==
  f.path \in GoPaths /\ (f.created \/ f.text # {} \/ f.layout # Fresh(f.from) \/ f.from \notin GoPaths)

\* The carriage returns go; a last line without a terminator stays so.
WithoutCR(ends) == IF ends \in Bare THEN Open ELSE LF

\* The layout after the indentation correction, which keeps the line ends, and
\* the formatter, which need not: gofmt drops carriage returns and ends a whole
\* source file, and keeps the space around a fragment.
Layouts(f) ==
  IF Live(f) /\ Formats(f) THEN [spacing : BOOLEAN, ends : {f.layout.ends, LF, WithoutCR(f.layout.ends)}]
  ELSE IF Live(f) /\ f.indents # {} THEN [spacing : BOOLEAN, ends : {f.layout.ends}]
  ELSE {f.layout}

Touched(f, content) == f.from # f.path \/ content # OnDisk(f.from)

ChangeOf(f) ==
  LET content == Content(f.from, f.text, f.layout) IN
  IF f.created /\ f.deleted THEN << >>
  ELSE IF f.created THEN <<[kind |-> "add", from |-> f.path, to |-> f.path, content |-> content]>>
  ELSE IF f.deleted THEN <<[kind |-> "delete", from |-> f.from, to |-> f.from, content |-> OnDisk(f.from)]>>
  ELSE IF Touched(f, content)
       THEN <<[kind |-> "update", from |-> f.from, to |-> f.path, content |-> content]>>
  ELSE << >>

changesOf(fs) == LET n[k \in 0..Len(fs)] ==
                       IF k = 0 THEN << >> ELSE n[k - 1] \o ChangeOf(fs[k])
                 IN n[Len(fs)]

\* A file that is formatted or, in a known language, new, moved or changed.
Validated(f) ==
  \/ Formats(f)
  \/ /\ f.path \notin GoPaths \cup PlainPaths
     /\ f.created \/ Touched(f, Content(f.from, f.text, f.layout))

\* Mutant: a file without edits has nobody to blame.
BlamesEdits(f) == IF f.edits # {} THEN f.edits ELSE {0}

\* The commands a syntax failure can be put down to: an edit or, in a file
\* without edits, the command that created or moved it.
Blames(f) == IF f.edits # {} THEN f.edits ELSE {f.origin}

\* groupValidationFailures: the failures of all files, one per command and path.
renderFailures == {blamed \in SUBSET UNION {Blames(files[i]) : i \in {j \in DOMAIN files :
                                               Live(files[j]) /\ Validated(files[j])}} :
                     blamed # {}}

renderFinal ==
  /\ phase = "render" /\ ~cancelled
  /\ \/ /\ \E layout \in [DOMAIN files -> LayoutType] :
             /\ \A i \in DOMAIN files : layout[i] \in Layouts(files[i])
             /\ files' = [i \in DOMAIN files |-> [files[i] EXCEPT !.layout = layout[i]]]
        /\ changes' = changesOf(files')
        /\ phase' = "effect"
        /\ UNCHANGED <<err, rejections, failureStage, paths, blocked, reserved, active, initializable,
                       reported, failures, pending>>
     \/ \E blamed \in renderFailures : Rejected("rejected", blamed) /\ UNCHANGED changes
  /\ UNCHANGED <<mode, disk, count, cancelled, written, result, hook>>

-----------------------------------------------------------------------------
(* The host's effect *)

Commits == ~cancelled /\ changes # << >>

\* ApplyForHost: ctx is checked once more, then the transaction runs to its end.
applyEffect ==
  /\ phase = "effect" /\ mode = "apply"
  /\ \/ ~Commits /\ err' = (IF cancelled THEN "ctx" ELSE "none") /\ UNCHANGED <<failureStage, written>>
     \/ Commits /\ err' = "none" /\ written' = "yes" /\ UNCHANGED failureStage
     \/ /\ Commits /\ err' = "commit" /\ failureStage' = "applied"
        /\ written' \in {"no", "yes", "torn"}
  /\ phase' = "finish" /\ Discards /\ pending' = disk
  /\ UNCHANGED <<mode, disk, count, cancelled, changes, rejections, result, hook>>

normalizeLineEndings(c) == [c EXCEPT !.layout.ends = WithoutCR(@)]

\* What the rows of a patch say of a content: its lines, each of them ended.
Rows(c) == IF c = Absent THEN c ELSE [c EXCEPT !.layout.ends = LF]

\* Mutant: a move that also edits shows one line to verify and no hunks.
OperationMoves(c) ==
  [op |-> IF c.from # c.to /\ c.kind = "update" THEN "move" ELSE c.kind,
   path |-> c.from, to |-> c.to, old |-> Rows(OnDisk(c.from)), new |-> Rows(c.content)]

\* A move of an unchanged file: one line of it is shown to be verified.
OnlyMoves(c) == c.kind = "update" /\ c.content = OnDisk(c.from)

\* writeAddition, the Delete line and writeUpdate: one operation of the patch.
Operation(c) ==
  [op |-> IF OnlyMoves(c) THEN "move" ELSE c.kind,
   path |-> c.from, to |-> c.to, old |-> Rows(OnDisk(c.from)), new |-> Rows(c.content)]

translate(seq) == [i \in DOMAIN seq |-> Operation(seq[i])]

\* The hunks of an update may stay ambiguous, which unambiguousDiff refuses.
MayBeUnrenderable(c) == c.kind = "update" /\ c.content # OnDisk(c.from)

\* The texts differ in their carriage returns only: there are no hunks.
NoHunks(c) == MayBeUnrenderable(c) /\ normalizeLineEndings(c.content) = normalizeLineEndings(OnDisk(c.from))

\* TranslateForHostAt: ctx is checked once more, then the patch is rendered.
translateEffect ==
  /\ phase = "effect" /\ mode = "translate"
  /\ \/ ~cancelled /\ (\A i \in DOMAIN changes : ~NoHunks(changes[i])) /\ UNCHANGED <<err, failureStage>>
     \/ cancelled /\ err' = "ctx" /\ failureStage' = "translated"
     \/ /\ ~cancelled /\ \E i \in DOMAIN changes : MayBeUnrenderable(changes[i])
        /\ err' = "translate" /\ failureStage' = "translated"
  /\ phase' = "finish" /\ Discards /\ pending' = disk
  /\ UNCHANGED <<mode, disk, count, cancelled, changes, rejections, written, result, hook>>

-----------------------------------------------------------------------------
(* The answer and its hooks *)

\* Mutant: the answer says applied whatever the host operation was.
AppliedAlways == TRUE

AppliedMode == mode = "apply"

\* hostRejectionsOf and hostFailuresOf: the commands to blame, or the stage.
hostFailures ==
  IF rejections # {} THEN "commands" ELSE IF failureStage = "" THEN "none" ELSE "stage"

\* finishHostChange up to its hooks.
finishHostChange ==
  /\ phase = "finish"
  /\ \E routed \in BOOLEAN : hook' = [hook EXCEPT !.routed = routed]
  /\ IF err # "none"
     THEN /\ result' = [result EXCEPT !.stage = failureStage,
                          !.status = IF failureStage = "evaluated" THEN "rejected" ELSE "failed",
                          !.failures = hostFailures]
          /\ phase' = IF cancelled THEN "answer" ELSE "diagnose"
     ELSE /\ result' = [result EXCEPT
                 !.stage = IF changes = << >> THEN "evaluated" ELSE IF AppliedMode THEN "applied" ELSE "translated",
                 !.status = IF changes = << >> THEN "already-satisfied" ELSE "succeeded",
                 !.applied = changes # << >> /\ AppliedMode]
          /\ phase' = "outcome"
  /\ UNCHANGED <<mode, disk, wsVars, count, cancelled, changes, err, rejections, failureStage, written, pending>>

HookStep == UNCHANGED <<mode, disk, wsVars, count, changes, err, rejections, failureStage, written, pending>>

Says(texts) == result' = [result EXCEPT !.diagnostic = @ \cup texts]

Broken == -1      \* settings.json cannot be read or decoded

\* The hooks of one event: none without a data directory or a settings file.
readSettings == {Broken} \cup 0..MaxHooks

Starts(runs, hooks, next) ==
  /\ hook' = [hook EXCEPT !.left = runs, !.late = FALSE]
  /\ phase' = IF runs = 0 THEN next ELSE hooks

\* Mutant: the error hooks run whoever called.
ErrorHooksAlways == rejections # {}

\* A routed attempt is reported by outcome hooks instead.
ErrorHooksDue == rejections # {} /\ ~hook.routed

\* runCommandErrorHooks: every hook once for each command whose reason has a name.
evaluationDiagnostic ==
  /\ phase = "diagnose" /\ HookStep /\ UNCHANGED cancelled
  /\ \/ Says({"failure"}) /\ Starts(0, "errorHooks", "outcome")
     \/ ErrorHooksDue /\ cancelled /\ Says({"failure", "warning"}) /\ Starts(0, "errorHooks", "outcome")
     \/ /\ ErrorHooksDue /\ ~cancelled
        /\ \E configured \in readSettings \ {0}, named \in {1, 2} :
             /\ \E c, d \in rejections : named = 2 => c # d
             /\ IF configured = Broken
                THEN Says({"failure", "warning"}) /\ Starts(0, "errorHooks", "outcome")
                ELSE Says({"failure"}) /\ Starts(configured * named, "errorHooks", "outcome")

\* runOutcomeHooks, after one more look at ctx when there was a failure.
runOutcomeHooks ==
  /\ phase = "outcome" /\ HookStep /\ UNCHANGED cancelled
  /\ IF hook.routed /\ ~(err # "none" /\ cancelled)
     THEN \E configured \in readSettings :
            IF configured = Broken
            THEN Says({"warning"}) /\ Starts(0, "outcomeHooks", "answer")
            ELSE UNCHANGED result /\ Starts(configured, "outcomeHooks", "answer")
     ELSE UNCHANGED result /\ Starts(0, "outcomeHooks", "answer")

Expired == cancelled \/ hook.late

\* What is left after a hook: nothing once the ten seconds or the caller are gone.
LeftAfter(ends) == IF ends = "killed" THEN 0 ELSE hook.left - 1

\* runRenderedHooks: a template that does not render is skipped, a command runs
\* to its end or is killed when the deadline passes or the caller goes.
runRenderedHook ==
  /\ phase \in {"errorHooks", "outcomeHooks"} /\ HookStep
  /\ \E ends \in {"unrendered", "ok", "failed", "killed"} :
       /\ ends \in {"ok", "failed"} => ~Expired
       /\ Says(IF ends = "ok" THEN {} ELSE {"warning"})
       /\ IF ends = "killed" /\ ~Expired
          THEN \E gone \in BOOLEAN : cancelled' = gone /\ hook' = [hook EXCEPT
                 !.left = LeftAfter(ends), !.late = ~gone, !.ran = Append(@, <<phase, ends>>)]
          ELSE UNCHANGED cancelled /\ hook' = [hook EXCEPT !.left = LeftAfter(ends),
                 !.ran = IF ends \in {"ok", "failed"} THEN Append(@, <<phase, ends>>) ELSE @]
       /\ phase' = IF hook'.left > 0 THEN phase ELSE IF phase = "errorHooks" THEN "outcome" ELSE "answer"

\* Mutant: the projection is published although the caller has gone.
PublishesLate == err = "none"

Publishes == err = "none" /\ ~cancelled

\* After the hooks: a late cancellation withholds the success projection and
\* the diagnostic.
answers ==
  /\ phase = "answer"
  /\ result' = [result EXCEPT
       !.published = Publishes,
       !.diagnostic = IF cancelled THEN {} ELSE @,
       !.returned = IF cancelled THEN "ctx" ELSE IF err = "none" THEN "nil" ELSE "error"]
  /\ phase' = "done"
  /\ HookStep /\ UNCHANGED <<cancelled, hook>>

cancel ==
  /\ phase # "done" /\ ~cancelled /\ cancelled' = TRUE
  /\ UNCHANGED <<mode, disk, wsVars, count, phase, hostVars, pending>>

Next ==
  \/ evaluateScript
  \/ \E p \in Names, spelling \in Spellings :
       selectFile(p, spelling) \/ newFile(p, spelling) \/ moveFile(p, spelling)
  \/ \E spelling \in Spellings : refusesPath(spelling)
  \/ removeFile
  \/ \E empty \in BOOLEAN, ends \in Endings : initialize(empty, ends)
  \/ \E effect \in Effects, ends \in Endings, indents \in BOOLEAN : applyMutation(effect, ends, indents)
  \/ baselineFailure \/ commandFails \/ stopsEarly \/ evaluated \/ renderFinal
  \/ applyEffect \/ translateEffect \/ finishHostChange
  \/ evaluationDiagnostic \/ runOutcomeHooks \/ runRenderedHook \/ answers
  \/ cancel

Spec == Init /\ [][Next]_vars

-----------------------------------------------------------------------------
(* Properties *)

\* The pending workspace is the disk as the commands, one after the other, have
\* changed it: a lookup through paths, blocked and the disk finds at every name
\* what a sequential execution would find (workspace.go:251-341).
PendingAgrees ==
  phase = "evaluate" =>
    \A p \in Names :
      pending[p] = IF paths[p] # None
                   THEN LET f == files[paths[p]] IN Content(f.from, f.text, f.layout)
                   ELSE IF p \in blocked THEN Absent ELSE disk[p]

Plain(c) == IF c = Absent THEN c ELSE Content(c.from, c.text, Fresh(c.from))
Untouched(c) == c # Absent /\ c.from # New /\ c = OnDisk(c.from)

\* apply_patch, operation after operation: an operation is refused when there is
\* no file or its lines are not the ones shown.
Accepts(d, o) == /\ o.op # "add" => d[o.path] # Absent
                 /\ o.op = "update" => Rows(d[o.path]) = o.old
PatchedBy(d, o) ==
  IF Accepts(d, o)
  THEN [p \in Names |-> IF o.op # "delete" /\ p = o.to
                        THEN IF o.op = "move" THEN d[o.path] ELSE o.new
                        ELSE IF o.op # "add" /\ p = o.path THEN Absent ELSE d[p]]
  ELSE d
Patched(operations) ==
  LET after[k \in 0..Len(operations)] ==
        IF k = 0 THEN disk ELSE PatchedBy(after[k - 1], operations[k])
  IN after[Len(operations)]

\* The changes mean the script: applied to the disk at once, as the transaction
\* does, they give what the commands in turn would have given, up to layout; to
\* the line end outside Go files; and to the byte for a file that no command
\* edited and that stays a Go file or stays none.  As a patch, operation after
\* operation, each finds the lines that it shows and together they give the same
\* lines, to the byte where every line ends in a line feed, which is all that a
\* patch can say.  And the changes are what the transaction relies on
\* (workspace.go:387-415, validation.go:178-279, translate.go:26-101, 157-183).
ChangesMeanScript ==
  phase = "effect" =>
    LET after == Result(disk, changes)
        patched == Patched(translate(changes)) IN
    /\ WellFormed(disk, changes)
    /\ \A p \in Names : patched[p] \in {after[p], Rows(after[p])}
    /\ \A i \in DOMAIN changes : changes[i].kind = "update" =>
         changes[i].from # changes[i].to \/ changes[i].content # disk[changes[i].from]
    /\ \A p \in Names :
         /\ Plain(after[p]) = Plain(pending[p])
         /\ p \notin GoPaths /\ after[p] # Absent => after[p].layout.ends = pending[p].layout.ends
         /\ Untouched(pending[p]) /\ (pending[p].from \in GoPaths <=> p \in GoPaths) =>
              after[p] = pending[p]

\* The host is told the truth, whenever the caller gave up: nothing was written
\* unless the stage is "applied", Applied means that all of it was, a projection
\* is only published with a nil error, and a nil error after changes were asked
\* for means that they were made (run.go:470-553).  A script of which some
\* command failed changes nothing, whatever the commands after the failed one
\* did (workspace.go:96-105), and a rejection always names commands of the
\* script, also when the language check fails in a file that was only created or
\* moved (validation.go:314-319).  The report names, in the order of their
\* commands, edits of files that the script leaves in place
\* (workspace.go:331-337, 243-246).
HonestAnswer ==
  /\ \A i \in DOMAIN reported :
       Live(files[reported[i].file]) /\ reported[i].command \in files[reported[i].file].edits
  /\ \A i, j \in DOMAIN reported : i < j => reported[i].command < reported[j].command
  /\ failures # {} => changes = << >> /\ phase = "evaluate"
  /\ err = "rejected" <=> rejections # {}
  /\ \A c \in rejections : 1 <= c /\ (c <= count \/ count = 0)
  /\ phase = "done" =>
       /\ written # "no" => result.stage = "applied" /\ mode = "apply"
       /\ result.applied => written = "yes"
       /\ result.published <=> result.returned = "nil"
       /\ result.returned = "nil" /\ changes # << >> /\ mode = "apply" => written = "yes"
       /\ result.status = "succeeded" /\ mode = "apply" => written = "yes"

\* Hooks report and never decide.  A caller gets either error hooks or outcome
\* hooks, never both; no hook starts once one was cut off; the diagnostic
\* tells the failure exactly when the answer is that failure, at most warns
\* when the answer is success, and says nothing to a caller that has gone
\* (hooks.go:82-122, 160-176; run.go:510-531, 757-782).
HooksOnlyReport ==
  /\ \A i \in DOMAIN hook.ran :
       /\ hook.ran[i][1] = "errorHooks" <=> ~hook.routed
       /\ hook.ran[i][1] = "errorHooks" => err = "rejected"
       /\ hook.ran[i][2] = "killed" => i = Len(hook.ran)
  /\ phase = "done" =>
       /\ result.returned = "ctx" <=> cancelled
       /\ result.returned = "ctx" => result.diagnostic = {}
       /\ "failure" \in result.diagnostic <=> result.returned = "error"
       /\ result.returned = "error" => result.failures # "none"

\* The caller learns what happened, from the answer and from the hooks.
CallerIsTold == HonestAnswer /\ HooksOnlyReport
=============================================================================
