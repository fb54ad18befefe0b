------------------------- MODULE MixedContinuation -------------------------
(* Mixed hpatch scripts: edits and shell segments that run in order inside *)
(* Codex and can be continued after an interruption                        *)
(* (internal/router: hpatch_shell.go, hpatch_resume.go and its carrier     *)
(* hpatch_resume.js, hpatch_control.go, hpatch_changes.go).  The router    *)
(* retains the script with its progress under a handle.  A carrier is a    *)
(* program that Codex runs: it executes the segments and checkpoints its   *)
(* progress through a worker, which compares revisions.  A carrier can be  *)
(* cancelled anywhere; a later call resumes the handle with a new carrier, *)
(* plainly or with an explicit action, while the old one may still run.    *)
EXTENDS ShellStorage, Sequences, SequencesExt

CONSTANTS
  Script,       \* the segments of the script in order: edits, and shell programs as their steps
  Replacements, \* programs that a retry may put in the place of a shell program
  MaxSteps,     \* bound on the steps of a program
  MaxRepairs, \* bound on inserted repair segments
  MaxLaunch,  \* bound on the carriers of the handle
  MaxGrants,  \* bound: claimed retries or repairs of a segment that rule out another action
  MaxOps,     \* bound: after this many operations of a segment no command yields a session
  Handle      \* the artifact that holds the script and its progress

(* prepareMixedSegments: an edit is one step.  A shell program is one      *)
(* command, nothing at all when it is empty, or, when it consists of       *)
(* simple statements of which some write a literal file (shellCatPlan),    *)
(* one step per statement.                                                 *)
Edit == <<"edit">>

ASSUME HandleAssumption ==
  /\ Handle \in Names /\ MaxSteps \in Nat \ {0}
  /\ Script \in Seq({Edit} \cup Seq({"command", "write"}))
  /\ \A s \in 1..Len(Script) : Len(Script[s]) <= MaxSteps
  /\ \A p \in Replacements : p \in Seq({"command", "write"}) /\ Len(p) <= MaxSteps
  /\ MaxRepairs \in Nat /\ MaxOps \in Nat \ {0} /\ MaxLaunch \in Nat /\ MaxGrants \in Nat
  /\ IsFiniteSet(Readers) /\ None \notin Nat

Carriers == Readers
Steps == 1..MaxSteps
Originals == 1..Len(Script)
Segments == 1..(Len(Script) + MaxRepairs)
Written(s) == IF s \in Originals THEN Script[s] ELSE Edit
KindOf(s) == IF Written(s) = Edit THEN "edit" ELSE "shell"

VARIABLES
  saved,    \* the retained progress
  latest,   \* carriers that hold the retained revision; it never comes back
  carrier,  \* the carriers that may run at the same time
  launched, \* number of carriers so far
  effects,  \* commands and patches started for each step of each segment
  granted   \* retries and repairs claimed for each segment

vars == <<storage, saved, latest, carrier, launched, effects, granted>>

(* hpatchResumeState.Progress; the plan includes the insertions, program   *)
(* the replacements, current is the status of the current segment.         *)
Fresh ==
  [plan |-> [n \in Originals |-> n], program |-> [s \in Segments |-> Written(s)],
   index |-> 1, results |-> <<>>, current |-> "none", ops |-> <<>>]

\* translated is history: the last operation the carrier ran was a translation.
Unlaunched == [pc |-> "none", translated |-> FALSE, prog |-> Fresh, refresh |-> FALSE, inspected |-> None]

Init ==
  /\ StorageInit
  /\ saved = Fresh /\ latest = {}
  /\ carrier = [c \in Carriers |-> Unlaunched] /\ launched = 0
  /\ effects = [w \in Segments \X Steps |-> 0] /\ granted = [s \in Segments |-> 0]

Segment(prog) == prog.plan[prog.index]
Program(prog) == prog.program[Segment(prog)]

(* An operation of progress.operations.  Its role is its place in the      *)
(* step's code; exec_command runs a guard or a command, and the empty      *)
(* write_stdin that awaits its session is the same with waits.             *)
Op(step, role, waits) ==
  [step |-> step, role |-> role, waits |-> waits, pending |-> TRUE, result |-> "none"]
HasOps(prog) == prog.ops # <<>>
Unresolved(prog) == HasOps(prog) /\ Last(prog.ops).pending
Applies(prog) == \E n \in 1..Len(prog.ops) : prog.ops[n].role = "patch"

-----------------------------------------------------------------------------
(* The router: the first carrier, and resumption.                          *)

(* translateMixedScript with retainMixedScript.                            *)
Begin(c) ==
  /\ launched = 0 /\ launched' = 1
  /\ Retained(Handle)
  /\ carrier' = [carrier EXCEPT ![c].pc = "claim"]
  /\ latest' = {c} /\ UNCHANGED <<saved, effects, granted>>

(* translateMixedResume: under a lease the handle is read into a carrier.  *)
ResumeBegins(c) ==
  /\ carrier[c].pc = "none" /\ launched \in 1..(MaxLaunch - 1) /\ Lease(c)
  /\ launched' = launched + 1
  /\ carrier' = [carrier EXCEPT ![c].pc = "reading"]
  /\ UNCHANGED <<saved, latest, effects, granted>>

(* completeCurrent.                                                        *)
Completed(prog, status) ==
  [prog EXCEPT !.results = Append(@, [segment |-> Segment(prog), status |-> status]),
               !.index = @ + 1, !.ops = <<>>, !.current = "none"]

Reset(prog) == [prog EXCEPT !.ops = <<>>, !.current = "none"]

\* The explicit actions attest that the old work was inspected; a retry may bring
\* another program for the segment.
Acted(prog, action, program) ==
  CASE action = "accept" -> Completed(prog, "reconciled")
    [] action = "retry"  -> [Reset(prog) EXCEPT !.program = [@ EXCEPT ![Segment(prog)] = program]]
    [] action = "repair" -> [Reset(prog) EXCEPT !.plan = InsertAt(@, prog.index, Len(@) + 1)]
    [] OTHER             -> prog

\* What the carrier refuses before it touches anything.
Refuses(prog, action) ==
  IF action # "plain"
  THEN prog.current \in {"none", "completed"}
  ELSE \/ prog.current = "failed"
       \/ \E n \in 1..Len(prog.ops) :
            prog.ops[n].role = "patch" /\ (prog.ops[n].pending \/ prog.ops[n].result = "error")

Ended(c) == carrier' = [carrier EXCEPT ![c] = Unlaunched]

(* A replacement keeps the kind of the segment.                            *)
Replaces(prog) ==
  {Program(prog)} \cup (IF KindOf(Segment(prog)) = "shell" THEN Replacements ELSE {})

ResumeReads(c, action) ==
  LET prog == saved
  IN  /\ carrier[c].pc = "reading" /\ Release(c)
      /\ action # "plain" => \A s \in Segments : granted[s] < MaxGrants
      /\ action = "repair" => Len(prog.plan) < Len(Script) + MaxRepairs
      /\ IF ~Available(Handle) \/ Refuses(prog, action) THEN Ended(c)
         ELSE \E program \in IF action = "retry" THEN Replaces(prog) ELSE {None} :
           carrier' = [carrier EXCEPT ![c] =
             [pc |-> "claim", translated |-> FALSE, prog |-> Acted(prog, action, program),
              refresh |-> /\ action = "plain" /\ prog.current # "none"
                          /\ KindOf(Segment(prog)) = "edit" /\ ~Applies(prog),
              inspected |-> IF action \in {"retry", "repair"} THEN Segment(prog) ELSE None]]
      /\ latest' = IF carrier'[c].pc = "claim" THEN latest \cup {c} ELSE latest
      /\ UNCHANGED <<saved, launched, effects, granted>>

-----------------------------------------------------------------------------
(* Checkpoints.                                                            *)

(* runHpatchCheckpoint: the revision must be the one the carrier read or   *)
(* wrote last, and the artifact must not have expired.                     *)
Accepts(c) == Available(Handle) /\ c \in latest

Stops(c) == Ended(c) /\ latest' = latest \ {c} /\ UNCHANGED saved

(* checkpointMutations and applyHpatchControlMutations: only what changed  *)
(* is sent, and the worker applies it to the progress it bound.            *)
Mutations(before, after) ==
  [f \in {g \in DOMAIN after : before[g] # after[g]} |-> after[f]]
Mutated(progress, mutations) ==
  [f \in DOMAIN progress |-> IF f \in DOMAIN mutations THEN mutations[f] ELSE progress[f]]

(* checkpoint of hpatch_resume.js over the control channel                 *)
(* (runHpatchControl): the new progress is committed and acknowledged, or  *)
(* committed while the answer is lost, or not committed.  Without an       *)
(* acknowledgement the carrier stops.                                      *)
Checkpoint(c, prog, pc, refresh) ==
  \/ /\ Accepts(c) /\ saved' = Mutated(saved, Mutations(saved, prog))
     /\ \/ /\ pc # "ended" /\ latest' = {c}
           /\ carrier' = [carrier EXCEPT ![c].prog = prog, ![c].pc = pc, ![c].refresh = refresh,
                                           ![c].inspected = None]
        \/ latest' = {} /\ Ended(c)
  \/ Stops(c)

Quiet == UNCHANGED <<storage, launched, effects, granted>>
At(c, pc) == carrier[c].pc = pc
Prog(c) == carrier[c].prog

(* startControl and continuation_claimed.                                  *)
Claim(c) ==
  /\ At(c, "claim") /\ Checkpoint(c, Prog(c), "next", carrier[c].refresh)
  /\ granted' = IF (saved' # saved \/ latest' = {c}) /\ carrier[c].inspected # None
                THEN [granted EXCEPT ![carrier[c].inspected] = @ + 1] ELSE granted
  /\ UNCHANGED <<storage, launched, effects>>

(* between_segments, for a segment that this carrier or the one before it  *)
(* completed; a translation to revalidate goes with its segment.           *)
Settle(c) ==
  /\ At(c, "next") /\ Prog(c).current = "completed"
  /\ Checkpoint(c, Completed(Prog(c), "completed"), "next", FALSE) /\ Quiet

Done(c) ==
  /\ At(c, "next") /\ Prog(c).index > Len(Prog(c).plan)
  /\ Stops(c) /\ Quiet

(* segment_start: recorded operations of an interrupted segment stay.      *)
StartSegment(c) ==
  /\ At(c, "next") /\ Prog(c).index <= Len(Prog(c).plan)
  /\ Prog(c).current # "completed"
  /\ Checkpoint(c, [Prog(c) EXCEPT !.current = "started"], "run", carrier[c].refresh) /\ Quiet

-----------------------------------------------------------------------------
(* A segment.  Its operations are replayed from the record, so where the   *)
(* carrier stands in the program follows from the last one.                *)

Result(prog) == IF HasOps(prog) THEN Last(prog.ops).result ELSE "zero"

\* How a step begins, if there is one: a literal write first tests whether the
\* shell's own redirection would succeed (writeShellCatSequence).
Opening(program, k) ==
  IF k > Len(program) THEN {}
  ELSE {Op(k, CASE program[k] = "edit" -> "translate" [] program[k] = "write" -> "guard"
                [] OTHER -> "command", FALSE)}

(* executeEdit, finish, run and the sequence of writeShellCatSequence: the *)
(* operation after a resolved one, none at the end of the segment.  A      *)
(* failed guard leaves the write to the shell; a failed command does not   *)
(* stop the program, and what counts is its last result.                   *)
Following(program, op) ==
  CASE op.result = "session"                      -> {Op(op.step, op.role, TRUE)}
    [] op.result = "patch"                        -> {Op(op.step, "patch", FALSE)}
    [] op.role = "guard" /\ op.result = "zero"    -> {Op(op.step, "patch", FALSE)}
    [] op.role = "guard" /\ op.result = "nonzero" -> {Op(op.step, "command", FALSE)}
    [] op.role # "guard" /\ op.result \in {"zero", "nonzero", "ok"} -> Opening(program, op.step + 1)
    [] OTHER                                      -> {}
NextOp(prog) ==
  IF HasOps(prog) THEN Following(Program(prog), Last(prog.ops)) ELSE Opening(Program(prog), 1)

\* Mutant: the patch of an interrupted carrier is applied as it was.
RevalidatesNever(c) == FALSE
(* revalidate: a resumed edit is translated again against current files.   *)
Revalidates(c) == carrier[c].refresh /\ HasOps(Prog(c)) /\ ~Unresolved(Prog(c))

Revalidate(c) ==
  /\ At(c, "run") /\ Revalidates(c)
  /\ Checkpoint(c, [Prog(c) EXCEPT !.ops = <<>>], "run", FALSE) /\ Quiet

\* Mutant: every unconfirmed operation is tried again.
RepeatsAll(op) == TRUE
\* Only a translation and an empty wait may be repeated without inspection.
Repeats(op) == op.role = "translate" \/ op.waits

(* invoke: the operation is recorded as pending before it starts.          *)
Invoke(c) ==
  LET prog == Prog(c)
  IN  /\ At(c, "run") /\ ~Revalidates(c)
      /\ IF Unresolved(prog)
         THEN /\ Repeats(Last(prog.ops))
              /\ Checkpoint(c, prog, "execute", carrier[c].refresh)
         ELSE \E op \in NextOp(prog) :
                Checkpoint(c, [prog EXCEPT !.ops = Append(@, op)], "execute", carrier[c].refresh)
      /\ Quiet

\* An operation with an unknown outcome, or a patch the host refused.
Unknown(c) ==
  /\ At(c, "run") /\ ~Revalidates(c)
  /\ \/ Unresolved(Prog(c)) /\ ~Repeats(Last(Prog(c).ops))
     \/ Result(Prog(c)) = "error"
  /\ carrier' = [carrier EXCEPT ![c].pc = "failed"] /\ Quiet /\ UNCHANGED <<saved, latest>>

Outcomes(role, n) ==
  CASE role = "translate" -> {"patch", "empty", "rejected"}
    [] role = "patch"     -> {"ok", "error"}
    [] OTHER              -> {"zero", "nonzero"} \cup (IF n < MaxOps THEN {"session"} ELSE {})

\* A guard only tests; a wait starts nothing.
Starts(op) == op.role \in {"command", "patch"} /\ ~op.waits

(* The host runs the operation.  Its result reaches the carrier, or the    *)
(* tool throws; a translation fails with its channel.                      *)
Execute(c) ==
  LET prog == Prog(c)
      n == Len(prog.ops)
      op == prog.ops[n]
  IN  /\ At(c, "execute")
      /\ effects' = IF Starts(op) THEN [effects EXCEPT ![<<Segment(prog), op.step>>] = @ + 1] ELSE effects
      /\ \/ \E r \in Outcomes(op.role, n) :
              carrier' = [carrier EXCEPT ![c].pc = "returned", ![c].translated = (op.role = "translate"),
                            ![c].prog.ops[n] = [op EXCEPT !.pending = FALSE, !.result = r]]
         \/ /\ op.role # "translate"
            /\ carrier' = [carrier EXCEPT ![c].pc = "failed"]
         \/ op.role = "translate" /\ Ended(c)
      /\ latest' = IF carrier'[c].pc = "none" THEN latest \ {c} ELSE latest
      /\ UNCHANGED <<storage, saved, launched, granted>>

Record(c) == At(c, "returned") /\ Checkpoint(c, Prog(c), "run", carrier[c].refresh) /\ Quiet

\* Mutant: a program that has not come to its end may end its segment.
FinishedEarly(prog) == ~Unresolved(prog)
\* The end of the segment's code is reached.
Finished(prog) == ~Unresolved(prog) /\ NextOp(prog) = {}

\* segment_stopped: a rejected edit or a failed program ends the carrier.
StopSegment(c) ==
  /\ At(c, "run") /\ ~Revalidates(c) /\ Finished(Prog(c)) /\ Result(Prog(c)) \in {"rejected", "nonzero"}
  /\ Checkpoint(c, [Prog(c) EXCEPT !.current =
                      IF Result(Prog(c)) = "rejected" THEN "rejected" ELSE "failed"], "ended", carrier[c].refresh)
  /\ Quiet

\* An applied edit is confirmed (confirmTracked), and that can fail.
ConfirmFails(c) == KindOf(Segment(Prog(c))) = "edit" /\ Stops(c)

(* segment_completed; an edit is confirmed first.                          *)
CompleteSegment(c) ==
  /\ At(c, "run") /\ ~Revalidates(c) /\ Finished(Prog(c)) /\ Result(Prog(c)) \in {"empty", "ok", "zero"}
  /\ \/ Checkpoint(c, [Prog(c) EXCEPT !.current = "completed"], "next", carrier[c].refresh)
     \/ ConfirmFails(c)
  /\ Quiet

(* host_error: the segment is marked interrupted.                          *)
Interrupted(c) ==
  /\ At(c, "failed")
  /\ Checkpoint(c, [Prog(c) EXCEPT !.current = "interrupted"], "ended", carrier[c].refresh) /\ Quiet

\* Codex cancels the cell: nothing of the carrier runs any more.
Cancel(c) ==
  /\ carrier[c].pc \notin {"none", "reading"}
  /\ Stops(c) /\ Quiet

Step(c) ==
  \/ Begin(c) \/ ResumeBegins(c) \/ (\E a \in {"plain", "retry", "repair", "accept"} : ResumeReads(c, a))
  \/ Claim(c) \/ Settle(c) \/ Done(c) \/ StartSegment(c) \/ Revalidate(c) \/ Invoke(c) \/ Unknown(c)
  \/ Execute(c) \/ Record(c) \/ StopSegment(c) \/ CompleteSegment(c) \/ Interrupted(c) \/ Cancel(c)

\* The handle is a nonce: no other call retains under its name.
Next ==
  \/ \E c \in Carriers : Step(c)
  \/ StorageNext(Names \ {Handle}) /\ UNCHANGED <<saved, latest, carrier, launched, effects, granted>>

Spec == Init /\ [][Next]_vars

-----------------------------------------------------------------------------
(* Properties.                                                             *)

(* No step starts more work than was asked for: whatever is cancelled,     *)
(* lost or resumed at the same time, a command or a patch of a step is     *)
(* started once, and once more for each retry or repair that a carrier     *)
(* claimed for its segment.  A superseded carrier cannot start another     *)
(* operation (runHpatchCheckpoint, invoke).                                *)
EffectsAreAuthorised ==
  \A s \in Segments, k \in Steps : effects[<<s, k>>] <= 1 + granted[s]

(* The patch of an edit is applied only by the carrier that translated it: *)
(* a resumed edit never applies what an interrupted carrier computed from  *)
(* files that have changed since (refreshTranslation).  The literal write  *)
(* of a shell program promises less: the answer of its guard is replayed.  *)
PatchIsFresh ==
  \A c \in Carriers :
    At(c, "execute") /\ KindOf(Segment(Prog(c))) = "edit" /\ Last(Prog(c).ops).role = "patch" =>
      Len(Prog(c).ops) = 2 /\ carrier[c].translated

(* The retained results are the truth about the segments before the        *)
(* current one: in plan order, without a gap, and every step of a          *)
(* completed program did run, by itself or as a patch; a segment after the *)
(* current one has not been started (completeCurrent).                     *)
ResultsAreEarned ==
  LET prog == saved
  IN  /\ Len(prog.results) = prog.index - 1
      /\ \A j \in 1..Len(prog.results) :
           /\ prog.results[j].segment = prog.plan[j]
           /\ prog.results[j].status = "completed" /\ KindOf(prog.plan[j]) = "shell" =>
                \A k \in 1..Len(prog.program[prog.plan[j]]) : effects[<<prog.plan[j], k>>] >= 1
      /\ \A j \in (prog.index + 1)..Len(prog.plan), k \in Steps :
           effects[<<prog.plan[j], k>>] > 0 => granted[prog.plan[j]] > 0
=============================================================================
