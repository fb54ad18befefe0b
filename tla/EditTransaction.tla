-------------------------- MODULE EditTransaction --------------------------
(***************************************************************************)
(* commitChanges in transaction.go: the staged, ordered and rolled back    *)
(* application of one edit's changes to the workspace.                     *)
(*                                                                         *)
(* Each filesystem call is one step and may fail without an effect, in the *)
(* rollback and the cleanup too.  The contents of a file are values; a     *)
(* backup or an output is a temporary file of its own, named by the index  *)
(* of its change.  Writers of the same files are coordinated by the caller *)
(* (run.go:22-24), so nothing else touches these paths.                    *)
(***************************************************************************)
EXTENDS EditChange

CONSTANTS
  Partial,     \* a temporary file that is not, or not fully, written
  MaxChanges   \* bound on the changes of one edit

ASSUME TransactionAssumption ==
  /\ MaxChanges \in Nat \ {0}
  /\ Absent \notin Contents /\ Partial \notin Contents /\ Absent # Partial

VARIABLES
  before,   \* the files before the edit
  changes,  \* the changes to commit
  files,    \* the files of the workspace
  backup, output,         \* the temporary files of each change
  hasBackup, hasOutput,   \* backupPath # "", outputTemp # ""
  backedUp, installed,    \* the flags of stagedChange
  phase, idx,             \* the loop being executed and its position
  outcome,                \* "none", "staging", "commit" (failed) or "ok"
  trouble                 \* a rollback or cleanup call failed

envVars    == <<before, changes>>
stageVars  == <<hasBackup, hasOutput, backedUp, installed>>
diskVars   == <<files, backup, output>>
vars == <<envVars, diskVars, stageVars, phase, idx, outcome, trouble>>

N == Len(changes)
Items == 1..N
Adds(i) == changes[i].kind = "add"
Deletes(i) == changes[i].kind = "delete"
From(i) == changes[i].from
To(i) == changes[i].to

Init ==
  /\ before \in [Names -> Contents \cup {Absent}]
  /\ changes \in UNION {[1..n -> Change] : n \in 1..MaxChanges}
  /\ WellFormed(before, changes)
  /\ files = before
  /\ backup = [i \in Items |-> Absent] /\ output = [i \in Items |-> Absent]
  /\ hasBackup = {} /\ hasOutput = {} /\ backedUp = {} /\ installed = {}
  /\ phase = "stage" /\ idx = 1
  /\ outcome = "none" /\ trouble = FALSE

-----------------------------------------------------------------------------
(* Loops: forwards over the changes, or backwards (slices.Backward).       *)

Advance(next) ==
  IF idx < N THEN idx' = idx + 1 /\ phase' = phase
             ELSE idx' = 1 /\ phase' = next

Backward == N + 1 - idx

Enter(next) == phase' = next /\ idx' = 1

Without(f, i) == [f EXCEPT ![i] = Absent]

-----------------------------------------------------------------------------
(* stageChanges *)

StagingFails ==
  /\ Enter("dropOutput")
  /\ outcome' = "staging"
  /\ UNCHANGED trouble

\* CreateTemp for the backup's name.
ReserveBackup ==
  /\ phase = "stage" /\ ~Adds(idx)
  /\ \/ /\ backup' = [backup EXCEPT ![idx] = Partial]
        /\ hasBackup' = hasBackup \cup {idx}
        /\ phase' = "vacate"
        /\ UNCHANGED <<idx, outcome, trouble>>
     \/ StagingFails /\ UNCHANGED <<backup, hasBackup>>
  /\ UNCHANGED <<envVars, files, output, hasOutput, backedUp, installed>>

\* Close and Remove of the reservation: its name is kept for the backup.
VacateBackup ==
  /\ phase = "vacate"
  /\ \/ /\ backup' = Without(backup, idx)
        /\ IF Deletes(idx)
           THEN IF idx < N THEN phase' = "stage" /\ idx' = idx + 1 ELSE Enter("backup")
           ELSE phase' = "output" /\ UNCHANGED idx
        /\ UNCHANGED <<outcome, trouble>>
     \/ StagingFails /\ UNCHANGED backup
  /\ UNCHANGED <<envVars, files, output, stageVars>>

\* CreateTemp for the new content.
CreateOutput ==
  /\ phase = "output" \/ (phase = "stage" /\ Adds(idx))
  /\ \/ /\ output' = [output EXCEPT ![idx] = Partial]
        /\ hasOutput' = hasOutput \cup {idx}
        /\ phase' = "write"
        /\ UNCHANGED <<idx, outcome, trouble>>
     \/ StagingFails /\ UNCHANGED <<output, hasOutput>>
  /\ UNCHANGED <<envVars, files, backup, hasBackup, backedUp, installed>>

\* writeStagedFile: chmod, write, sync, close.
WriteOutput ==
  /\ phase = "write"
  /\ \/ /\ output' = [output EXCEPT ![idx] = changes[idx].content]
        /\ IF idx < N THEN phase' = "stage" /\ idx' = idx + 1 ELSE Enter("backup")
        /\ UNCHANGED <<outcome, trouble>>
     \/ StagingFails /\ UNCHANGED output
  /\ UNCHANGED <<envVars, files, backup, stageVars>>

-----------------------------------------------------------------------------
(* commitChanges *)

CommitFails ==
  /\ Enter("uninstall")
  /\ outcome' = "commit"
  /\ UNCHANGED trouble

\* Mutant: a file that keeps its path is copied, not moved, to its backup.
MoveAwayCopy(i) ==
  /\ files' = IF ~Deletes(i) /\ To(i) = From(i) THEN files ELSE [files EXCEPT ![From(i)] = Absent]
  /\ backup' = [backup EXCEPT ![i] = files[From(i)]]

\* Rename(originalPath, backupPath)
MoveAway(i) ==
  /\ files' = [files EXCEPT ![From(i)] = Absent]
  /\ backup' = [backup EXCEPT ![i] = files[From(i)]]

BackUp ==
  /\ phase = "backup"
  /\ \/ /\ Adds(idx)
        /\ Advance("install")
        /\ UNCHANGED <<files, backup, backedUp, outcome, trouble>>
     \/ /\ ~Adds(idx)
        /\ MoveAway(idx)
        /\ backedUp' = backedUp \cup {idx}
        /\ Advance("install")
        /\ UNCHANGED <<outcome, trouble>>
     \/ /\ ~Adds(idx)
        /\ CommitFails
        /\ UNCHANGED <<files, backup, backedUp>>
  /\ UNCHANGED <<envVars, output, hasBackup, hasOutput, installed>>

Install ==
  /\ phase = "install"
  /\ \/ /\ Deletes(idx)
        /\ Advance("unback")
        /\ UNCHANGED <<files, output, hasOutput, installed, outcome, trouble>>
     \/ /\ ~Deletes(idx)
        /\ files' = [files EXCEPT ![To(idx)] = output[idx]]
        /\ output' = Without(output, idx)
        /\ hasOutput' = hasOutput \ {idx}
        /\ installed' = installed \cup {idx}
        /\ Advance("unback")
        /\ UNCHANGED <<outcome, trouble>>
     \/ /\ ~Deletes(idx)
        /\ CommitFails
        /\ UNCHANGED <<files, output, hasOutput, installed>>
  /\ UNCHANGED <<envVars, backup, hasBackup, backedUp>>

\* Mutant: a backup that cannot be removed fails the commit.
RemoveBackupOrFail ==
  /\ phase = "unback"
  /\ \/ idx \in backedUp /\ CommitFails
     \/ idx \notin backedUp /\ outcome' = "ok" /\ Advance("dropOutput") /\ UNCHANGED trouble
  /\ UNCHANGED <<envVars, diskVars, stageVars>>

\* The backups are removed once everything is installed; a failure leaves a
\* backup behind and skips the last cleanup.
RemoveBackup ==
  /\ phase = "unback"
  /\ \/ /\ idx \in backedUp
        /\ backup' = Without(backup, idx)
        /\ hasBackup' = hasBackup \ {idx}
        /\ backedUp' = backedUp \ {idx}
        /\ UNCHANGED trouble
     \/ /\ idx \in backedUp
        /\ trouble' = TRUE
        /\ UNCHANGED <<backup, hasBackup, backedUp>>
     \/ /\ idx \notin backedUp
        /\ UNCHANGED <<backup, hasBackup, backedUp, trouble>>
  /\ outcome' = "ok"
  /\ Advance(IF trouble' THEN "done" ELSE "dropOutput")
  /\ UNCHANGED <<envVars, files, output, hasOutput, installed>>

-----------------------------------------------------------------------------
(* rollbackChanges *)

Uninstall ==
  LET i == Backward IN
  /\ phase = "uninstall"
  /\ \/ /\ i \in installed
        /\ files' = [files EXCEPT ![To(i)] = Absent]
        /\ installed' = installed \ {i}
        /\ UNCHANGED trouble
     \/ /\ i \in installed
        /\ trouble' = TRUE
        /\ UNCHANGED <<files, installed>>
     \/ /\ i \notin installed
        /\ UNCHANGED <<files, installed, trouble>>
  /\ Advance("restore")
  /\ UNCHANGED <<envVars, backup, output, hasBackup, hasOutput, backedUp, outcome>>

\* Mutant: a backup that could not be restored is no longer marked as one.
GivesUp(i) == backedUp' = backedUp \ {i}

\* A failed restore keeps the backup and its mark.
Keeps(i) == UNCHANGED backedUp

Restore ==
  LET i == Backward IN
  /\ phase = "restore"
  /\ \/ /\ i \in backedUp
        /\ files' = [files EXCEPT ![From(i)] = backup[i]]
        /\ backup' = Without(backup, i)
        /\ hasBackup' = hasBackup \ {i}
        /\ backedUp' = backedUp \ {i}
        /\ UNCHANGED trouble
     \/ /\ i \in backedUp
        /\ trouble' = TRUE
        /\ Keeps(i)
        /\ UNCHANGED <<files, backup, hasBackup>>
     \/ /\ i \notin backedUp
        /\ UNCHANGED <<files, backup, hasBackup, backedUp, trouble>>
  /\ Advance("dropOutput")
  /\ UNCHANGED <<envVars, output, hasOutput, installed, outcome>>

-----------------------------------------------------------------------------
(* cleanupStaging: per change, first the output, then the backup's name.   *)

DropOutput ==
  /\ phase = "dropOutput"
  /\ \/ /\ idx \in hasOutput
        /\ output' = Without(output, idx)
        /\ UNCHANGED trouble
     \/ /\ idx \in hasOutput
        /\ trouble' = TRUE
        /\ UNCHANGED output
     \/ /\ idx \notin hasOutput
        /\ UNCHANGED <<output, trouble>>
  /\ phase' = "dropBackup"
  /\ UNCHANGED <<envVars, files, backup, stageVars, idx, outcome>>

\* Mutant: the cleanup removes every backup it knows of.
DisposableAny == hasBackup

\* Mutant: the cleanup only removes outputs.
DisposableNone == {}

\* Only the name of a backup that holds nothing is cleaned up.
Disposable == hasBackup \ backedUp

DropBackup ==
  /\ phase = "dropBackup"
  /\ \/ /\ idx \in Disposable
        /\ backup' = Without(backup, idx)
        /\ UNCHANGED trouble
     \/ /\ idx \in Disposable
        /\ trouble' = TRUE
        /\ UNCHANGED backup
     \/ /\ idx \notin Disposable
        /\ UNCHANGED <<backup, trouble>>
  /\ IF idx < N THEN phase' = "dropOutput" /\ idx' = idx + 1 ELSE Enter("done")
  /\ UNCHANGED <<envVars, files, output, stageVars, outcome>>

-----------------------------------------------------------------------------
Next ==
  \/ ReserveBackup \/ VacateBackup \/ CreateOutput \/ WriteOutput
  \/ BackUp \/ Install \/ RemoveBackup
  \/ Uninstall \/ Restore
  \/ DropOutput \/ DropBackup

Spec == Init /\ [][Next]_vars

-----------------------------------------------------------------------------
(* Properties *)

Phases == {"stage", "vacate", "output", "write", "backup", "install", "unback",
           "uninstall", "restore", "dropOutput", "dropBackup", "done"}

\* The staged changes, the files and the temporary files have their types
\* (stagedChange, commitChanges).
TypeOK ==
  /\ before \in [Names -> Contents \cup {Absent}]
  /\ N \in 1..MaxChanges /\ changes \in [Items -> Change]
  /\ files \in [Names -> Contents \cup {Absent}]
  /\ backup \in [Items -> Contents \cup {Absent, Partial}]
  /\ output \in [Items -> Contents \cup {Absent, Partial}]
  /\ hasBackup \in SUBSET Items /\ hasOutput \in SUBSET Items
  /\ backedUp \in SUBSET Items /\ installed \in SUBSET Items
  /\ phase \in Phases /\ idx \in Items
  /\ outcome \in {"none", "staging", "commit", "ok"} /\ trouble \in BOOLEAN

\* The workspace the edit asks for.
After == Result(before, changes)

\* Every output is in place.
Committed == phase = "unback" \/ outcome = "ok"

\* Wherever the process stops or a call fails, no content of the user is lost:
\* until every output is installed each original is at its path or in its
\* backup, and from then on the edited workspace is complete
\* (transaction.go:56-107: back up all, install all, only then remove).
NoContentLost ==
  IF Committed THEN files = After
  ELSE /\ \A i \in Items : ~Adds(i) =>
            \/ files[From(i)] = before[From(i)]
            \/ i \in backedUp /\ backup[i] = before[From(i)]
       /\ \A p \in Names :
            (\A i \in Items : (Adds(i) \/ From(i) # p) /\ (Deletes(i) \/ To(i) # p))
              => files[p] = before[p]

\* The caller is told the truth: "rollback succeeded" and a clean staging error
\* mean that the workspace is exactly as before, without temporary files, and a
\* nil error that it is exactly as asked (transaction.go:209-214).
AllOrNothing ==
  phase = "done" /\ ~trouble =>
    /\ files = IF outcome = "ok" THEN After ELSE before
    /\ \A i \in Items : backup[i] = Absent /\ output[i] = Absent

\* A rename never replaces a file of the user: until the rollback an original
\* only ever disappears into its backup, and a destination is free when its
\* output is installed.
NoClobber ==
  [][\A p \in Names :
       phase \in {"backup", "install"} /\ files'[p] # files[p] =>
         files[p] = Absent \/ files'[p] = Absent]_vars

-----------------------------------------------------------------------------
(* The promise to the caller: AtomicEdit.                                  *)

\* What is at a path once an unfinished edit is undone by its marks: a source
\* is in its backup if it was moved there, and a destination that was free is
\* free again.
Undone(p) ==
  IF \E i \in Items : ~Adds(i) /\ From(i) = p
  THEN IF \E i \in backedUp : From(i) = p
       THEN backup[CHOOSE i \in backedUp : From(i) = p] ELSE files[p]
  ELSE IF \E i \in installed : To(i) = p THEN Absent ELSE files[p]

\* The workspace the user is left with: the files as they are when the edit is
\* committed or has been answered without trouble, otherwise what the marks
\* lead back to.
World ==
  IF Committed \/ (phase = "done" /\ ~trouble) THEN files ELSE [p \in Names |-> Undone(p)]

State ==
  IF Committed THEN "applied" ELSE IF outcome = "none" THEN "open" ELSE "refused"

Told == IF phase # "done" THEN "nothing" ELSE IF trouble THEN "unsure" ELSE State

Promise == INSTANCE AtomicEdit WITH edit <- changes, world <- World, state <- State, told <- Told

\* commitChanges implements an atomic edit: through every rename, failure and
\* undoing, the workspace that can be had back is the one before, until the
\* last install makes it the one asked for in a single step; an answer without
\* a second error is the truth about it.
EditIsAtomic == Promise!Spec
=============================================================================
