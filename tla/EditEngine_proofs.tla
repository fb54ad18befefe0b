-------------------------- MODULE EditEngine_proofs --------------------------
(***************************************************************************)
(* Proofs about the two ends of an edit: the transaction that writes it    *)
(* (EditTransaction), for any number of changes, paths and contents and    *)
(* any pattern of failing calls, and the editor that records it            *)
(* (BaselineEditor), for every baseline, script and hash.                  *)
(***************************************************************************)
EXTENDS EditTransaction, BaselineEditor, FunctionTheorems, FiniteSetTheorems, SequenceTheorems,
  WellFoundedInduction, TLAPS

-----------------------------------------------------------------------------
(* The inductive invariant *)

Staging == {"stage", "vacate", "output", "write"}
Rolling == {"uninstall", "restore"}
Cleaning == {"dropOutput", "dropBackup", "done"}

\* What the flags of a staged change say about its temporary files.
Marks ==
  /\ \A i \in backedUp : ~Adds(i) /\ backup[i] = before[From(i)]
  /\ \A i \in installed : ~Deletes(i)
  /\ \A i \in Items : backup[i] # Absent => i \in hasBackup
  /\ \A i \in Items : output[i] # Absent => i \in hasOutput

\* How far each loop has come.
Progress ==
  /\ phase \in Staging => outcome = "none" /\ ~trouble /\ backedUp = {} /\ installed = {}
  /\ phase = "backup" =>
       /\ outcome = "none" /\ ~trouble /\ installed = {}
       /\ \A i \in Items : i < idx /\ ~Adds(i) => i \in backedUp
       /\ \A i \in backedUp : i < idx
  /\ phase = "install" =>
       /\ outcome = "none" /\ ~trouble
       /\ \A i \in Items : ~Adds(i) => i \in backedUp
       /\ \A i \in Items : i < idx /\ ~Deletes(i) => i \in installed
       /\ \A i \in installed : i < idx
  /\ phase = "unback" =>
       /\ outcome \in {"none", "ok"}
       /\ ~trouble => \A i \in backedUp : i >= idx
  /\ phase \in Rolling => outcome = "commit"
  /\ phase = "uninstall" =>
       /\ installed # {} => \A i \in Items : ~Adds(i) => i \in backedUp
       /\ ~trouble => \A i \in installed : i <= N + 1 - idx
  /\ phase = "restore" /\ ~trouble =>
       installed = {} /\ \A i \in backedUp : i <= N + 1 - idx
  /\ phase \in Cleaning =>
       /\ outcome # "none"
       /\ ~trouble => backedUp = {}
       /\ ~trouble /\ outcome # "ok" => installed = {}

\* The names of the temporary files are known before they are used.
Reserved ==
  /\ phase = "stage" => \A i \in Items : i < idx /\ ~Adds(i) => i \in hasBackup
  /\ phase \in {"vacate", "output", "write"} =>
       \A i \in Items : i <= idx /\ ~Adds(i) => i \in hasBackup
  /\ phase = "write" => idx \in hasOutput
  /\ phase = "backup" => \A i \in Items : ~Adds(i) => i \in hasBackup

\* The outputs that are still to be installed are complete.
OutputsReady ==
  /\ phase \in Staging =>
       \A i \in Items : i < idx /\ ~Deletes(i) => output[i] = changes[i].content
  /\ phase \in {"backup", "install"} =>
       \A i \in Items : ~Deletes(i) /\ i \notin installed => output[i] = changes[i].content

\* What the rollback and the cleanup have removed so far.
Swept ==
  /\ phase = "dropOutput" /\ ~trouble =>
       \A i \in Items : i < idx => backup[i] = Absent /\ output[i] = Absent
  /\ phase = "dropBackup" /\ ~trouble =>
       /\ \A i \in Items : i < idx => backup[i] = Absent
       /\ \A i \in Items : i <= idx => output[i] = Absent
  /\ phase = "done" /\ ~trouble =>
       \A i \in Items : backup[i] = Absent /\ output[i] = Absent

\* Where the originals are.
Kept ==
  ~Committed =>
    /\ \A i \in Items : ~Adds(i) /\ i \notin backedUp => files[From(i)] = before[From(i)]
    /\ \A p \in Names :
         (\A i \in Items : (Adds(i) \/ From(i) # p) /\ (Deletes(i) \/ To(i) # p))
           => files[p] = before[p]

\* The workspace as the marks tell it.
MarksTell ==
  \A p \in Names :
    /\ \A i \in installed : To(i) = p => files[p] = changes[i].content
    /\ (\A i \in installed : To(i) # p) =>
         /\ (\A i \in backedUp : From(i) # p) => files[p] = before[p]
         /\ \A i \in backedUp : From(i) = p => files[p] = Absent

\* The marks tell the truth as long as no rollback step failed.
Precise == ~Committed /\ ~trouble => MarksTell

Done == Committed => files = After

IInv ==
  /\ TypeOK /\ WellFormed(before, changes)
  /\ Marks /\ Progress /\ Reserved /\ OutputsReady /\ Swept
  /\ Kept /\ Precise /\ Done

-----------------------------------------------------------------------------
(* The edited workspace, path by path.                                     *)

\* What the edit asks for at one path: destinations are distinct.
LEMMA AfterAt ==
  ASSUME IInv, NEW p \in Names
  PROVE  /\ \A i \in Items : ~Deletes(i) /\ To(i) = p => After[p] = changes[i].content
         /\ (\A i \in Items : Deletes(i) \/ To(i) # p) =>
              /\ (\E i \in Items : ~Adds(i) /\ From(i) = p) => After[p] = Absent
              /\ (\A i \in Items : Adds(i) \/ From(i) # p) => After[p] = before[p]
<1>1. \A i, j \in Items : ~Deletes(i) /\ ~Deletes(j) /\ To(i) = To(j) => i = j
  BY DEF IInv, TypeOK, WellFormed, N, Items, Deletes, To
<1>0. DOMAIN changes = Items
  BY DEF IInv, TypeOK
<1>2. CASE \E i \in Items : ~Deletes(i) /\ To(i) = p
  <2> DEFINE j == CHOOSE i \in DOMAIN changes : changes[i].kind # "delete" /\ changes[i].to = p
  <2>1. j \in Items /\ ~Deletes(j) /\ To(j) = p
    BY <1>0, <1>2 DEF Deletes, To
  <2>2. After[p] = changes[j].content
    BY <1>0, <1>2 DEF After, Result, Deletes, To
  <2> HIDE DEF j
  <2> QED
    BY <1>1, <1>2, <2>1, <2>2
<1>3. CASE ~ \E i \in Items : ~Deletes(i) /\ To(i) = p
  BY <1>0, <1>3 DEF After, Result, Deletes, To, Adds, From
<1> QED
  BY <1>2, <1>3

(* One lemma per action.                                                   *)

\* Reserving a backup's name keeps the invariant.
LEMMA ReserveBackupPreserves ==
  ASSUME IInv, ReserveBackup
  PROVE  IInv'
<1> USE TransactionAssumption DEF N, Items, Adds, Deletes, From, To, envVars, diskVars, stageVars, ReserveBackup, StagingFails, Enter
<1>1. TypeOK'
  <2>1. (before \in [Names -> Contents \cup {Absent}] /\ N \in 1..MaxChanges /\ changes \in [Items -> Change])'
    BY DEF IInv, TypeOK
  <2>2. (files \in [Names -> Contents \cup {Absent}])'
    BY DEF IInv, TypeOK, Phases, Change
  <2>3. (backup \in [Items -> Contents \cup {Absent, Partial}])'
    BY DEF IInv, TypeOK, Change
  <2>4. (output \in [Items -> Contents \cup {Absent, Partial}])'
    BY DEF IInv, TypeOK, Change
  <2>5. (hasBackup \in SUBSET Items /\ hasOutput \in SUBSET Items)'
    BY DEF IInv, TypeOK
  <2>6. (backedUp \in SUBSET Items /\ installed \in SUBSET Items)'
    BY DEF IInv, TypeOK
  <2>7. (phase \in Phases /\ idx \in Items)'
    BY DEF IInv, TypeOK, Phases
  <2>8. (outcome \in {"none", "staging", "commit", "ok"} /\ trouble \in BOOLEAN)'
    BY DEF IInv, TypeOK
  <2> QED
    BY <2>1, <2>2, <2>3, <2>4, <2>5, <2>6, <2>7, <2>8 DEF TypeOK
<1>2. WellFormed(before, changes)'
  BY DEF IInv, WellFormed
<1>3. Marks'
  BY DEF IInv, TypeOK, Marks, Progress, Reserved, Kept, WellFormed, Committed, Staging, Change
<1>4. Progress'
  BY DEF IInv, TypeOK, Marks, Progress, Staging, Rolling, Cleaning, Phases
<1>5. Reserved'
  BY DEF IInv, TypeOK, Reserved
<1>6. OutputsReady'
  BY DEF IInv, TypeOK, Progress, OutputsReady, Staging
<1>7. Swept'
  BY DEF IInv, TypeOK, Marks, Progress, Swept, Staging, Rolling, Cleaning
<1>8. Kept'
  BY DEF IInv, TypeOK, Marks, Progress, Kept, WellFormed, Committed, Staging, Rolling, Cleaning, Change
<1>9. Precise'
  BY DEF IInv, TypeOK, Marks, Progress, OutputsReady, Precise, MarksTell, WellFormed, Committed, Staging, Rolling, Cleaning, Change
<1>10. Done'
  BY DEF IInv, TypeOK, Marks, Progress, OutputsReady, Precise, MarksTell, Done, Committed, WellFormed, Staging, Rolling, Cleaning, After, Result, Change
<1> QED
  BY <1>1, <1>2, <1>3, <1>4, <1>5, <1>6, <1>7, <1>8, <1>9, <1>10 DEF IInv

\* Releasing the reservation keeps it.
LEMMA VacateBackupPreserves ==
  ASSUME IInv, VacateBackup
  PROVE  IInv'
<1> USE TransactionAssumption DEF N, Items, Adds, Deletes, From, To, envVars, diskVars, stageVars, VacateBackup, StagingFails, Enter, Without
<1>1. TypeOK'
  <2>1. (before \in [Names -> Contents \cup {Absent}] /\ N \in 1..MaxChanges /\ changes \in [Items -> Change])'
    BY DEF IInv, TypeOK
  <2>2. (files \in [Names -> Contents \cup {Absent}])'
    BY DEF IInv, TypeOK, Phases, Change
  <2>3. (backup \in [Items -> Contents \cup {Absent, Partial}])'
    BY DEF IInv, TypeOK, Change
  <2>4. (output \in [Items -> Contents \cup {Absent, Partial}])'
    BY DEF IInv, TypeOK, Change
  <2>5. (hasBackup \in SUBSET Items /\ hasOutput \in SUBSET Items)'
    BY DEF IInv, TypeOK
  <2>6. (backedUp \in SUBSET Items /\ installed \in SUBSET Items)'
    BY DEF IInv, TypeOK
  <2>7. (phase \in Phases /\ idx \in Items)'
    BY DEF IInv, TypeOK, Phases
  <2>8. (outcome \in {"none", "staging", "commit", "ok"} /\ trouble \in BOOLEAN)'
    BY DEF IInv, TypeOK
  <2> QED
    BY <2>1, <2>2, <2>3, <2>4, <2>5, <2>6, <2>7, <2>8 DEF TypeOK
<1>2. WellFormed(before, changes)'
  BY DEF IInv, WellFormed
<1>3. Marks'
  BY DEF IInv, TypeOK, Marks, Progress, Reserved, Kept, WellFormed, Committed, Staging, Change
<1>4. Progress'
  BY DEF IInv, TypeOK, Marks, Progress, Staging, Rolling, Cleaning, Phases
<1>5. Reserved'
  BY DEF IInv, TypeOK, Reserved
<1>6. OutputsReady'
  BY DEF IInv, TypeOK, Progress, OutputsReady, Staging
<1>7. Swept'
  BY DEF IInv, TypeOK, Marks, Progress, Swept, Staging, Rolling, Cleaning
<1>8. Kept'
  BY DEF IInv, TypeOK, Marks, Progress, Kept, WellFormed, Committed, Staging, Rolling, Cleaning, Change
<1>9. Precise'
  BY DEF IInv, TypeOK, Marks, Progress, OutputsReady, Precise, MarksTell, WellFormed, Committed, Staging, Rolling, Cleaning, Change
<1>10. Done'
  BY DEF IInv, TypeOK, Marks, Progress, OutputsReady, Precise, MarksTell, Done, Committed, WellFormed, Staging, Rolling, Cleaning, After, Result, Change
<1> QED
  BY <1>1, <1>2, <1>3, <1>4, <1>5, <1>6, <1>7, <1>8, <1>9, <1>10 DEF IInv

\* Creating an output keeps it.
LEMMA CreateOutputPreserves ==
  ASSUME IInv, CreateOutput
  PROVE  IInv'
<1> USE TransactionAssumption DEF N, Items, Adds, Deletes, From, To, envVars, diskVars, stageVars, CreateOutput, StagingFails, Enter
<1>1. TypeOK'
  <2>1. (before \in [Names -> Contents \cup {Absent}] /\ N \in 1..MaxChanges /\ changes \in [Items -> Change])'
    BY DEF IInv, TypeOK
  <2>2. (files \in [Names -> Contents \cup {Absent}])'
    BY DEF IInv, TypeOK, Phases, Change
  <2>3. (backup \in [Items -> Contents \cup {Absent, Partial}])'
    BY DEF IInv, TypeOK, Change
  <2>4. (output \in [Items -> Contents \cup {Absent, Partial}])'
    BY DEF IInv, TypeOK, Change
  <2>5. (hasBackup \in SUBSET Items /\ hasOutput \in SUBSET Items)'
    BY DEF IInv, TypeOK
  <2>6. (backedUp \in SUBSET Items /\ installed \in SUBSET Items)'
    BY DEF IInv, TypeOK
  <2>7. (phase \in Phases /\ idx \in Items)'
    BY DEF IInv, TypeOK, Phases
  <2>8. (outcome \in {"none", "staging", "commit", "ok"} /\ trouble \in BOOLEAN)'
    BY DEF IInv, TypeOK
  <2> QED
    BY <2>1, <2>2, <2>3, <2>4, <2>5, <2>6, <2>7, <2>8 DEF TypeOK
<1>2. WellFormed(before, changes)'
  BY DEF IInv, WellFormed
<1>3. Marks'
  BY DEF IInv, TypeOK, Marks, Progress, Reserved, Kept, WellFormed, Committed, Staging, Change
<1>4. Progress'
  BY DEF IInv, TypeOK, Marks, Progress, Staging, Rolling, Cleaning, Phases
<1>5. Reserved'
  BY DEF IInv, TypeOK, Reserved
<1>6. OutputsReady'
  BY DEF IInv, TypeOK, Progress, OutputsReady, Staging
<1>7. Swept'
  BY DEF IInv, TypeOK, Marks, Progress, Swept, Staging, Rolling, Cleaning
<1>8. Kept'
  BY DEF IInv, TypeOK, Marks, Progress, Kept, WellFormed, Committed, Staging, Rolling, Cleaning, Change
<1>9. Precise'
  BY DEF IInv, TypeOK, Marks, Progress, OutputsReady, Precise, MarksTell, WellFormed, Committed, Staging, Rolling, Cleaning, Change
<1>10. Done'
  BY DEF IInv, TypeOK, Marks, Progress, OutputsReady, Precise, MarksTell, Done, Committed, WellFormed, Staging, Rolling, Cleaning, After, Result, Change
<1> QED
  BY <1>1, <1>2, <1>3, <1>4, <1>5, <1>6, <1>7, <1>8, <1>9, <1>10 DEF IInv

\* Writing an output keeps it; the last one starts the backups.
LEMMA WriteOutputPreserves ==
  ASSUME IInv, WriteOutput
  PROVE  IInv'
<1> USE TransactionAssumption DEF N, Items, Adds, Deletes, From, To, envVars, diskVars, stageVars, WriteOutput, StagingFails, Enter
<1>1. TypeOK'
  BY DEF IInv, TypeOK, Phases, Change
<1>2. WellFormed(before, changes)'
  BY DEF IInv, WellFormed
<1>3. Marks'
  BY DEF IInv, TypeOK, Marks, Progress, Reserved, Kept, WellFormed, Committed, Staging, Change
<1>4. Progress'
  BY DEF IInv, TypeOK, Marks, Progress, Staging, Rolling, Cleaning, Phases
<1>5. Reserved'
  BY DEF IInv, TypeOK, Reserved
<1>6. OutputsReady'
  <2>1. \A i \in Items : i < idx /\ ~Deletes(i) => output'[i] = changes[i].content
    BY DEF IInv, TypeOK, OutputsReady, Staging
  <2>2. phase' # "dropOutput" => output'[idx] = changes[idx].content
    BY DEF IInv, TypeOK
  <2> QED
    BY <2>1, <2>2, SMTT(30) DEF IInv, TypeOK, OutputsReady, Staging, Progress
<1>7. Swept'
  BY DEF IInv, TypeOK, Marks, Progress, Swept, Staging, Rolling, Cleaning
<1>8. Kept'
  BY DEF IInv, TypeOK, Marks, Progress, Kept, WellFormed, Committed, Staging, Rolling, Cleaning, Change
<1>9. Precise'
  BY DEF IInv, TypeOK, Marks, Progress, OutputsReady, Precise, MarksTell, WellFormed, Committed, Staging, Rolling, Cleaning, Change
<1>10. Done'
  BY DEF IInv, TypeOK, Marks, Progress, OutputsReady, Precise, MarksTell, Done, Committed, WellFormed, Staging, Rolling, Cleaning, After, Result, Change
<1> QED
  BY <1>1, <1>2, <1>3, <1>4, <1>5, <1>6, <1>7, <1>8, <1>9, <1>10 DEF IInv

\* Renaming an original to its backup keeps it.
LEMMA BackUpPreserves ==
  ASSUME IInv, BackUp
  PROVE  IInv'
<1> DEFINE
  Skips == /\ Adds(idx) /\ Advance("install")
           /\ UNCHANGED <<files, backup, backedUp, outcome, trouble>>
  Works == /\ ~Adds(idx) /\ MoveAway(idx) /\ backedUp' = backedUp \cup {idx}
           /\ Advance("install") /\ UNCHANGED <<outcome, trouble>>
  Fails == ~Adds(idx) /\ CommitFails /\ UNCHANGED <<files, backup, backedUp>>
<1>1. phase = "backup" /\ UNCHANGED <<before, changes, output, hasBackup, hasOutput, installed>>
  BY DEF BackUp, envVars, diskVars, stageVars
<1>2. Skips \/ Works \/ Fails
  BY DEF BackUp
<1> USE TransactionAssumption, <1>1 DEF N, Items, Adds, Deletes, From, To, CommitFails, Enter, MoveAway, Advance
<1>3. CASE Skips
  <2>1. TypeOK'
    BY <1>3 DEF IInv, TypeOK, Phases, Change
  <2>2. WellFormed(before, changes)'
    BY <1>3 DEF IInv, WellFormed
  <2>3. Marks'
    BY <1>3 DEF IInv, TypeOK, Marks, Progress, Reserved, Kept, WellFormed, Committed, Staging, Change
  <2>4. Progress'
    BY <1>3 DEF IInv, TypeOK, Marks, Progress, Staging, Rolling, Cleaning, Phases
  <2>5. Reserved'
    BY <1>3 DEF IInv, TypeOK, Reserved
  <2>6. OutputsReady'
    BY <1>3 DEF IInv, TypeOK, Progress, OutputsReady, Staging
  <2>7. Swept'
    BY <1>3 DEF IInv, TypeOK, Marks, Progress, Swept, Staging, Rolling, Cleaning
  <2>8. Kept'
    BY <1>3 DEF IInv, TypeOK, Marks, Progress, Kept, WellFormed, Committed, Staging, Rolling, Cleaning, Change
  <2>9. Precise'
    BY <1>3 DEF IInv, TypeOK, Marks, Progress, OutputsReady, Precise, MarksTell, WellFormed, Committed, Staging, Rolling, Cleaning, Change
  <2>10. Done'
    BY <1>3 DEF IInv, TypeOK, Marks, Progress, OutputsReady, Precise, MarksTell, Done, Committed, WellFormed, Staging, Rolling, Cleaning, After, Result, Change
  <2> QED
    BY <2>1, <2>2, <2>3, <2>4, <2>5, <2>6, <2>7, <2>8, <2>9, <2>10 DEF IInv
<1>4. CASE Works
  <2>1. TypeOK'
    <3>1. (before \in [Names -> Contents \cup {Absent}] /\ N \in 1..MaxChanges /\ changes \in [Items -> Change])'
      BY <1>4 DEF IInv, TypeOK
    <3>2. (files \in [Names -> Contents \cup {Absent}])'
      BY <1>4 DEF IInv, TypeOK, Phases, Change
    <3>3. (backup \in [Items -> Contents \cup {Absent, Partial}])'
      BY <1>4 DEF IInv, TypeOK, Change
    <3>4. (output \in [Items -> Contents \cup {Absent, Partial}])'
      BY <1>4 DEF IInv, TypeOK, Change
    <3>5. (hasBackup \in SUBSET Items /\ hasOutput \in SUBSET Items)'
      BY <1>4 DEF IInv, TypeOK
    <3>6. (backedUp \in SUBSET Items /\ installed \in SUBSET Items)'
      BY <1>4 DEF IInv, TypeOK
    <3>7. (phase \in Phases /\ idx \in Items)'
      BY <1>4 DEF IInv, TypeOK, Phases
    <3>8. (outcome \in {"none", "staging", "commit", "ok"} /\ trouble \in BOOLEAN)'
      BY <1>4 DEF IInv, TypeOK
    <3> QED
      BY <3>1, <3>2, <3>3, <3>4, <3>5, <3>6, <3>7, <3>8 DEF TypeOK
  <2>2. WellFormed(before, changes)'
    BY <1>4 DEF IInv, WellFormed
  <2>3. Marks'
    BY <1>4 DEF IInv, TypeOK, Marks, Progress, Reserved, Kept, WellFormed, Committed, Staging, Change
  <2>4. Progress'
    BY <1>4 DEF IInv, TypeOK, Marks, Progress, Staging, Rolling, Cleaning, Phases
  <2>5. Reserved'
    BY <1>4 DEF IInv, TypeOK, Reserved
  <2>6. OutputsReady'
    BY <1>4 DEF IInv, TypeOK, Progress, OutputsReady, Staging
  <2>7. Swept'
    BY <1>4 DEF IInv, TypeOK, Marks, Progress, Swept, Staging, Rolling, Cleaning
  <2>8. Kept'
    <3>1. \A i \in Items : ~Adds(i) /\ i # idx => From(i) # From(idx)
      BY <1>4 DEF IInv, TypeOK, WellFormed
    <3>2. \A p \in Names : p # From(idx) => files'[p] = files[p]
      BY <1>4 DEF IInv, TypeOK
    <3>3. ~Committed /\ \A i \in Items : From(i) \in Names
      BY DEF IInv, TypeOK, Committed, Progress, Change
    <3> QED
      BY <1>4, <3>1, <3>2, <3>3 DEF IInv, TypeOK, Kept, Committed
  <2>9. Precise'
    BY <1>4 DEF IInv, TypeOK, Marks, Progress, OutputsReady, Precise, MarksTell, WellFormed, Committed, Staging, Rolling, Cleaning, Change
  <2>10. Done'
    BY <1>4 DEF IInv, TypeOK, Marks, Progress, OutputsReady, Precise, MarksTell, Done, Committed, WellFormed, Staging, Rolling, Cleaning, After, Result, Change
  <2> QED
    BY <2>1, <2>2, <2>3, <2>4, <2>5, <2>6, <2>7, <2>8, <2>9, <2>10 DEF IInv
<1>5. CASE Fails
  <2>1. TypeOK'
    BY <1>5 DEF IInv, TypeOK, Phases, Change
  <2>2. WellFormed(before, changes)'
    BY <1>5 DEF IInv, WellFormed
  <2>3. Marks'
    BY <1>5 DEF IInv, TypeOK, Marks, Progress, Reserved, Kept, WellFormed, Committed, Staging, Change
  <2>4. Progress'
    BY <1>5 DEF IInv, TypeOK, Marks, Progress, Staging, Rolling, Cleaning, Phases
  <2>5. Reserved'
    BY <1>5 DEF IInv, TypeOK, Reserved
  <2>6. OutputsReady'
    BY <1>5 DEF IInv, TypeOK, Progress, OutputsReady, Staging
  <2>7. Swept'
    BY <1>5 DEF IInv, TypeOK, Marks, Progress, Swept, Staging, Rolling, Cleaning
  <2>8. Kept'
    BY <1>5 DEF IInv, TypeOK, Marks, Progress, Kept, WellFormed, Committed, Staging, Rolling, Cleaning, Change
  <2>9. Precise'
    BY <1>5 DEF IInv, TypeOK, Marks, Progress, OutputsReady, Precise, MarksTell, WellFormed, Committed, Staging, Rolling, Cleaning, Change
  <2>10. Done'
    BY <1>5 DEF IInv, TypeOK, Marks, Progress, OutputsReady, Precise, MarksTell, Done, Committed, WellFormed, Staging, Rolling, Cleaning, After, Result, Change
  <2> QED
    BY <2>1, <2>2, <2>3, <2>4, <2>5, <2>6, <2>7, <2>8, <2>9, <2>10 DEF IInv
<1> QED
  BY <1>2, <1>3, <1>4, <1>5

\* Installing an output keeps it; the last one completes the edit.
LEMMA InstallPreserves ==
  ASSUME IInv, Install
  PROVE  IInv'
<1> DEFINE
  Skips == /\ Deletes(idx) /\ Advance("unback")
           /\ UNCHANGED <<files, output, hasOutput, installed, outcome, trouble>>
  Works == /\ ~Deletes(idx) /\ files' = [files EXCEPT ![To(idx)] = output[idx]]
           /\ output' = Without(output, idx) /\ hasOutput' = hasOutput \ {idx}
           /\ installed' = installed \cup {idx}
           /\ Advance("unback") /\ UNCHANGED <<outcome, trouble>>
  Fails == ~Deletes(idx) /\ CommitFails /\ UNCHANGED <<files, output, hasOutput, installed>>
<1>1. phase = "install" /\ UNCHANGED <<before, changes, backup, hasBackup, backedUp>>
  BY DEF Install, envVars, diskVars, stageVars
<1>2. Skips \/ Works \/ Fails
  BY DEF Install
<1> USE TransactionAssumption, <1>1 DEF N, Items, Adds, Deletes, From, To, CommitFails, Enter, Without, Advance
<1>3. CASE Skips
  <2>c. MarksTell'
    BY <1>3 DEF IInv, TypeOK, Progress, Precise, MarksTell, Committed
  <2>1. TypeOK'
    BY <1>3 DEF IInv, TypeOK, Phases, Change
  <2>2. WellFormed(before, changes)'
    BY <1>3 DEF IInv, WellFormed
  <2>3. Marks'
    BY <1>3 DEF IInv, TypeOK, Marks, Progress, Reserved, Kept, WellFormed, Committed, Staging, Change
  <2>4. Progress'
    BY <1>3 DEF IInv, TypeOK, Marks, Progress, Staging, Rolling, Cleaning, Phases
  <2>5. Reserved'
    BY <1>3 DEF IInv, TypeOK, Reserved
  <2>6. OutputsReady'
    BY <1>3 DEF IInv, TypeOK, Progress, OutputsReady, Staging
  <2>7. Swept'
    BY <1>3 DEF IInv, TypeOK, Marks, Progress, Swept, Staging, Rolling, Cleaning
  <2>8. Kept'
    BY <1>3 DEF IInv, TypeOK, Marks, Progress, Kept, WellFormed, Committed, Staging, Rolling, Cleaning, Change
  <2>9. Precise'
    BY <1>3 DEF IInv, TypeOK, Marks, Progress, OutputsReady, Precise, MarksTell, WellFormed, Committed, Staging, Rolling, Cleaning, Change
  <2>10. Done'
    <3>1. SUFFICES ASSUME Committed', NEW p \in Names
                   PROVE  files'[p] = After[p]
      <4>1. files' \in [Names -> Contents \cup {Absent}]
        BY <2>1 DEF TypeOK
      <4> QED
        BY <4>1 DEF Done, After, Result
    <3>2. \A i \in Items : (~Adds(i) => i \in backedUp) /\ (~Deletes(i) => i \in installed')
      BY <1>3, <3>1 DEF IInv, TypeOK, Progress, Committed
    <3>3. /\ backedUp \subseteq Items /\ installed' \subseteq Items
          /\ \A i \in backedUp : ~Adds(i)
          /\ \A i \in installed' : ~Deletes(i)
      BY <1>3 DEF IInv, TypeOK, Marks
    <3>4. /\ \A i \in installed' : To(i) = p => files'[p] = changes[i].content
          /\ (\A i \in installed' : To(i) # p) =>
               /\ (\A i \in backedUp : From(i) # p) => files'[p] = before[p]
               /\ \A i \in backedUp : From(i) = p => files'[p] = Absent
      BY <2>c DEF MarksTell
    <3> HIDE DEF N, Items, Adds, Deletes, From, To
    <3> QED
      BY <3>2, <3>3, <3>4, AfterAt
  <2> QED
    BY <2>1, <2>2, <2>3, <2>4, <2>5, <2>6, <2>7, <2>8, <2>9, <2>10 DEF IInv
<1>4. CASE Works
  <2>a. output[idx] = changes[idx].content /\ output[idx] \in Contents /\ To(idx) \in Names
    <3>1. idx \in Items /\ idx \notin installed
      BY DEF IInv, TypeOK, Progress
    <3>2. changes[idx] \in Change
      BY <3>1 DEF IInv, TypeOK
    <3>3. output[idx] = changes[idx].content
      BY <1>4, <3>1 DEF IInv, OutputsReady
    <3> QED
      BY <3>2, <3>3 DEF Change
  <2>b. \A i \in Items : ~Deletes(i) /\ i # idx => To(i) # To(idx)
    BY <1>4 DEF IInv, TypeOK, WellFormed
  <2>c. MarksTell'
    <3>1. MarksTell
      BY DEF IInv, Precise, Progress, Committed
    <3>2. installed \subseteq Items /\ \A i \in installed : ~Deletes(i) /\ i # idx
      BY DEF IInv, TypeOK, Marks, Progress
    <3>3. files \in [Names -> Contents \cup {Absent}]
      BY DEF IInv, TypeOK
    <3>4. /\ files' = [files EXCEPT ![To(idx)] = output[idx]]
          /\ installed' = installed \cup {idx} /\ backedUp' = backedUp
          /\ changes' = changes /\ before' = before
      BY <1>4
    <3> SUFFICES ASSUME NEW p \in Names
                 PROVE  /\ \A i \in installed' : To(i) = p => files'[p] = changes[i].content
                        /\ (\A i \in installed' : To(i) # p) =>
                             /\ (\A i \in backedUp : From(i) # p) => files'[p] = before[p]
                             /\ \A i \in backedUp : From(i) = p => files'[p] = Absent
      BY <3>4 DEF MarksTell
    <3>5. CASE p = To(idx)
      BY <2>a, <2>b, <3>2, <3>3, <3>4, <3>5
    <3>6. CASE p # To(idx)
      <4>1. files'[p] = files[p]
        BY <3>3, <3>4, <3>6
      <4> QED
        BY <3>1, <3>4, <3>6, <4>1 DEF MarksTell
    <3> QED
      BY <3>5, <3>6
  <2>1. TypeOK'
    <3>1. (before \in [Names -> Contents \cup {Absent}] /\ N \in 1..MaxChanges /\ changes \in [Items -> Change])'
      BY <1>4, <2>a DEF IInv, TypeOK
    <3>2. (files \in [Names -> Contents \cup {Absent}])'
      BY <1>4, <2>a DEF IInv, TypeOK, Phases, OutputsReady, Progress, Change
    <3>3. (backup \in [Items -> Contents \cup {Absent, Partial}])'
      BY <1>4, <2>a DEF IInv, TypeOK, Change
    <3>4. (output \in [Items -> Contents \cup {Absent, Partial}])'
      BY <1>4, <2>a DEF IInv, TypeOK, Change
    <3>5. (hasBackup \in SUBSET Items /\ hasOutput \in SUBSET Items)'
      BY <1>4, <2>a DEF IInv, TypeOK
    <3>6. (backedUp \in SUBSET Items /\ installed \in SUBSET Items)'
      BY <1>4, <2>a DEF IInv, TypeOK
    <3>7. (phase \in Phases /\ idx \in Items)'
      BY <1>4, <2>a DEF IInv, TypeOK, Phases
    <3>8. (outcome \in {"none", "staging", "commit", "ok"} /\ trouble \in BOOLEAN)'
      BY <1>4, <2>a DEF IInv, TypeOK
    <3> QED
      BY <3>1, <3>2, <3>3, <3>4, <3>5, <3>6, <3>7, <3>8 DEF TypeOK
  <2>2. WellFormed(before, changes)'
    BY <1>4 DEF IInv, WellFormed
  <2>3. Marks'
    BY <1>4 DEF IInv, TypeOK, Marks, Progress, Reserved, Kept, WellFormed, Committed, Staging, Change
  <2>4. Progress'
    BY <1>4 DEF IInv, TypeOK, Marks, Progress, Staging, Rolling, Cleaning, Phases
  <2>5. Reserved'
    BY <1>4 DEF IInv, TypeOK, Reserved
  <2>6. OutputsReady'
    BY <1>4 DEF IInv, TypeOK, Progress, OutputsReady, Staging
  <2>7. Swept'
    BY <1>4 DEF IInv, TypeOK, Marks, Progress, Swept, Staging, Rolling, Cleaning
  <2>8. Kept'
    BY <1>4 DEF IInv, TypeOK, Marks, Progress, Kept, WellFormed, Committed, Staging, Rolling, Cleaning, Change
  <2>9. Precise'
    BY <2>c DEF Precise
  <2>10. Done'
    <3>1. SUFFICES ASSUME Committed', NEW p \in Names
                   PROVE  files'[p] = After[p]
      <4>1. files' \in [Names -> Contents \cup {Absent}]
        BY <2>1 DEF TypeOK
      <4> QED
        BY <4>1 DEF Done, After, Result
    <3>2. \A i \in Items : (~Adds(i) => i \in backedUp) /\ (~Deletes(i) => i \in installed')
      BY <1>4, <3>1 DEF IInv, TypeOK, Progress, Committed
    <3>3. /\ backedUp \subseteq Items /\ installed' \subseteq Items
          /\ \A i \in backedUp : ~Adds(i)
          /\ \A i \in installed' : ~Deletes(i)
      BY <1>4 DEF IInv, TypeOK, Marks
    <3>4. /\ \A i \in installed' : To(i) = p => files'[p] = changes[i].content
          /\ (\A i \in installed' : To(i) # p) =>
               /\ (\A i \in backedUp : From(i) # p) => files'[p] = before[p]
               /\ \A i \in backedUp : From(i) = p => files'[p] = Absent
      BY <2>c DEF MarksTell
    <3> HIDE DEF N, Items, Adds, Deletes, From, To
    <3> QED
      BY <3>2, <3>3, <3>4, AfterAt
  <2> QED
    BY <2>1, <2>2, <2>3, <2>4, <2>5, <2>6, <2>7, <2>8, <2>9, <2>10 DEF IInv
<1>5. CASE Fails
  <2>1. TypeOK'
    BY <1>5 DEF IInv, TypeOK, Phases, Change
  <2>2. WellFormed(before, changes)'
    BY <1>5 DEF IInv, WellFormed
  <2>3. Marks'
    BY <1>5 DEF IInv, TypeOK, Marks, Progress, Reserved, Kept, WellFormed, Committed, Staging, Change
  <2>4. Progress'
    BY <1>5 DEF IInv, TypeOK, Marks, Progress, Staging, Rolling, Cleaning, Phases
  <2>5. Reserved'
    BY <1>5 DEF IInv, TypeOK, Reserved
  <2>6. OutputsReady'
    BY <1>5 DEF IInv, TypeOK, Progress, OutputsReady, Staging
  <2>7. Swept'
    BY <1>5 DEF IInv, TypeOK, Marks, Progress, Swept, Staging, Rolling, Cleaning
  <2>8. Kept'
    BY <1>5 DEF IInv, TypeOK, Marks, Progress, Kept, WellFormed, Committed, Staging, Rolling, Cleaning, Change
  <2>9. Precise'
    BY <1>5 DEF IInv, TypeOK, Marks, Progress, OutputsReady, Precise, MarksTell, WellFormed, Committed, Staging, Rolling, Cleaning, Change
  <2>10. Done'
    BY <1>5 DEF IInv, TypeOK, Marks, Progress, OutputsReady, Precise, MarksTell, Done, Committed, WellFormed, Staging, Rolling, Cleaning, After, Result, Change
  <2> QED
    BY <2>1, <2>2, <2>3, <2>4, <2>5, <2>6, <2>7, <2>8, <2>9, <2>10 DEF IInv
<1> QED
  BY <1>2, <1>3, <1>4, <1>5

\* Removing a backup after the commit keeps it.
LEMMA RemoveBackupPreserves ==
  ASSUME IInv, RemoveBackup
  PROVE  IInv'
<1> DEFINE
  Skips == idx \notin backedUp /\ UNCHANGED <<backup, hasBackup, backedUp, trouble>>
  Works == /\ idx \in backedUp /\ backup' = Without(backup, idx)
           /\ hasBackup' = hasBackup \ {idx} /\ backedUp' = backedUp \ {idx}
           /\ UNCHANGED trouble
  Fails == idx \in backedUp /\ trouble' = TRUE /\ UNCHANGED <<backup, hasBackup, backedUp>>
<1>1. phase = "unback" /\ outcome' = "ok" /\ Advance(IF trouble' THEN "done" ELSE "dropOutput") /\ UNCHANGED <<before, changes, files, output, hasOutput, installed>>
  BY DEF RemoveBackup, envVars, diskVars, stageVars
<1>2. Skips \/ Works \/ Fails
  BY DEF RemoveBackup
<1> USE TransactionAssumption, <1>1 DEF N, Items, Adds, Deletes, From, To, Without, Advance
<1>3. CASE Skips
  <2>1. TypeOK'
    BY <1>3 DEF IInv, TypeOK, Phases, Change
  <2>2. WellFormed(before, changes)'
    BY <1>3 DEF IInv, WellFormed
  <2>3. Marks'
    BY <1>3 DEF IInv, TypeOK, Marks, Progress, Reserved, Kept, WellFormed, Committed, Staging, Change
  <2>4. Progress'
    BY <1>3 DEF IInv, TypeOK, Marks, Progress, Staging, Rolling, Cleaning, Phases
  <2>5. Reserved'
    BY <1>3 DEF IInv, TypeOK, Reserved
  <2>6. OutputsReady'
    BY <1>3 DEF IInv, TypeOK, Progress, OutputsReady, Staging
  <2>7. Swept'
    BY <1>3 DEF IInv, TypeOK, Marks, Progress, Swept, Staging, Rolling, Cleaning
  <2>8. Kept'
    BY <1>3 DEF IInv, TypeOK, Marks, Progress, Kept, WellFormed, Committed, Staging, Rolling, Cleaning, Change
  <2>9. Precise'
    BY <1>3 DEF IInv, TypeOK, Marks, Progress, OutputsReady, Precise, MarksTell, WellFormed, Committed, Staging, Rolling, Cleaning, Change
  <2>10. Done'
    BY <1>3 DEF IInv, TypeOK, Marks, Progress, OutputsReady, Precise, MarksTell, Done, Committed, WellFormed, Staging, Rolling, Cleaning, After, Result, Change
  <2> QED
    BY <2>1, <2>2, <2>3, <2>4, <2>5, <2>6, <2>7, <2>8, <2>9, <2>10 DEF IInv
<1>4. CASE Works
  <2>1. TypeOK'
    BY <1>4 DEF IInv, TypeOK, Phases, Change
  <2>2. WellFormed(before, changes)'
    BY <1>4 DEF IInv, WellFormed
  <2>3. Marks'
    BY <1>4 DEF IInv, TypeOK, Marks, Progress, Reserved, Kept, WellFormed, Committed, Staging, Change
  <2>4. Progress'
    BY <1>4 DEF IInv, TypeOK, Marks, Progress, Staging, Rolling, Cleaning, Phases
  <2>5. Reserved'
    BY <1>4 DEF IInv, TypeOK, Reserved
  <2>6. OutputsReady'
    BY <1>4 DEF IInv, TypeOK, Progress, OutputsReady, Staging
  <2>7. Swept'
    BY <1>4 DEF IInv, TypeOK, Marks, Progress, Swept, Staging, Rolling, Cleaning
  <2>8. Kept'
    BY <1>4 DEF IInv, TypeOK, Marks, Progress, Kept, WellFormed, Committed, Staging, Rolling, Cleaning, Change
  <2>9. Precise'
    BY <1>4 DEF IInv, TypeOK, Marks, Progress, OutputsReady, Precise, MarksTell, WellFormed, Committed, Staging, Rolling, Cleaning, Change
  <2>10. Done'
    BY <1>4 DEF IInv, TypeOK, Marks, Progress, OutputsReady, Precise, MarksTell, Done, Committed, WellFormed, Staging, Rolling, Cleaning, After, Result, Change
  <2> QED
    BY <2>1, <2>2, <2>3, <2>4, <2>5, <2>6, <2>7, <2>8, <2>9, <2>10 DEF IInv
<1>5. CASE Fails
  <2>1. TypeOK'
    BY <1>5 DEF IInv, TypeOK, Phases, Change
  <2>2. WellFormed(before, changes)'
    BY <1>5 DEF IInv, WellFormed
  <2>3. Marks'
    BY <1>5 DEF IInv, TypeOK, Marks, Progress, Reserved, Kept, WellFormed, Committed, Staging, Change
  <2>4. Progress'
    BY <1>5 DEF IInv, TypeOK, Marks, Progress, Staging, Rolling, Cleaning, Phases
  <2>5. Reserved'
    BY <1>5 DEF IInv, TypeOK, Reserved
  <2>6. OutputsReady'
    BY <1>5 DEF IInv, TypeOK, Progress, OutputsReady, Staging
  <2>7. Swept'
    BY <1>5 DEF IInv, TypeOK, Marks, Progress, Swept, Staging, Rolling, Cleaning
  <2>8. Kept'
    BY <1>5 DEF IInv, TypeOK, Marks, Progress, Kept, WellFormed, Committed, Staging, Rolling, Cleaning, Change
  <2>9. Precise'
    BY <1>5 DEF IInv, TypeOK, Marks, Progress, OutputsReady, Precise, MarksTell, WellFormed, Committed, Staging, Rolling, Cleaning, Change
  <2>10. Done'
    BY <1>5 DEF IInv, TypeOK, Marks, Progress, OutputsReady, Precise, MarksTell, Done, Committed, WellFormed, Staging, Rolling, Cleaning, After, Result, Change
  <2> QED
    BY <2>1, <2>2, <2>3, <2>4, <2>5, <2>6, <2>7, <2>8, <2>9, <2>10 DEF IInv
<1> QED
  BY <1>2, <1>3, <1>4, <1>5

\* Removing an installed output in the rollback keeps it.
LEMMA UninstallPreserves ==
  ASSUME IInv, Uninstall
  PROVE  IInv'
<1> DEFINE
  Skips == Backward \notin installed /\ UNCHANGED <<files, installed, trouble>>
  Works == /\ Backward \in installed /\ files' = [files EXCEPT ![To(Backward)] = Absent]
           /\ installed' = installed \ {Backward} /\ UNCHANGED trouble
  Fails == Backward \in installed /\ trouble' = TRUE /\ UNCHANGED <<files, installed>>
<1>1. phase = "uninstall" /\ Advance("restore") /\ UNCHANGED <<before, changes, backup, output, hasBackup, hasOutput, backedUp, outcome>>
  BY DEF Uninstall, envVars, diskVars, stageVars
<1>2. Skips \/ Works \/ Fails
  BY DEF Uninstall
<1> USE TransactionAssumption, <1>1 DEF N, Items, Adds, Deletes, From, To, Backward, Advance
<1>3. CASE Skips
  <2>1. TypeOK'
    BY <1>3 DEF IInv, TypeOK, Phases, Change
  <2>2. WellFormed(before, changes)'
    BY <1>3 DEF IInv, WellFormed
  <2>3. Marks'
    BY <1>3 DEF IInv, TypeOK, Marks, Progress, Reserved, Kept, WellFormed, Committed, Staging, Change
  <2>4. Progress'
    BY <1>3 DEF IInv, TypeOK, Marks, Progress, Staging, Rolling, Cleaning, Phases
  <2>5. Reserved'
    BY <1>3 DEF IInv, TypeOK, Reserved
  <2>6. OutputsReady'
    BY <1>3 DEF IInv, TypeOK, Progress, OutputsReady, Staging
  <2>7. Swept'
    BY <1>3 DEF IInv, TypeOK, Marks, Progress, Swept, Staging, Rolling, Cleaning
  <2>8. Kept'
    BY <1>3 DEF IInv, TypeOK, Marks, Progress, Kept, WellFormed, Committed, Staging, Rolling, Cleaning, Change
  <2>9. Precise'
    BY <1>3 DEF IInv, TypeOK, Marks, Progress, OutputsReady, Precise, MarksTell, WellFormed, Committed, Staging, Rolling, Cleaning, Change
  <2>10. Done'
    BY <1>3 DEF IInv, TypeOK, Marks, Progress, OutputsReady, Precise, MarksTell, Done, Committed, WellFormed, Staging, Rolling, Cleaning, After, Result, Change
  <2> QED
    BY <2>1, <2>2, <2>3, <2>4, <2>5, <2>6, <2>7, <2>8, <2>9, <2>10 DEF IInv
<1>4. CASE Works
  <2>1. TypeOK'
    <3>1. (before \in [Names -> Contents \cup {Absent}] /\ N \in 1..MaxChanges /\ changes \in [Items -> Change])'
      BY <1>4 DEF IInv, TypeOK
    <3>2. (files \in [Names -> Contents \cup {Absent}])'
      BY <1>4 DEF IInv, TypeOK, Phases, Change
    <3>3. (backup \in [Items -> Contents \cup {Absent, Partial}])'
      BY <1>4 DEF IInv, TypeOK, Change
    <3>4. (output \in [Items -> Contents \cup {Absent, Partial}])'
      BY <1>4 DEF IInv, TypeOK, Change
    <3>5. (hasBackup \in SUBSET Items /\ hasOutput \in SUBSET Items)'
      BY <1>4 DEF IInv, TypeOK
    <3>6. (backedUp \in SUBSET Items /\ installed \in SUBSET Items)'
      BY <1>4 DEF IInv, TypeOK
    <3>7. (phase \in Phases /\ idx \in Items)'
      BY <1>4 DEF IInv, TypeOK, Phases
    <3>8. (outcome \in {"none", "staging", "commit", "ok"} /\ trouble \in BOOLEAN)'
      BY <1>4 DEF IInv, TypeOK
    <3> QED
      BY <3>1, <3>2, <3>3, <3>4, <3>5, <3>6, <3>7, <3>8 DEF TypeOK
  <2>2. WellFormed(before, changes)'
    BY <1>4 DEF IInv, WellFormed
  <2>3. Marks'
    BY <1>4 DEF IInv, TypeOK, Marks, Progress, Reserved, Kept, WellFormed, Committed, Staging, Change
  <2>4. Progress'
    <3>1. /\ idx \in 1..N /\ N \in Nat /\ installed \subseteq 1..N
          /\ installed' = installed \ {N + 1 - idx} /\ trouble' = trouble
      BY <1>4 DEF IInv, TypeOK
    <3>2. /\ \A i \in Items : ~Adds(i) => i \in backedUp
          /\ ~trouble => \A i \in installed : i <= N + 1 - idx
      BY <1>4 DEF IInv, Progress
    <3>3. ~trouble => \A i \in installed' : i <= N - idx
      <4> SUFFICES ASSUME ~trouble, NEW i \in installed' PROVE i <= N - idx
        OBVIOUS
      <4>1. i \in installed /\ i # N + 1 - idx
        BY ONLY <3>1
      <4>2. i <= N + 1 - idx
        BY ONLY <3>2, <4>1, ~trouble
      <4>3. i \in Int /\ idx \in Int /\ N \in Int
        <5> HIDE DEF N
        <5> QED BY ONLY <3>1, <4>1
      <4> QED
        <5> HIDE DEF N
        <5> QED BY ONLY <4>1, <4>2, <4>3
    <3>4. ~trouble /\ idx = N => installed' = {}
      <4> HIDE DEF N
      <4> QED BY <3>1, <3>3
    <3>5. /\ phase' \in {"uninstall", "restore"} /\ outcome' = "commit"
          /\ phase' = "uninstall" => idx' = idx + 1
          /\ phase' = "restore" => idx = N /\ idx' = 1
      BY <3>1 DEF IInv, Progress, Rolling
    <3>6. (\A i \in Items : ~Adds(i) => i \in backedUp)' /\ N' = N /\ backedUp' \subseteq 1..N
      BY <3>2 DEF IInv, TypeOK
    <3> HIDE DEF N, Items, Adds
    <3>8. CASE phase' = "uninstall"
      <4>1. ~trouble => \A i \in installed' : i <= N + 1 - idx'
        BY <3>1, <3>3, <3>5, <3>8
      <4> QED
        BY <3>1, <3>5, <3>6, <3>8, <4>1 DEF Progress, Staging, Rolling, Cleaning
    <3>9. CASE phase' = "restore"
      <4>1. ~trouble => \A i \in backedUp' : i <= N + 1 - idx'
        BY <3>1, <3>5, <3>6, <3>9
      <4> QED
        BY <3>1, <3>4, <3>5, <3>6, <3>9, <4>1 DEF Progress, Staging, Rolling, Cleaning
    <3> QED
      BY <3>5, <3>8, <3>9
  <2>5. Reserved'
    BY <1>4 DEF IInv, TypeOK, Reserved
  <2>6. OutputsReady'
    BY <1>4 DEF IInv, TypeOK, Progress, OutputsReady, Staging
  <2>7. Swept'
    BY <1>4 DEF IInv, TypeOK, Marks, Progress, Swept, Staging, Rolling, Cleaning
  <2>8. Kept'
    BY <1>4 DEF IInv, TypeOK, Marks, Progress, Kept, WellFormed, Committed, Staging, Rolling, Cleaning, Change
  <2>9. Precise'
    <3> DEFINE k == Backward
    <3>1. k \in Items /\ ~Deletes(k) /\ To(k) \in Names /\ k \in installed
      BY <1>4 DEF IInv, TypeOK, Marks, Change
    <3>2. \A i \in installed' : To(i) # To(k)
      BY <1>4, <3>1 DEF IInv, TypeOK, Marks, WellFormed
    <3>3. (\A i \in backedUp : From(i) # To(k)) => before[To(k)] = Absent
      BY <3>1 DEF IInv, TypeOK, Progress, WellFormed
    <3>4. files' = [files EXCEPT ![To(k)] = Absent] /\ installed' = installed \ {k}
      BY <1>4
    <3> HIDE DEF k
    <3>5. ~trouble => MarksTell'
      BY <3>1, <3>2, <3>3, <3>4 DEF IInv, TypeOK, Precise, MarksTell, Committed, Progress, Rolling
    <3> QED
      BY <1>4, <3>5 DEF Precise
  <2>10. Done'
    BY <1>4 DEF IInv, TypeOK, Marks, Progress, OutputsReady, Precise, MarksTell, Done, Committed, WellFormed, Staging, Rolling, Cleaning, After, Result, Change
  <2> QED
    BY <2>1, <2>2, <2>3, <2>4, <2>5, <2>6, <2>7, <2>8, <2>9, <2>10 DEF IInv
<1>5. CASE Fails
  <2>1. TypeOK'
    BY <1>5 DEF IInv, TypeOK, Phases, Change
  <2>2. WellFormed(before, changes)'
    BY <1>5 DEF IInv, WellFormed
  <2>3. Marks'
    BY <1>5 DEF IInv, TypeOK, Marks, Progress, Reserved, Kept, WellFormed, Committed, Staging, Change
  <2>4. Progress'
    BY <1>5 DEF IInv, TypeOK, Marks, Progress, Staging, Rolling, Cleaning, Phases
  <2>5. Reserved'
    BY <1>5 DEF IInv, TypeOK, Reserved
  <2>6. OutputsReady'
    BY <1>5 DEF IInv, TypeOK, Progress, OutputsReady, Staging
  <2>7. Swept'
    BY <1>5 DEF IInv, TypeOK, Marks, Progress, Swept, Staging, Rolling, Cleaning
  <2>8. Kept'
    BY <1>5 DEF IInv, TypeOK, Marks, Progress, Kept, WellFormed, Committed, Staging, Rolling, Cleaning, Change
  <2>9. Precise'
    BY <1>5 DEF IInv, TypeOK, Marks, Progress, OutputsReady, Precise, MarksTell, WellFormed, Committed, Staging, Rolling, Cleaning, Change
  <2>10. Done'
    BY <1>5 DEF IInv, TypeOK, Marks, Progress, OutputsReady, Precise, MarksTell, Done, Committed, WellFormed, Staging, Rolling, Cleaning, After, Result, Change
  <2> QED
    BY <2>1, <2>2, <2>3, <2>4, <2>5, <2>6, <2>7, <2>8, <2>9, <2>10 DEF IInv
<1> QED
  BY <1>2, <1>3, <1>4, <1>5

\* Restoring a backup in the rollback keeps it.
LEMMA RestorePreserves ==
  ASSUME IInv, Restore
  PROVE  IInv'
<1> DEFINE
  Skips == Backward \notin backedUp /\ UNCHANGED <<files, backup, hasBackup, backedUp, trouble>>
  Works == /\ Backward \in backedUp /\ files' = [files EXCEPT ![From(Backward)] = backup[Backward]]
           /\ backup' = Without(backup, Backward) /\ hasBackup' = hasBackup \ {Backward}
           /\ backedUp' = backedUp \ {Backward} /\ UNCHANGED trouble
  Fails == /\ Backward \in backedUp /\ trouble' = TRUE
           /\ UNCHANGED <<files, backup, hasBackup, backedUp>>
<1>1. phase = "restore" /\ Advance("dropOutput") /\ UNCHANGED <<before, changes, output, hasOutput, installed, outcome>>
  BY DEF Restore, envVars, diskVars, stageVars
<1>2. Skips \/ Works \/ Fails
  BY DEF Restore, Keeps
<1> USE TransactionAssumption, <1>1 DEF N, Items, Adds, Deletes, From, To, Backward, Advance, Without, Keeps
<1>3. CASE Skips
  <2>1. TypeOK'
    BY <1>3 DEF IInv, TypeOK, Phases, Change
  <2>2. WellFormed(before, changes)'
    BY <1>3 DEF IInv, WellFormed
  <2>3. Marks'
    BY <1>3 DEF IInv, TypeOK, Marks, Progress, Reserved, Kept, WellFormed, Committed, Staging, Change
  <2>4. Progress'
    BY <1>3 DEF IInv, TypeOK, Marks, Progress, Staging, Rolling, Cleaning, Phases
  <2>5. Reserved'
    BY <1>3 DEF IInv, TypeOK, Reserved
  <2>6. OutputsReady'
    BY <1>3 DEF IInv, TypeOK, Progress, OutputsReady, Staging
  <2>7. Swept'
    BY <1>3 DEF IInv, TypeOK, Marks, Progress, Swept, Staging, Rolling, Cleaning
  <2>8. Kept'
    BY <1>3 DEF IInv, TypeOK, Marks, Progress, Kept, WellFormed, Committed, Staging, Rolling, Cleaning, Change
  <2>9. Precise'
    BY <1>3 DEF IInv, TypeOK, Marks, Progress, OutputsReady, Precise, MarksTell, WellFormed, Committed, Staging, Rolling, Cleaning, Change
  <2>10. Done'
    BY <1>3 DEF IInv, TypeOK, Marks, Progress, OutputsReady, Precise, MarksTell, Done, Committed, WellFormed, Staging, Rolling, Cleaning, After, Result, Change
  <2> QED
    BY <2>1, <2>2, <2>3, <2>4, <2>5, <2>6, <2>7, <2>8, <2>9, <2>10 DEF IInv
<1>4. CASE Works
  <2>1. TypeOK'
    <3>1. (before \in [Names -> Contents \cup {Absent}] /\ N \in 1..MaxChanges /\ changes \in [Items -> Change])'
      BY <1>4 DEF IInv, TypeOK
    <3>2. (files \in [Names -> Contents \cup {Absent}])'
      BY <1>4 DEF IInv, TypeOK, Phases, Marks, Change
    <3>3. (backup \in [Items -> Contents \cup {Absent, Partial}])'
      BY <1>4 DEF IInv, TypeOK, Marks, Change
    <3>4. (output \in [Items -> Contents \cup {Absent, Partial}])'
      BY <1>4 DEF IInv, TypeOK, Change
    <3>5. (hasBackup \in SUBSET Items /\ hasOutput \in SUBSET Items)'
      BY <1>4 DEF IInv, TypeOK
    <3>6. (backedUp \in SUBSET Items /\ installed \in SUBSET Items)'
      BY <1>4 DEF IInv, TypeOK
    <3>7. (phase \in Phases /\ idx \in Items)'
      BY <1>4 DEF IInv, TypeOK, Phases
    <3>8. (outcome \in {"none", "staging", "commit", "ok"} /\ trouble \in BOOLEAN)'
      BY <1>4 DEF IInv, TypeOK
    <3> QED
      BY <3>1, <3>2, <3>3, <3>4, <3>5, <3>6, <3>7, <3>8 DEF TypeOK
  <2>2. WellFormed(before, changes)'
    BY <1>4 DEF IInv, WellFormed
  <2>3. Marks'
    BY <1>4 DEF IInv, TypeOK, Marks, Progress, Reserved, Kept, WellFormed, Committed, Staging, Change
  <2>4. Progress'
    <3>1. /\ idx \in 1..N /\ N \in Nat /\ backedUp \subseteq 1..N
          /\ backedUp' = backedUp \ {N + 1 - idx} /\ trouble' = trouble
      BY <1>4 DEF IInv, TypeOK
    <3>2. ~trouble => installed = {} /\ \A i \in backedUp : i <= N + 1 - idx
      BY DEF IInv, Progress
    <3>3. ~trouble => \A i \in backedUp' : i <= N - idx
      <4> HIDE DEF N
      <4> QED BY <3>1, <3>2
    <3>4. ~trouble /\ idx = N => backedUp' = {}
      <4> HIDE DEF N
      <4> QED BY <3>1, <3>3
    <3>5. /\ phase' \in {"restore", "dropOutput"} /\ outcome' = "commit"
          /\ phase' = "restore" => idx' = idx + 1
          /\ phase' = "dropOutput" => idx = N
      BY <3>1 DEF IInv, Progress, Rolling
    <3>6. N' = N /\ installed' = installed
      OBVIOUS
    <3> HIDE DEF N
    <3> QED
      BY <3>1, <3>2, <3>3, <3>4, <3>5, <3>6 DEF Progress, Staging, Rolling, Cleaning
  <2>5. Reserved'
    BY <1>4 DEF IInv, TypeOK, Reserved
  <2>6. OutputsReady'
    BY <1>4 DEF IInv, TypeOK, Progress, OutputsReady, Staging
  <2>7. Swept'
    BY <1>4 DEF IInv, TypeOK, Marks, Progress, Swept, Staging, Rolling, Cleaning
  <2>8. Kept'
    BY <1>4 DEF IInv, TypeOK, Marks, Progress, Kept, WellFormed, Committed, Staging, Rolling, Cleaning, Change
  <2>9. Precise'
    <3> DEFINE k == Backward
    <3>1. k \in Items /\ ~Adds(k) /\ From(k) \in Names /\ k \in backedUp
      BY <1>4 DEF IInv, TypeOK, Marks, Change
    <3>2. \A i \in backedUp' : From(i) # From(k)
      BY <1>4, <3>1 DEF IInv, TypeOK, Marks, WellFormed
    <3>3. /\ files' = [files EXCEPT ![From(k)] = before[From(k)]]
          /\ backedUp' = backedUp \ {k}
      BY <1>4, <3>1 DEF IInv, Marks
    <3> HIDE DEF k
    <3>4. ~trouble => MarksTell'
      BY <3>1, <3>2, <3>3 DEF IInv, TypeOK, Precise, MarksTell, Committed, Progress, Rolling
    <3> QED
      BY <1>4, <3>4 DEF Precise
  <2>10. Done'
    BY <1>4 DEF IInv, TypeOK, Marks, Progress, OutputsReady, Precise, MarksTell, Done, Committed, WellFormed, Staging, Rolling, Cleaning, After, Result, Change
  <2> QED
    BY <2>1, <2>2, <2>3, <2>4, <2>5, <2>6, <2>7, <2>8, <2>9, <2>10 DEF IInv
<1>5. CASE Fails
  <2>1. TypeOK'
    BY <1>5 DEF IInv, TypeOK, Phases, Change
  <2>2. WellFormed(before, changes)'
    BY <1>5 DEF IInv, WellFormed
  <2>3. Marks'
    BY <1>5 DEF IInv, TypeOK, Marks, Progress, Reserved, Kept, WellFormed, Committed, Staging, Change
  <2>4. Progress'
    BY <1>5 DEF IInv, TypeOK, Marks, Progress, Staging, Rolling, Cleaning, Phases
  <2>5. Reserved'
    BY <1>5 DEF IInv, TypeOK, Reserved
  <2>6. OutputsReady'
    BY <1>5 DEF IInv, TypeOK, Progress, OutputsReady, Staging
  <2>7. Swept'
    BY <1>5 DEF IInv, TypeOK, Marks, Progress, Swept, Staging, Rolling, Cleaning
  <2>8. Kept'
    BY <1>5 DEF IInv, TypeOK, Marks, Progress, Kept, WellFormed, Committed, Staging, Rolling, Cleaning, Change
  <2>9. Precise'
    BY <1>5 DEF IInv, TypeOK, Marks, Progress, OutputsReady, Precise, MarksTell, WellFormed, Committed, Staging, Rolling, Cleaning, Change
  <2>10. Done'
    BY <1>5 DEF IInv, TypeOK, Marks, Progress, OutputsReady, Precise, MarksTell, Done, Committed, WellFormed, Staging, Rolling, Cleaning, After, Result, Change
  <2> QED
    BY <2>1, <2>2, <2>3, <2>4, <2>5, <2>6, <2>7, <2>8, <2>9, <2>10 DEF IInv
<1> QED
  BY <1>2, <1>3, <1>4, <1>5

\* Cleaning up an output keeps it.
LEMMA DropOutputPreserves ==
  ASSUME IInv, DropOutput
  PROVE  IInv'
<1> USE TransactionAssumption DEF N, Items, Adds, Deletes, From, To, envVars, diskVars, stageVars, DropOutput, Without
<1>1. TypeOK'
  BY DEF IInv, TypeOK, Phases, Change
<1>2. WellFormed(before, changes)'
  BY DEF IInv, WellFormed
<1>3. Marks'
  BY DEF IInv, TypeOK, Marks, Progress, Reserved, Kept, WellFormed, Committed, Staging, Change
<1>4. Progress'
  BY DEF IInv, TypeOK, Marks, Progress, Staging, Rolling, Cleaning, Phases
<1>5. Reserved'
  BY DEF IInv, TypeOK, Reserved
<1>6. OutputsReady'
  BY DEF IInv, TypeOK, Progress, OutputsReady, Staging
<1>7. Swept'
  BY DEF IInv, TypeOK, Marks, Progress, Swept, Staging, Rolling, Cleaning
<1>8. Kept'
  BY DEF IInv, TypeOK, Marks, Progress, Kept, WellFormed, Committed, Staging, Rolling, Cleaning, Change
<1>9. Precise'
  BY DEF IInv, TypeOK, Marks, Progress, OutputsReady, Precise, MarksTell, WellFormed, Committed, Staging, Rolling, Cleaning, Change
<1>10. Done'
  BY DEF IInv, TypeOK, Marks, Progress, OutputsReady, Precise, MarksTell, Done, Committed, WellFormed, Staging, Rolling, Cleaning, After, Result, Change
<1> QED
  BY <1>1, <1>2, <1>3, <1>4, <1>5, <1>6, <1>7, <1>8, <1>9, <1>10 DEF IInv

\* Cleaning up an unused backup keeps it.
LEMMA DropBackupPreserves ==
  ASSUME IInv, DropBackup
  PROVE  IInv'
<1> USE TransactionAssumption DEF N, Items, Adds, Deletes, From, To, envVars, diskVars, stageVars, DropBackup, Disposable, Without, Enter
<1>1. TypeOK'
  <2>1. (before \in [Names -> Contents \cup {Absent}] /\ N \in 1..MaxChanges /\ changes \in [Items -> Change])'
    BY DEF IInv, TypeOK
  <2>2. (files \in [Names -> Contents \cup {Absent}])'
    BY DEF IInv, TypeOK, Phases, Change
  <2>3. (backup \in [Items -> Contents \cup {Absent, Partial}])'
    BY DEF IInv, TypeOK, Change
  <2>4. (output \in [Items -> Contents \cup {Absent, Partial}])'
    BY DEF IInv, TypeOK, Change
  <2>5. (hasBackup \in SUBSET Items /\ hasOutput \in SUBSET Items)'
    BY DEF IInv, TypeOK
  <2>6. (backedUp \in SUBSET Items /\ installed \in SUBSET Items)'
    BY DEF IInv, TypeOK
  <2>7. (phase \in Phases /\ idx \in Items)'
    BY DEF IInv, TypeOK, Phases
  <2>8. (outcome \in {"none", "staging", "commit", "ok"} /\ trouble \in BOOLEAN)'
    BY DEF IInv, TypeOK
  <2> QED
    BY <2>1, <2>2, <2>3, <2>4, <2>5, <2>6, <2>7, <2>8 DEF TypeOK
<1>2. WellFormed(before, changes)'
  BY DEF IInv, WellFormed
<1>3. Marks'
  BY DEF IInv, TypeOK, Marks, Progress, Reserved, Kept, WellFormed, Committed, Staging, Change
<1>4. Progress'
  BY DEF IInv, TypeOK, Marks, Progress, Staging, Rolling, Cleaning, Phases
<1>5. Reserved'
  BY DEF IInv, TypeOK, Reserved
<1>6. OutputsReady'
  BY DEF IInv, TypeOK, Progress, OutputsReady, Staging
<1>7. Swept'
  BY DEF IInv, TypeOK, Marks, Progress, Swept, Staging, Rolling, Cleaning
<1>8. Kept'
  BY DEF IInv, TypeOK, Marks, Progress, Kept, WellFormed, Committed, Staging, Rolling, Cleaning, Change
<1>9. Precise'
  BY DEF IInv, TypeOK, Marks, Progress, OutputsReady, Precise, MarksTell, WellFormed, Committed, Staging, Rolling, Cleaning, Change
<1>10. Done'
  BY DEF IInv, TypeOK, Marks, Progress, OutputsReady, Precise, MarksTell, Done, Committed, WellFormed, Staging, Rolling, Cleaning, After, Result, Change
<1> QED
  BY <1>1, <1>2, <1>3, <1>4, <1>5, <1>6, <1>7, <1>8, <1>9, <1>10 DEF IInv

-----------------------------------------------------------------------------
(* The theorems *)

\* stageChanges starts from the untouched workspace.
LEMMA InitEstablishes == Init => IInv
<1> SUFFICES ASSUME Init PROVE IInv
  OBVIOUS
<1>1. N \in 1..MaxChanges /\ changes \in [Items -> Change]
  <2>1. PICK n \in 1..MaxChanges : changes \in [1..n -> Change]
    BY DEF Init
  <2>2. changes \in Seq(Change)
    BY <2>1, TransactionAssumption
  <2>3. Len(changes) = n
    BY <2>1, <2>2, TransactionAssumption
  <2> QED
    BY <2>1, <2>3 DEF N, Items
<1>2. TypeOK
  <2>1. 1 \in Items
    BY <1>1, TransactionAssumption DEF Items
  <2>3. phase \in Phases /\ trouble \in BOOLEAN
    BY DEF Init, Phases
  <2>2. /\ backup \in [Items -> Contents \cup {Absent, Partial}]
        /\ output \in [Items -> Contents \cup {Absent, Partial}]
    BY DEF Init
  <2> QED
    BY <1>1, <2>1, <2>2, <2>3 DEF Init, TypeOK
<1>3. Marks /\ Progress /\ Reserved /\ OutputsReady /\ Swept
  BY <1>1 DEF Init, Marks, Progress, Reserved, OutputsReady, Swept, Staging, Rolling, Cleaning, Items
<1>4. Kept /\ Precise /\ Done
  BY DEF Init, Kept, Precise, MarksTell, Done, Committed
<1> QED
  BY <1>2, <1>3, <1>4 DEF IInv, Init

\* Every step of commitChanges keeps the invariant.
LEMMA NextPreserves == IInv /\ [Next]_vars => IInv'
<1> SUFFICES ASSUME IInv, [Next]_vars PROVE IInv'
  OBVIOUS
<1>1. CASE UNCHANGED vars
  <2> USE <1>1 DEF vars, envVars, diskVars, stageVars, N, Items, Adds, Deletes, From, To
  <2>1. TypeOK' /\ WellFormed(before, changes)'
    BY DEF IInv, TypeOK, WellFormed
  <2>2. Marks' /\ Progress' /\ Reserved'
    BY DEF IInv, Marks, Progress, Reserved
  <2>3. OutputsReady' /\ Swept'
    BY DEF IInv, OutputsReady, Swept
  <2>4. Kept' /\ Precise'
    BY DEF IInv, Kept, Precise, MarksTell, Committed
  <2>5. Done'
    BY DEF IInv, Done, After, Result, Committed
  <2> QED
    BY <2>1, <2>2, <2>3, <2>4, <2>5 DEF IInv
<1>2. CASE Next
  BY <1>2, ReserveBackupPreserves, VacateBackupPreserves, CreateOutputPreserves,
     WriteOutputPreserves, BackUpPreserves, InstallPreserves, RemoveBackupPreserves,
     UninstallPreserves, RestorePreserves, DropOutputPreserves, DropBackupPreserves DEF Next
<1> QED
  BY <1>1, <1>2

\* The invariant holds throughout commitChanges.
THEOREM Invariance == Spec => []IInv
  BY InitEstablishes, NextPreserves, PTL DEF Spec

\* Type correctness of the transaction's state, for any number of changes.
THEOREM TypeCorrect == Spec => []TypeOK
<1>1. IInv => TypeOK
  BY DEF IInv
<1> QED
  BY <1>1, Invariance, PTL

\* At every moment of commitChanges, whatever calls failed before, no original
\* content is lost: it is at its path or in a marked backup until every output
\* is installed, and then the edited workspace is complete.
THEOREM ContentIsNeverLost == Spec => []NoContentLost
<1>1. IInv => NoContentLost
  BY DEF IInv, NoContentLost, Marks, Kept, Done
<1> QED
  BY <1>1, Invariance, PTL

\* When commitChanges returns and no rollback or cleanup call failed, the
\* workspace is exactly as asked or exactly as before, and no temporary file
\* is left.
THEOREM CommitIsAllOrNothing == Spec => []AllOrNothing
<1>1. IInv => AllOrNothing
  <2> SUFFICES ASSUME IInv, phase = "done", ~trouble
               PROVE  /\ files = IF outcome = "ok" THEN After ELSE before
                      /\ \A i \in Items : backup[i] = Absent /\ output[i] = Absent
    BY DEF AllOrNothing
  <2>1. \A i \in Items : backup[i] = Absent /\ output[i] = Absent
    BY DEF IInv, Swept
  <2>2. CASE outcome = "ok"
    BY <2>1, <2>2 DEF IInv, Done, Committed
  <2>3. CASE outcome # "ok"
    <3>1. backedUp = {} /\ installed = {} /\ ~Committed
      BY <2>3 DEF IInv, Progress, Cleaning, Committed
    <3>2. files \in [Names -> Contents \cup {Absent}] /\ before \in [Names -> Contents \cup {Absent}]
      BY DEF IInv, TypeOK
    <3>3. \A p \in Names : files[p] = before[p]
      BY <3>1 DEF IInv, Precise, MarksTell
    <3> QED
      BY <2>1, <2>3, <3>2, <3>3
  <2> QED
    BY <2>2, <2>3
<1> QED
  BY <1>1, Invariance, PTL

\* While outputs are installed, a rename never replaces a file of the user.
THEOREM RenamesNeverClobber == Spec => NoClobber
<1>1. IInv /\ [Next]_vars =>
        [\A p \in Names : phase \in {"backup", "install"} /\ files'[p] # files[p] =>
            files[p] = Absent \/ files'[p] = Absent]_vars
  <2> SUFFICES ASSUME IInv, Next, NEW p \in Names, phase \in {"backup", "install"}, files'[p] # files[p]
               PROVE  files[p] = Absent \/ files'[p] = Absent
    OBVIOUS
  <2>1. BackUp \/ Install
    BY DEF Next, ReserveBackup, VacateBackup, CreateOutput, WriteOutput, RemoveBackup,
       Uninstall, Restore, DropOutput, DropBackup
  <2>2. CASE BackUp
    BY <2>2 DEF IInv, TypeOK, BackUp, MoveAway
  <2>3. CASE Install
    <3>0. files' = [files EXCEPT ![To(idx)] = output[idx]] /\ ~Deletes(idx)
      BY <2>3 DEF Install
    <3>1. p = To(idx) /\ ~Deletes(idx) /\ idx \in Items /\ idx \notin installed
      <4>1. p = To(idx)
        BY <3>0 DEF IInv, TypeOK
      <4>2. idx \in Items /\ idx \notin installed
        BY <2>3 DEF IInv, TypeOK, Install, Progress, Items, N
      <4> QED
        BY <3>0, <4>1, <4>2
    <3>2. \A i \in installed : To(i) # p
      BY <3>1 DEF IInv, TypeOK, Marks, WellFormed, Items, N, To, Deletes
    <3>3. MarksTell /\ \A i \in Items : ~Adds(i) => i \in backedUp
      BY <2>3 DEF IInv, Install, Precise, Progress, Committed
    <3>4. (\A i \in backedUp : From(i) # p) => before[p] = Absent
      BY <3>1, <3>3 DEF IInv, TypeOK, WellFormed, Items, N, To, From, Deletes, Adds
    <3> QED
      BY <3>2, <3>3, <3>4 DEF MarksTell
  <2> QED
    BY <2>1, <2>2, <2>3
<1> QED
  BY <1>1, Invariance, PTL DEF Spec, NoClobber

-----------------------------------------------------------------------------
(* commitChanges implements AtomicEdit.                                    *)

\* A path that no change gives up is as it was, unless an output is there.
Fresh ==
  ~Committed =>
    \A p \in Names :
      (\A i \in Items : Adds(i) \/ From(i) # p) /\ (\A i \in installed : To(i) # p)
        => files[p] = before[p]

\* The point of no return: once committed, always committed; the last install is
\* the step that gets there, before any failure; a failure is never forgotten.
LEMMA CommitPoint ==
  ASSUME IInv, Next
  PROVE  /\ Committed => Committed'
         /\ ~Committed /\ Committed' => outcome = "none" /\ phase' = "unback"
         /\ ~Committed /\ outcome # "none" => outcome' # "none"
         /\ phase # "done"
<1> USE DEF Committed, IInv, Progress, Staging, Rolling, Cleaning
<1>1. CASE ReserveBackup \/ VacateBackup
  BY <1>1 DEF ReserveBackup, VacateBackup, StagingFails, Enter
<1>2. CASE CreateOutput \/ WriteOutput
  BY <1>2 DEF CreateOutput, WriteOutput, StagingFails, Enter
<1>3. CASE BackUp
  BY <1>3 DEF BackUp, CommitFails, Enter, Advance
<1>4. CASE Install
  BY <1>4 DEF Install, CommitFails, Enter, Advance
<1>5. CASE RemoveBackup
  BY <1>5 DEF RemoveBackup, Advance
<1>6. CASE Uninstall \/ Restore
  BY <1>6 DEF Uninstall, Restore, Advance
<1>7. CASE DropOutput \/ DropBackup
  BY <1>7 DEF DropOutput, DropBackup, Enter
<1> QED
  BY <1>1, <1>2, <1>3, <1>4, <1>5, <1>6, <1>7 DEF Next

\* A destination that no change gives up was free.
LEMMA FreeBefore ==
  ASSUME IInv, NEW i \in Items, ~Deletes(i), \A j \in Items : Adds(j) \/ From(j) # To(i)
  PROVE  before[To(i)] = Absent
<1>1. DOMAIN changes = Items
  BY DEF IInv, TypeOK
<1> QED
  BY <1>1 DEF IInv, WellFormed, Adds, Deletes, From, To

\* Before the commit point, a path that no change touched keeps its content.
LEMMA FreshPreserved ==
  ASSUME IInv, Fresh, [Next]_vars
  PROVE  Fresh'
<1> SUFFICES ASSUME ~Committed', NEW p \in Names,
                    (\A i \in Items : Adds(i) \/ From(i) # p)', (\A i \in installed : To(i) # p)'
             PROVE  files'[p] = before'[p]
  BY DEF Fresh
<1>1. CASE UNCHANGED vars
  BY <1>1 DEF vars, envVars, diskVars, stageVars, Fresh, Committed, N, Items, Adds, From, To
<1>2. CASE Next
  <2>1. before' = before /\ changes' = changes
    BY <1>2 DEF Next, envVars, ReserveBackup, VacateBackup, CreateOutput, WriteOutput, BackUp, Install,
       RemoveBackup, Uninstall, Restore, DropOutput, DropBackup
  <2>2. ~Committed
    BY <1>2, CommitPoint
  <2>3. /\ \A i \in Items : Adds(i) \/ From(i) # p
        /\ \A i \in installed' : To(i) # p
    BY <2>1 DEF Items, N, Adds, From, To
  <2>4. /\ (\A i \in installed : To(i) # p) => files[p] = before[p]
        /\ files \in [Names -> Contents \cup {Absent}]
        /\ idx \in Items /\ N \in Nat /\ Items = 1..N
        /\ \A i \in installed : i \in Items /\ ~Deletes(i)
        /\ \A i \in backedUp : i \in Items /\ ~Adds(i)
    BY <2>2, <2>3, TransactionAssumption DEF Fresh, IInv, TypeOK, Marks, Items
  <2>5. CASE files' = files /\ installed' = installed
    BY <2>1, <2>3, <2>4, <2>5
  <2>6. CASE BackUp
    BY <2>1, <2>3, <2>4, <2>6 DEF BackUp, MoveAway
  <2>7. CASE Install
    BY <2>1, <2>3, <2>4, <2>7 DEF Install
  <2>8. CASE Uninstall
    <3> DEFINE i == Backward
    <3>1. CASE i \in installed /\ p = To(i) /\ files' # files
      <4>1. files'[p] = Absent
        BY <2>4, <2>8, <3>1 DEF Uninstall
      <4>2. before[To(i)] = Absent
        <5>1. i \in Items /\ ~Deletes(i)
          BY <2>4, <3>1
        <5>2. \A j \in Items : Adds(j) \/ From(j) # To(i)
          BY <2>3, <3>1
        <5> HIDE DEF i
        <5> QED
          BY <5>1, <5>2, FreeBefore
      <4> QED
        BY <2>1, <3>1, <4>1, <4>2
    <3>2. CASE i \in installed /\ p # To(i) /\ files' # files
      <4>1. files'[p] = files[p] /\ installed' = installed \ {i}
        BY <2>4, <2>8, <3>2 DEF Uninstall
      <4>2. \A j \in installed : To(j) # p
        BY <2>3, <3>2, <4>1
      <4> QED
        BY <2>1, <2>4, <4>1, <4>2
    <3>3. CASE files' = files
      <4>1. CASE installed' = installed
        BY <2>5, <3>3, <4>1
      <4>2. CASE installed' # installed
        <5>1. /\ i \in installed /\ installed' = installed \ {i}
              /\ files' = [files EXCEPT ![To(i)] = Absent]
          BY <2>8, <4>2 DEF Uninstall
        <5>2. CASE p = To(i)
          <6>1. i \in Items /\ ~Deletes(i) /\ \A j \in Items : Adds(j) \/ From(j) # To(i)
            BY <2>3, <2>4, <5>1, <5>2
          <6>2. before[To(i)] = Absent
            <7> HIDE DEF i
            <7> QED
              BY <6>1, FreeBefore
          <6>3. files'[p] = Absent
            BY <2>4, <5>1, <5>2
          <6> QED
            BY <2>1, <5>2, <6>2, <6>3
        <5>3. CASE p # To(i)
          BY <2>1, <2>3, <2>4, <3>3, <5>1, <5>3
        <5> QED
          BY <5>2, <5>3
      <4> QED
        BY <4>1, <4>2
    <3> QED
      BY <2>8, <3>1, <3>2, <3>3 DEF Uninstall
  <2>9. CASE Restore
    BY <2>1, <2>3, <2>4, <2>9 DEF Restore
  <2> QED
    BY <1>2, <2>5, <2>6, <2>7, <2>8, <2>9 DEF Next, stageVars, ReserveBackup, VacateBackup, CreateOutput,
       WriteOutput, RemoveBackup, DropOutput, DropBackup
<1> QED
  BY <1>1, <1>2

\* The workspace of the refinement mapping is the one before the edit, and from
\* the commit point on the one asked for.
LEMMA WorldIs ==
  IInv /\ Fresh => World = IF Committed THEN Result(before, changes) ELSE before
<1> SUFFICES ASSUME IInv, Fresh
             PROVE  World = IF Committed THEN Result(before, changes) ELSE before
  OBVIOUS
<1>1. CASE Committed
  BY <1>1 DEF World, IInv, Done, After
<1>2. CASE ~Committed /\ phase = "done" /\ ~trouble
  <2>1. backedUp = {} /\ installed = {}
    BY <1>2 DEF IInv, Progress, Cleaning, Committed
  <2>2. \A p \in Names : files[p] = before[p]
    BY <1>2, <2>1 DEF IInv, Precise, MarksTell
  <2> QED
    BY <1>2, <2>2 DEF World, IInv, TypeOK
<1>3. CASE ~Committed /\ ~(phase = "done" /\ ~trouble)
  <2>1. ASSUME NEW p \in Names PROVE Undone(p) = before[p]
    <3>1. CASE \E i \in Items : ~Adds(i) /\ From(i) = p
      <4>1. CASE \E i \in backedUp : From(i) = p
        <5>1. \A i \in backedUp : backup[i] = before[From(i)]
          BY DEF IInv, Marks
        <5> QED
          BY <3>1, <4>1, <5>1 DEF Undone
      <4>2. CASE ~\E i \in backedUp : From(i) = p
        BY <1>3, <3>1, <4>2 DEF Undone, IInv, Kept
      <4> QED
        BY <4>1, <4>2
    <3>2. CASE ~(\E i \in Items : ~Adds(i) /\ From(i) = p)
      <4>1. CASE \E i \in installed : To(i) = p
        <5>1. PICK i \in installed : To(i) = p
          BY <4>1
        <5>2. i \in Items /\ ~Deletes(i)
          BY DEF IInv, TypeOK, Marks
        <5>3. before[To(i)] = Absent
          BY <3>2, <5>1, <5>2, FreeBefore
        <5> QED
          BY <3>2, <4>1, <5>1, <5>3 DEF Undone
      <4>2. CASE ~\E i \in installed : To(i) = p
        BY <1>3, <3>2, <4>2 DEF Undone, Fresh
      <4> QED
        BY <4>1, <4>2
    <3> QED
      BY <3>1, <3>2
  <2> QED
    BY <1>3, <2>1 DEF World, IInv, TypeOK
<1> QED
  BY <1>1, <1>2, <1>3

\* commitChanges implements an atomic edit, for any number of changes and any
\* pattern of failing calls: its first state is one of AtomicEdit, and each of
\* its steps applies, refuses, tells or changes nothing there.
THEOREM CommitIsAtomic == Spec => EditIsAtomic
<1>0. (IInv /\ Fresh => World = IF Committed THEN Result(before, changes) ELSE before)'
  BY WorldIs, PTL
<1>1. Init => Fresh
  BY DEF Init, Fresh
<1>2. Init => Promise!Init
  <2> SUFFICES ASSUME Init PROVE Promise!Init
    OBVIOUS
  <2>1. IInv /\ Fresh
    BY <1>1, InitEstablishes
  <2>2. ~Committed /\ phase = "stage" /\ outcome = "none"
    BY DEF Init, Committed
  <2>3. World = before /\ State = "open" /\ Told = "nothing"
    BY <2>1, <2>2, WorldIs DEF State, Told
  <2>4. changes \in Seq(Change)
    BY DEF Init
  <2> QED
    BY <2>3, <2>4 DEF Init, Promise!Init, Promise!WellFormed, WellFormed, Promise!Change, Change, Promise!ChangeKinds, ChangeKinds
<1>3. IInv /\ Fresh /\ IInv' /\ Fresh' /\ [Next]_vars => [Promise!Next]_(Promise!avars)
  <2> SUFFICES ASSUME IInv, Fresh, IInv', Fresh', [Next]_vars
               PROVE  Promise!Next \/ UNCHANGED <<changes, World, State, Told>>
    BY DEF Promise!avars
  <2>1. CASE UNCHANGED vars
    BY <2>1 DEF vars, envVars, diskVars, stageVars, World, Undone, State, Told, Committed, N, Items, Adds, From, To
  <2>2. CASE Next
    <3>1. before' = before /\ changes' = changes
      BY <2>2 DEF Next, envVars, ReserveBackup, VacateBackup, CreateOutput, WriteOutput, BackUp, Install,
         RemoveBackup, Uninstall, Restore, DropOutput, DropBackup
    <3>2. /\ World = IF Committed THEN Result(before, changes) ELSE before
          /\ World' = IF Committed' THEN Result(before, changes) ELSE before
      <4>1. World = IF Committed THEN Result(before, changes) ELSE before
        BY WorldIs
      <4>2. (World = IF Committed THEN Result(before, changes) ELSE before)'
        BY <1>0
      <4> QED
        BY <3>1, <4>1, <4>2
    <3>3. Told = "nothing"
      BY <2>2, CommitPoint DEF Told
    <3>4. CASE phase' = "done"
      <4>1. State' = State /\ State # "open"
        <5>1. RemoveBackup \/ DropBackup
          BY <2>2, <3>4 DEF Next, ReserveBackup, VacateBackup, CreateOutput, WriteOutput, BackUp, Install,
             Uninstall, Restore, DropOutput, StagingFails, CommitFails, Enter, Advance
        <5>2. CASE RemoveBackup
          BY <5>2 DEF RemoveBackup, State, Committed
        <5>3. CASE DropBackup
          BY <3>4, <5>3 DEF DropBackup, State, Committed, IInv, Progress, Cleaning
        <5> QED
          BY <5>1, <5>2, <5>3
      <4>2. World' = World
        BY <3>1, <3>2, <4>1 DEF State
      <4>3. Told' \in {State, "unsure"}
        BY <3>4, <4>1 DEF Told
      <4> QED
        BY <3>1, <3>3, <4>1, <4>2, <4>3 DEF Promise!Next, Promise!Tell
    <3>5. CASE phase' # "done"
      <4>1. Told' = "nothing"
        BY <3>5 DEF Told
      <4>2. CASE Committed
        BY <2>2, <3>1, <3>2, <3>3, <4>1, <4>2, CommitPoint DEF State
      <4>3. CASE ~Committed /\ Committed'
        <5>1. State = "open" /\ State' = "applied"
          BY <2>2, <4>3, CommitPoint DEF State
        <5>2. World' = Result(World, changes)
          BY <3>2, <4>3
        <5> QED
          BY <3>1, <3>3, <4>1, <5>1, <5>2 DEF Promise!Next, Promise!Apply, Promise!Result, Result
      <4>4. CASE ~Committed /\ ~Committed' /\ outcome = "none"
        <5>1. World' = World /\ State = "open" /\ State' \in {"open", "refused"}
          BY <3>2, <4>4 DEF State
        <5> QED
          BY <3>1, <3>3, <4>1, <5>1 DEF Promise!Next, Promise!Refuse
      <4>5. CASE ~Committed /\ ~Committed' /\ outcome # "none"
        BY <2>2, <3>1, <3>2, <3>3, <4>1, <4>5, CommitPoint DEF State
      <4> QED
        BY <4>2, <4>3, <4>4, <4>5
    <3> QED
      BY <3>4, <3>5
  <2> QED
    BY <2>1, <2>2
<1>4. Spec => []Fresh
  <2>1. IInv /\ Fresh /\ [Next]_vars => Fresh'
    BY FreshPreserved
  <2> QED
    BY <1>1, <2>1, Invariance, PTL DEF Spec
<1> QED
  BY <1>2, <1>3, <1>4, Invariance, PTL DEF Spec, EditIsAtomic, Promise!Spec

-----------------------------------------------------------------------------
(* The editor of one file: the recorded edits stay within the baseline,    *)
(* never overlap, and are rendered forwards.                               *)

\* A set of offsets that is not empty has a least one.
LEMMA LeastIs ==
  ASSUME NEW S \in SUBSET Nat, S # {}
  PROVE  Least(S) \in S /\ \A y \in S : Least(S) <= y
<1> DEFINE Lower == {ss \in Nat \X Nat : ss[1] < ss[2]}
<1>1. IsWellFoundedOn(Lower, Nat)
  BY NatLessThanWellFounded, Zenon DEF OpToRel
<1>2. \E x \in S : \A y \in S : <<y, x>> \notin Lower
  BY <1>1, WFMin
<1>3. PICK x \in S : \A y \in S : <<y, x>> \notin Lower
  BY <1>2
<1>4. ASSUME NEW y \in S PROVE x <= y
  <2>1. x \in Nat /\ y \in Nat
    OBVIOUS
  <2>2. ~(y < x)
    <3>1. y < x => <<y, x>> \in Lower
      BY <2>1
    <3> QED
      BY <1>3, <3>1
  <2> QED
    BY <2>1, <2>2
<1> QED
  BY <1>4 DEF Least

-----------------------------------------------------------------------------
(* Loops.                                                                  *)

\* What holds at the start and survives every round holds to the end.
LEMMA EveryRound ==
  ASSUME NEW G, NEW l \in Nat, 0 \in G, \A k \in 1..l : k - 1 \in G => k \in G
  PROVE  \A k \in 0..l : k \in G
<1> DEFINE S == (0..l) \ G
<1>1. SUFFICES ASSUME S # {} PROVE FALSE
  OBVIOUS
<1>2. S \in SUBSET Nat
  OBVIOUS
<1> HIDE DEF S
<1>4. PICK k \in S : \A m \in S : k <= m
  BY <1>1, <1>2, LeastIs
<1>5. k \in 1..l /\ k - 1 \in 0..l /\ k - 1 \notin S
  BY <1>2, <1>4 DEF S
<1> QED
  BY <1>4, <1>5 DEF S

\* Every loop has a run.
LEMMA RunExists ==
  ASSUME NEW V, NEW v \in V, NEW l \in Nat, NEW step \in [1..l -> [V -> V]]
  PROVE  \E f \in [0..l -> V] : f[0] = v /\ \A k \in 1..l : f[k] = step[k][f[k - 1]]
<1> DEFINE Runs(m, f) == f[0] = v /\ \A k \in 1..m : f[k] = step[k][f[k - 1]]
           G == {m \in 0..l : \E f \in [0..m -> V] : Runs(m, f)}
<1>1. 0 \in G
  <2> DEFINE f == [k \in 0..0 |-> v]
  <2>1. f \in [0..0 -> V] /\ Runs(0, f) /\ 0 \in 0..l
    OBVIOUS
  <2> HIDE DEF f, Runs
  <2> QED
    BY <2>1
<1>2. ASSUME NEW m \in 1..l, m - 1 \in G PROVE m \in G
  <2>1. PICK f \in [0..m - 1 -> V] : Runs(m - 1, f)
    BY <1>2
  <2> DEFINE g == [k \in 0..m |-> IF k = m THEN step[m][f[m - 1]] ELSE f[k]]
  <2>2. f[m - 1] \in V /\ step[m] \in [V -> V]
    OBVIOUS
  <2>3. g \in [0..m -> V] /\ g[0] = v /\ g[m] = step[m][f[m - 1]] /\ \A k \in 0..m - 1 : g[k] = f[k]
    BY <2>1, <2>2
  <2> HIDE DEF g
  <2>4. ASSUME NEW k \in 1..m PROVE g[k] = step[k][g[k - 1]]
    <3>1. CASE k = m
      BY <2>3, <3>1
    <3>2. CASE k # m
      BY <2>1, <2>3, <3>2
    <3> QED
      BY <3>1, <3>2
  <2>5. Runs(m, g) /\ m \in 0..l
    BY <2>3, <2>4
  <2> HIDE DEF Runs
  <2> QED
    BY <2>3, <2>5
<1> HIDE DEF G, Runs
<1>3. \A m \in 0..l : m \in G
  BY <1>1, <1>2, EveryRound
<1>4. l \in G
  BY <1>3
<1> QED
  BY <1>4 DEF G, Runs

-----------------------------------------------------------------------------
(* Sorting by rank.                                                        *)

\* A strict total order.
Linear(S, R) ==
  /\ \A x \in S : <<x, x>> \notin R
  /\ \A x, y, z \in S : <<x, y>> \in R /\ <<y, z>> \in R => <<x, z>> \in R
  /\ \A x, y \in S : x = y \/ <<x, y>> \in R \/ <<y, x>> \in R

Under(S, R, x) == {y \in S : <<y, x>> \in R}
Listed(S, R) == [k \in 1..Cardinality(S) |-> CHOOSE x \in S : Cardinality(Under(S, R, x)) = k - 1]

\* Ranks follow the order.
LEMMA RanksGrow ==
  ASSUME NEW S, IsFiniteSet(S), NEW R, Linear(S, R), NEW x \in S
  PROVE  /\ Cardinality(Under(S, R, x)) \in 0..Cardinality(S) - 1
         /\ \A y \in S : <<x, y>> \in R => Cardinality(Under(S, R, x)) < Cardinality(Under(S, R, y))
<1>1. ASSUME NEW y \in S PROVE IsFiniteSet(Under(S, R, y)) /\ Cardinality(Under(S, R, y)) \in Nat
  <2>1. Under(S, R, y) \in SUBSET S
    BY DEF Under
  <2> QED
    BY <2>1, FS_Subset, FS_CardinalityType
<1>2. x \notin Under(S, R, x)
  BY DEF Under, Linear
<1>3. /\ IsFiniteSet(Under(S, R, x) \cup {x})
      /\ Cardinality(Under(S, R, x) \cup {x}) = Cardinality(Under(S, R, x)) + 1
  BY <1>1, <1>2, FS_AddElement
<1>4. Cardinality(Under(S, R, x)) \in 0..Cardinality(S) - 1
  <2>1. Under(S, R, x) \cup {x} \in SUBSET S
    BY DEF Under
  <2>2. Cardinality(Under(S, R, x) \cup {x}) <= Cardinality(S)
    BY <2>1, FS_Subset
  <2> QED
    BY <1>1, <1>3, <2>2, FS_CardinalityType
<1>5. ASSUME NEW y \in S, <<x, y>> \in R
      PROVE  Cardinality(Under(S, R, x)) < Cardinality(Under(S, R, y))
  <2>1. Under(S, R, x) \cup {x} \in SUBSET Under(S, R, y)
    BY <1>5 DEF Under, Linear
  <2>2. Cardinality(Under(S, R, x) \cup {x}) <= Cardinality(Under(S, R, y))
    BY <1>1, <2>1, FS_Subset
  <2> QED
    BY <1>1, <1>3, <2>2
<1> QED
  BY <1>4, <1>5

\* Two members of one rank are one.
LEMMA RanksDiffer ==
  ASSUME NEW S, IsFiniteSet(S), NEW R, Linear(S, R), NEW x \in S, NEW y \in S,
         Cardinality(Under(S, R, x)) = Cardinality(Under(S, R, y))
  PROVE  x = y
<1>1. /\ Cardinality(Under(S, R, x)) \in Int /\ Cardinality(Under(S, R, y)) \in Int
      /\ <<x, y>> \in R => Cardinality(Under(S, R, x)) < Cardinality(Under(S, R, y))
      /\ <<y, x>> \in R => Cardinality(Under(S, R, y)) < Cardinality(Under(S, R, x))
  BY RanksGrow
<1>2. x = y \/ <<x, y>> \in R \/ <<y, x>> \in R
  BY DEF Linear
<1> QED
  BY <1>1, <1>2

\* The members by rank are the members in order.
LEMMA ListedIs ==
  ASSUME NEW S, IsFiniteSet(S), NEW R, Linear(S, R)
  PROVE  /\ Cardinality(S) \in Nat /\ Listed(S, R) \in [1..Cardinality(S) -> S]
         /\ \A x \in S : \E k \in 1..Cardinality(S) : Listed(S, R)[k] = x
         /\ \A i, j \in 1..Cardinality(S) : i < j => <<Listed(S, R)[i], Listed(S, R)[j]>> \in R
         /\ \A k \in 1..Cardinality(S) : Cardinality(Under(S, R, Listed(S, R)[k])) = k - 1
<1> DEFINE n == Cardinality(S)
           rank == [x \in S |-> Cardinality(Under(S, R, x))]
           T == 0..n - 1
<1>1. n \in Nat /\ IsFiniteSet(T) /\ Cardinality(T) = n
  <2>1. n \in Nat
    BY FS_CardinalityType
  <2>2. IsFiniteSet(0..n - 1) /\ Cardinality(0..n - 1) = IF 0 > n - 1 THEN 0 ELSE n - 1 - 0 + 1
    <3> HIDE DEF n
    <3>1. 0 \in Int /\ n - 1 \in Int
      BY <2>1
    <3> QED
      BY ONLY <3>1, FS_Interval
  <2> QED
    BY <2>1, <2>2
<1>2. rank \in [S -> T] /\ \A x \in S : rank[x] = Cardinality(Under(S, R, x))
  BY RanksGrow
<1>3. \A x, y \in S : rank[x] = rank[y] => x = y
  BY <1>2, RanksDiffer
<1>4. \A k \in T : \E x \in S : rank[x] = k
  <2> HIDE DEF rank, T, n
  <2>1. rank \in Injection(S, T)
    BY <1>2, <1>3, Fun_IsInj
  <2>2. Cardinality(S) = Cardinality(T)
    BY <1>1 DEF n
  <2>3. rank \in Surjection(S, T)
    BY <1>1, <2>1, <2>2, FS_Injection
  <2> QED
    BY <2>3, Fun_SurjectionProperties
<1>5. ASSUME NEW k \in 1..n
      PROVE  Listed(S, R)[k] \in S /\ Cardinality(Under(S, R, Listed(S, R)[k])) = k - 1
  <2>1. k - 1 \in T
    BY <1>1
  <2>2. \E x \in S : Cardinality(Under(S, R, x)) = k - 1
    BY <1>2, <1>4, <2>1
  <2> QED
    BY <2>2 DEF Listed
<1>6. Listed(S, R) \in [1..n -> S]
  BY <1>5 DEF Listed
<1>7. ASSUME NEW x \in S PROVE \E k \in 1..n : Listed(S, R)[k] = x
  <2>1. PICK k : k = Cardinality(Under(S, R, x)) + 1
    OBVIOUS
  <2>2. Cardinality(Under(S, R, x)) \in 0..n - 1
    BY RanksGrow
  <2>3. k \in 1..n /\ k - 1 = Cardinality(Under(S, R, x))
    BY <1>1, <2>1, <2>2
  <2>4. Listed(S, R)[k] = x
    BY <1>5, <2>3, RanksDiffer
  <2> QED
    BY <2>3, <2>4
<1>8. ASSUME NEW i \in 1..n, NEW j \in 1..n, i < j PROVE <<Listed(S, R)[i], Listed(S, R)[j]>> \in R
  <2>1. PICK x \in S, y \in S : x = Listed(S, R)[i] /\ y = Listed(S, R)[j]
    BY <1>5
  <2>2. Cardinality(Under(S, R, x)) = i - 1 /\ Cardinality(Under(S, R, y)) = j - 1 /\ i - 1 < j - 1 /\ i - 1 # j - 1
    BY <1>5, <1>8, <2>1
  <2>3. x # y
    BY <2>2
  <2>4. ~(<<y, x>> \in R)
    <3>1. SUFFICES ASSUME <<y, x>> \in R PROVE FALSE
      OBVIOUS
    <3>2. Cardinality(Under(S, R, y)) < Cardinality(Under(S, R, x))
      BY <3>1, RanksGrow
    <3> QED
      BY <2>2, <3>2
  <2> QED
    BY <2>1, <2>3, <2>4 DEF Linear
<1> QED
  BY <1>1, <1>5, <1>6, <1>7, <1>8

\* Whatever lists the members in order is that list.
LEMMA ListedOnce ==
  ASSUME NEW S, NEW R, NEW m \in Nat, NEW q \in [1..m -> S],
         \A x \in S : \E k \in 1..m : q[k] = x,
         \A i, j \in 1..m : i < j => <<q[i], q[j]>> \in R,
         Linear(S, R)
  PROVE  IsFiniteSet(S) /\ Cardinality(S) = m /\ Listed(S, R) = q
<1>1. \A i, j \in 1..m : q[i] = q[j] => i = j
  <2> SUFFICES ASSUME NEW i \in 1..m, NEW j \in 1..m, q[i] = q[j], i # j PROVE FALSE
    OBVIOUS
  <2>1. i < j \/ j < i
    OBVIOUS
  <2>2. <<q[i], q[i]>> \in R
    BY <2>1
  <2> QED
    BY <2>2 DEF Linear
<1>2. ASSUME NEW k \in 0..m, NEW U, U = {q[i] : i \in 1..k}
      PROVE  IsFiniteSet(U) /\ Cardinality(U) = k
  <2> DEFINE D == 1..k
             g == [i \in D |-> q[i]]
  <2>1. IsFiniteSet(D) /\ Cardinality(D) = k
    <3>1. k \in Int /\ 1 \in Int
      OBVIOUS
    <3>2. IsFiniteSet(1..k) /\ Cardinality(1..k) = IF 1 > k THEN 0 ELSE k - 1 + 1
      BY ONLY <3>1, FS_Interval
    <3> QED
      BY <3>2
  <2>2. D \subseteq 1..m
    OBVIOUS
  <2>3. g \in [D -> U] /\ (\A i, j \in D : g[i] = g[j] => i = j) /\ (\A u \in U : \E i \in D : g[i] = u)
    BY <1>1, <1>2, <2>2
  <2> HIDE DEF g, D
  <2>4. g \in Bijection(D, U)
    BY <2>3, Fun_IsBij
  <2>5. ExistsBijection(D, U)
    BY <2>4, Fun_ExistsBij
  <2> QED
    BY <2>1, <2>5, FS_Bijection
<1>3. IsFiniteSet(S) /\ Cardinality(S) = m
  <2>1. S = {q[i] : i \in 1..m} /\ m \in 0..m
    OBVIOUS
  <2> QED
    BY <1>2, <2>1
<1>4. ASSUME NEW k \in 1..m PROVE Cardinality(Under(S, R, q[k])) = k - 1
  <2>1. Under(S, R, q[k]) = {q[i] : i \in 1..k - 1}
    <3>1. ASSUME NEW i \in 1..m PROVE <<q[i], q[k]>> \in R <=> i < k
      <4>1. CASE i < k
        BY <4>1
      <4>2. CASE i = k
        BY <4>2 DEF Linear
      <4>3. CASE k < i
        <5>1. <<q[k], q[i]>> \in R /\ q[i] \in S /\ q[k] \in S
          BY <4>3
        <5>2. ~(<<q[i], q[k]>> \in R)
          BY <5>1 DEF Linear
        <5> QED
          BY <4>3, <5>2
      <4> QED
        BY <4>1, <4>2, <4>3
    <3>2. ASSUME NEW x \in S, <<x, q[k]>> \in R PROVE x \in {q[i] : i \in 1..k - 1}
      <4>1. PICK i \in 1..m : q[i] = x
        OBVIOUS
      <4>2. i \in 1..k - 1
        BY <3>1, <3>2, <4>1
      <4> QED
        BY <4>1, <4>2
    <3>3. ASSUME NEW i \in 1..k - 1 PROVE q[i] \in S /\ <<q[i], q[k]>> \in R
      BY <3>1
    <3> QED
      BY <3>2, <3>3 DEF Under
  <2>2. k - 1 \in 0..m
    OBVIOUS
  <2> QED
    BY <1>2, <2>1, <2>2
<1>5. ASSUME NEW k \in 1..m PROVE Listed(S, R)[k] = q[k]
  <2>1. Listed(S, R)[k] = CHOOSE x \in S : Cardinality(Under(S, R, x)) = k - 1
    BY <1>3 DEF Listed
  <2>2. Listed(S, R)[k] \in S /\ Cardinality(Under(S, R, Listed(S, R)[k])) = k - 1
    <3>1. q[k] \in S
      OBVIOUS
    <3> QED
      BY <1>4, <2>1, <3>1
  <2>3. q[k] \in S /\ Cardinality(Under(S, R, q[k])) = k - 1
    BY <1>4
  <2> QED
    BY <1>3, <2>2, <2>3, RanksDiffer
<1>6. Listed(S, R) = [k \in 1..m |-> Listed(S, R)[k]]
  BY <1>3 DEF Listed
<1> QED
  BY <1>3, <1>5, <1>6

-----------------------------------------------------------------------------
(* What is recorded.                                                       *)

\* A line ends after its start and within the text.
LEMMA LineEnds ==
  ASSUME NEW t \in Text, NEW s \in LineStarts(t)
  PROVE  s \in 0..Len(t) /\ FullEnd(t, s) \in s + 1..Len(t)
<1> DEFINE S == {k \in s + 1..Len(t) : t[k] = Newline \/ k = Len(t)}
<1>1. Len(t) \in Nat /\ s \in 0..Len(t) - 1
  BY DEF LineStarts, Text
<1>2. Len(t) \in S /\ S \in SUBSET Nat
  BY <1>1
<1>3. Least(S) \in S
  BY <1>2, LeastIs
<1> QED
  BY <1>1, <1>3 DEF FullEnd

\* A row that resolves is a line of the baseline.
LEMMA RowsAreLines ==
  ASSUME NEW ref
  PROVE  resolveRow(ref) \subseteq LineStarts(baseline)
  BY DEF resolveRow, baselineRow, OnlyOne, Hinted, Matching

\* The spans of a target lie in the baseline.
LEMMA SpansInRange ==
  ASSUME EditorTypeOK, NEW operation \in {"type", "add"}, NEW target \in Targets(operation),
         NEW span \in resolveTarget(target)
  PROVE  span.start \in 0..Len(baseline) /\ span.end \in span.start..Len(baseline)
<1> USE EditorAssumption
<1>0. baseline \in Text /\ Len(baseline) \in Nat
  BY DEF EditorTypeOK, Text
<1>1. ASSUME NEW s \in LineStarts(baseline), NEW e \in LineStarts(baseline), s <= e,
             span \in LineSpan(s, e)
      PROVE  span.start \in 0..Len(baseline) /\ span.end \in span.start..Len(baseline)
  <2>1. s \in 0..Len(baseline) /\ FullEnd(baseline, e) \in e + 1..Len(baseline)
    BY <1>0, LineEnds
  <2>2. e \in Int
    BY <1>0 DEF LineStarts
  <2> QED
    BY <1>0, <1>1, <2>1, <2>2 DEF LineSpan, Span
<1>2. ASSUME NEW literal \in Literals, NEW from \in Nat, NEW n, span \in Matches(literal, FirstOf(offsets(literal, from), n))
      PROVE  span.start \in 0..Len(baseline) /\ span.end \in span.start..Len(baseline)
  <2>0. Len(literal) \in Nat
    BY DEF Text
  <2>1. PICK i \in FirstOf(offsets(literal, from), n) : span = Span(i, i + Len(literal), FALSE)
    BY <1>2 DEF Matches
  <2>2. i \in offsets(literal, from)
    BY <2>1 DEF FirstOf
  <2>3. i \in 0..Len(baseline) /\ Occurs(literal, i)
    BY <2>2 DEF offsets
  <2> QED
    BY <1>0, <2>0, <2>1, <2>3 DEF Span, Occurs
<1>3. CASE target.kind = "line"
  <2>1. PICK s \in resolveRow(target.from) : span \in LineSpan(s, s)
    BY <1>3 DEF resolveTarget
  <2>2. s \in LineStarts(baseline)
    BY <2>1, RowsAreLines
  <2>3. s <= s
    BY <1>0, <2>2 DEF LineStarts
  <2> QED
    BY <1>1, <2>1, <2>2, <2>3
<1>4. CASE target.kind = "range"
  <2>1. PICK w \in resolveRow(target.from) \X resolveRow(target.to) : w[1] <= w[2] /\ span \in LineSpan(w[1], w[2])
    BY <1>4 DEF resolveTarget
  <2>2. w[1] \in LineStarts(baseline) /\ w[2] \in LineStarts(baseline)
    BY <2>1, RowsAreLines
  <2> QED
    BY <1>1, <2>1, <2>2
<1>5. CASE target.kind \in {"literal", "text"}
  <2>1. target.literal \in Literals
    BY <1>5 DEF Targets
  <2>2. ASSUME resolveRow(target.from) # {}
        PROVE  Least(resolveRow(target.from)) \in Nat
    <3>1. resolveRow(target.from) \in SUBSET Nat
      BY <1>0, RowsAreLines DEF LineStarts
    <3> QED
      BY <2>2, <3>1, LeastIs
  <2>3. \E from \in Nat : span \in Matches(target.literal, FirstOf(offsets(target.literal, from), target.count))
    BY <1>5, <2>2 DEF resolveTarget
  <2> QED
    BY <1>2, <2>1, <2>3
<1>6. CASE target.kind = "EOF"
  BY <1>0, <1>6 DEF resolveTarget, Span
<1>7. target.kind \in {"line", "range", "literal", "text", "EOF"}
  BY DEF Targets
<1> QED
  BY <1>3, <1>4, <1>5, <1>6, <1>7

\* The lines of a text are finitely many and numbered in their order.
LEMMA RowsGrow ==
  ASSUME NEW t \in Text
  PROVE  /\ IsFiniteSet(LineStarts(t)) /\ LineStarts(t) \in SUBSET Nat
         /\ \A s \in LineStarts(t) : RowOf(t, s) \in 1..Cardinality(LineStarts(t))
         /\ \A s, u \in LineStarts(t) : s < u => RowOf(t, s) < RowOf(t, u)
         /\ \A s, u \in LineStarts(t) : RowOf(t, s) = RowOf(t, u) => s = u
<1> DEFINE L == LineStarts(t)
           U(s) == {u \in L : u <= s}
<1>1. Len(t) \in Nat /\ L \in SUBSET Nat /\ \A s \in L : s <= Len(t)
  BY DEF Text, LineStarts
<1> HIDE DEF L
<1>2. IsFiniteSet(L)
  BY <1>1, FS_BoundedSetOfNaturals
<1>3. ASSUME NEW s \in L PROVE IsFiniteSet(U(s)) /\ Cardinality(U(s)) \in 1..Cardinality(L)
  <2>1. U(s) \in SUBSET L /\ s \in U(s)
    BY <1>1
  <2> HIDE DEF U
  <2>2. IsFiniteSet(U(s)) /\ Cardinality(U(s)) <= Cardinality(L)
    BY <1>2, <2>1, FS_Subset
  <2>3. Cardinality(U(s)) # 0
    BY <2>1, <2>2, FS_EmptySet
  <2> QED
    BY <1>2, <2>2, <2>3, FS_CardinalityType
<1>4. ASSUME NEW s \in L, NEW u \in L, s < u PROVE Cardinality(U(s)) < Cardinality(U(u))
  <2>1. u \notin U(s) /\ U(s) \cup {u} \in SUBSET U(u)
    <3>1. s \in Nat /\ u \in Nat /\ \A x \in L : x \in Nat
      BY <1>1
    <3>2. ASSUME NEW x \in U(s) PROVE x \in U(u)
      <4>1. x \in L /\ x <= s /\ x \in Nat
        BY <3>1, <3>2
      <4> QED
        BY <1>4, <3>1, <4>1
    <3>3. u \notin U(s)
      BY <1>4, <3>1
    <3>4. u \in U(u)
      BY <3>1
    <3> HIDE DEF U
    <3> QED
      BY <3>2, <3>3, <3>4
  <2> HIDE DEF U
  <2>2. Cardinality(U(s) \cup {u}) = Cardinality(U(s)) + 1
    BY <1>3, <2>1, FS_AddElement
  <2>3. Cardinality(U(s) \cup {u}) <= Cardinality(U(u))
    BY <1>3, <2>1, FS_Subset
  <2> QED
    BY <1>3, <2>2, <2>3
<1>5. \A s \in L : RowOf(t, s) = Cardinality(U(s))
  BY DEF RowOf, L
<1> HIDE DEF U
<1>6. ASSUME NEW s \in L, NEW u \in L, RowOf(t, s) = RowOf(t, u) PROVE s = u
  <2>1. s \in Nat /\ u \in Nat /\ Cardinality(U(s)) \in Nat /\ Cardinality(U(s)) = Cardinality(U(u))
    BY <1>1, <1>3, <1>5, <1>6
  <2>2. ~(s < u) /\ ~(u < s)
    BY <1>4, <2>1
  <2> QED
    BY <2>1, <2>2
<1> QED
  BY <1>1, <1>2, <1>3, <1>4, <1>5, <1>6 DEF L

\* A row resolves to one line at most.
LEMMA RowsResolveOnce ==
  ASSUME baseline \in Text, NEW ref, NEW s \in resolveRow(ref), NEW u \in resolveRow(ref)
  PROVE  s = u
<1>1. ASSUME NEW S, S \subseteq LineStarts(baseline), s \in OnlyOne(S), u \in OnlyOne(S) PROVE s = u
  <2>1. IsFiniteSet(S)
    BY <1>1, RowsGrow, FS_Subset
  <2>2. Cardinality(S) = 1 /\ s \in S /\ u \in S
    BY <1>1 DEF OnlyOne
  <2> QED
    BY <2>1, <2>2, FS_Singleton
<1>2. ASSUME s \in Hinted(baseline, ref), u \in Hinted(baseline, ref) PROVE s = u
  <2>1. s \in LineStarts(baseline) /\ u \in LineStarts(baseline) /\ RowOf(baseline, s) = RowOf(baseline, u)
    BY <1>2 DEF Hinted, Matching
  <2> QED
    BY <2>1, RowsGrow
<1>3. Matching(baseline, ref) \subseteq LineStarts(baseline)
  BY DEF Matching
<1>4. ASSUME s \in baselineRow(ref), u \in baselineRow(ref) PROVE s = u
  BY <1>1, <1>2, <1>3, <1>4 DEF baselineRow
<1>5. CASE baselineRow(ref) # {} \/ edits = {}
  BY <1>4, <1>5 DEF resolveRow
<1>6. CASE ~(baselineRow(ref) # {} \/ edits = {})
  <2>1. PICK S : /\ S \subseteq Matching(baseline, ref) /\ resolveRow(ref) = OnlyOne(S)
    <3> DEFINE S == {v \in Matching(baseline, ref) :
                       /\ unbroken(v, FullEnd(baseline, v))
                       /\ \E q \in Hinted(content(edits), ref) : SameSpan(v, q, content(edits))}
    <3>1. S \subseteq Matching(baseline, ref) /\ resolveRow(ref) = OnlyOne(S)
      BY <1>6 DEF resolveRow
    <3> QED
      BY <3>1
  <2> QED
    BY <1>1, <1>3, <2>1
<1> QED
  BY <1>5, <1>6

\* The spans of a target are finitely many; a span of lines is the only one and
\* begins a line; only the end of the file is a span without text.
LEMMA SpansRegular ==
  ASSUME EditorTypeOK, NEW operation \in {"type", "add"}, NEW target \in Targets(operation)
  PROVE  /\ IsFiniteSet(resolveTarget(target))
         /\ \A s \in resolveTarget(target) :
              /\ s.start < s.end \/ operation = "add"
              /\ s.linewise => s.start \in LineStarts(baseline) /\ resolveTarget(target) = {s}
<1> USE EditorAssumption
<1>0. baseline \in Text /\ Len(baseline) \in Nat
  BY DEF EditorTypeOK, Text
<1>1. ASSUME NEW s \in LineStarts(baseline), NEW e \in LineStarts(baseline), s <= e
      PROVE  /\ Span(s, FullEnd(baseline, e), TRUE).start \in LineStarts(baseline)
             /\ Span(s, FullEnd(baseline, e), TRUE).start < Span(s, FullEnd(baseline, e), TRUE).end
  <2>1. s \in Nat /\ e \in Nat /\ FullEnd(baseline, e) \in e + 1..Len(baseline)
    BY <1>0, LineEnds, RowsGrow
  <2> QED
    BY <1>0, <1>1, <2>1 DEF Span
<1>2. ASSUME NEW x, resolveTarget(target) \subseteq {x}
      PROVE  IsFiniteSet(resolveTarget(target)) /\ \A s \in resolveTarget(target) : resolveTarget(target) = {s}
  <2>1. resolveTarget(target) = {} \/ resolveTarget(target) = {x}
    BY <1>2
  <2>2. IsFiniteSet({}) /\ IsFiniteSet({x})
    BY FS_Singleton, FS_EmptySet
  <2> QED
    BY <2>1, <2>2
<1>3. CASE target.kind = "line"
  <2>1. ASSUME NEW x \in resolveTarget(target)
        PROVE  \E s \in resolveRow(target.from) : s \in LineStarts(baseline) /\ x = Span(s, FullEnd(baseline, s), TRUE)
    BY <1>3, <2>1, RowsAreLines DEF resolveTarget, LineSpan
  <2>2. ASSUME NEW x \in resolveTarget(target), NEW y \in resolveTarget(target) PROVE x = y
    BY <1>0, <2>1, <2>2, RowsResolveOnce
  <2>3. ASSUME NEW x \in resolveTarget(target) PROVE x.start \in LineStarts(baseline) /\ x.start < x.end
    <3>1. PICK s \in LineStarts(baseline) : x = Span(s, FullEnd(baseline, s), TRUE)
      BY <2>1, <2>3
    <3>2. s <= s
      BY <1>0, RowsGrow
    <3> QED
      BY <1>1, <3>1, <3>2
  <2>4. \E x : resolveTarget(target) \subseteq {x}
    BY <2>2
  <2> QED
    BY <1>2, <2>3, <2>4
<1>4. CASE target.kind = "range"
  <2>1. ASSUME NEW x \in resolveTarget(target)
        PROVE  \E s \in resolveRow(target.from), e \in resolveRow(target.to) :
                 /\ s \in LineStarts(baseline) /\ e \in LineStarts(baseline) /\ s <= e
                 /\ x = Span(s, FullEnd(baseline, e), TRUE)
    <3>1. PICK w \in resolveRow(target.from) \X resolveRow(target.to) : w[1] <= w[2] /\ x \in LineSpan(w[1], w[2])
      BY <1>4, <2>1 DEF resolveTarget
    <3> QED
      BY <3>1, RowsAreLines DEF LineSpan
  <2>2. ASSUME NEW x \in resolveTarget(target), NEW y \in resolveTarget(target) PROVE x = y
    <3>1. PICK s \in resolveRow(target.from), e \in resolveRow(target.to) : x = Span(s, FullEnd(baseline, e), TRUE)
      BY <2>1, <2>2
    <3>2. PICK u \in resolveRow(target.from), v \in resolveRow(target.to) : y = Span(u, FullEnd(baseline, v), TRUE)
      BY <2>1, <2>2
    <3>3. s = u /\ e = v
      BY <1>0, RowsResolveOnce
    <3> QED
      BY <3>1, <3>2, <3>3
  <2>3. ASSUME NEW x \in resolveTarget(target) PROVE x.start \in LineStarts(baseline) /\ x.start < x.end
    BY <1>1, <2>1, <2>3
  <2>4. \E x : resolveTarget(target) \subseteq {x}
    BY <2>2
  <2> QED
    BY <1>2, <2>3, <2>4
<1>5. CASE target.kind \in {"literal", "text"}
  <2>1. target.literal \in Literals /\ Len(target.literal) \in Nat \ {0}
    <3>1. target.literal \in Literals
      BY <1>5 DEF Targets
    <3> QED
      BY <3>1 DEF Text
  <2>2. ASSUME resolveRow(target.from) # {}
        PROVE  Least(resolveRow(target.from)) \in Nat
    <3>1. resolveRow(target.from) \in SUBSET Nat
      BY <1>0, RowsAreLines DEF LineStarts
    <3> QED
      BY <2>2, <3>1, LeastIs
  <2>3. \E from \in Nat : resolveTarget(target) \subseteq Matches(target.literal, offsets(target.literal, from))
    BY <1>5, <2>2 DEF resolveTarget, Matches, FirstOf
  <2>4. PICK from \in Nat : resolveTarget(target) \subseteq Matches(target.literal, offsets(target.literal, from))
    BY <2>3
  <2> DEFINE places == from..Len(baseline)
             found == [i \in places |-> Span(i, i + Len(target.literal), FALSE)]
             all == {found[i] : i \in places}
  <2>5. resolveTarget(target) \subseteq all
    BY <2>4 DEF Matches, offsets
  <2>6. IsFiniteSet(places)
    BY <1>0, FS_Interval
  <2>7. IsFiniteSet(all)
    <3>1. found \in [places -> all] /\ \A x \in all : \E i \in places : found[i] = x
      OBVIOUS
    <3> HIDE DEF found, places, all
    <3>2. found \in Surjection(places, all)
      BY <3>1, Fun_IsSurj
    <3> QED
      BY <2>6, <3>2, FS_Surjection
  <2>8. IsFiniteSet(resolveTarget(target))
    <3> HIDE DEF all
    <3> QED
      BY <2>5, <2>7, FS_Subset
  <2>9. ASSUME NEW s \in resolveTarget(target) PROVE s.start < s.end /\ s.linewise = FALSE
    <3>1. PICK i \in places : s = Span(i, i + Len(target.literal), FALSE)
      BY <2>5, <2>9
    <3> QED
      BY <2>1, <3>1 DEF Span
  <2> QED
    BY <2>8, <2>9
<1>6. CASE target.kind = "EOF"
  <2>1. operation = "add"
    BY <1>6 DEF Targets
  <2> QED
    <3>1. resolveTarget(target) = {Span(Len(baseline), Len(baseline), FALSE)}
      BY <1>6 DEF resolveTarget
    <3>2. IsFiniteSet(resolveTarget(target))
      <4>1. PICK x : x = Span(Len(baseline), Len(baseline), FALSE)
        OBVIOUS
      <4>2. resolveTarget(target) = {x}
        BY <3>1, <4>1
      <4>3. IsFiniteSet({x})
        BY FS_Singleton
      <4> QED
        BY <4>2, <4>3
    <3> QED
      BY <2>1, <3>1, <3>2 DEF Span
<1>7. target.kind \in {"line", "range", "literal", "text", "EOF"}
  BY DEF Targets
<1> QED
  BY <1>3, <1>4, <1>5, <1>6, <1>7

\* What a command records is an edit of the baseline by that command.
LEMMA EditsInRange ==
  ASSUME EditorTypeOK, count < MaxCommands, NEW operation \in {"type", "add"}, NEW value \in Values,
         NEW target \in Targets(operation), NEW span \in resolveTarget(target)
  PROVE  LET e == edit(operation, target, value, span) IN
         /\ e.start \in 0..Len(baseline) /\ e.end \in e.start..Len(baseline)
         /\ e.text \in Text /\ e.command = count + 1
<1>1. span.start \in 0..Len(baseline) /\ span.end \in span.start..Len(baseline)
  BY SpansInRange
<1>2. value \in Text /\ Newline \in Characters
  BY EditorAssumption
<1>3. replacement(operation, value, span) \in Text
  BY <1>2 DEF replacement, Text
<1> QED
  BY <1>1, <1>3 DEF edit

(* Beside the two: the edits are finitely many; those of a command that    *)
(* insert at one place are one; a replaced row or range is all that its    *)
(* command records, and begins a line.                                     *)
EditsRegular ==
  /\ IsFiniteSet(edits)
  /\ \A e, f \in edits : e.command = f.command /\ e.start = f.start /\ Insertion(e) /\ Insertion(f) => e = f
  /\ \A e \in edits : e.rows => e.start \in LineStarts(baseline) /\ e.start < e.end
  /\ \A e, f \in edits : e.rows /\ e.command = f.command => e = f

EditorInv == EditorTypeOK /\ SpansDisjoint /\ EditsRegular

\* Overlapping is symmetric.
LEMMA ConflictSymmetric == \A e, f : Conflict(e, f) <=> Conflict(f, e)
  BY DEF Conflict, Insertion

\* A command keeps the edits in range and apart, whether it is recorded or not.
LEMMA CommandPreserves ==
  ASSUME EditorInv, NEW operation \in {"type", "add"}, NEW value \in Values,
         NEW target \in Targets(operation), applyMutation(operation, target, value)
  PROVE  EditorInv'
<1> DEFINE new == {e \in {edit(operation, target, value, s) : s \in resolveTarget(target)} : ~Idle(e)}
<1>1. /\ baseline' = baseline /\ count' = count + 1 /\ count < MaxCommands
      /\ status' \in {"open", "failed"}
      /\ edits' = edits \/ (edits' = edits \cup new /\ ~Clashes(new))
  BY DEF applyMutation
<1>2. ASSUME NEW e \in new
      PROVE  /\ e.start \in 0..Len(baseline) /\ e.end \in e.start..Len(baseline)
             /\ e.text \in Text /\ e.command = count + 1
  <2>1. PICK s \in resolveTarget(target) : e = edit(operation, target, value, s)
    OBVIOUS
  <2> QED
    BY <1>1, <2>1, EditsInRange DEF EditorInv
<1>3. EditorTypeOK'
  <2>1. count \in Nat /\ count' \in 0..MaxCommands
    BY <1>1, EditorAssumption DEF EditorInv, EditorTypeOK
  <2>2. ASSUME NEW e \in edits'
        PROVE  /\ e.start \in 0..Len(baseline) /\ e.end \in e.start..Len(baseline)
               /\ e.text \in Text /\ e.command \in 1..count'
    <3>1. CASE e \in edits
      BY <1>1, <2>1, <3>1 DEF EditorInv, EditorTypeOK
    <3>2. CASE e \in new
      BY <1>1, <1>2, <2>1, <3>2
    <3> HIDE DEF new
    <3> QED
      BY <1>1, <3>1, <3>2
  <2> QED
    BY <1>1, <2>1, <2>2 DEF EditorInv, EditorTypeOK
<1>4. SpansDisjoint'
  <2> HIDE DEF new
  <2> SUFFICES ASSUME NEW e \in edits', NEW f \in edits', e # f
               PROVE  ~Conflict(e, f)
    BY DEF SpansDisjoint
  <2>1. CASE edits' = edits
    BY <2>1 DEF EditorInv, SpansDisjoint
  <2>2. CASE edits' = edits \cup new /\ ~Clashes(new)
    BY <2>2, ConflictSymmetric DEF EditorInv, SpansDisjoint, Clashes
  <2> QED
    BY <1>1, <2>1, <2>2
<1>5. EditsRegular'
  <2>1. /\ IsFiniteSet(resolveTarget(target))
        /\ \A s \in resolveTarget(target) :
             /\ s.start < s.end \/ operation = "add"
             /\ s.linewise => s.start \in LineStarts(baseline) /\ resolveTarget(target) = {s}
    BY SpansRegular DEF EditorInv
  <2>2. IsFiniteSet(new)
    <3> DEFINE S == resolveTarget(target)
               made == [s \in S |-> edit(operation, target, value, s)]
               all == {made[s] : s \in S}
    <3>1. made \in [S -> all] /\ (\A x \in all : \E s \in S : made[s] = x) /\ new \in SUBSET all
      OBVIOUS
    <3> HIDE DEF made, all, S, new
    <3>2. made \in Surjection(S, all)
      BY <3>1, Fun_IsSurj
    <3>3. IsFiniteSet(all)
      BY <2>1, <3>2, FS_Surjection DEF S
    <3> QED
      BY <3>1, <3>3, FS_Subset
  <2>3. ASSUME NEW e \in new
        PROVE  /\ e.rows => e.start \in LineStarts(baseline) /\ e.start < e.end /\ new = {e}
               /\ Insertion(e) => operation = "add" /\ e = [start |-> e.start, end |-> e.start, text |-> value,
                                                            command |-> count + 1, rows |-> FALSE, target |-> << >>]
    <3>1. PICK s \in resolveTarget(target) : e = edit(operation, target, value, s)
      OBVIOUS
    <3>2. operation = "type" => e.start = s.start /\ e.end = s.end /\ s.start < s.end
      BY <2>1, <3>1 DEF edit
    <3>3. s.start \in Int /\ s.end \in Int
      BY SpansInRange DEF EditorInv, EditorTypeOK
    <3>4. operation = "add" => e = [start |-> e.start, end |-> e.start, text |-> value, command |-> count + 1, rows |-> FALSE, target |-> << >>]
      <4>1. SUFFICES ASSUME operation = "add"
                     PROVE  e = [start |-> e.start, end |-> e.start, text |-> value, command |-> count + 1, rows |-> FALSE, target |-> << >>]
        OBVIOUS
      <4>2. e = [start |-> s.start, end |-> s.start, text |-> value, command |-> count + 1, rows |-> FALSE, target |-> << >>]
        BY <3>1, <4>1 DEF edit, replacement
      <4> QED
        BY <4>2
    <3>5. Insertion(e) => operation = "add"
      BY <3>2, <3>3 DEF Insertion
    <3>6. e.rows => operation = "type" /\ s.linewise
      BY <3>1 DEF edit
    <3>7. e.rows => new = {e}
      BY <2>1, <3>1, <3>6
    <3>8. e.rows => e.start \in LineStarts(baseline) /\ e.start < e.end
      BY <2>1, <3>2, <3>6
    <3> QED
      BY <3>4, <3>5, <3>7, <3>8
  <2>4. CASE edits' = edits
    BY <1>1, <2>4 DEF EditorInv, EditsRegular, Insertion, LineStarts
  <2>5. CASE edits' = edits \cup new
    <3>1. \A e \in edits : e.command # count + 1
      BY DEF EditorInv, EditorTypeOK
    <3>2. \A e \in new : e.command = count + 1
      BY <1>2
    <3> HIDE DEF new
    <3>3. IsFiniteSet(edits')
      BY <2>2, <2>5, FS_Union DEF EditorInv, EditsRegular
    <3>4. ASSUME NEW e \in edits', NEW f \in edits', e.command = f.command
          PROVE  /\ e.start = f.start /\ Insertion(e) /\ Insertion(f) => e = f
                 /\ e.rows => e = f
      <4>1. CASE e \in edits /\ f \in edits
        BY <3>4, <4>1 DEF EditorInv, EditsRegular
      <4>2. CASE e \in new /\ f \in new
        <5>1. e.start = f.start /\ Insertion(e) /\ Insertion(f) => e = f
          BY <2>3, <4>2, Zenon
        <5>2. e.rows => e = f
          BY <2>3, <4>2
        <5> QED
          BY <5>1, <5>2
      <4> QED
        BY <2>5, <3>1, <3>2, <3>4, <4>1, <4>2
    <3>5. ASSUME NEW e \in edits', e.rows PROVE e.start \in LineStarts(baseline) /\ e.start < e.end
      BY <2>3, <2>5, <3>5 DEF EditorInv, EditsRegular
    <3>6. LineStarts(baseline)' = LineStarts(baseline)
      BY <1>1 DEF LineStarts
    <3>7. \A e : Insertion(e)' <=> Insertion(e)
      BY DEF Insertion
    <3> QED
      BY <3>3, <3>4, <3>5, <3>6, <3>7 DEF EditsRegular
  <2> HIDE DEF new
  <2> QED
    BY <1>1, <2>4, <2>5
<1> QED
  BY <1>3, <1>4, <1>5 DEF EditorInv

\* The invariant holds throughout a script.
THEOREM EditorInvariance == EditorSpec => []EditorInv
<1>1. EditorInit => EditorInv
  BY EditorAssumption, FS_EmptySet DEF EditorInit, EditorInv, EditorTypeOK, SpansDisjoint, EditsRegular
<1>2. EditorInv /\ [EditorNext]_editorVars => EditorInv'
  <2> SUFFICES ASSUME EditorInv, [EditorNext]_editorVars PROVE EditorInv'
    OBVIOUS
  <2>1. CASE UNCHANGED editorVars
    BY <2>1 DEF editorVars, EditorInv, EditorTypeOK, SpansDisjoint, EditsRegular, Insertion, LineStarts
  <2>2. CASE finish
    BY <2>2 DEF finish, EditorInv, EditorTypeOK, SpansDisjoint, EditsRegular, Insertion, LineStarts
  <2>3. ASSUME NEW operation \in {"type", "add"}, NEW value \in Values,
               NEW target \in Targets(operation), applyMutation(operation, target, value)
        PROVE  EditorInv'
    BY <2>3, CommandPreserves
  <2> QED
    BY <2>1, <2>2, <2>3 DEF EditorNext
<1> QED
  BY <1>1, <1>2, PTL DEF EditorSpec

\* Every recorded edit lies within the baseline and holds text.
THEOREM EditsStayInBaseline == EditorSpec => []EditorTypeOK
<1>1. EditorInv => EditorTypeOK
  BY DEF EditorInv
<1> QED
  BY <1>1, EditorInvariance, PTL

\* No script, of any length and with any number of matches, records two edits
\* that overlap.
THEOREM RecordedSpansAreDisjoint == EditorSpec => []SpansDisjoint
<1>1. EditorInv => SpansDisjoint
  BY DEF EditorInv
<1> QED
  BY <1>1, EditorInvariance, PTL

\* The renderer's slices of the baseline never run backwards.
THEOREM RenderingRunsForward == EditorSpec => []SlicesForward
<1>1. EditorInv => SlicesForward
  <2> SUFFICES ASSUME EditorInv, NEW e \in edits, NEW f \in edits, Before(e, f)
               PROVE  e.end <= f.start
    BY DEF SlicesForward
  <2>1. /\ e.start \in Int /\ e.end \in Int /\ f.start \in Int /\ f.end \in Int
        /\ e.start <= e.end /\ f.start <= f.end /\ e.command \in Int /\ f.command \in Int
    BY DEF EditorInv, EditorTypeOK
  <2>2. e # f
    BY <2>1 DEF Before
  <2>3. ~Conflict(e, f)
    BY <2>2 DEF EditorInv, SpansDisjoint
  <2> QED
    BY <2>1, <2>3 DEF Before, Conflict, Insertion
<1> QED
  BY <1>1, EditorInvariance, PTL

-----------------------------------------------------------------------------
(* The order of rendering.                                                 *)

Precedence(es) == {p \in es \X es : Before(p[1], p[2])}

\* Edits that do not conflict are in one order, in which none starts before the
\* one before it has ended.
LEMMA EditsLinear ==
  ASSUME EditorInv, NEW es \in SUBSET edits
  PROVE  /\ IsFiniteSet(es) /\ Linear(es, Precedence(es)) /\ ordered(es) = Listed(es, Precedence(es))
         /\ \A e, f \in es : Before(e, f) => e.end <= f.start
<1>1. \A e \in edits : e.start \in Int /\ e.end \in Int /\ e.command \in Int /\ e.start <= e.end
  BY DEF EditorInv, EditorTypeOK
<1>2. \A e, f \in es : <<e, f>> \in Precedence(es) <=> Before(e, f)
  BY DEF Precedence
<1>3. \A e \in es : ~Before(e, e)
  BY <1>1 DEF Before
<1>4. ASSUME NEW e \in es, NEW f \in es, NEW g \in es, Before(e, f), Before(f, g) PROVE Before(e, g)
  <2>1. /\ e.start \in Int /\ f.start \in Int /\ g.start \in Int
        /\ e.command \in Int /\ f.command \in Int /\ g.command \in Int
    BY <1>1
  <2> QED
    BY <1>4, <2>1 DEF Before
<1>5. ASSUME NEW e \in es, NEW f \in es PROVE e = f \/ Before(e, f) \/ Before(f, e)
  <2> SUFFICES ASSUME e # f, ~Before(e, f), ~Before(f, e) PROVE FALSE
    OBVIOUS
  <2>1. /\ e.start \in Int /\ f.start \in Int /\ e.end \in Int /\ f.end \in Int /\ e.start <= e.end /\ f.start <= f.end
        /\ e.command \in Int /\ f.command \in Int
    BY <1>1
  <2>2. e.start = f.start /\ (Insertion(e) <=> Insertion(f)) /\ e.command = f.command
    BY <2>1 DEF Before
  <2>3. ~Insertion(e) /\ ~Insertion(f)
    BY <2>2 DEF EditorInv, EditsRegular
  <2>4. Conflict(e, f)
    BY <2>1, <2>2, <2>3 DEF Conflict, Insertion
  <2> QED
    BY <2>4 DEF EditorInv, SpansDisjoint
<1>6. Linear(es, Precedence(es))
  BY <1>2, <1>3, <1>4, <1>5 DEF Linear
<1>7. \A e \in es : {f \in es : Before(f, e)} = Under(es, Precedence(es), e)
  BY <1>2 DEF Under
<1>9. IsFiniteSet(es)
  BY FS_Subset DEF EditorInv, EditsRegular
<1>8. ordered(es) = Listed(es, Precedence(es))
  <2>1. PICK R, l, n : R = Precedence(es) /\ l = Listed(es, R) /\ n = Cardinality(es)
    OBVIOUS
  <2>2. n \in Nat /\ l \in [1..n -> es] /\ \A k \in 1..n : Cardinality(Under(es, R, l[k])) = k - 1
    BY <1>6, <1>9, <2>1, ListedIs
  <2>3. ASSUME NEW k \in 1..n PROVE ordered(es)[k] = l[k]
    <3>1. ordered(es)[k] = CHOOSE e \in es : Cardinality({f \in es : Before(f, e)}) = k - 1
      BY <2>1 DEF ordered
    <3>2. l[k] \in es /\ Cardinality({f \in es : Before(f, l[k])}) = k - 1
      BY <1>7, <2>1, <2>2
    <3>3. ordered(es)[k] \in es /\ Cardinality({f \in es : Before(f, ordered(es)[k])}) = k - 1
      BY <3>1, <3>2
    <3>4. Cardinality(Under(es, R, ordered(es)[k])) = k - 1
      BY <1>7, <2>1, <3>3
    <3> QED
      BY <1>6, <1>9, <2>1, <2>2, <3>2, <3>3, <3>4, RanksDiffer
  <2>4. ordered(es) = [k \in 1..n |-> ordered(es)[k]]
    <3> DEFINE by[k \in 1..n] == CHOOSE e \in es : Cardinality({f \in es : Before(f, e)}) = k - 1
    <3>1. ordered(es) = by
      BY ONLY <2>1, Zenon DEF ordered
    <3>2. by = [k \in 1..n |-> by[k]]
      OBVIOUS
    <3> QED
      BY <3>1, <3>2
  <2> QED
    BY <2>1, <2>2, <2>3, <2>4
<1>10. ASSUME NEW e \in es, NEW f \in es, Before(e, f) PROVE e.end <= f.start
  <2>1. /\ e.start \in Int /\ f.start \in Int /\ e.end \in Int /\ f.end \in Int /\ e.start <= e.end /\ f.start <= f.end
        /\ e.command \in Int /\ f.command \in Int
    BY <1>1
  <2>2. e # f
    BY <1>3, <1>10
  <2>3. ~Conflict(e, f)
    BY <2>2 DEF EditorInv, SpansDisjoint
  <2> QED
    BY <1>10, <2>1, <2>3 DEF Before, Conflict, Insertion
<1> QED
  BY <1>6, <1>8, <1>9, <1>10

\* What the edits are, one after the other.
LEMMA OrderedIs ==
  ASSUME EditorInv, NEW es \in SUBSET edits
  PROVE  /\ Cardinality(es) \in Nat /\ ordered(es) \in [1..Cardinality(es) -> es]
         /\ Len(ordered(es)) = Cardinality(es) /\ DOMAIN ordered(es) = 1..Cardinality(es)
         /\ \A e \in es : \E k \in 1..Cardinality(es) : ordered(es)[k] = e
         /\ \A i, j \in 1..Cardinality(es) : i < j => Before(ordered(es)[i], ordered(es)[j])
         /\ \A i, j \in 1..Cardinality(es) : i < j => ordered(es)[i].end <= ordered(es)[j].start
         /\ \A k \in 1..Cardinality(es) :
              LET e == ordered(es)[k] IN
              e \in edits /\ e.start \in 0..Len(baseline) /\ e.end \in e.start..Len(baseline) /\ e.text \in Text
<1> DEFINE o == ordered(es)
           n == Cardinality(es)
<1>1. /\ n \in Nat /\ o \in [1..n -> es] /\ \A e \in es : \E k \in 1..n : o[k] = e
      /\ \A i, j \in 1..n : i < j => <<o[i], o[j]>> \in Precedence(es)
  BY EditsLinear, ListedIs
<1>2. Len(o) = n
  BY <1>1
<1>3. \A i, j \in 1..n : i < j => Before(o[i], o[j])
  BY <1>1 DEF Precedence
<1>4. ASSUME NEW i \in 1..n, NEW j \in 1..n, i < j PROVE o[i].end <= o[j].start
  <2>1. o[i] \in es /\ o[j] \in es
    BY <1>1
  <2> QED
    BY <1>3, <1>4, <2>1, EditsLinear
<1>5. \A k \in 1..n : o[k] \in edits
  BY <1>1
<1> HIDE DEF o, n
<1>6. \A e \in edits : e.start \in 0..Len(baseline) /\ e.end \in e.start..Len(baseline) /\ e.text \in Text
  BY DEF EditorInv, EditorTypeOK
<1>7. \A k \in 1..n : o[k] \in edits /\ o[k].start \in 0..Len(baseline) /\ o[k].end \in o[k].start..Len(baseline) /\ o[k].text \in Text
  BY <1>5, <1>6
<1> QED
  BY <1>1, <1>2, <1>3, <1>4, <1>7 DEF o, n

\* Whatever lists edits in that order is their list.
LEMMA OrderedOnce ==
  ASSUME EditorInv, NEW es \in SUBSET edits, NEW m \in Nat, NEW q \in [1..m -> es],
         \A e \in es : \E k \in 1..m : q[k] = e, \A i, j \in 1..m : i < j => Before(q[i], q[j])
  PROVE  ordered(es) = q /\ Cardinality(es) = m
<1>1. \A i, j \in 1..m : i < j => <<q[i], q[j]>> \in Precedence(es)
  BY DEF Precedence
<1>2. PICK R : R = Precedence(es)
  OBVIOUS
<1>3. Linear(es, R) /\ ordered(es) = Listed(es, R) /\ \A i, j \in 1..m : i < j => <<q[i], q[j]>> \in R
  BY <1>1, <1>2, EditsLinear
<1>4. Cardinality(es) = m /\ Listed(es, R) = q
  BY <1>3, ListedOnce
<1> QED
  BY <1>3, <1>4

\* The first edits by themselves are in the same order.
LEMMA OrderedFirst ==
  ASSUME EditorInv, NEW es \in SUBSET edits, NEW j \in 0..Cardinality(es),
         NEW first, first = {ordered(es)[i] : i \in 1..j}
  PROVE  /\ first \in SUBSET es /\ Cardinality(first) = j
         /\ ordered(first) = [i \in 1..j |-> ordered(es)[i]]
<1> DEFINE o == ordered(es)
           n == Cardinality(es)
           q == [i \in 1..j |-> o[i]]
<1>1. n \in Nat /\ o \in [1..n -> es] /\ \A i, k \in 1..n : i < k => Before(o[i], o[k])
  BY OrderedIs
<1> HIDE DEF o, n
<1>2. j \in Nat /\ 1..j \subseteq 1..n
  BY <1>1 DEF n
<1>3. first = {o[i] : i \in 1..j}
  BY DEF o
<1>4. first \in SUBSET es
  BY <1>1, <1>2, <1>3
<1>5. q \in [1..j -> first] /\ (\A e \in first : \E k \in 1..j : q[k] = e)
  BY <1>3
<1>6. \A i, k \in 1..j : i < k => Before(q[i], q[k])
  BY <1>1, <1>2
<1> HIDE DEF q
<1>7. ordered(first) = q /\ Cardinality(first) = j
  BY <1>2, <1>4, <1>5, <1>6, OrderedOnce
<1> QED
  BY <1>4, <1>7 DEF q, o

-----------------------------------------------------------------------------
(* Slices.                                                                 *)

\* A slice is the characters between two offsets.
LEMMA SliceIs ==
  ASSUME NEW t \in Text, NEW i \in 0..Len(t), NEW j \in 0..Len(t)
  PROVE  /\ Slice(t, i, j) \in Text
         /\ i <= j => Len(Slice(t, i, j)) = j - i
         /\ j <= i => Slice(t, i, j) = << >>
         /\ \A k \in 1..j - i : Slice(t, i, j)[k] = t[i + k]
<1>1. Len(t) \in Nat /\ \A k \in 1..Len(t) : t[k] \in Characters
  BY DEF Text
<1>2. i + 1 \in Int /\ j \in Int /\ \A k \in i + 1..j : t[k] \in Characters
  BY <1>1
<1>3. /\ SubSeq(t, i + 1, j) \in Seq(Characters)
      /\ Len(SubSeq(t, i + 1, j)) = IF i + 1 <= j THEN j - (i + 1) + 1 ELSE 0
      /\ \A k \in 1..j - (i + 1) + 1 : SubSeq(t, i + 1, j)[k] = t[i + 1 + k - 1]
  <2>1. PICK m, S : m = i + 1 /\ S = Characters
    OBVIOUS
  <2>2. m \in Int /\ \A k \in m..j : t[k] \in S
    BY <1>2, <2>1
  <2>3. /\ SubSeq(t, m, j) \in Seq(S)
        /\ Len(SubSeq(t, m, j)) = IF m <= j THEN j - m + 1 ELSE 0
        /\ \A k \in 1..j - m + 1 : SubSeq(t, m, j)[k] = t[m + k - 1]
    BY <1>2, <2>2, SubSeqProperties
  <2> QED
    BY <2>1, <2>3
<1>4. Slice(t, i, j) \in Text
  BY <1>3 DEF Slice, Text
<1>5. i <= j => Len(Slice(t, i, j)) = j - i
  BY <1>1, <1>3 DEF Slice
<1>6. j <= i => Slice(t, i, j) = << >>
  BY <1>2, SubSeqEmpty DEF Slice
<1>7. ASSUME NEW k \in 1..j - i PROVE Slice(t, i, j)[k] = t[i + k]
  <2>1. k \in 1..j - (i + 1) + 1 /\ i + 1 + k - 1 = i + k
    BY <1>1
  <2> QED
    BY <1>3, <2>1 DEF Slice
<1> QED
  BY <1>4, <1>5, <1>6, <1>7

\* Two texts of the same length and characters are one.
LEMMA SameText ==
  ASSUME NEW t \in Text, NEW u \in Text, Len(t) = Len(u), \A k \in 1..Len(t) : t[k] = u[k]
  PROVE  t = u
  BY SeqEqual DEF Text

\* Adjacent slices.
LEMMA SliceJoin ==
  ASSUME NEW t \in Text, NEW i \in 0..Len(t), NEW j \in i..Len(t), NEW k \in j..Len(t)
  PROVE  Slice(t, i, j) \o Slice(t, j, k) = Slice(t, i, k)
<1>1. Len(t) \in Nat /\ i \in 0..Len(t) /\ j \in 0..Len(t) /\ k \in 0..Len(t) /\ i <= j /\ j <= k /\ i <= k
  BY DEF Text
<1>2. PICK a, b, c : a = Slice(t, i, j) /\ b = Slice(t, j, k) /\ c = Slice(t, i, k)
  OBVIOUS
<1>3. a \in Text /\ b \in Text /\ c \in Text /\ Len(a) = j - i /\ Len(b) = k - j /\ Len(c) = k - i
  BY <1>1, <1>2, SliceIs
<1>4. (\A m \in 1..j - i : a[m] = t[i + m]) /\ (\A m \in 1..k - j : b[m] = t[j + m]) /\ (\A m \in 1..k - i : c[m] = t[i + m])
  BY <1>1, <1>2, SliceIs
<1>5. /\ a \o b \in Text /\ Len(a \o b) = k - i
      /\ \A m \in 1..k - i : (a \o b)[m] = IF m <= j - i THEN a[m] ELSE b[m - (j - i)]
  <2>1. /\ a \o b \in Seq(Characters) /\ Len(a \o b) = Len(a) + Len(b)
        /\ \A m \in 1..Len(a) + Len(b) : (a \o b)[m] = IF m <= Len(a) THEN a[m] ELSE b[m - Len(a)]
    BY <1>3, ConcatProperties DEF Text
  <2>2. Len(a) + Len(b) = k - i
    BY <1>1, <1>3
  <2> QED
    BY <1>3, <2>1, <2>2 DEF Text
<1>6. ASSUME NEW m \in 1..k - i PROVE (a \o b)[m] = c[m]
  <2>1. CASE m <= j - i
    BY <1>1, <1>4, <1>5, <2>1
  <2>2. CASE ~(m <= j - i)
    <3>1. m - (j - i) \in 1..k - j /\ j + (m - (j - i)) = i + m
      BY <1>1, <2>2
    <3> QED
      BY <1>4, <1>5, <2>2, <3>1
  <2> QED
    BY <2>1, <2>2
<1> QED
  BY <1>2, <1>3, <1>5, <1>6, SameText

\* Texts are joined from either side.
LEMMA Joins ==
  /\ \A a, b \in Text : a \o b \in Text /\ Len(a \o b) = Len(a) + Len(b)
  /\ \A a \in Text : Len(a) \in Nat /\ a \o << >> = a /\ << >> \o a = a
  /\ \A a, b, c \in Text : (a \o b) \o c = a \o (b \o c)
  /\ \A a, b, c \in Text : a \o c = b \o c => a = b
  /\ << >> \in Text /\ Len(<< >>) = 0
<1>1. \A a, b \in Text : a \o b \in Text /\ Len(a \o b) = Len(a) + Len(b)
  BY ConcatProperties DEF Text
<1>2. \A a \in Text : Len(a) \in Nat /\ a \o << >> = a /\ << >> \o a = a
  BY ConcatEmptySeq DEF Text
<1>3. \A a, b, c \in Text : (a \o b) \o c = a \o (b \o c)
  BY ConcatAssociative DEF Text
<1>4. ASSUME NEW a \in Text, NEW b \in Text, NEW c \in Text, a \o c = b \o c PROVE a = b
  <2>1. a \in Seq(Characters) /\ b \in Seq(Characters) /\ c \in Seq(Characters)
    BY DEF Text
  <2>2. /\ Len(a) \in Nat /\ Len(b) \in Nat /\ Len(c) \in Nat
        /\ Len(a \o c) = Len(a) + Len(c) /\ Len(b \o c) = Len(b) + Len(c)
    BY <1>1, <1>2
  <2>3. Len(a) = Len(b)
    BY <1>4, <2>2
  <2>4. /\ \A k \in 1..Len(a) + Len(c) : (a \o c)[k] = IF k <= Len(a) THEN a[k] ELSE c[k - Len(a)]
        /\ \A k \in 1..Len(b) + Len(c) : (b \o c)[k] = IF k <= Len(b) THEN b[k] ELSE c[k - Len(b)]
    BY <2>1, ConcatProperties
  <2>5. ASSUME NEW k \in 1..Len(a) PROVE a[k] = b[k]
    <3>1. k \in 1..Len(a) + Len(c) /\ k \in 1..Len(b) + Len(c) /\ k <= Len(a) /\ k <= Len(b)
      BY <2>2, <2>3
    <3> QED
      BY <1>4, <2>4, <3>1
  <2> QED
    BY <2>3, <2>5, SameText
<1>5. << >> \in Text /\ Len(<< >>) = 0
  BY DEF Text
<1> QED
  BY <1>1, <1>2, <1>3, <1>4, <1>5

Chain(u, v, w) == (u \o v) \o w = u \o (v \o w) /\ u \o v \in Text /\ v \o w \in Text

\* Texts are joined in any order.
LEMMA JoinAgain ==
  ASSUME NEW u \in Text, NEW v \in Text, NEW w \in Text
  PROVE  Chain(u, v, w)
<1>1. (u \o v) \o w = u \o (v \o w)
  BY ONLY u \in Text, v \in Text, w \in Text, Joins
<1>2. u \o v \in Text /\ v \o w \in Text
  BY ONLY u \in Text, v \in Text, w \in Text, Joins
<1> QED
  BY <1>1, <1>2 DEF Chain

\* What stands between two texts is found behind the first.
LEMMA SliceBetween ==
  ASSUME NEW a \in Text, NEW b \in Text, NEW c \in Text
  PROVE  Slice((a \o b) \o c, Len(a), Len(a) + Len(b)) = b
<1>1. PICK t : t = (a \o b) \o c
  OBVIOUS
<1>2. /\ Len(a) \in Nat /\ Len(b) \in Nat /\ Len(c) \in Nat /\ a \o b \in Text /\ t \in Text
      /\ Len(a \o b) = Len(a) + Len(b) /\ Len(t) = Len(a) + Len(b) + Len(c)
  BY <1>1, Joins
<1>3. PICK i, j : i = Len(a) /\ j = Len(a) + Len(b)
  OBVIOUS
<1>4. i \in 0..Len(t) /\ j \in 0..Len(t) /\ i <= j /\ j - i = Len(b)
  BY <1>2, <1>3
<1>5. /\ Slice(t, i, j) \in Text /\ Len(Slice(t, i, j)) = Len(b)
      /\ \A k \in 1..Len(b) : Slice(t, i, j)[k] = t[i + k]
  <2>1. /\ Slice(t, i, j) \in Text /\ Len(Slice(t, i, j)) = j - i
        /\ \A k \in 1..j - i : Slice(t, i, j)[k] = t[i + k]
    BY <1>2, <1>4, SliceIs
  <2> QED
    BY <1>4, <2>1
<1>6. ASSUME NEW k \in 1..Len(b) PROVE t[i + k] = b[k]
  <2>1. i + k \in 1..Len(a) + Len(b) /\ i + k \in 1..Len(a \o b) + Len(c) /\ ~(i + k <= Len(a)) /\ (i + k) - Len(a) = k
        /\ i + k <= Len(a \o b)
    BY <1>2, <1>3
  <2>2. \A m \in 1..Len(a \o b) + Len(c) : t[m] = IF m <= Len(a \o b) THEN (a \o b)[m] ELSE c[m - Len(a \o b)]
    BY <1>1, <1>2, ConcatProperties DEF Text
  <2>3. \A m \in 1..Len(a) + Len(b) : (a \o b)[m] = IF m <= Len(a) THEN a[m] ELSE b[m - Len(a)]
    BY ConcatProperties DEF Text
  <2>4. t[i + k] = (a \o b)[i + k]
    BY <2>1, <2>2
  <2>5. (a \o b)[i + k] = b[(i + k) - Len(a)]
    BY <2>1, <2>3
  <2> QED
    BY <2>1, <2>4, <2>5
<1>7. Slice(t, i, j) = b
  BY <1>5, <1>6, SameText
<1> QED
  BY <1>1, <1>3, <1>7

-----------------------------------------------------------------------------
(* The loops over the edits.                                               *)

\* Sums are taken term by term.
LEMMA SumRun ==
  ASSUME NEW n \in Nat, NEW d, \A k \in 1..n : d[k] \in Int
  PROVE  \E f \in [0..n -> Int] : f[0] = 0 /\ \A k \in 1..n : f[k] = f[k - 1] + d[k]
<1>1. PICK st, W, w : st = [k \in 1..n |-> [v \in Int |-> v + d[k]]] /\ W = Int /\ w = 0
  OBVIOUS
<1>2. st \in [1..n -> [W -> W]] /\ w \in W
  BY <1>1
<1>3. \A k \in 1..n : \A v \in W : st[k][v] = v + d[k]
  BY <1>1
<1>4. PICK f \in [0..n -> W] : f[0] = w /\ \A k \in 1..n : f[k] = st[k][f[k - 1]]
  BY ONLY n \in Nat, <1>2, RunExists
<1>5. \A k \in 1..n : f[k - 1] \in W
  BY <1>4
<1>6. \A k \in 1..n : f[k] = f[k - 1] + d[k]
  BY <1>3, <1>4, <1>5
<1> QED
  BY <1>1, <1>4, <1>6

\* The sum over some edits, edit by edit.
LEMMA SumIs ==
  ASSUME EditorInv, NEW es \in SUBSET edits, NEW amount \in [es -> Int]
  PROVE  \E f \in [0..Cardinality(es) -> Int] :
           /\ f[0] = 0 /\ \A k \in 1..Cardinality(es) : f[k] = f[k - 1] + amount[ordered(es)[k]]
           /\ SumOver(es, amount) = f[Cardinality(es)]
<1>1. PICK o, n : o = ordered(es) /\ n = Cardinality(es)
  OBVIOUS
<1>2. n \in Nat /\ o \in [1..n -> es] /\ Len(o) = n
  BY <1>1, OrderedIs
<1> DEFINE Solves(f) == f = [k \in 0..n |-> IF k = 0 THEN 0 ELSE f[k - 1] + amount[o[k]]]
<1>3. PICK d \in [1..n -> Int] : \A k \in 1..n : d[k] = amount[o[k]] /\ d[k] \in Int
  <2>1. \A k \in 1..n : amount[o[k]] \in Int
    BY <1>2
  <2>2. [k \in 1..n |-> amount[o[k]]] \in [1..n -> Int]
    BY <2>1
  <2> QED
    BY <2>2
<1>4. n \in Nat
  BY <1>2
<1>5. PICK g \in [0..n -> Int] : g[0] = 0 /\ \A k \in 1..n : g[k] = g[k - 1] + d[k]
  BY <1>3, <1>4, SumRun
<1>6. \A k \in 1..n : g[k] = g[k - 1] + amount[o[k]]
  BY <1>3, <1>5
<1>7. Solves(g)
  <2>1. \A k \in 0..n : g[k] = IF k = 0 THEN 0 ELSE g[k - 1] + amount[o[k]]
    BY <1>5, <1>6
  <2> QED
    BY <2>1
<1> DEFINE F == CHOOSE f : Solves(f)
<1>8. Solves(F)
  <2> HIDE DEF Solves
  <2> QED
    BY <1>7
<1>9. SumOver(es, amount) = F[n]
  BY <1>1, <1>2, Zenon DEF SumOver
<1> HIDE DEF F
<1>10. F[0] = 0 /\ \A k \in 1..n : F[k] = F[k - 1] + amount[o[k]]
  BY <1>2, <1>8
<1> DEFINE G == {k \in 0..n : F[k] = g[k]}
<1>11. \A k \in 0..n : k \in G
  <2>1. 0 \in G
    BY <1>2, <1>5, <1>10
  <2>2. ASSUME NEW k \in 1..n, k - 1 \in G PROVE k \in G
    BY <1>2, <1>6, <1>10, <2>2
  <2> HIDE DEF G
  <2> QED
    BY <1>2, <2>1, <2>2, EveryRound
<1>12. F[n] = g[n]
  BY <1>2, <1>11
<1> QED
  BY <1>1, <1>5, <1>6, <1>9, <1>12

\* What rendering the edits es, n in number and o in order, goes through: the
\* cursor is the end of the last edit, and never behind the next.
Renders(es, n, o, c) ==
  /\ n \in Nat /\ o \in [1..n -> es] /\ Len(o) = n
  /\ \A i, j \in 1..n : i < j => Before(o[i], o[j]) /\ o[i].end <= o[j].start
  /\ \A k \in 1..n : o[k].start \in 0..Len(baseline) /\ o[k].end \in o[k].start..Len(baseline) /\ o[k].text \in Text
  /\ \A k \in 0..n : c[k].text \in Text /\ c[k].cursor \in 0..Len(baseline)
  /\ c[0].text = << >> /\ c[0].cursor = 0
  /\ \A k \in 1..n :
       /\ c[k].text = (c[k - 1].text \o Slice(baseline, c[k - 1].cursor, o[k].start)) \o o[k].text
       /\ Slice(baseline, c[k - 1].cursor, o[k].start) \in Text
       /\ Len(c[k - 1].text \o Slice(baseline, c[k - 1].cursor, o[k].start)) = Len(c[k - 1].text) + o[k].start - c[k - 1].cursor
       /\ Len(c[k].text) = Len(c[k - 1].text) + o[k].start - c[k - 1].cursor + Len(o[k].text)
       /\ c[k].cursor = o[k].end /\ c[k - 1].cursor <= o[k].start
  /\ content(es) = c[n].text \o Slice(baseline, c[n].cursor, Len(baseline))

\* Rendering some of the edits goes through that.
LEMMA RenderingIs ==
  ASSUME EditorInv, NEW es \in SUBSET edits
  PROVE  Renders(es, Cardinality(es), ordered(es), Rendering(es))
<1>1. PICK n, o, c : n = Cardinality(es) /\ o = ordered(es) /\ c = Rendering(es)
  OBVIOUS
<1>2. /\ n \in Nat /\ o \in [1..n -> es] /\ Len(o) = n
      /\ \A i, j \in 1..n : i < j => Before(o[i], o[j]) /\ o[i].end <= o[j].start
      /\ \A k \in 1..n : o[k].start \in 0..Len(baseline) /\ o[k].end \in o[k].start..Len(baseline) /\ o[k].text \in Text
  BY <1>1, OrderedIs
<1>0. baseline \in Text /\ Len(baseline) \in Nat
  BY EditorAssumption DEF EditorInv, EditorTypeOK, Text
<1> DEFINE V == [text : Text, cursor : 0..Len(baseline)]
           first == [text |-> << >>, cursor |-> 0]
           step == [k \in 1..n |-> [v \in V |-> Write(v, o[k])]]
           Solves(f) == f = [k \in 0..n |-> IF k = 0 THEN first ELSE Write(f[k - 1], o[k])]
<1>3. ASSUME NEW k \in 1..n, NEW v \in V PROVE Write(v, o[k]) \in V
  <2>1. v.text \in Text /\ v.cursor \in 0..Len(baseline)
    OBVIOUS
  <2>2. Slice(baseline, v.cursor, o[k].start) \in Text
    BY <1>0, <1>2, <2>1, SliceIs
  <2>3. (v.text \o Slice(baseline, v.cursor, o[k].start)) \o o[k].text \in Text
    BY <1>2, <2>1, <2>2, Joins
  <2>4. Larger(v.cursor, o[k].end) \in 0..Len(baseline)
    BY <1>0, <1>2, <2>1 DEF Larger
  <2> QED
    BY <2>3, <2>4 DEF Write
<1>4. step \in [1..n -> [V -> V]] /\ first \in V
  <2>1. first \in V
    BY <1>0, Joins
  <2> HIDE DEF V, first
  <2>2. step \in [1..n -> [V -> V]]
    BY <1>3
  <2> QED
    BY <2>1, <2>2
<1>5. PICK g \in [0..n -> V] : g[0] = first /\ \A k \in 1..n : g[k] = step[k][g[k - 1]]
  <2>1. PICK st, W, v : st = step /\ W = V /\ v = first
    OBVIOUS
  <2> HIDE DEF step, V, first
  <2>2. st \in [1..n -> [W -> W]] /\ v \in W
    BY <1>4, <2>1
  <2>3. \E f \in [0..n -> W] : f[0] = v /\ \A k \in 1..n : f[k] = st[k][f[k - 1]]
    <3>1. n \in Nat
      BY <1>2
    <3> QED
      BY ONLY <2>2, <3>1, RunExists
  <2> QED
    BY <2>1, <2>3
<1>6. ASSUME NEW k \in 1..n PROVE g[k] = Write(g[k - 1], o[k])
  <2> HIDE DEF V
  <2>1. k - 1 \in 0..n /\ g[k - 1] \in V
    BY <1>2, <1>5
  <2> QED
    BY <1>5, <2>1
<1>7. Solves(g)
  <2> HIDE DEF V, first
  <2>1. \A k \in 0..n : g[k] = IF k = 0 THEN first ELSE Write(g[k - 1], o[k])
    BY <1>5, <1>6
  <2> QED
    BY <2>1
<1> DEFINE F == CHOOSE f : Solves(f)
<1>8. Solves(F)
  <2> HIDE DEF Solves
  <2> QED
    BY <1>7
<1>9. c = F
  BY <1>1, <1>2, Zenon DEF Rendering
<1> HIDE DEF F
<1>10. c = [k \in 0..n |-> IF k = 0 THEN first ELSE Write(c[k - 1], o[k])]
  BY <1>8, <1>9
<1>11. c[0] = first /\ \A k \in 1..n : c[k] = Write(c[k - 1], o[k])
  <2> HIDE DEF first
  <2> QED
    BY <1>2, <1>10
<1> DEFINE G == {k \in 0..n : c[k] = g[k]}
<1>12. \A k \in 0..n : k \in G
  <2> HIDE DEF first, V
  <2>1. 0 \in G
    BY <1>2, <1>5, <1>11
  <2>2. ASSUME NEW k \in 1..n, k - 1 \in G PROVE k \in G
    BY <1>2, <1>6, <1>11, <2>2
  <2> HIDE DEF G
  <2> QED
    BY <1>2, <2>1, <2>2, EveryRound
<1>13. c \in [0..n -> V]
  <2> HIDE DEF V
  <2>1. \A k \in 0..n : c[k] \in V
    BY <1>5, <1>12
  <2> QED
    BY <1>10, <2>1
<1>14. \A k \in 0..n : c[k].text \in Text /\ c[k].cursor \in 0..Len(baseline)
  BY <1>13
<1>15. \A k \in 1..n : /\ c[k].text = (c[k - 1].text \o Slice(baseline, c[k - 1].cursor, o[k].start)) \o o[k].text
                       /\ c[k].cursor = Larger(c[k - 1].cursor, o[k].end)
  <2> SUFFICES ASSUME NEW k \in 1..n PROVE /\ c[k].text = (c[k - 1].text \o Slice(baseline, c[k - 1].cursor, o[k].start)) \o o[k].text
                       /\ c[k].cursor = Larger(c[k - 1].cursor, o[k].end)
    OBVIOUS
  <2>1. c[k] = Write(c[k - 1], o[k])
    BY <1>11
  <2>2. \A v, e : /\ Write(v, e).text = (v.text \o Slice(baseline, v.cursor, e.start)) \o e.text
                  /\ Write(v, e).cursor = Larger(v.cursor, e.end)
    BY ONLY TRUE DEF Write
  <2> QED
    BY ONLY <2>1, <2>2
<1> DEFINE H == {k \in 0..n : c[k].cursor = IF k = 0 THEN 0 ELSE o[k].end}
<1>16. ASSUME NEW k \in 1..n, k - 1 \in H PROVE k \in H /\ c[k - 1].cursor <= o[k].start
  <2>1. c[k - 1].cursor <= o[k].start
    <3>1. CASE k = 1
      BY <1>2, <1>16, <3>1
    <3>2. CASE k # 1
      <4>1. k - 1 \in 1..n /\ k - 1 < k /\ k - 1 # 0
        BY <1>2, <3>2
      <4> QED
        BY <1>2, <1>16, <4>1
    <3> QED
      BY <3>1, <3>2
  <2>2. c[k - 1].cursor \in 0..Len(baseline) /\ o[k].start \in 0..Len(baseline) /\ o[k].end \in o[k].start..Len(baseline)
    BY <1>2, <1>14
  <2>3. c[k].cursor = Larger(c[k - 1].cursor, o[k].end)
    BY <1>15
  <2>4. Larger(c[k - 1].cursor, o[k].end) = o[k].end
    BY <1>0, <2>1, <2>2 DEF Larger
  <2> QED
    BY <1>2, <2>1, <2>3, <2>4
<1>17. \A k \in 0..n : k \in H
  <2>1. 0 \in H
    BY <1>2, <1>11
  <2> HIDE DEF H
  <2> QED
    BY <1>2, <1>16, <2>1, EveryRound
<1>18. \A k \in 1..n : c[k].cursor = o[k].end /\ c[k - 1].cursor <= o[k].start
  <2> SUFFICES ASSUME NEW k \in 1..n PROVE c[k].cursor = o[k].end /\ c[k - 1].cursor <= o[k].start
    OBVIOUS
  <2>1. k \in 0..n /\ k - 1 \in 0..n /\ k # 0
    BY <1>2
  <2>2. k \in H /\ k - 1 \in H
    BY <1>17, <2>1
  <2> QED
    BY <1>16, <2>1, <2>2
<1>19. content(es) = c[n].text \o Slice(baseline, c[n].cursor, Len(baseline))
  BY <1>1, <1>2 DEF content
<1>20. c[0].text = << >> /\ c[0].cursor = 0
  BY <1>11
<1>21. ASSUME NEW k \in 1..n
       PROVE  /\ Slice(baseline, c[k - 1].cursor, o[k].start) \in Text
              /\ Len(c[k - 1].text \o Slice(baseline, c[k - 1].cursor, o[k].start)) = Len(c[k - 1].text) + o[k].start - c[k - 1].cursor
              /\ Len(c[k].text) = Len(c[k - 1].text) + o[k].start - c[k - 1].cursor + Len(o[k].text)
  <2>1. k - 1 \in 0..n
    BY <1>2
  <2>2. PICK a, i, j, u : a = c[k - 1].text /\ i = c[k - 1].cursor /\ j = o[k].start /\ u = o[k].text
    OBVIOUS
  <2>3. a \in Text /\ u \in Text /\ i \in 0..Len(baseline) /\ j \in 0..Len(baseline) /\ i <= j
    BY <1>2, <1>14, <1>18, <2>1, <2>2
  <2>4. PICK s : s = Slice(baseline, i, j)
    OBVIOUS
  <2>5. s \in Text /\ Len(s) = j - i
    BY <1>0, <2>3, <2>4, SliceIs
  <2>6. a \o s \in Text /\ Len(a \o s) = Len(a) + Len(s) /\ Len(a) \in Nat /\ Len(u) \in Nat
    BY <2>3, <2>5, Joins
  <2>7. Len((a \o s) \o u) = Len(a \o s) + Len(u)
    BY <2>3, <2>6, Joins
  <2>8. c[k].text = (a \o s) \o u
    BY <1>15, <2>2, <2>4
  <2>9. Len(a \o s) = Len(a) + j - i /\ Len(c[k].text) = Len(a) + j - i + Len(u)
    BY <2>3, <2>5, <2>6, <2>7, <2>8
  <2> QED
    BY <2>2, <2>4, <2>5, <2>9
<1> HIDE DEF G, H
<1>22. Renders(es, n, o, c)
  BY <1>2, <1>14, <1>15, <1>18, <1>19, <1>20, <1>21 DEF Renders
<1> QED
  BY <1>1, <1>22

\* How the projection p follows the rendering c of the n edits o.
Projects(n, o, c, p) ==
  /\ DOMAIN p = 1..n
  /\ \A k \in 1..n : /\ p[k].edit = o[k] /\ p[k].end = Len(c[k].text)
                     /\ p[k].start = Len(c[k - 1].text) + o[k].start - c[k - 1].cursor

\* The projected span of an edit is where the rendering has put it.
LEMMA ProjectionIs ==
  ASSUME EditorInv, NEW es \in SUBSET edits
  PROVE  Projects(Cardinality(es), ordered(es), Rendering(es), projected(es))
<1>20. PICK n, o, c, p : n = Cardinality(es) /\ o = ordered(es) /\ c = Rendering(es) /\ p = projected(es)
  OBVIOUS
<1>0. baseline \in Text /\ Len(baseline) \in Nat
  BY EditorAssumption DEF EditorInv, EditorTypeOK, Text
<1>1. Renders(es, n, o, c)
  BY <1>20, RenderingIs
<1>2. /\ n \in Nat /\ Len(o) = n /\ c[0].text = << >> /\ c[0].cursor = 0
  BY <1>1 DEF Renders
<1>4. ASSUME NEW k \in 1..n
      PROVE  /\ Len(c[k].text) = Len(c[k - 1].text) + o[k].start - c[k - 1].cursor + Len(o[k].text)
             /\ Larger(c[k - 1].cursor, o[k].end) = c[k].cursor
  <2>1. k - 1 \in 0..n
    BY <1>2
  <2>2. /\ c[k].cursor = o[k].end /\ c[k - 1].cursor <= o[k].start
        /\ Len(c[k].text) = Len(c[k - 1].text) + o[k].start - c[k - 1].cursor + Len(o[k].text)
    BY <1>1 DEF Renders
  <2>3. c[k - 1].cursor \in 0..Len(baseline) /\ o[k].start \in 0..Len(baseline) /\ o[k].end \in o[k].start..Len(baseline)
    BY <1>1, <2>1 DEF Renders
  <2> QED
    BY <1>0, <2>2, <2>3 DEF Larger
<1> DEFINE zero == [base |-> 0, rendered |-> 0, start |-> 0]
           at(k) == [base |-> c[k].cursor, rendered |-> Len(c[k].text),
                     start |-> IF k = 0 THEN 0 ELSE Len(c[k - 1].text) + o[k].start - c[k - 1].cursor]
           Solves(f) == f = [k \in 0..n |-> IF k = 0 THEN zero ELSE Project(f[k - 1], o[k])]
           g == [k \in 0..n |-> at(k)]
<1>5. g[0] = zero
  <2>1. at(0) = zero
    BY <1>2, Joins
  <2> HIDE DEF at, zero
  <2> QED
    BY <1>2, <2>1
<1>6. ASSUME NEW k \in 1..n PROVE at(k) = Project(at(k - 1), o[k])
  <2>1. \A q, e : Project(q, e) = [base |-> Larger(q.base, e.end), rendered |-> q.rendered + e.start - q.base + Len(e.text),
                                   start |-> q.rendered + e.start - q.base]
    BY ONLY TRUE DEF Project
  <2>2. at(k - 1).base = c[k - 1].cursor /\ at(k - 1).rendered = Len(c[k - 1].text)
    BY ONLY TRUE
  <2>3. k # 0
    BY <1>2
  <2>4. PICK q : q = at(k - 1)
    OBVIOUS
  <2>5. Project(q, o[k]) = [base |-> c[k].cursor, rendered |-> Len(c[k].text),
                                  start |-> Len(c[k - 1].text) + o[k].start - c[k - 1].cursor]
    BY <1>4, <2>1, <2>2, <2>4
  <2> QED
    BY <2>3, <2>4, <2>5
<1>7. ASSUME NEW k \in 1..n PROVE g[k] = Project(g[k - 1], o[k])
  <2>1. k \in 0..n /\ k - 1 \in 0..n
    BY <1>2
  <2> HIDE DEF at
  <2> QED
    BY <1>6, <2>1
<1>8. Solves(g)
  <2> HIDE DEF g, zero
  <2>1. \A k \in 0..n : g[k] = IF k = 0 THEN zero ELSE Project(g[k - 1], o[k])
    BY <1>5, <1>7
  <2>2. g = [k \in 0..n |-> g[k]]
    BY DEF g
  <2> QED
    BY <2>1, <2>2
<1> DEFINE F == CHOOSE f : Solves(f)
<1>9. Solves(F)
  <2> HIDE DEF Solves
  <2> QED
    BY <1>8
<1>10. Projection(es) = F
  BY <1>2, <1>20, Zenon DEF Projection
<1> HIDE DEF F, g, at, zero
<1>11. F[0] = zero /\ \A k \in 1..n : F[k] = Project(F[k - 1], o[k])
  BY <1>2, <1>9
<1> DEFINE G == {k \in 0..n : F[k] = g[k]}
<1>12. \A k \in 0..n : k \in G
  <2>1. 0 \in G
    BY <1>2, <1>5, <1>11
  <2>2. ASSUME NEW k \in 1..n, k - 1 \in G PROVE k \in G
    BY <1>2, <1>7, <1>11, <2>2
  <2> HIDE DEF G
  <2> QED
    BY <1>2, <2>1, <2>2, EveryRound
<1>13. p = [k \in 1..n |-> [edit |-> o[k], start |-> F[k].start, end |-> F[k].rendered]]
  BY <1>2, <1>10, <1>20, Zenon DEF projected
<1>14. ASSUME NEW k \in 1..n PROVE /\ p[k].edit = o[k] /\ p[k].end = Len(c[k].text)
                            /\ p[k].start = Len(c[k - 1].text) + o[k].start - c[k - 1].cursor
  <2>1. k \in 0..n /\ k # 0 /\ F[k] = g[k]
    BY <1>2, <1>12
  <2>2. g[k] = at(k)
    BY <2>1 DEF g
  <2>3. at(k).start = Len(c[k - 1].text) + o[k].start - c[k - 1].cursor /\ at(k).rendered = Len(c[k].text)
    BY <2>1 DEF at
  <2>4. p[k] = [edit |-> o[k], start |-> F[k].start, end |-> F[k].rendered]
    BY <1>13
  <2> QED
    BY <2>1, <2>2, <2>3, <2>4
<1>15. DOMAIN p = 1..n
  BY <1>13
<1>16. Projects(n, o, c, p)
  BY <1>14, <1>15 DEF Projects
<1> QED
  BY <1>16, <1>20

\* The rendered length, from what was removed and added.
LEMMA LengthIs ==
  ASSUME EditorInv, NEW es \in SUBSET edits, NEW n, n = Cardinality(es), NEW c, c = Rendering(es)
  PROVE  /\ Removed(es) \in Int /\ Added(es) \in Int
         /\ Len(c[n].text) = c[n].cursor - Removed(es) + Added(es)
         /\ SumOver(es, [f \in es |-> Len(f.text) - (f.end - f.start)]) = Len(c[n].text) - c[n].cursor
         /\ Len(content(es)) = Len(baseline) - Removed(es) + Added(es)
<1>0. baseline \in Text /\ Len(baseline) \in Nat
  BY EditorAssumption DEF EditorInv, EditorTypeOK, Text
<1>1. PICK o : o = ordered(es)
  OBVIOUS
<1>2. Renders(es, n, o, c)
  BY <1>1, RenderingIs
<1>3. /\ n \in Nat /\ o \in [1..n -> es] /\ c[0].text = << >> /\ c[0].cursor = 0
  BY <1>2 DEF Renders
<1>4. ASSUME NEW k \in 1..n
      PROVE  /\ Len(c[k].text) = Len(c[k - 1].text) + o[k].start - c[k - 1].cursor + Len(o[k].text)
             /\ c[k].cursor = o[k].end /\ o[k].start \in Int /\ o[k].end \in Int /\ Len(o[k].text) \in Int
  <2>1. /\ Len(c[k].text) = Len(c[k - 1].text) + o[k].start - c[k - 1].cursor + Len(o[k].text)
        /\ c[k].cursor = o[k].end
        /\ o[k].start \in 0..Len(baseline) /\ o[k].end \in o[k].start..Len(baseline) /\ o[k].text \in Text
    BY <1>2 DEF Renders
  <2> QED
    BY <1>0, <2>1, Joins
<1>5. \A e \in es : e.end - e.start \in Int /\ Len(e.text) \in Int /\ Len(e.text) - (e.end - e.start) \in Int
  <2>1. \A e \in es : e.start \in 0..Len(baseline) /\ e.end \in e.start..Len(baseline) /\ Len(e.text) \in Nat
    BY Joins DEF EditorInv, EditorTypeOK
  <2> QED
    BY <1>0, <2>1
<1>6. PICK gone, more, net : /\ gone = [e \in es |-> e.end - e.start] /\ more = [e \in es |-> Len(e.text)]
                             /\ net = [f \in es |-> Len(f.text) - (f.end - f.start)]
  OBVIOUS
<1>7. gone \in [es -> Int] /\ more \in [es -> Int] /\ net \in [es -> Int]
  BY <1>5, <1>6
<1>20. ASSUME NEW amount \in [es -> Int]
       PROVE  \E f \in [0..n -> Int] : f[0] = 0 /\ (\A k \in 1..n : f[k] = f[k - 1] + amount[o[k]]) /\ SumOver(es, amount) = f[n]
  BY <1>1, SumIs
<1>8. PICK r \in [0..n -> Int] : r[0] = 0 /\ (\A k \in 1..n : r[k] = r[k - 1] + gone[o[k]]) /\ SumOver(es, gone) = r[n]
  BY <1>7, <1>20
<1>9. PICK a \in [0..n -> Int] : a[0] = 0 /\ (\A k \in 1..n : a[k] = a[k - 1] + more[o[k]]) /\ SumOver(es, more) = a[n]
  BY <1>7, <1>20
<1>10. PICK d \in [0..n -> Int] : d[0] = 0 /\ (\A k \in 1..n : d[k] = d[k - 1] + net[o[k]]) /\ SumOver(es, net) = d[n]
  BY <1>7, <1>20
<1>11. ASSUME NEW k \in 1..n
       PROVE  /\ gone[o[k]] = o[k].end - o[k].start /\ more[o[k]] = Len(o[k].text)
              /\ net[o[k]] = Len(o[k].text) - (o[k].end - o[k].start)
  <2>1. o[k] \in es
    BY <1>3
  <2> QED
    BY <1>6, <2>1
<1> DEFINE G == {k \in 0..n : /\ Len(c[k].text) = c[k].cursor - r[k] + a[k] /\ d[k] = Len(c[k].text) - c[k].cursor}
<1>12. ASSUME NEW k \in 1..n, k - 1 \in G PROVE k \in G
  <2>1. k \in 0..n /\ k - 1 \in 0..n
    BY <1>3
  <2>2. PICK l, l1, cu, cu1, s, e, x : /\ l = Len(c[k].text) /\ l1 = Len(c[k - 1].text) /\ cu = c[k].cursor
          /\ cu1 = c[k - 1].cursor /\ s = o[k].start /\ e = o[k].end /\ x = Len(o[k].text)
    OBVIOUS
  <2>3. /\ s \in Int /\ e \in Int /\ x \in Int
    BY <1>4, <2>2
  <2>4. cu = e /\ l = l1 + s - cu1 + x
    BY <1>4, <2>2
  <2>5. cu1 \in Int /\ l1 \in Int
    <3>1. c[k - 1].text \in Text /\ c[k - 1].cursor \in 0..Len(baseline)
      BY <1>2, <2>1 DEF Renders
    <3> QED
      BY <1>0, <2>2, <3>1, Joins
  <2>6. r[k] = r[k - 1] + (e - s) /\ a[k] = a[k - 1] + x /\ d[k] = d[k - 1] + (x - (e - s))
    BY <1>8, <1>9, <1>10, <1>11, <2>2
  <2>7. r[k - 1] \in Int /\ a[k - 1] \in Int /\ d[k - 1] \in Int
    BY <1>8, <1>9, <1>10, <2>1
  <2>8. l1 = cu1 - r[k - 1] + a[k - 1] /\ d[k - 1] = l1 - cu1
    BY <1>12, <2>2
  <2>9. PICK r1, a1, d1 : r1 = r[k - 1] /\ a1 = a[k - 1] /\ d1 = d[k - 1]
    OBVIOUS
  <2>10. l = cu - (r1 + (e - s)) + (a1 + x) /\ d1 + (x - (e - s)) = l - cu
    <3>1. r1 \in Int /\ a1 \in Int /\ d1 \in Int /\ l1 = cu1 - r1 + a1 /\ d1 = l1 - cu1
      BY <2>7, <2>8, <2>9
    <3>2. l = e - (r1 + (e - s)) + (a1 + x)
      BY <2>3, <2>4, <2>5, <3>1
    <3>3. d1 + (x - (e - s)) = l - e
      BY <2>3, <2>4, <2>5, <3>1
    <3> QED
      BY <2>4, <3>2, <3>3
  <2>11. l = cu - r[k] + a[k] /\ d[k] = l - cu
    BY <2>6, <2>9, <2>10
  <2> QED
    BY <2>1, <2>2, <2>11
<1>13. n \in G
  <2>1. 0 \in G
    BY <1>3, <1>8, <1>9, <1>10, Joins
  <2> HIDE DEF G
  <2>2. \A k \in 0..n : k \in G
    BY <1>3, <1>12, <2>1, EveryRound
  <2> QED
    BY <1>3, <2>2
<1>14. Removed(es) = r[n] /\ Added(es) = a[n] /\ r[n] \in Int /\ a[n] \in Int
  BY <1>3, <1>6, <1>8, <1>9 DEF Removed, Added
<1>15. Len(content(es)) = Len(c[n].text) + Len(baseline) - c[n].cursor
  <2>1. c[n].text \in Text /\ c[n].cursor \in 0..Len(baseline)
    BY <1>2, <1>3 DEF Renders
  <2>2. PICK s : s = Slice(baseline, c[n].cursor, Len(baseline))
    OBVIOUS
  <2>3. s \in Text /\ Len(s) = Len(baseline) - c[n].cursor
    <3>1. PICK i, j : i = c[n].cursor /\ j = Len(baseline)
      OBVIOUS
    <3>2. i \in 0..Len(baseline) /\ j \in 0..Len(baseline) /\ i <= j
      BY <1>0, <2>1, <3>1
    <3> QED
      BY <1>0, <2>2, <3>1, <3>2, SliceIs
  <2>4. Len(c[n].text \o s) = Len(c[n].text) + Len(s) /\ Len(c[n].text) \in Nat
    BY <2>1, <2>3, Joins
  <2> QED
    BY <1>0, <1>2, <2>1, <2>2, <2>3, <2>4 DEF Renders
<1>16. Len(c[n].text) \in Int /\ c[n].cursor \in Int
  <2>1. c[n].text \in Text /\ c[n].cursor \in 0..Len(baseline)
    BY <1>2, <1>3 DEF Renders
  <2> QED
    BY <1>0, <2>1, Joins
<1> QED
  BY <1>0, <1>6, <1>10, <1>13, <1>14, <1>15, <1>16

-----------------------------------------------------------------------------
(* One more edit, behind all others.                                       *)

Follows(es, m) == m \in edits /\ \A e \in es : Before(e, m)

\* It is the last in order.
LEMMA OrderedLast ==
  ASSUME EditorInv, NEW es \in SUBSET edits, NEW m, Follows(es, m), NEW n, n = Cardinality(es),
         NEW fs, fs = es \cup {m}
  PROVE  /\ fs \in SUBSET edits /\ n \in Nat /\ Cardinality(fs) = n + 1 /\ ordered(fs)[n + 1] = m
         /\ \A k \in 1..n : ordered(fs)[k] = ordered(es)[k]
<1>1. PICK o : o = ordered(es)
  OBVIOUS
<1>2. n \in Nat /\ o \in [1..n -> es] /\ (\A e \in es : \E k \in 1..n : o[k] = e)
      /\ (\A i, j \in 1..n : i < j => Before(o[i], o[j]))
  BY <1>1, OrderedIs
<1> DEFINE q == [k \in 1..n + 1 |-> IF k = n + 1 THEN m ELSE o[k]]
<1>3. fs \in SUBSET edits /\ es \subseteq fs /\ m \in fs
  BY DEF Follows
<1>4. q[n + 1] = m /\ \A k \in 1..n : k \in 1..n + 1 /\ q[k] = o[k]
  BY <1>2
<1>5. q \in [1..n + 1 -> fs]
  BY <1>2, <1>3
<1> HIDE DEF q
<1>6. ASSUME NEW e \in fs PROVE \E k \in 1..n + 1 : q[k] = e
  <2>1. CASE e = m
    BY <1>2, <1>4, <2>1
  <2>2. CASE e \in es
    BY <1>2, <1>4, <2>2
  <2> QED
    BY <2>1, <2>2
<1>7. ASSUME NEW i \in 1..n + 1, NEW j \in 1..n + 1, i < j PROVE Before(q[i], q[j])
  <2>1. i \in 1..n /\ q[i] = o[i] /\ o[i] \in es
    BY <1>2, <1>4, <1>7
  <2>2. CASE j = n + 1
    BY <1>4, <2>1, <2>2 DEF Follows
  <2>3. CASE j \in 1..n
    BY <1>2, <1>4, <1>7, <2>1, <2>3
  <2> QED
    BY <1>2, <2>2, <2>3
<1>8. n + 1 \in Nat
  BY <1>2
<1>9. PICK l : l = n + 1
  OBVIOUS
<1>10. l \in Nat /\ q \in [1..l -> fs] /\ (\A e \in fs : \E k \in 1..l : q[k] = e) /\ (\A i, j \in 1..l : i < j => Before(q[i], q[j]))
  BY <1>5, <1>6, <1>7, <1>8, <1>9
<1>11. ordered(fs) = q /\ Cardinality(fs) = l
  BY <1>3, <1>10, OrderedOnce
<1> QED
  BY <1>1, <1>2, <1>3, <1>4, <1>9, <1>11

\* It changes nothing before its start and keeps everything behind its end.
LEMMA ContentLast ==
  ASSUME EditorInv, NEW es \in SUBSET edits, NEW m, Follows(es, m)
  PROVE  \E a \in Text : /\ content(es) = a \o Slice(baseline, m.start, Len(baseline))
                         /\ content(es \cup {m}) = (a \o m.text) \o Slice(baseline, m.end, Len(baseline))
<1>0. baseline \in Text /\ Len(baseline) \in Nat
  BY EditorAssumption DEF EditorInv, EditorTypeOK, Text
<1>1. PICK fs, n, o, c, p, d : /\ fs = es \cup {m} /\ n = Cardinality(es) /\ o = ordered(es) /\ c = Rendering(es)
                               /\ p = ordered(fs) /\ d = Rendering(fs)
  OBVIOUS
<1>2. /\ fs \in SUBSET edits /\ n \in Nat /\ Cardinality(fs) = n + 1 /\ p[n + 1] = m
      /\ \A k \in 1..n : p[k] = o[k]
  BY <1>1, OrderedLast
<1>3. Renders(es, n, o, c)
  BY <1>1, RenderingIs
<1>4. Renders(fs, n + 1, p, d)
  BY <1>1, <1>2, RenderingIs
<1> DEFINE G == {k \in 0..n : d[k].text = c[k].text /\ d[k].cursor = c[k].cursor}
<1>5. n \in G
  <2>1. 0 \in G
    BY <1>2, <1>3, <1>4 DEF Renders
  <2>2. ASSUME NEW k \in 1..n, k - 1 \in G PROVE k \in G
    <3>1. k \in 1..n + 1 /\ k \in 0..n
      BY <1>2
    <3>2. c[k].text = (c[k - 1].text \o Slice(baseline, c[k - 1].cursor, o[k].start)) \o o[k].text /\ c[k].cursor = o[k].end
      BY <1>3 DEF Renders
    <3>3. d[k].text = (d[k - 1].text \o Slice(baseline, d[k - 1].cursor, p[k].start)) \o p[k].text /\ d[k].cursor = p[k].end
      BY <1>4, <3>1 DEF Renders
    <3>4. d[k].text = c[k].text /\ d[k].cursor = c[k].cursor
      BY <1>2, <2>2, <3>2, <3>3
    <3> QED
      BY <3>1, <3>4
  <2> HIDE DEF G
  <2>3. \A k \in 0..n : k \in G
    BY <1>2, <2>1, <2>2, EveryRound
  <2> QED
    BY <1>2, <2>3
<1>6. n + 1 \in 1..n + 1 /\ n \in 0..n /\ n + 1 - 1 = n
  BY <1>2
<1>7. PICK u, i, j, e, s : u = c[n].text /\ i = c[n].cursor /\ j = m.start /\ e = m.end /\ s = Slice(baseline, i, j)
  OBVIOUS
<1>8. /\ d[n + 1].text = (u \o s) \o m.text /\ d[n + 1].cursor = e /\ i <= j
      /\ content(fs) = d[n + 1].text \o Slice(baseline, d[n + 1].cursor, Len(baseline))
      /\ j \in 0..Len(baseline) /\ e \in j..Len(baseline) /\ m.text \in Text
  <2>1. PICK k : k = n + 1
    OBVIOUS
  <2>2. Renders(fs, k, p, d) /\ k \in 1..k /\ k - 1 = n /\ p[k] = m
    BY <1>2, <1>4, <1>6, <2>1
  <2>3. /\ d[k].text = (d[k - 1].text \o Slice(baseline, d[k - 1].cursor, p[k].start)) \o p[k].text
        /\ d[k].cursor = p[k].end /\ d[k - 1].cursor <= p[k].start
        /\ content(fs) = d[k].text \o Slice(baseline, d[k].cursor, Len(baseline))
        /\ p[k].start \in 0..Len(baseline) /\ p[k].end \in p[k].start..Len(baseline) /\ p[k].text \in Text
    BY <2>2 DEF Renders
  <2>4. d[n].text = u /\ d[n].cursor = i
    BY <1>5, <1>7
  <2> QED
    BY <1>7, <2>1, <2>2, <2>3, <2>4
<1>9. u \in Text /\ i \in 0..Len(baseline) /\ content(es) = u \o Slice(baseline, i, Len(baseline))
  BY <1>3, <1>6, <1>7 DEF Renders
<1>10. PICK l, r : l = Len(baseline) /\ r = Slice(baseline, j, l)
  OBVIOUS
<1>11. Slice(baseline, i, l) = s \o r /\ s \in Text /\ r \in Text
  <2>1. j \in i..Len(baseline) /\ l \in j..Len(baseline) /\ l \in 0..Len(baseline)
    BY <1>0, <1>8, <1>9, <1>10
  <2>2. Slice(baseline, i, j) \o Slice(baseline, j, l) = Slice(baseline, i, l)
    BY <1>0, <1>9, <2>1, SliceJoin
  <2>3. s \in Text /\ r \in Text
    BY <1>0, <1>7, <1>8, <1>9, <1>10, <2>1, SliceIs
  <2> QED
    BY <1>7, <1>10, <2>2, <2>3
<1>12. u \o s \in Text /\ u \o (s \o r) = (u \o s) \o r
  <2>1. Chain(u, s, r)
    BY <1>9, <1>11, JoinAgain
  <2> QED
    BY ONLY <2>1 DEF Chain
<1>13. content(es) = (u \o s) \o r /\ content(fs) = ((u \o s) \o m.text) \o Slice(baseline, e, l)
  BY <1>8, <1>9, <1>10, <1>11, <1>12
<1> QED
  BY <1>1, <1>7, <1>10, <1>12, <1>13

-----------------------------------------------------------------------------
(* The substitution, position by position.                                 *)

\* Texts are joined one by one.
LEMMA JoinRun ==
  ASSUME NEW n \in Nat, NEW d, \A k \in 1..n : d[k] \in Text
  PROVE  \E f \in [0..n -> Text] : f[0] = << >> /\ \A k \in 1..n : f[k] = f[k - 1] \o d[k]
<1>1. PICK st, W, w : st = [k \in 1..n |-> [v \in Text |-> v \o d[k]]] /\ W = Text /\ w = << >>
  OBVIOUS
<1>2. \A k \in 1..n : \A v \in W : v \o d[k] \in W
  BY <1>1, Joins
<1>3. st \in [1..n -> [W -> W]] /\ w \in W
  BY <1>1, <1>2, Joins
<1>4. \A k \in 1..n : \A v \in W : st[k][v] = v \o d[k]
  BY <1>1
<1>5. PICK f \in [0..n -> W] : f[0] = w /\ \A k \in 1..n : f[k] = st[k][f[k - 1]]
  BY ONLY n \in Nat, <1>3, RunExists
<1>6. \A k \in 1..n : f[k - 1] \in W
  BY <1>5
<1>7. \A k \in 1..n : f[k] = f[k - 1] \o d[k]
  BY <1>4, <1>5, <1>6
<1> QED
  BY <1>1, <1>5, <1>7

\* The joined texts of some edits.
LEMMA TextsIs ==
  ASSUME EditorInv, NEW es \in SUBSET edits
  PROVE  \E f \in [0..Cardinality(es) -> Text] :
           /\ f[0] = << >> /\ \A k \in 1..Cardinality(es) : f[k] = f[k - 1] \o ordered(es)[k].text
           /\ Texts(ordered(es)) = f[Cardinality(es)]
<1>1. PICK o, n : o = ordered(es) /\ n = Cardinality(es)
  OBVIOUS
<1>2. n \in Nat /\ Len(o) = n /\ \A k \in 1..n : o[k].text \in Text
  BY <1>1, OrderedIs
<1> DEFINE Solves(f) == f = [k \in 0..n |-> IF k = 0 THEN << >> ELSE f[k - 1] \o o[k].text]
<1>3. PICK d : d = [k \in 1..n |-> o[k].text]
  OBVIOUS
<1>4. \A k \in 1..n : d[k] = o[k].text /\ d[k] \in Text
  BY <1>2, <1>3
<1>5. PICK g \in [0..n -> Text] : g[0] = << >> /\ \A k \in 1..n : g[k] = g[k - 1] \o d[k]
  BY <1>2, <1>4, JoinRun
<1>6. \A k \in 1..n : g[k] = g[k - 1] \o o[k].text
  BY <1>4, <1>5
<1>7. Solves(g)
  <2>1. ASSUME NEW k \in 0..n PROVE g[k] = IF k = 0 THEN << >> ELSE g[k - 1] \o o[k].text
    <3>1. CASE k = 0
      BY <1>5, <3>1
    <3>2. CASE k \in 1..n
      <4>1. g[k] = g[k - 1] \o o[k].text
        BY ONLY <1>6, <3>2
      <4>2. k # 0
        BY <3>2
      <4> QED
        BY ONLY <4>1, <4>2
    <3>3. k = 0 \/ k \in 1..n
      BY <1>2
    <3> QED
      BY ONLY <3>1, <3>2, <3>3
  <2> QED
    BY <2>1
<1> DEFINE F == CHOOSE f : Solves(f)
<1>8. Solves(F)
  <2> HIDE DEF Solves
  <2> QED
    BY <1>7
<1>9. Texts(o) = F[n]
  BY <1>2, Zenon DEF Texts
<1> HIDE DEF F
<1>10. F[0] = << >> /\ \A k \in 1..n : F[k] = F[k - 1] \o o[k].text
  BY <1>2, <1>8
<1> DEFINE G == {k \in 0..n : F[k] = g[k]}
<1>11. \A k \in 0..n : k \in G
  <2>1. 0 \in G
    BY <1>2, <1>5, <1>10
  <2>2. ASSUME NEW k \in 1..n, k - 1 \in G PROVE k \in G
    BY <1>2, <1>6, <1>10, <2>2
  <2> HIDE DEF G
  <2> QED
    BY <1>2, <2>1, <2>2, EveryRound
<1>12. F[n] = g[n]
  BY <1>2, <1>11
<1> QED
  BY <1>1, <1>5, <1>6, <1>9, <1>12

\* The joined texts, with one edit behind the others and without any.
LEMMA TextsLast ==
  ASSUME EditorInv, NEW es \in SUBSET edits
  PROVE  /\ Texts(ordered(es)) \in Text
         /\ es = {} => Texts(ordered(es)) = << >>
         /\ \A m : Follows(es, m) => Texts(ordered(es \cup {m})) = Texts(ordered(es)) \o m.text
<1>1. PICK o, n : o = ordered(es) /\ n = Cardinality(es)
  OBVIOUS
<1>2. n \in Nat
  BY <1>1, OrderedIs
<1>3. PICK f \in [0..n -> Text] : /\ f[0] = << >> /\ \A k \in 1..n : f[k] = f[k - 1] \o o[k].text
                                  /\ Texts(o) = f[n]
  BY <1>1, TextsIs
<1>4. Texts(o) \in Text
  BY <1>2, <1>3
<1>5. es = {} => Texts(o) = << >>
  <2>1. es = {} => n = 0
    BY <1>1, FS_EmptySet
  <2> QED
    BY <1>3, <2>1
<1>6. ASSUME NEW m, Follows(es, m) PROVE Texts(ordered(es \cup {m})) = Texts(o) \o m.text
  <2>1. PICK fs, p, l : fs = es \cup {m} /\ p = ordered(fs) /\ l = n + 1
    OBVIOUS
  <2>2. fs \in SUBSET edits /\ Cardinality(fs) = l /\ p[l] = m /\ \A k \in 1..n : p[k] = o[k]
    BY <1>1, <1>6, <2>1, OrderedLast
  <2>3. PICK g \in [0..l -> Text] : /\ g[0] = << >> /\ \A k \in 1..l : g[k] = g[k - 1] \o p[k].text
                                    /\ Texts(p) = g[l]
    <3>1. \E h \in [0..Cardinality(fs) -> Text] :
           /\ h[0] = << >> /\ \A k \in 1..Cardinality(fs) : h[k] = h[k - 1] \o ordered(fs)[k].text
           /\ Texts(ordered(fs)) = h[Cardinality(fs)]
      BY <2>2, TextsIs
    <3> QED
      BY <2>1, <2>2, <3>1
  <2> DEFINE G == {k \in 0..n : f[k] = g[k]}
  <2>4. n \in G
    <3>1. 0 \in G
      BY <1>2, <1>3, <2>3
    <3>2. ASSUME NEW k \in 1..n, k - 1 \in G PROVE k \in G
      <4>1. k \in 1..l /\ k \in 0..n
        BY <1>2, <2>1
      <4>2. f[k] = f[k - 1] \o o[k].text /\ g[k] = g[k - 1] \o p[k].text /\ p[k] = o[k]
        BY <1>3, <2>2, <2>3, <4>1
      <4> QED
        BY <3>2, <4>1, <4>2
    <3> HIDE DEF G
    <3>3. \A k \in 0..n : k \in G
      BY <1>2, <3>1, <3>2, EveryRound
    <3> QED
      BY <1>2, <3>3
  <2>5. l \in 1..l /\ l - 1 = n
    BY <1>2, <2>1
  <2> QED
    BY <1>3, <2>1, <2>2, <2>3, <2>4, <2>5
<1> QED
  BY <1>1, <1>4, <1>5, <1>6

\* The texts at a position, and those up to it.
LEMMA PiecesIs ==
  ASSUME EditorInv, NEW es \in SUBSET edits
  PROVE  /\ \A i \in 0..Len(baseline) : Piece(es, i) \in Text
         /\ Pieces(es) \in [0..Len(baseline) + 1 -> Text] /\ Pieces(es)[0] = << >>
         /\ \A i \in 1..Len(baseline) + 1 : Pieces(es)[i] = Pieces(es)[i - 1] \o Piece(es, i - 1)
<1>0. baseline \in Text /\ Len(baseline) \in Nat
  BY EditorAssumption DEF EditorInv, EditorTypeOK, Text
<1>1. ASSUME NEW i \in 0..Len(baseline) PROVE Piece(es, i) \in Text
  <2>1. PICK in, out, last :
          /\ in = {e \in es : e.start = i /\ Insertion(e)} /\ out = {e \in es : e.start = i /\ ~Insertion(e)}
          /\ last = (IF i < Len(baseline) /\ ~\E e \in es : e.start <= i /\ i < e.end THEN <<baseline[i + 1]>> ELSE << >>)
    OBVIOUS
  <2>2. in \in SUBSET edits /\ out \in SUBSET edits
    BY <2>1
  <2>3. Texts(ordered(in)) \in Text /\ Texts(ordered(out)) \in Text
    BY <2>2, TextsLast
  <2>4. last \in Text
    <3>1. i < Len(baseline) => baseline[i + 1] \in Characters
      BY <1>0 DEF Text
    <3>2. i < Len(baseline) => <<baseline[i + 1]>> \in Seq(Characters)
      BY <3>1
    <3> QED
      BY <2>1, <3>2, Joins DEF Text
  <2>5. (Texts(ordered(in)) \o Texts(ordered(out))) \o last \in Text
    BY <2>3, <2>4, Joins
  <2>6. Piece(es, i) = (Texts(ordered(in)) \o Texts(ordered(out))) \o last
    BY <2>1 DEF Piece
  <2> QED
    BY <2>5, <2>6
<1>2. PICK n : n = Len(baseline) + 1
  OBVIOUS
<1>3. n \in Nat
  BY <1>0, <1>2
<1> DEFINE Solves(f) == f = [i \in 0..n |-> IF i = 0 THEN << >> ELSE f[i - 1] \o Piece(es, i - 1)]
<1>4. PICK d : d = [i \in 1..n |-> Piece(es, i - 1)]
  OBVIOUS
<1>5. \A i \in 1..n : d[i] = Piece(es, i - 1) /\ d[i] \in Text
  <2>1. \A i \in 1..n : i - 1 \in 0..Len(baseline)
    BY <1>0, <1>2
  <2> QED
    BY <1>1, <1>4, <2>1
<1>6. PICK g \in [0..n -> Text] : g[0] = << >> /\ \A i \in 1..n : g[i] = g[i - 1] \o d[i]
  BY <1>3, <1>5, JoinRun
<1>7. Solves(g)
  <2>1. ASSUME NEW i \in 0..n PROVE g[i] = IF i = 0 THEN << >> ELSE g[i - 1] \o Piece(es, i - 1)
    <3>1. CASE i = 0
      BY <1>6, <3>1
    <3>2. CASE i \in 1..n
      <4>1. g[i] = g[i - 1] \o Piece(es, i - 1)
        BY ONLY <1>5, <1>6, <3>2
      <4>2. i # 0
        BY <3>2
      <4> QED
        BY ONLY <4>1, <4>2
    <3> QED
      BY <1>3, <3>1, <3>2
  <2> QED
    BY <2>1
<1> DEFINE F == CHOOSE f : Solves(f)
<1>8. Solves(F)
  <2> HIDE DEF Solves
  <2> QED
    BY <1>7
<1>9. Pieces(es) = F
  BY <1>2, Zenon DEF Pieces
<1> HIDE DEF F
<1>10. F[0] = << >> /\ \A i \in 1..n : F[i] = F[i - 1] \o Piece(es, i - 1)
  <2>1. F[0] = << >>
    BY <1>3, <1>8
  <2>2. ASSUME NEW i \in 1..n PROVE F[i] = F[i - 1] \o Piece(es, i - 1)
    <3>1. i \in 0..n /\ i # 0
      BY <1>3
    <3>2. F[i] = IF i = 0 THEN << >> ELSE F[i - 1] \o Piece(es, i - 1)
      BY <1>8, <3>1, Zenon
    <3> QED
      BY <3>1, <3>2, Zenon
  <2> QED
    BY <2>1, <2>2
<1> DEFINE G == {i \in 0..n : F[i] = g[i]}
<1>11. \A i \in 0..n : i \in G
  <2>1. 0 \in G
    BY <1>3, <1>6, <1>10
  <2>2. ASSUME NEW i \in 1..n, i - 1 \in G PROVE i \in G
    <3>1. i \in 0..n
      BY <1>3
    <3>2. F[i] = F[i - 1] \o d[i] /\ g[i] = g[i - 1] \o d[i]
      BY <1>5, <1>6, <1>10, Zenon
    <3> QED
      BY <2>2, <3>1, <3>2
  <2> HIDE DEF G
  <2> QED
    BY <1>3, <2>1, <2>2, EveryRound
<1>12. F \in [0..n -> Text]
  <2>1. \A i \in 0..n : F[i] \in Text
    BY <1>6, <1>11
  <2>2. F = [i \in 0..n |-> F[i]]
    BY <1>8
  <2> QED
    BY <2>1, <2>2
<1> QED
  BY <1>1, <1>2, <1>9, <1>10, <1>12

\* Where no edit starts there is the character, or nothing.
LEMMA PlainPiece ==
  ASSUME EditorInv, NEW es \in SUBSET edits, NEW i, \A e \in es : e.start # i
  PROVE  Piece(es, i) = IF i < Len(baseline) /\ ~\E e \in es : e.start <= i /\ i < e.end
                        THEN <<baseline[i + 1]>> ELSE << >>
<1>0. baseline \in Text /\ Len(baseline) \in Nat
  BY EditorAssumption DEF EditorInv, EditorTypeOK, Text
<1>1. PICK none : none = {}
  OBVIOUS
<1>2. {e \in es : e.start = i /\ Insertion(e)} = none /\ {e \in es : e.start = i /\ ~Insertion(e)} = none
  BY <1>1
<1>3. Texts(ordered(none)) = << >>
  BY <1>1, TextsLast
<1>4. PICK last : last = (IF i < Len(baseline) /\ ~\E e \in es : e.start <= i /\ i < e.end
                          THEN <<baseline[i + 1]>> ELSE << >>)
  OBVIOUS
<1>5. Piece(es, i) = (<< >> \o << >>) \o last
  BY <1>2, <1>3, <1>4 DEF Piece
<1>6. last = << >> \/ last = <<baseline[i + 1]>>
  BY <1>4
<1>7. (<< >> \o << >>) \o last = last
  BY <1>6
<1> QED
  BY <1>4, <1>5, <1>7

\* One character.
LEMMA SliceOne ==
  ASSUME NEW t \in Text, NEW i \in 0..Len(t) - 1
  PROVE  Slice(t, i, i + 1) = <<t[i + 1]>> /\ <<t[i + 1]>> \in Text
<1>1. Len(t) \in Nat /\ i + 1 \in 0..Len(t) /\ i \in 0..Len(t) /\ i <= i + 1 /\ t[i + 1] \in Characters
  BY DEF Text
<1>2. PICK s, u, j : s = Slice(t, i, j) /\ u = <<t[i + 1]>> /\ j = i + 1
  OBVIOUS
<1>3. u \in Text /\ Len(u) = 1 /\ u[1] = t[i + 1]
  BY <1>1, <1>2 DEF Text
<1>4. s \in Text /\ Len(s) = j - i /\ \A k \in 1..j - i : s[k] = t[i + k]
  BY <1>1, <1>2, SliceIs
<1>5. j - i = 1
  BY <1>1, <1>2
<1>6. Len(s) = 1 /\ \A k \in 1..1 : s[k] = u[k]
  BY <1>3, <1>4, <1>5
<1>7. s = u
  BY <1>3, <1>4, <1>6, SameText
<1> QED
  BY <1>2, <1>3, <1>7

\* Two sets of edits that agree on the positions so far.
LEMMA SamePieces ==
  ASSUME EditorInv, NEW es \in SUBSET edits, NEW fs \in SUBSET edits, NEW j \in 0..Len(baseline) + 1,
         \A i \in 0..j - 1 : Piece(es, i) = Piece(fs, i)
  PROVE  Pieces(es)[j] = Pieces(fs)[j]
<1>0. Len(baseline) \in Nat
  BY EditorAssumption DEF EditorInv, EditorTypeOK, Text
<1>1. PICK a, b : a = Pieces(es) /\ b = Pieces(fs)
  OBVIOUS
<1>2. a[0] = << >> /\ \A i \in 1..Len(baseline) + 1 : a[i] = a[i - 1] \o Piece(es, i - 1)
  BY <1>1, PiecesIs
<1>3. b[0] = << >> /\ \A i \in 1..Len(baseline) + 1 : b[i] = b[i - 1] \o Piece(fs, i - 1)
  BY <1>1, PiecesIs
<1> DEFINE G == {i \in 0..j : a[i] = b[i]}
<1>4. 0 \in G
  BY <1>0, <1>2, <1>3
<1>5. ASSUME NEW i \in 1..j, i - 1 \in G PROVE i \in G
  <2>1. i \in 1..Len(baseline) + 1 /\ i \in 0..j /\ i - 1 \in 0..j - 1
    BY <1>0
  <2>2. a[i] = a[i - 1] \o Piece(es, i - 1) /\ b[i] = b[i - 1] \o Piece(fs, i - 1) /\ Piece(es, i - 1) = Piece(fs, i - 1)
    BY <1>2, <1>3, <2>1
  <2> QED
    BY <1>5, <2>1, <2>2
<1> HIDE DEF G
<1>6. j \in Nat
  BY <1>0
<1>7. \A i \in 0..j : i \in G
  BY <1>4, <1>5, <1>6, EveryRound
<1> QED
  BY <1>1, <1>6, <1>7 DEF G

\* A stretch that is replaced, and one that is kept to the end.
LEMMA Stretches ==
  ASSUME EditorInv, NEW es \in SUBSET edits, NEW i \in 0..Len(baseline) + 1
  PROVE  /\ \A j \in i..Len(baseline) + 1 : (\A k \in i..j - 1 : Piece(es, k) = << >>) => Pieces(es)[j] = Pieces(es)[i]
         /\ (\A k \in i..Len(baseline) : Piece(es, k) = IF k < Len(baseline) THEN <<baseline[k + 1]>> ELSE << >>)
              => Substituted(es) = Pieces(es)[i] \o Slice(baseline, i, Len(baseline))
<1>0. baseline \in Text /\ Len(baseline) \in Nat
  BY EditorAssumption DEF EditorInv, EditorTypeOK, Text
<1>1. PICK l, a : l = Len(baseline) /\ a = Pieces(es)
  OBVIOUS
<1>2. /\ \A k \in 0..l + 1 : a[k] \in Text
      /\ \A k \in 0..l : a[k + 1] = a[k] \o Piece(es, k)
  <2>1. \A k \in 1..l + 1 : a[k] = a[k - 1] \o Piece(es, k - 1)
    BY <1>1, PiecesIs
  <2>2. ASSUME NEW k \in 0..l PROVE a[k + 1] = a[k] \o Piece(es, k)
    <3>1. PICK j : j = k + 1
      OBVIOUS
    <3>2. j \in 1..l + 1 /\ j - 1 = k
      BY <1>0, <1>1, <3>1
    <3>3. a[j] = a[j - 1] \o Piece(es, j - 1)
      BY <2>1, <3>2
    <3> QED
      BY <3>1, <3>2, <3>3
  <2>3. \A k \in 0..l + 1 : a[k] \in Text
    BY <1>1, PiecesIs
  <2> QED
    BY <2>2, <2>3
<1>3. ASSUME NEW j \in i..l + 1, \A k \in i..j - 1 : Piece(es, k) = << >> PROVE a[j] = a[i]
  <2>1. i \in Nat /\ j \in Nat /\ j - i \in Nat
    BY <1>0, <1>1
  <2> DEFINE G == {k \in 0..j - i : a[i + k] = a[i]}
  <2>2. 0 \in G
    BY <2>1
  <2>3. ASSUME NEW k \in 1..j - i, k - 1 \in G PROVE k \in G
    <3>0. PICK h : h = i + k - 1
      OBVIOUS
    <3>1. h \in 0..l /\ i + (k - 1) = h /\ h + 1 = i + k /\ h \in i..j - 1 /\ h \in 0..l + 1 /\ k \in 0..j - i
      BY <1>0, <1>1, <2>1, <3>0
    <3>2. a[h + 1] = a[h] \o Piece(es, h) /\ Piece(es, h) = << >> /\ a[h] \in Text
      BY <1>2, <1>3, <3>1
    <3>3. a[h + 1] = a[h]
      BY <3>2, Joins
    <3> QED
      BY <2>3, <3>1, <3>3
  <2> HIDE DEF G
  <2>4. \A k \in 0..j - i : k \in G
    BY <2>1, <2>2, <2>3, EveryRound
  <2>5. j - i \in 0..j - i /\ i + (j - i) = j
    BY <2>1
  <2>6. a[i + (j - i)] = a[i]
    BY <2>4, <2>5 DEF G
  <2> QED
    BY <2>5, <2>6
<1>4. ASSUME \A k \in i..l : Piece(es, k) = IF k < l THEN <<baseline[k + 1]>> ELSE << >>
      PROVE  a[l + 1] = a[i] \o Slice(baseline, i, l)
  <2>1. CASE i = l + 1
    <3>1. Slice(baseline, i, l) = << >>
      <4>1. i + 1 \in Int /\ l \in Int /\ l < i + 1
        BY <1>0, <1>1, <2>1
      <4> QED
        BY <4>1, SubSeqEmpty DEF Slice
    <3>2. a[i] \in Text
      BY <1>1, <1>2
    <3> QED
      BY <2>1, <3>1, <3>2, Joins
  <2>2. CASE i \in 0..l
    <3>1. i \in Nat /\ l \in Nat /\ l - i \in Nat /\ a[i] \in Text
      BY <1>0, <1>1, <1>2, <2>2
    <3> DEFINE G == {k \in 0..l - i : a[i + k] = a[i] \o Slice(baseline, i, i + k)}
    <3>2. 0 \in G
      <4>1. i + 0 = i /\ i \in 0..l /\ i <= i
        BY <3>1
      <4>2. Slice(baseline, i, i) = << >>
        BY <1>0, <1>1, <4>1, SliceIs
      <4>3. PICK none : none = Slice(baseline, i, i)
        OBVIOUS
      <4>4. a[i] \o none = a[i]
        BY <3>1, <4>2, <4>3, Joins
      <4>5. a[i + 0] = a[i] \o Slice(baseline, i, i + 0)
        BY <4>1, <4>3, <4>4
      <4> QED
        BY <3>1, <4>5
    <3>3. ASSUME NEW k \in 1..l - i, k - 1 \in G PROVE k \in G
      <4>1. PICK j : j = i + k - 1
        OBVIOUS
      <4>2. /\ i + k = j + 1 /\ i + (k - 1) = j /\ j \in i..l /\ j \in 0..l - 1 /\ j < l /\ j + 1 \in 1..l + 1 /\ j + 1 - 1 = j
            /\ j + 1 \in j..l /\ k \in 0..l - i /\ j \in 0..l
        BY <3>1, <4>1
      <4>3. a[j + 1] = a[j] \o <<baseline[j + 1]>>
        <5>1. Piece(es, j) = <<baseline[j + 1]>>
          BY <1>4, <4>2
        <5>2. a[j + 1] = a[j] \o Piece(es, j)
          BY <1>2, <4>2
        <5> QED
          BY <5>1, <5>2
      <4>4. a[j] = a[i] \o Slice(baseline, i, j)
        BY <3>3, <4>2
      <4>5. PICK x, y : x = Slice(baseline, i, j) /\ y = <<baseline[j + 1]>>
        OBVIOUS
      <4>6. x \in Text /\ y \in Text /\ y = Slice(baseline, j, j + 1)
        BY <1>0, <1>1, <2>2, <4>2, <4>5, SliceIs, SliceOne
      <4>7. x \o y = Slice(baseline, i, j + 1)
        <5>1. PICK z : z = j + 1
          OBVIOUS
        <5>2. i \in 0..Len(baseline) /\ j \in i..Len(baseline) /\ z \in j..Len(baseline)
          BY <1>0, <1>1, <2>2, <4>2, <5>1
        <5>3. Slice(baseline, i, j) \o Slice(baseline, j, z) = Slice(baseline, i, z)
          BY <1>0, <5>2, SliceJoin
        <5> QED
          BY <4>5, <4>6, <5>1, <5>3
      <4>8. (a[i] \o x) \o y = a[i] \o (x \o y)
        <5>1. PICK u : u = a[i]
          OBVIOUS
        <5>2. u \in Text
          BY <3>1, <5>1
        <5>3. x \in Text /\ y \in Text
          BY <4>6
        <5>4. (u \o x) \o y = u \o (x \o y)
          <6>1. Chain(u, x, y)
            BY <5>2, <5>3, JoinAgain
          <6> QED
            BY ONLY <6>1 DEF Chain
        <5> QED
          BY <5>1, <5>4
      <4>9. a[i + k] = a[i] \o Slice(baseline, i, i + k)
        BY <4>2, <4>3, <4>4, <4>5, <4>7, <4>8
      <4> QED
        BY <4>2, <4>9
    <3> HIDE DEF G
    <3>4. \A k \in 0..l - i : k \in G
      BY <3>1, <3>2, <3>3, EveryRound
    <3>5. l - i \in 0..l - i /\ i + (l - i) = l
      BY <3>1
    <3>6. a[i + (l - i)] = a[i] \o Slice(baseline, i, i + (l - i))
      BY <3>4, <3>5 DEF G
    <3>7. a[l] = a[i] \o Slice(baseline, i, l)
      BY <3>5, <3>6
    <3>8. l \in 0..l /\ l \in i..l /\ ~(l < l) /\ l \in 0..l + 1
      BY <2>2, <3>1
    <3>9. a[l + 1] = a[l] \o Piece(es, l) /\ Piece(es, l) = << >> /\ a[l] \in Text
      BY <1>2, <1>4, <3>8
    <3> QED
      BY <3>7, <3>9, Joins
  <2> QED
    BY <1>0, <1>1, <2>1, <2>2
<1> QED
  BY <1>1, <1>3, <1>4 DEF Substituted

\* One more edit behind the others, in the substitution.
LEMMA SubstitutedLast ==
  ASSUME EditorInv, NEW es \in SUBSET edits, NEW m, Follows(es, m)
  PROVE  \E a \in Text : /\ Substituted(es) = a \o Slice(baseline, m.start, Len(baseline))
                         /\ Substituted(es \cup {m}) = (a \o m.text) \o Slice(baseline, m.end, Len(baseline))
<1>0. baseline \in Text /\ Len(baseline) \in Nat
  BY EditorAssumption DEF EditorInv, EditorTypeOK, Text
<1>1. PICK fs, l, i, j : fs = es \cup {m} /\ l = Len(baseline) /\ i = m.start /\ j = m.end
  OBVIOUS
<1>2. fs \in SUBSET edits /\ m \in fs /\ m \in edits
  BY <1>1 DEF Follows
<1>3. i \in 0..l /\ j \in i..l /\ m.text \in Text /\ l \in Nat
  BY <1>0, <1>1, <1>2 DEF EditorInv, EditorTypeOK
<1>4. \A e \in es : e.start \in Int /\ e.end \in Int /\ e.start <= e.end /\ e.end <= i
  <2>1. \A e \in es : e.start \in 0..l /\ e.end \in e.start..l
    BY <1>1 DEF EditorInv, EditorTypeOK
  <2>2. \A e \in es : e.end <= i
    BY <1>1, <1>2, EditsLinear DEF Follows
  <2> QED
    BY <1>3, <2>1, <2>2
<1>5. Insertion(m) <=> i = j
  BY <1>1 DEF Insertion
<1>6. PICK at, none, T : /\ at = {e \in es : e.start = i /\ Insertion(e)} /\ none = {} /\ T = Texts(ordered(at))
  OBVIOUS
<1>7. at \in SUBSET edits /\ none \in SUBSET edits /\ Follows(at, m) /\ Follows(none, m)
  BY <1>6 DEF Follows
<1>8. T \in Text /\ Texts(ordered(none)) = << >> /\ Texts(ordered(at \cup {m})) = T \o m.text
      /\ Texts(ordered(none \cup {m})) = << >> \o m.text
  BY <1>6, <1>7, TextsLast
<1>9. {e \in es : e.start = i /\ ~Insertion(e)} = none
  BY <1>3, <1>4, <1>6 DEF Insertion
<1>10. PICK here : here = (IF i < l THEN <<baseline[i + 1]>> ELSE << >>)
  OBVIOUS
<1>11. here \in Text /\ here \o Slice(baseline, i + 1, l) = Slice(baseline, i, l)
       /\ Slice(baseline, i, l) \in Text /\ Slice(baseline, j, l) \in Text
       /\ Slice(baseline, i + 1, l) \in Text
  <2>1. l \in 0..l /\ i <= l /\ j \in 0..l
    BY <1>3
  <2>2. Slice(baseline, i, l) \in Text /\ Slice(baseline, j, l) \in Text
    BY <1>0, <1>1, <1>3, <2>1, SliceIs
  <2>3. CASE i < l
    <3>1. PICK k : k = i + 1
      OBVIOUS
    <3>2. k \in i..l /\ l \in k..l /\ i \in 0..l - 1 /\ k \in 0..l
      BY <1>3, <2>3, <3>1
    <3>3. here = Slice(baseline, i, k) /\ here \in Text
      BY <1>0, <1>1, <1>10, <2>3, <3>1, <3>2, SliceOne
    <3>4. Slice(baseline, i, k) \o Slice(baseline, k, l) = Slice(baseline, i, l)
      BY <1>0, <1>1, <1>3, <3>2, SliceJoin
    <3>5. Slice(baseline, k, l) \in Text
      BY <1>0, <1>1, <2>1, <3>2, SliceIs
    <3> QED
      BY <2>2, <3>1, <3>3, <3>4, <3>5
  <2>4. CASE i = l
    <3>1. here = << >>
      BY <1>3, <1>10, <2>4
    <3>2. Slice(baseline, i, l) = << >>
      BY <1>0, <1>1, <2>1, <2>4, SliceIs
    <3>3. Slice(baseline, i + 1, l) = << >>
      <4>1. i + 1 + 1 \in Int /\ l \in Int /\ l < i + 1 + 1
        BY <1>3, <2>4
      <4> QED
        BY <4>1, SubSeqEmpty DEF Slice
    <3> QED
      BY <2>2, <3>1, <3>2, <3>3, Joins
  <2> QED
    BY <1>3, <2>3, <2>4
<1>12. PICK P : P = Pieces(es)[i]
  OBVIOUS
<1>13. P \in Text /\ P = Pieces(fs)[i]
  <2>1. i \in 0..Len(baseline) + 1
    BY <1>1, <1>3
  <2>2. P \in Text
    BY <1>12, <2>1, PiecesIs
  <2>3. ASSUME NEW k \in 0..i - 1 PROVE Piece(es, k) = Piece(fs, k)
    <3>1. k \in Int /\ k < i
      BY <1>3
    <3>2. {e \in fs : e.start = k /\ Insertion(e)} = {e \in es : e.start = k /\ Insertion(e)}
      BY <1>1, <1>3, <3>1
    <3>3. {e \in fs : e.start = k /\ ~Insertion(e)} = {e \in es : e.start = k /\ ~Insertion(e)}
      BY <1>1, <1>3, <3>1
    <3>4. (\E e \in fs : e.start <= k /\ k < e.end) <=> (\E e \in es : e.start <= k /\ k < e.end)
      <4>1. ~(m.start <= k)
        BY <1>1, <1>3, <3>1
      <4> QED
        BY <1>1, <4>1
    <3> QED
      BY <3>2, <3>3, <3>4 DEF Piece
  <2> QED
    BY <1>2, <1>12, <2>1, <2>2, <2>3, SamePieces
<1>14. \A gs \in SUBSET edits : Pieces(gs)[i + 1] = Pieces(gs)[i] \o Piece(gs, i)
  <2> SUFFICES ASSUME NEW gs \in SUBSET edits PROVE Pieces(gs)[i + 1] = Pieces(gs)[i] \o Piece(gs, i)
    OBVIOUS
  <2>1. PICK k, f : k = i + 1 /\ f = Pieces(gs)
    OBVIOUS
  <2>2. k \in 1..Len(baseline) + 1 /\ k - 1 = i
    BY <1>1, <1>3, <2>1
  <2>3. f[k] = f[k - 1] \o Piece(gs, k - 1)
    BY <2>1, <2>2, PiecesIs
  <2> QED
    BY <2>1, <2>2, <2>3
<1>15. Pieces(es)[i + 1] = P \o (T \o here)
  <2>1. ~\E e \in es : e.start <= i /\ i < e.end
    BY <1>3, <1>4
  <2>2. Piece(es, i) = (T \o << >>) \o here
    BY <1>1, <1>6, <1>8, <1>9, <1>10, <2>1 DEF Piece
  <2>3. T \o << >> = T
    BY <1>8, Joins
  <2> QED
    BY <1>12, <1>14, <2>2, <2>3
<1>16. Substituted(es) = (P \o T) \o Slice(baseline, i, l)
  <2>1. PICK k, rest : k = i + 1 /\ rest = Slice(baseline, k, l)
    OBVIOUS
  <2>2. k \in 0..l + 1
    BY <1>3, <2>1
  <2>3. ASSUME NEW h \in k..l PROVE Piece(es, h) = IF h < l THEN <<baseline[h + 1]>> ELSE << >>
    <3>1. h \in Int /\ i < h
      BY <1>3, <2>1
    <3>2. (\A e \in es : e.start # h) /\ ~\E e \in es : e.start <= h /\ h < e.end
      BY <1>3, <1>4, <3>1
    <3> QED
      BY <1>1, <3>2, PlainPiece
  <2>4. Substituted(es) = Pieces(es)[k] \o rest
    BY <1>1, <2>1, <2>2, <2>3, Stretches
  <2>5. Substituted(es) = (P \o (T \o here)) \o rest
    BY <1>15, <2>1, <2>4
  <2>6. rest \in Text /\ here \in Text /\ here \o rest = Slice(baseline, i, l)
    BY <1>11, <2>1
  <2>7. P \o (T \o here) = (P \o T) \o here /\ P \o T \in Text
    <3>1. Chain(P, T, here)
      BY <1>8, <1>13, <2>6, JoinAgain
    <3> QED
      BY ONLY <3>1 DEF Chain
  <2>8. ((P \o T) \o here) \o rest = (P \o T) \o (here \o rest)
    <3>1. Chain(P \o T, here, rest)
      BY <2>6, <2>7, JoinAgain
    <3> QED
      BY ONLY <3>1 DEF Chain
  <2> QED
    BY <2>5, <2>6, <2>7, <2>8
<1>17. Substituted(fs) = ((P \o T) \o m.text) \o Slice(baseline, j, l)
  <2>0. P \o T \in Text /\ T \o m.text \in Text /\ P \o (T \o m.text) = (P \o T) \o m.text /\ (P \o T) \o m.text \in Text
    <3>1. P \o T \in Text /\ T \o m.text \in Text
      BY <1>3, <1>8, <1>13, Joins
    <3>2. (P \o T) \o m.text = P \o (T \o m.text)
      <4>1. Chain(P, T, m.text)
        BY <1>3, <1>8, <1>13, JoinAgain
      <4> QED
        BY ONLY <4>1 DEF Chain
    <3> QED
      BY <1>3, <3>1, <3>2, Joins
  <2>1. CASE i = j
    <3>1. {e \in fs : e.start = i /\ Insertion(e)} = at \cup {m}
      BY <1>1, <1>5, <1>6, <2>1
    <3>2. {e \in fs : e.start = i /\ ~Insertion(e)} = none
      BY <1>1, <1>5, <1>9, <2>1
    <3>3. ~\E e \in fs : e.start <= i /\ i < e.end
      BY <1>1, <1>3, <1>4, <2>1
    <3>4. Piece(fs, i) = ((T \o m.text) \o << >>) \o here
      BY <1>1, <1>8, <1>10, <3>1, <3>2, <3>3 DEF Piece
    <3>5. (T \o m.text) \o << >> = T \o m.text
      BY <2>0, Joins
    <3>6. PICK k, rest, u : k = i + 1 /\ rest = Slice(baseline, k, l) /\ u = T \o m.text
      OBVIOUS
    <3>7. Pieces(fs)[k] = P \o (u \o here)
      BY <1>2, <1>13, <1>14, <3>4, <3>5, <3>6
    <3>8. ASSUME NEW h \in k..l PROVE Piece(fs, h) = IF h < l THEN <<baseline[h + 1]>> ELSE << >>
      <4>1. h \in Int /\ i < h
        BY <1>3, <3>6
      <4>2. (\A e \in fs : e.start # h) /\ ~\E e \in fs : e.start <= h /\ h < e.end
        <5>1. ASSUME NEW e \in fs PROVE e.start # h /\ ~(h < e.end)
          <6>1. CASE e = m
            <7>1. e.start = i /\ e.end = i
              BY <1>1, <2>1, <6>1
            <7>2. i # h /\ ~(h < i)
              BY <1>3, <4>1
            <7> QED
              BY <7>1, <7>2
          <6>2. CASE e \in es
            BY <1>3, <1>4, <4>1, <6>2
          <6> QED
            BY <1>1, <6>1, <6>2
        <5> QED
          BY <5>1
      <4> QED
        BY <1>1, <1>2, <4>2, PlainPiece
    <3>9. k \in 0..l + 1
      BY <1>3, <3>6
    <3>10. Substituted(fs) = Pieces(fs)[k] \o rest
      BY <1>1, <1>2, <3>6, <3>8, <3>9, Stretches
    <3>11. rest \in Text /\ here \in Text /\ here \o rest = Slice(baseline, i, l) /\ u \in Text
      BY <1>11, <2>0, <3>6
    <3>12. P \o (u \o here) = (P \o u) \o here /\ P \o u \in Text
      <4>1. Chain(P, u, here)
        BY <1>13, <3>11, JoinAgain
      <4> QED
        BY ONLY <4>1 DEF Chain
    <3>13. ((P \o u) \o here) \o rest = (P \o u) \o (here \o rest)
      <4>1. Chain(P \o u, here, rest)
        BY <3>11, <3>12, JoinAgain
      <4> QED
        BY ONLY <4>1 DEF Chain
    <3> QED
      BY <2>0, <2>1, <3>6, <3>7, <3>10, <3>11, <3>12, <3>13
  <2>2. CASE i < j
    <3>1. {e \in fs : e.start = i /\ Insertion(e)} = at
      BY <1>1, <1>3, <1>5, <1>6, <2>2
    <3>2. {e \in fs : e.start = i /\ ~Insertion(e)} = none \cup {m}
      BY <1>1, <1>3, <1>5, <1>9, <2>2
    <3>3. \E e \in fs : e.start <= i /\ i < e.end
      BY <1>1, <1>2, <1>3, <2>2
    <3>4. Piece(fs, i) = (T \o (<< >> \o m.text)) \o << >>
      BY <1>1, <1>6, <1>8, <3>1, <3>2, <3>3 DEF Piece
    <3>5. << >> \o m.text = m.text /\ (T \o m.text) \o << >> = T \o m.text
      BY <1>3, <2>0, Joins
    <3>6. Pieces(fs)[i + 1] = P \o (T \o m.text)
      BY <1>2, <1>13, <1>14, <3>4, <3>5
    <3>7. ASSUME NEW h \in i + 1..l PROVE Piece(fs, h) = IF h < l /\ ~(h < j) THEN <<baseline[h + 1]>> ELSE << >>
      <4>1. h \in Int /\ i < h
        BY <1>3
      <4>2. (\A e \in fs : e.start # h) /\ ((\E e \in fs : e.start <= h /\ h < e.end) <=> h < j)
        BY <1>1, <1>3, <1>4, <4>1
      <4> QED
        BY <1>1, <1>2, <4>2, PlainPiece
    <3>8. Pieces(fs)[j] = Pieces(fs)[i + 1]
      <4>1. PICK k : k = i + 1
        OBVIOUS
      <4>2. k \in 0..Len(baseline) + 1 /\ j \in k..Len(baseline) + 1
        BY <1>1, <1>3, <2>2, <4>1
      <4>3. \A h \in k..j - 1 : Piece(fs, h) = << >>
        BY <1>3, <3>7, <4>1
      <4> QED
        BY <1>2, <4>1, <4>2, <4>3, Stretches
    <3>9. Substituted(fs) = Pieces(fs)[j] \o Slice(baseline, j, l)
      <4>1. j \in 0..Len(baseline) + 1
        BY <1>1, <1>3
      <4>2. \A h \in j..l : Piece(fs, h) = IF h < l THEN <<baseline[h + 1]>> ELSE << >>
        BY <1>3, <2>2, <3>7
      <4> QED
        BY <1>1, <1>2, <4>1, <4>2, Stretches
    <3> QED
      BY <2>0, <3>6, <3>8, <3>9
  <2>3. i = j \/ i < j
    BY <1>3
  <2> QED
    BY <2>1, <2>2, <2>3
<1>18. P \o T \in Text
  BY <1>8, <1>13, Joins
<1> QED
  BY <1>1, <1>16, <1>17, <1>18

\* Rendering is the substitution, for any part of the edits.
LEMMA ContentIsSubstituted ==
  ASSUME EditorInv, NEW es \in SUBSET edits
  PROVE  content(es) = Substituted(es)
<1>0. baseline \in Text /\ Len(baseline) \in Nat
  BY EditorAssumption DEF EditorInv, EditorTypeOK, Text
<1>1. PICK o, n : o = ordered(es) /\ n = Cardinality(es)
  OBVIOUS
<1>2. n \in Nat /\ o \in [1..n -> es] /\ (\A e \in es : \E k \in 1..n : o[k] = e)
      /\ (\A i, j \in 1..n : i < j => Before(o[i], o[j]))
  BY <1>1, OrderedIs
<1> DEFINE E(k) == {o[i] : i \in 1..k}
           G == {k \in 0..n : content(E(k)) = Substituted(E(k))}
<1>3. 0 \in G
  <2>1. PICK none, l : none = {} /\ l = Len(baseline)
    OBVIOUS
  <2>2. E(0) = none /\ none \in SUBSET edits
    BY <2>1
  <2>3. content(none) = Slice(baseline, 0, l)
    <3>1. PICK c, q : c = Rendering(none) /\ q = ordered(none)
      OBVIOUS
    <3>2. Cardinality(none) = 0
      BY <2>1, FS_EmptySet
    <3>3. Renders(none, 0, q, c)
      BY <2>2, <3>1, <3>2, RenderingIs
    <3>4. content(none) = << >> \o Slice(baseline, 0, l)
      BY <2>1, <3>3 DEF Renders
    <3>5. 0 \in 0..l /\ l \in 0..l
      BY <1>0, <2>1
    <3>6. Slice(baseline, 0, l) \in Text
      BY <1>0, <2>1, <3>5, SliceIs
    <3> QED
      BY <3>4, <3>6, Joins
  <2>4. Substituted(none) = Slice(baseline, 0, l)
    <3>1. 0 \in 0..l + 1 /\ l \in Nat
      BY <1>0, <2>1
    <3>2. ASSUME NEW h \in 0..l PROVE Piece(none, h) = IF h < l THEN <<baseline[h + 1]>> ELSE << >>
      BY <2>1, <2>2, PlainPiece
    <3>3. Substituted(none) = Pieces(none)[0] \o Slice(baseline, 0, l)
      BY <2>1, <2>2, <3>1, <3>2, Stretches
    <3>4. Pieces(none)[0] = << >>
      BY <2>2, PiecesIs
    <3>5. 0 \in 0..l /\ l \in 0..l
      BY <1>0, <2>1
    <3>6. Slice(baseline, 0, l) \in Text
      BY <1>0, <2>1, <3>5, SliceIs
    <3> QED
      BY <3>3, <3>4, <3>6, Joins
  <2> QED
    BY <1>2, <2>2, <2>3, <2>4
<1>4. ASSUME NEW k \in 1..n, k - 1 \in G PROVE k \in G
  <2>1. PICK m, fs : m = o[k] /\ fs = E(k - 1)
    OBVIOUS
  <2>2. E(k) = fs \cup {m}
    <3>1. 1..k = (1..k - 1) \cup {k}
      BY <1>2
    <3> QED
      BY <2>1, <3>1
  <2>3. fs \in SUBSET edits /\ Follows(fs, m)
    <3>1. \A i \in 1..k - 1 : i \in 1..n /\ i < k
      BY <1>2
    <3>2. m \in edits /\ \A i \in 1..k - 1 : o[i] \in edits /\ Before(o[i], m)
      BY <1>2, <2>1, <3>1
    <3> QED
      BY <2>1, <3>2 DEF Follows
  <2>4. content(fs) = Substituted(fs)
    BY <1>4, <2>1
  <2> HIDE DEF E
  <2>5. PICK a \in Text : /\ content(fs) = a \o Slice(baseline, m.start, Len(baseline))
                          /\ content(fs \cup {m}) = (a \o m.text) \o Slice(baseline, m.end, Len(baseline))
    BY <2>3, ContentLast
  <2>6. PICK b \in Text : /\ Substituted(fs) = b \o Slice(baseline, m.start, Len(baseline))
                          /\ Substituted(fs \cup {m}) = (b \o m.text) \o Slice(baseline, m.end, Len(baseline))
    BY <2>3, SubstitutedLast
  <2>7. PICK r : r = Slice(baseline, m.start, Len(baseline))
    OBVIOUS
  <2>8. r \in Text
    <3>1. m.start \in 0..Len(baseline)
      BY <2>3 DEF Follows, EditorInv, EditorTypeOK
    <3>2. Len(baseline) \in 0..Len(baseline)
      BY <1>0
    <3> QED
      BY <1>0, <2>7, <3>1, <3>2, SliceIs
  <2>9. a \o r = b \o r
    BY <2>4, <2>5, <2>6, <2>7
  <2>10. a = b
    BY <2>8, <2>9, Joins
  <2>11. content(E(k)) = Substituted(E(k))
    BY <2>2, <2>5, <2>6, <2>10
  <2>12. k \in 0..n
    BY <1>2
  <2> QED
    BY <2>11, <2>12
<1>5. E(n) = es
  BY <1>2
<1> HIDE DEF G
<1>6. \A k \in 0..n : k \in G
  BY <1>2, <1>3, <1>4, EveryRound
<1>7. n \in G
  BY <1>2, <1>6
<1> QED
  BY <1>5, <1>7 DEF G

\* Nothing added counts below zero.
LEMMA AddedGrows ==
  ASSUME EditorInv, NEW es \in SUBSET edits
  PROVE  Added(es) >= 0
<1>1. PICK more, n, o : more = [e \in es |-> Len(e.text)] /\ n = Cardinality(es) /\ o = ordered(es)
  OBVIOUS
<1>2. \A e \in es : Len(e.text) \in Nat
  BY Joins DEF EditorInv, EditorTypeOK
<1>3. more \in [es -> Int]
  BY <1>1, <1>2
<1>4. PICK f \in [0..n -> Int] : f[0] = 0 /\ (\A k \in 1..n : f[k] = f[k - 1] + more[o[k]]) /\ SumOver(es, more) = f[n]
  <2>1. ASSUME NEW amount \in [es -> Int]
        PROVE  \E f \in [0..n -> Int] : f[0] = 0 /\ (\A k \in 1..n : f[k] = f[k - 1] + amount[o[k]]) /\ SumOver(es, amount) = f[n]
    BY <1>1, SumIs
  <2> QED
    BY <1>3, <2>1
<1>5. n \in Nat /\ o \in [1..n -> es]
  BY <1>1, OrderedIs
<1> DEFINE G == {k \in 0..n : f[k] >= 0}
<1>6. 0 \in G
  BY <1>4, <1>5
<1>7. ASSUME NEW k \in 1..n, k - 1 \in G PROVE k \in G
  <2>1. o[k] \in es /\ k \in 0..n
    BY <1>5
  <2>2. more[o[k]] \in Nat
    BY <1>1, <1>2, <2>1
  <2>3. f[k - 1] \in Int /\ f[k - 1] >= 0 /\ f[k] = f[k - 1] + more[o[k]]
    BY <1>4, <1>7
  <2> QED
    BY <2>1, <2>2, <2>3
<1> HIDE DEF G
<1>8. \A k \in 0..n : k \in G
  BY <1>5, <1>6, <1>7, EveryRound
<1>9. f[n] >= 0
  BY <1>5, <1>8 DEF G
<1> QED
  BY <1>1, <1>4, <1>9 DEF Added

\* Whatever was recorded, the rendered content is the simultaneous substitution
\* of all edits, and contentFits tells its size.
THEOREM RenderingSubstitutes == EditorSpec => []RenderIsSubstitution
<1>1. EditorInv => RenderIsSubstitution
  <2> SUFFICES ASSUME EditorInv PROVE RenderIsSubstitution
    OBVIOUS
  <2>1. edits \in SUBSET edits
    OBVIOUS
  <2>2. content(edits) = Substituted(edits)
    BY <2>1, ContentIsSubstituted
  <2>3. Removed(edits) \in Int /\ Added(edits) \in Int /\ Len(content(edits)) = Len(baseline) - Removed(edits) + Added(edits)
    BY <2>1, LengthIs
  <2>4. Len(baseline) \in Nat /\ MaxBytes \in Nat
    BY EditorAssumption DEF EditorInv, EditorTypeOK, Text
  <2>5. ASSUME NEW limit \in 0..2 * MaxBytes PROVE contentFits(edits, limit) <=> Len(content(edits)) <= limit
    <3>1. limit \in Int
      BY <2>4
    <3>2. Added(edits) >= 0
      BY <2>1, AddedGrows
    <3>3. PICK x, y, z : x = Removed(edits) /\ y = Added(edits) /\ z = Len(baseline)
      OBVIOUS
    <3>4. contentFits(edits, limit) <=> z - x <= limit /\ y <= limit - (z - x)
      BY <3>3 DEF contentFits
    <3> QED
      BY <2>3, <2>4, <3>1, <3>2, <3>3, <3>4
  <2> QED
    BY <2>2, <2>5 DEF RenderIsSubstitution
<1> QED
  BY <1>1, EditorInvariance, PTL

-----------------------------------------------------------------------------
(* Positions.                                                              *)

Begins(t, u) == \E r \in Text : t = u \o r

\* What has been rendered stays in front.
LEMMA ContentBegins ==
  ASSUME EditorInv, NEW es \in SUBSET edits, NEW n, NEW o, NEW c, Renders(es, n, o, c)
  PROVE  \A j \in 0..n : Begins(content(es), c[j].text)
<1>0. baseline \in Text /\ Len(baseline) \in Nat
  BY EditorAssumption DEF EditorInv, EditorTypeOK, Text
<1>1. n \in Nat
  BY DEF Renders
<1>2. \A k \in 0..n : c[k].text \in Text /\ c[k].cursor \in 0..Len(baseline)
  BY DEF Renders
<1>3. ASSUME NEW k \in 1..n
      PROVE  /\ c[k].text = (c[k - 1].text \o Slice(baseline, c[k - 1].cursor, o[k].start)) \o o[k].text
             /\ Slice(baseline, c[k - 1].cursor, o[k].start) \in Text /\ o[k].text \in Text
             /\ o[k].start \in 0..Len(baseline)
  BY DEF Renders
<1> DEFINE Ahead(i) == \A k \in 0..n - i : \E r \in Text : c[i + k].text = c[i].text \o r
<1>4. ASSUME NEW i \in 0..n PROVE Ahead(i)
  <2> DEFINE G == {k \in 0..n - i : \E r \in Text : c[i + k].text = c[i].text \o r}
  <2>0. n - i \in Nat /\ i \in Nat
    BY <1>1
  <2>1. 0 \in G
    <3>1. i + 0 = i /\ 0 \in 0..n - i
      BY <2>0
    <3>2. PICK u : u = c[i].text
      OBVIOUS
    <3>3. u \in Text
      BY <1>2, <3>2
    <3>4. u = u \o << >> /\ << >> \in Text
      BY <3>3, Joins
    <3> QED
      BY <3>1, <3>2, <3>4
  <2>2. ASSUME NEW k \in 1..n - i, k - 1 \in G PROVE k \in G
    <3>1. PICK h : h = i + k
      OBVIOUS
    <3>2. h \in 1..n /\ i + (k - 1) = h - 1 /\ k \in 0..n - i
      BY <1>1, <2>0, <3>1
    <3>3. PICK r \in Text : c[h - 1].text = c[i].text \o r
      BY <2>2, <3>2
    <3>4. PICK u, s, v : u = c[i].text /\ s = Slice(baseline, c[h - 1].cursor, o[h].start) /\ v = o[h].text
      OBVIOUS
    <3>5. u \in Text /\ s \in Text /\ v \in Text
      BY <1>2, <1>3, <3>2, <3>4
    <3>6. c[h].text = ((u \o r) \o s) \o v
      BY <1>3, <3>2, <3>3, <3>4
    <3>7. (u \o r) \o s = u \o (r \o s) /\ r \o s \in Text
      <4>1. r \o s \in Text
        BY <3>3, <3>5, Joins
      <4>2. (u \o r) \o s = u \o (r \o s)
        <5>1. Chain(u, r, s)
          BY <3>3, <3>5, JoinAgain
        <5> QED
          BY ONLY <5>1 DEF Chain
      <4> QED
        BY <4>1, <4>2
    <3>8. (u \o (r \o s)) \o v = u \o ((r \o s) \o v) /\ (r \o s) \o v \in Text
      <4>1. PICK rs : rs = r \o s
        OBVIOUS
      <4>2. rs \in Text
        BY <3>7, <4>1
      <4>3. (u \o rs) \o v = u \o (rs \o v) /\ rs \o v \in Text
        <5>1. rs \o v \in Text
          BY <3>5, <4>2, Joins
        <5>2. (u \o rs) \o v = u \o (rs \o v)
          <6>1. Chain(u, rs, v)
            BY <3>5, <4>2, JoinAgain
          <6> QED
            BY ONLY <6>1 DEF Chain
        <5> QED
          BY <5>1, <5>2
      <4> QED
        BY <4>1, <4>3
    <3>9. \E w \in Text : c[i + k].text = c[i].text \o w
      BY <3>1, <3>4, <3>6, <3>7, <3>8
    <3> QED
      BY <3>2, <3>9
  <2> HIDE DEF G
  <2>3. \A k \in 0..n - i : k \in G
    BY <2>0, <2>1, <2>2, EveryRound
  <2> QED
    BY <2>3 DEF G
<1>5. PICK l, tail : l = Len(baseline) /\ tail = Slice(baseline, c[n].cursor, l)
  OBVIOUS
<1>6. content(es) = c[n].text \o tail /\ tail \in Text
  <2>1. c[n].cursor \in 0..l /\ l \in 0..l
    BY <1>0, <1>1, <1>2, <1>5
  <2> QED
    BY <1>0, <1>5, <2>1, SliceIs DEF Renders
<1>7. ASSUME NEW i \in 0..n PROVE \E r \in Text : content(es) = c[i].text \o r
  <2>1. PICK k : k = n - i
    OBVIOUS
  <2>2. k \in 0..n - i /\ i + k = n
    BY <1>1, <2>1
  <2>3. PICK r \in Text : c[i + k].text = c[i].text \o r
    BY <1>4, <2>2
  <2>4. PICK u : u = c[i].text
    OBVIOUS
  <2>5. u \in Text
    BY <1>2, <2>4
  <2>6. (u \o r) \o tail = u \o (r \o tail) /\ r \o tail \in Text
    <3>1. Chain(u, r, tail)
      BY <1>6, <2>3, <2>5, JoinAgain
    <3> QED
      BY ONLY <3>1 DEF Chain
  <2> QED
    BY <1>6, <2>2, <2>3, <2>4, <2>6
<1> QED
  BY <1>7 DEF Begins

\* What is kept of the baseline follows what has been rendered.
LEMMA ContentKeeps ==
  ASSUME EditorInv, NEW es \in SUBSET edits, NEW n, NEW o, NEW c, Renders(es, n, o, c), NEW j \in 0..n,
         NEW e \in c[j].cursor..Len(baseline), j < n => e <= o[j + 1].start
  PROVE  Begins(content(es), c[j].text \o Slice(baseline, c[j].cursor, e))
<1>0. baseline \in Text /\ Len(baseline) \in Nat
  BY EditorAssumption DEF EditorInv, EditorTypeOK, Text
<1>1. n \in Nat
  BY DEF Renders
<1>2. \A k \in 0..n : c[k].text \in Text /\ c[k].cursor \in 0..Len(baseline)
  BY DEF Renders
<1>3. ASSUME NEW k \in 1..n
      PROVE  /\ c[k].text = (c[k - 1].text \o Slice(baseline, c[k - 1].cursor, o[k].start)) \o o[k].text
             /\ Slice(baseline, c[k - 1].cursor, o[k].start) \in Text /\ o[k].text \in Text
             /\ o[k].start \in 0..Len(baseline)
  BY DEF Renders
<1>5. PICK l, tail : l = Len(baseline) /\ tail = Slice(baseline, c[n].cursor, l)
  OBVIOUS
<1>6. content(es) = c[n].text \o tail /\ tail \in Text
  <2>1. c[n].cursor \in 0..l /\ l \in 0..l
    BY <1>0, <1>1, <1>2, <1>5
  <2> QED
    BY <1>0, <1>5, <2>1, SliceIs DEF Renders
<1>7. ASSUME NEW i \in 0..n PROVE \E r \in Text : content(es) = c[i].text \o r
  <2>1. Begins(content(es), c[i].text)
    BY ContentBegins
  <2> QED
    BY <2>1 DEF Begins
<1>8. \E r \in Text : content(es) = (c[j].text \o Slice(baseline, c[j].cursor, e)) \o r
  <2>1. PICK u, i, kept : u = c[j].text /\ i = c[j].cursor /\ kept = Slice(baseline, i, e)
    OBVIOUS
  <2>2. u \in Text /\ i \in 0..l /\ e \in i..l /\ e \in 0..l
    BY <1>0, <1>2, <1>5, <2>1
  <2>3. kept \in Text
    BY <1>0, <1>5, <2>1, <2>2, SliceIs
  <2>4. ASSUME NEW f \in e..l
        PROVE  /\ Slice(baseline, i, f) = kept \o Slice(baseline, e, f) /\ Slice(baseline, e, f) \in Text
               /\ u \o Slice(baseline, i, f) = (u \o kept) \o Slice(baseline, e, f) /\ u \o kept \in Text
    <3>1. f \in 0..l
      BY <1>0, <1>5, <2>2
    <3>2. Slice(baseline, e, f) \in Text
      BY <1>0, <1>5, <2>2, <3>1, SliceIs
    <3>3. Slice(baseline, i, f) = kept \o Slice(baseline, e, f)
      BY <1>0, <1>5, <2>1, <2>2, SliceJoin
    <3>4. u \o (kept \o Slice(baseline, e, f)) = (u \o kept) \o Slice(baseline, e, f) /\ u \o kept \in Text
      <4>1. Chain(u, kept, Slice(baseline, e, f))
        BY <2>2, <2>3, <3>2, JoinAgain
      <4> QED
        BY ONLY <4>1 DEF Chain
    <3> QED
      BY <3>2, <3>3, <3>4
  <2>5. CASE j = n
    <3>1. l \in e..l
      BY <1>0, <1>5, <2>2
    <3>2. content(es) = u \o Slice(baseline, i, l)
      BY <1>5, <1>6, <2>1, <2>5
    <3> QED
      BY <2>1, <2>4, <3>1, <3>2
  <2>6. CASE j < n
    <3>1. PICK k, f : k = j + 1 /\ f = o[k].start
      OBVIOUS
    <3>2. k \in 1..n /\ k \in 0..n /\ k - 1 = j
      BY <1>1, <2>6, <3>1
    <3>3. f \in e..l
      <4>1. f \in 0..l
        BY <1>3, <1>5, <3>1, <3>2
      <4>2. e <= f
        BY <2>6, <3>1
      <4>3. l \in Nat
        BY <1>0, <1>5
      <4> QED
        BY <2>2, <4>1, <4>2, <4>3
    <3>4. PICK v, rest : v = o[k].text /\ rest = Slice(baseline, e, f)
      OBVIOUS
    <3>5. c[k].text = ((u \o kept) \o rest) \o v /\ v \in Text /\ rest \in Text /\ u \o kept \in Text
      <4>1. c[k].text = (u \o Slice(baseline, i, f)) \o v /\ v \in Text
        BY <1>3, <2>1, <3>1, <3>2, <3>4
      <4>2. u \o Slice(baseline, i, f) = (u \o kept) \o rest /\ rest \in Text /\ u \o kept \in Text
        BY <2>4, <3>3, <3>4
      <4> QED
        BY ONLY <4>1, <4>2
    <3>6. PICK r \in Text : content(es) = c[k].text \o r
      BY <1>7, <3>2
    <3>7. PICK a : a = u \o kept
      OBVIOUS
    <3>8. (a \o rest) \o v = a \o (rest \o v) /\ rest \o v \in Text
      <4>1. Chain(a, rest, v)
        BY <3>5, <3>7, JoinAgain
      <4> QED
        BY ONLY <4>1 DEF Chain
    <3>9. (a \o (rest \o v)) \o r = a \o ((rest \o v) \o r) /\ (rest \o v) \o r \in Text
      <4>1. Chain(a, rest \o v, r)
        BY <3>5, <3>6, <3>7, <3>8, JoinAgain
      <4> QED
        BY ONLY <4>1 DEF Chain
    <3> QED
      BY <2>1, <3>5, <3>6, <3>7, <3>8, <3>9
  <2>7. j = n \/ j < n
    BY <1>1
  <2> QED
    BY <2>5, <2>6, <2>7
<1> QED
  BY <1>8 DEF Begins

\* The projected span of an edit holds its text.
LEMMA ProjectedHolds ==
  ASSUME EditorInv, NEW p, p = projected(edits), NEW k \in DOMAIN p
  PROVE  /\ Slice(content(edits), p[k].start, p[k].end) = p[k].edit.text
         /\ p[k].start \in Nat /\ p[k].end = p[k].start + Len(p[k].edit.text) /\ p[k].end <= Len(content(edits))
<1>1. PICK n, o, c : n = Cardinality(edits) /\ o = ordered(edits) /\ c = Rendering(edits)
  OBVIOUS
<1>2. Renders(edits, n, o, c)
  BY <1>1, RenderingIs
<1>3. /\ k \in 1..n /\ p[k].edit = o[k] /\ p[k].end = Len(c[k].text)
      /\ p[k].start = Len(c[k - 1].text) + o[k].start - c[k - 1].cursor
  <2>1. PICK es : es = edits
    OBVIOUS
  <2>2. es \in SUBSET edits
    BY <2>1
  <2>3. Projects(Cardinality(es), ordered(es), Rendering(es), projected(es))
    BY <2>2, ProjectionIs
  <2>4. Projects(n, o, c, p)
    BY <1>1, <2>1, <2>3
  <2> QED
    BY <2>4 DEF Projects
<1>4. PICK u, s, v : u = c[k - 1].text /\ s = Slice(baseline, c[k - 1].cursor, o[k].start) /\ v = o[k].text
  OBVIOUS
<1>5. k - 1 \in 0..n /\ k \in 0..n /\ n \in Nat
  BY <1>2, <1>3 DEF Renders
<1>6. u \in Text /\ s \in Text /\ v \in Text /\ c[k].text = (u \o s) \o v
  BY <1>2, <1>3, <1>4, <1>5 DEF Renders
<1>7. Len(u \o s) = p[k].start
  BY <1>2, <1>3, <1>4 DEF Renders
<1>8. PICK r \in Text : content(edits) = ((u \o s) \o v) \o r
  <2>1. PICK es : es = edits
    OBVIOUS
  <2>2. es \in SUBSET edits /\ Renders(es, n, o, c)
    BY <1>2, <2>1
  <2>3. \A j \in 0..n : Begins(content(es), c[j].text)
    BY <2>2, ContentBegins
  <2> QED
    BY <1>5, <1>6, <2>1, <2>3 DEF Begins
<1>9. PICK a : a = u \o s
  OBVIOUS
<1>10. a \in Text /\ a \o v \in Text /\ Len(a \o v) = Len(a) + Len(v) /\ Len(a) \in Nat /\ Len(v) \in Nat /\ Len(r) \in Nat
  BY <1>6, <1>8, <1>9, Joins
<1>11. Len((a \o v) \o r) = Len(a \o v) + Len(r)
  BY <1>8, <1>10, Joins
<1>12. Slice((a \o v) \o r, Len(a), Len(a) + Len(v)) = v
  BY <1>6, <1>8, <1>10, SliceBetween
<1>13. p[k].end = Len(a) + Len(v) /\ p[k].start = Len(a)
  BY <1>3, <1>6, <1>7, <1>9, <1>10
<1>14. content(edits) = (a \o v) \o r /\ p[k].edit.text = v
  BY <1>3, <1>4, <1>8, <1>9
<1>15. p[k].start \in Nat /\ p[k].end = p[k].start + Len(v) /\ p[k].end <= Len(content(edits))
  BY <1>10, <1>11, <1>13, <1>14
<1> QED
  BY <1>12, <1>13, <1>14, <1>15

\* The edits before a line from s to e are the first j ones.
FirstBefore(s, e, n, o, c, j) ==
  /\ {f \in edits : Shifts(f, s, TRUE)} = {o[i] : i \in 1..j}
  /\ {f \in edits : Shifts(f, e, FALSE)} = {o[i] : i \in 1..j}
  /\ c[j].cursor <= s /\ (j < n => e <= o[j + 1].start)

\* The edits before an untouched line are the first ones in order.
LEMMA BeforeLine ==
  ASSUME EditorInv, NEW s \in 0..Len(baseline), NEW e \in s + 1..Len(baseline), unbroken(s, e),
         NEW n, NEW o, NEW c, Renders(edits, n, o, c), n = Cardinality(edits), o = ordered(edits)
  PROVE  \E j \in 0..n : FirstBefore(s, e, n, o, c, j)
<1>0. Len(baseline) \in Nat
  BY EditorAssumption DEF EditorInv, EditorTypeOK, Text
<1>1. s \in Int /\ e \in Int /\ s < e
  BY <1>0
<1>2. PICK D : D = {f \in edits : Shifts(f, s, TRUE)}
  OBVIOUS
<1>3. ASSUME NEW f \in edits
      PROVE  /\ Shifts(f, s, TRUE) <=> Shifts(f, e, FALSE)
             /\ f \in D => f.end <= s
             /\ f \notin D => e <= f.start
             /\ f.start \in Int /\ f.end \in Int /\ f.start <= f.end
  <2>1. f.start \in Int /\ f.end \in Int /\ f.start <= f.end
    BY <1>0 DEF EditorInv, EditorTypeOK
  <2>2. IF Insertion(f) THEN f.start <= s \/ f.start >= e ELSE f.start >= e \/ f.end <= s
    BY DEF unbroken
  <2>3. Shifts(f, s, TRUE) <=> IF Insertion(f) THEN f.start < s \/ f.start = s ELSE f.end <= s
    BY DEF Shifts
  <2>4. Shifts(f, e, FALSE) <=> IF Insertion(f) THEN f.start < e ELSE f.end <= e
    BY DEF Shifts
  <2>5. f \in D <=> Shifts(f, s, TRUE)
    BY <1>2
  <2>6. Insertion(f) <=> f.start = f.end
    BY DEF Insertion
  <2>7. PICK x, y : x = f.start /\ y = f.end
    OBVIOUS
  <2>8. x \in Int /\ y \in Int /\ x <= y
    BY <2>1, <2>7
  <2>9. CASE Insertion(f)
    <3>1. x = y /\ (x <= s \/ x >= e) /\ (f \in D <=> x < s \/ x = s) /\ (Shifts(f, e, FALSE) <=> x < e)
      BY <2>2, <2>3, <2>4, <2>5, <2>6, <2>7, <2>9
    <3>2. (f \in D <=> x < e) /\ (f \in D => y <= s) /\ (f \notin D => e <= x)
      BY <1>1, <2>8, <3>1
    <3> QED
      BY <2>1, <2>5, <2>7, <3>1, <3>2
  <2>10. CASE ~Insertion(f)
    <3>1. x # y /\ (x >= e \/ y <= s) /\ (f \in D <=> y <= s) /\ (Shifts(f, e, FALSE) <=> y <= e)
      BY <2>2, <2>3, <2>4, <2>5, <2>6, <2>7, <2>10
    <3>2. (f \in D <=> y <= e) /\ (f \in D => y <= s) /\ (f \notin D => e <= x)
      BY <1>1, <2>8, <3>1
    <3> QED
      BY <2>1, <2>5, <2>7, <3>1, <3>2
  <2> QED
    BY <2>9, <2>10
<1>4. n \in Nat /\ o \in [1..n -> edits] /\ (\A i, k \in 1..n : i < k => o[i].end <= o[k].start)
  BY DEF Renders
<1>5. \A f \in edits : \E k \in 1..n : o[k] = f
  <2>1. PICK es : es = edits
    OBVIOUS
  <2>2. \A f \in es : \E k \in 1..Cardinality(es) : ordered(es)[k] = f
    BY <2>1, OrderedIs
  <2> QED
    BY <2>1, <2>2
<1>6. PICK S : S = {k \in 1..n + 1 : k = n + 1 \/ o[k] \notin D}
  OBVIOUS
<1>7. S \in SUBSET Nat /\ n + 1 \in S
  BY <1>4, <1>6
<1>8. PICK k0 \in S : \A k \in S : k0 <= k
  BY <1>7, LeastIs
<1>9. PICK j : j = k0 - 1
  OBVIOUS
<1>10. j \in 0..n /\ k0 = j + 1 /\ k0 \in 1..n + 1
  BY <1>4, <1>6, <1>8, <1>9
<1>11. ASSUME NEW i \in 1..j PROVE i \in 1..n /\ o[i] \in D
  <2>1. i \in 1..n /\ i \in 1..n + 1 /\ ~(k0 <= i)
    BY <1>4, <1>10
  <2>2. i \notin S
    BY <1>8, <2>1
  <2> QED
    BY <1>6, <2>1, <2>2
<1>12. j < n => e <= o[j + 1].start
  <2> SUFFICES ASSUME j < n PROVE e <= o[j + 1].start
    OBVIOUS
  <2>1. j + 1 \in 1..n /\ j + 1 # n + 1
    BY <1>4, <1>10
  <2>2. o[j + 1] \notin D /\ o[j + 1] \in edits
    BY <1>4, <1>6, <1>8, <1>10, <2>1
  <2> QED
    BY <1>3, <2>2
<1>13. ASSUME NEW i \in 1..n, o[i] \in D PROVE i \in 1..j
  <2> SUFFICES ASSUME ~(i <= j) PROVE FALSE
    BY <1>4, <1>10
  <2>1. j < n /\ j + 1 \in 1..n /\ (i = j + 1 \/ j + 1 < i)
    BY <1>4, <1>10
  <2>2. o[i] \in edits /\ o[j + 1] \in edits
    BY <1>4, <2>1
  <2>3. /\ o[i].end <= s /\ o[i].start <= o[i].end /\ o[i].start \in Int /\ o[i].end \in Int
        /\ o[j + 1].start <= o[j + 1].end /\ o[j + 1].start \in Int /\ o[j + 1].end \in Int
    BY <1>3, <1>13, <2>2
  <2>4. CASE i = j + 1
    BY <1>1, <1>12, <2>1, <2>3, <2>4
  <2>5. CASE j + 1 < i
    <3>1. o[j + 1].end <= o[i].start
      BY <1>4, <2>1, <2>5
    <3>2. e <= o[j + 1].start
      BY <1>12, <2>1
    <3> QED
      BY <1>1, <2>3, <3>1, <3>2
  <2> QED
    BY <2>1, <2>4, <2>5
<1>14. D = {o[i] : i \in 1..j}
  <2>1. ASSUME NEW f \in D PROVE \E i \in 1..j : f = o[i]
    <3>1. f \in edits
      BY <1>2
    <3>2. PICK i \in 1..n : o[i] = f
      BY <1>5, <3>1
    <3>3. i \in 1..j
      BY <1>13, <3>2
    <3> QED
      BY <3>2, <3>3
  <2> QED
    BY <1>11, <2>1
<1>15. {f \in edits : Shifts(f, e, FALSE)} = D
  BY <1>2, <1>3
<1>16. c[j].cursor <= s
  <2>1. CASE j = 0
    <3>1. c[0].cursor = 0
      BY DEF Renders
    <3> QED
      BY <2>1, <3>1
  <2>2. CASE j # 0
    <3>1. j \in 1..j /\ j \in 1..n
      BY <1>4, <1>10, <2>2
    <3>2. c[j].cursor = o[j].end
      BY <3>1 DEF Renders
    <3>3. o[j] \in D /\ o[j] \in edits
      BY <1>4, <1>11, <3>1
    <3> QED
      BY <1>3, <3>2, <3>3
  <2> QED
    BY <2>1, <2>2
<1> QED
  BY <1>2, <1>10, <1>12, <1>14, <1>15, <1>16 DEF FirstBefore

Net(es) == SumOver(es, [f \in es |-> Len(f.text) - (f.end - f.start)])

\* How far edits shift what follows them.
LEMMA NetIs ==
  ASSUME EditorInv, NEW es \in SUBSET edits
  PROVE  Net(es) = Len(Rendering(es)[Cardinality(es)].text) - Rendering(es)[Cardinality(es)].cursor
<1>1. PICK n, c : n = Cardinality(es) /\ c = Rendering(es)
  OBVIOUS
<1>2. SumOver(es, [f \in es |-> Len(f.text) - (f.end - f.start)]) = Len(c[n].text) - c[n].cursor
  BY <1>1, LengthIs
<1> QED
  BY <1>1, <1>2 DEF Net

\* How far the first edits shift what follows them.
LEMMA FirstShift ==
  ASSUME EditorInv, NEW n, NEW o, NEW c, Renders(edits, n, o, c), n = Cardinality(edits), o = ordered(edits),
         NEW j \in 0..n, NEW D, D = {o[i] : i \in 1..j}
  PROVE  Net(D) = Len(c[j].text) - c[j].cursor
<1>1. D \in SUBSET edits /\ Cardinality(D) = j /\ ordered(D) = [i \in 1..j |-> o[i]]
  <2>1. PICK es : es = edits
    OBVIOUS
  <2>2. es \in SUBSET edits /\ j \in 0..Cardinality(es) /\ D = {ordered(es)[i] : i \in 1..j}
    BY <2>1
  <2>3. D \in SUBSET es /\ Cardinality(D) = j /\ ordered(D) = [i \in 1..j |-> ordered(es)[i]]
    BY <2>2, OrderedFirst
  <2> QED
    BY <2>1, <2>3
<1>2. PICK d, q : d = Rendering(D) /\ q = ordered(D)
  OBVIOUS
<1>3. Renders(D, j, q, d)
  BY <1>1, <1>2, RenderingIs
<1>4. n \in Nat /\ j \in Nat
  BY DEF Renders
<1> DEFINE G == {k \in 0..j : d[k].text = c[k].text /\ d[k].cursor = c[k].cursor}
<1>5. 0 \in G
  BY <1>3, <1>4 DEF Renders
<1>6. ASSUME NEW k \in 1..j, k - 1 \in G PROVE k \in G
  <2>1. k \in 1..n /\ k \in 0..j /\ q[k] = o[k]
    BY <1>1, <1>2, <1>4
  <2>2. c[k].text = (c[k - 1].text \o Slice(baseline, c[k - 1].cursor, o[k].start)) \o o[k].text /\ c[k].cursor = o[k].end
    BY <2>1 DEF Renders
  <2>3. d[k].text = (d[k - 1].text \o Slice(baseline, d[k - 1].cursor, q[k].start)) \o q[k].text /\ d[k].cursor = q[k].end
    BY <1>3, <2>1 DEF Renders
  <2>4. d[k].text = c[k].text /\ d[k].cursor = c[k].cursor
    BY <1>6, <2>1, <2>2, <2>3
  <2> QED
    BY <2>1, <2>4
<1> HIDE DEF G
<1>7. \A k \in 0..j : k \in G
  BY <1>4, <1>5, <1>6, EveryRound
<1>8. d[j].text = c[j].text /\ d[j].cursor = c[j].cursor
  BY <1>4, <1>7 DEF G
<1>10. Net(D) = Len(Rendering(D)[Cardinality(D)].text) - Rendering(D)[Cardinality(D)].cursor
  BY <1>1, NetIs
<1> QED
  BY <1>1, <1>2, <1>8, <1>10

\* An untouched line is where its boundaries are.
LEMMA BoundaryIs ==
  ASSUME EditorInv, NEW s \in 0..Len(baseline), NEW e \in s + 1..Len(baseline), unbroken(s, e)
  PROVE  Slice(content(edits), renderedBoundary(s, TRUE), renderedBoundary(e, FALSE)) = Slice(baseline, s, e)
<1>0. baseline \in Text /\ Len(baseline) \in Nat
  BY EditorAssumption DEF EditorInv, EditorTypeOK, Text
<1>1. PICK n, o, c, es : n = Cardinality(edits) /\ o = ordered(edits) /\ c = Rendering(edits) /\ es = edits
  OBVIOUS
<1>2. Renders(es, n, o, c) /\ Renders(edits, n, o, c) /\ es \in SUBSET edits
  BY <1>1, RenderingIs
<1>3. PICK j \in 0..n : /\ {f \in edits : Shifts(f, s, TRUE)} = {o[i] : i \in 1..j}
                        /\ {f \in edits : Shifts(f, e, FALSE)} = {o[i] : i \in 1..j}
                        /\ c[j].cursor <= s /\ (j < n => e <= o[j + 1].start)
  <2>1. \E j \in 0..n : FirstBefore(s, e, n, o, c, j)
    BY <1>1, <1>2, BeforeLine
  <2> QED
    BY <2>1 DEF FirstBefore
<1>4. PICK D : D = {o[i] : i \in 1..j}
  OBVIOUS
<1>5. PICK u, i, a, line, all : /\ u = c[j].text /\ i = c[j].cursor /\ a = u \o Slice(baseline, i, s)
                                /\ line = Slice(baseline, s, e) /\ all = content(es)
  OBVIOUS
<1>6. Net(D) = Len(u) - i
  BY <1>1, <1>2, <1>3, <1>4, <1>5, FirstShift
<1>7. renderedBoundary(s, TRUE) = s + (Len(u) - i) /\ renderedBoundary(e, FALSE) = e + (Len(u) - i)
  BY <1>3, <1>4, <1>6 DEF renderedBoundary, Net
<1>8. u \in Text /\ i \in 0..Len(baseline) /\ i <= s
  BY <1>2, <1>3, <1>5 DEF Renders
<1>9. s \in i..Len(baseline) /\ e \in s..Len(baseline) /\ e \in i..Len(baseline) /\ e \in 0..Len(baseline) /\ s <= e
  BY <1>0, <1>8
<1>10. /\ Slice(baseline, i, s) \in Text /\ Len(Slice(baseline, i, s)) = s - i
       /\ line \in Text /\ Len(line) = e - s
  BY <1>0, <1>5, <1>8, <1>9, SliceIs
<1>11. a \in Text /\ Len(a) = Len(u) + (s - i) /\ Len(u) \in Nat
  <2>1. PICK v : v = Slice(baseline, i, s)
    OBVIOUS
  <2>2. v \in Text /\ Len(v) = s - i /\ a = u \o v
    BY <1>5, <1>10, <2>1
  <2>3. u \o v \in Text /\ Len(u \o v) = Len(u) + Len(v) /\ Len(u) \in Nat
    BY <1>8, <2>2, Joins
  <2> QED
    BY <2>2, <2>3
<1>12. u \o Slice(baseline, i, e) = a \o line
  <2>1. Slice(baseline, i, s) \o line = Slice(baseline, i, e)
    BY <1>0, <1>5, <1>8, <1>9, SliceJoin
  <2>2. PICK v : v = Slice(baseline, i, s)
    OBVIOUS
  <2>3. v \in Text
    BY <1>10, <2>2
  <2>4. (u \o v) \o line = u \o (v \o line)
    <3>1. Chain(u, v, line)
      BY <1>8, <1>10, <2>3, JoinAgain
    <3> QED
      BY ONLY <3>1 DEF Chain
  <2> QED
    BY <1>5, <2>1, <2>2, <2>4
<1>13. Begins(all, u \o Slice(baseline, i, e))
  <2>1. e \in c[j].cursor..Len(baseline) /\ (j < n => e <= o[j + 1].start)
    BY <1>3, <1>5, <1>9
  <2>2. Begins(content(es), c[j].text \o Slice(baseline, c[j].cursor, e))
    BY <1>2, <2>1, ContentKeeps
  <2> QED
    BY <1>5, <2>2
<1>14. PICK r \in Text : all = (a \o line) \o r
  BY <1>12, <1>13 DEF Begins
<1>15. Slice((a \o line) \o r, Len(a), Len(a) + Len(line)) = line
  BY <1>10, <1>11, <1>14, SliceBetween
<1>16. s + (Len(u) - i) = Len(a) /\ e + (Len(u) - i) = Len(a) + Len(line)
  BY <1>8, <1>9, <1>10, <1>11
<1> QED
  BY <1>1, <1>5, <1>7, <1>14, <1>15, <1>16

\* References mean their lines.
LEMMA RowsAreTruthful ==
  ASSUME EditorInv
  PROVE  RowsTruthful
<1>0. baseline \in Text /\ Len(baseline) \in Nat
  BY EditorAssumption DEF EditorInv, EditorTypeOK, Text
<1>1. ASSUME NEW s \in LineStarts(baseline)
      PROVE  resolveRow([line |-> RowOf(baseline, s), hash |-> HashAt(baseline, s)]) = {s}
  <2>1. PICK ref : ref = [line |-> RowOf(baseline, s), hash |-> HashAt(baseline, s)]
    OBVIOUS
  <2>2. ref.line = RowOf(baseline, s) /\ ref.hash = HashAt(baseline, s)
    BY <2>1
  <2>3. s \in Hinted(baseline, ref)
    BY <2>2 DEF Hinted, Matching
  <2>4. ASSUME NEW u \in Hinted(baseline, ref) PROVE u = s
    <3>1. u \in LineStarts(baseline) /\ RowOf(baseline, u) = RowOf(baseline, s)
      BY <2>2, <2>4 DEF Hinted, Matching
    <3> QED
      BY <1>0, <3>1, RowsGrow
  <2>5. Hinted(baseline, ref) = {s}
    BY <2>3, <2>4
  <2>6. resolveRow(ref) = {s}
    BY <2>5 DEF resolveRow, baselineRow
  <2> QED
    BY <2>1, <2>6
<1>2. ASSUME NEW ref \in References, NEW s \in resolveRow(ref), s \notin baselineRow(ref)
      PROVE  \E q \in LineStarts(content(edits)) :
               RowOf(content(edits), q) = ref.line /\ LineText(content(edits), q) = LineText(baseline, s)
  <2>1. ~(baselineRow(ref) # {} \/ edits = {})
    BY <1>2 DEF resolveRow
  <2>2. PICK t : t = content(edits)
    OBVIOUS
  <2>3. s \in {v \in Matching(baseline, ref) :
                  /\ unbroken(v, FullEnd(baseline, v))
                  /\ \E q \in Hinted(t, ref) : SameSpan(v, q, t)}
    BY <1>2, <2>1, <2>2 DEF resolveRow, OnlyOne
  <2>4. PICK q \in Hinted(t, ref) : SameSpan(s, q, t)
    BY <2>3
  <2>5. q \in LineStarts(t) /\ RowOf(t, q) = ref.line
    BY <2>4 DEF Hinted, Matching
  <2>6. s \in LineStarts(baseline) /\ unbroken(s, FullEnd(baseline, s))
    BY <2>3 DEF Matching
  <2>7. PICK e : e = FullEnd(baseline, s)
    OBVIOUS
  <2>8. s \in 0..Len(baseline) /\ e \in s + 1..Len(baseline) /\ unbroken(s, e)
    BY <1>0, <2>6, <2>7, LineEnds
  <2>9. Slice(content(edits), renderedBoundary(s, TRUE), renderedBoundary(e, FALSE)) = Slice(baseline, s, e)
    BY <2>8, BoundaryIs
  <2>10. renderedBoundary(s, TRUE) = q /\ renderedBoundary(e, FALSE) = FullEnd(t, q)
    BY <2>4, <2>7 DEF SameSpan
  <2>11. Slice(t, q, FullEnd(t, q)) = Slice(baseline, s, FullEnd(baseline, s))
    BY <2>2, <2>7, <2>9, <2>10
  <2>12. LineText(t, q) = LineText(baseline, s)
    BY <2>11 DEF LineText
  <2> QED
    BY <2>2, <2>5, <2>12
<1> QED
  BY <1>1, <1>2 DEF RowsTruthful

\* Whatever was recorded, the projected spans hold the replacements, untouched
\* lines are found to the byte, and references keep their meaning.
THEOREM PositionsHold == EditorSpec => []PositionsTruthful
<1>1. EditorInv => PositionsTruthful
  <2> SUFFICES ASSUME EditorInv PROVE PositionsTruthful
    OBVIOUS
  <2>0. baseline \in Text
    BY EditorAssumption DEF EditorInv, EditorTypeOK
  <2>1. PICK p : p = projected(edits)
    OBVIOUS
  <2>2. \A k \in DOMAIN p : Slice(content(edits), p[k].start, p[k].end) = p[k].edit.text
    BY <2>1, ProjectedHolds
  <2>3. ASSUME NEW s \in LineStarts(baseline), NEW e, e = FullEnd(baseline, s), unbroken(s, e)
        PROVE  Slice(content(edits), renderedBoundary(s, TRUE), renderedBoundary(e, FALSE)) = Slice(baseline, s, e)
    <3>1. s \in 0..Len(baseline) /\ e \in s + 1..Len(baseline)
      BY <2>0, <2>3, LineEnds
    <3> QED
      BY <2>3, <3>1, BoundaryIs
  <2>4. PositionsSurvive
    BY <2>1, <2>2, <2>3 DEF PositionsSurvive
  <2>5. RowsTruthful
    BY RowsAreTruthful
  <2> QED
    BY <2>4, <2>5 DEF PositionsTruthful
<1> QED
  BY <1>1, EditorInvariance, PTL

-----------------------------------------------------------------------------
(* Blame.                                                                  *)

\* The executed commands are finitely many.
LEMMA ExecutedFinite ==
  ASSUME EditorInv
  PROVE  IsFiniteSet(Executed) /\ Cardinality(Executed) \in Nat /\ Executed \subseteq 1..count /\ count \in Nat
<1>1. PICK S, T, f : S = edits /\ T = Executed /\ f = [e \in edits |-> e.command]
  OBVIOUS
<1>2. f \in [S -> T] /\ \A c \in T : \E e \in S : f[e] = c
  BY <1>1 DEF Executed
<1>3. f \in Surjection(S, T)
  BY <1>2, Fun_IsSurj
<1>4. IsFiniteSet(S)
  BY <1>1 DEF EditorInv, EditsRegular
<1>5. IsFiniteSet(T)
  BY <1>3, <1>4, FS_Surjection
<1>6. Executed \subseteq 1..count /\ count \in Nat
  BY EditorAssumption DEF Executed, EditorInv, EditorTypeOK
<1> QED
  BY <1>1, <1>5, <1>6, FS_CardinalityType

\* Every executed command has a distance to a failure.
LEMMA DistancesAre ==
  ASSUME EditorInv, NEW offset \in Nat, NEW c \in Executed
  PROVE  Distances(projected(edits), offset)[c] \in Nat
<1>1. PICK p : p = projected(edits)
  OBVIOUS
<1> DEFINE d(k) == Larger(Larger(p[k].start - offset, offset - p[k].end), 0)
           mine == {j \in DOMAIN p : p[j].edit.command = c}
           S == {d(k) : k \in mine}
<1>2. ASSUME NEW k \in DOMAIN p PROVE d(k) \in Nat
  <2>1. p[k].start \in Nat /\ p[k].end = p[k].start + Len(p[k].edit.text) /\ Len(p[k].edit.text) \in Nat
    <3>1. PICK n, o, q : n = Cardinality(edits) /\ o = ordered(edits) /\ q = edits
      OBVIOUS
    <3>2. Projects(Cardinality(q), ordered(q), Rendering(q), projected(q)) /\ Renders(q, Cardinality(q), ordered(q), Rendering(q))
      BY <3>1, ProjectionIs, RenderingIs
    <3>3. k \in 1..n /\ p[k].edit = o[k] /\ o[k].text \in Text
      BY <1>1, <3>1, <3>2 DEF Projects, Renders
    <3> QED
      BY <1>1, <3>3, ProjectedHolds, Joins
  <2> QED
    BY <2>1 DEF Larger
<1>3. mine # {}
  <2>1. PICK e \in edits : e.command = c
    BY DEF Executed
  <2>2. PICK q : q = edits
    OBVIOUS
  <2>3. PICK k \in 1..Cardinality(q) : ordered(q)[k] = e
    BY <2>1, <2>2, OrderedIs
  <2>4. Projects(Cardinality(q), ordered(q), Rendering(q), projected(q))
    BY <2>2, ProjectionIs
  <2>5. k \in DOMAIN p /\ p[k].edit = e
    BY <1>1, <2>2, <2>3, <2>4 DEF Projects
  <2> QED
    BY <2>1, <2>5
<1>4. S \in SUBSET Nat /\ S # {}
  <2> HIDE DEF d
  <2> QED
    BY <1>2, <1>3
<1>5. Least(S) \in Nat
  <2> HIDE DEF S
  <2> QED
    BY <1>4, LeastIs
<1>6. Distances(p, offset)[c] = Least(S)
  BY DEF Distances
<1> QED
  BY <1>1, <1>5, <1>6

\* Some command of several is the closest.
LEMMA ClosestExists ==
  ASSUME NEW cs, cs # {}, NEW m \in Nat, cs \subseteq 1..m, NEW far, \A c \in cs : far[c] \in Nat
  PROVE  Closest(far, cs) \in cs
<1> DEFINE S == {far[c] : c \in cs}
<1>1. S \in SUBSET Nat /\ S # {}
  OBVIOUS
<1>2. PICK x \in S : \A y \in S : x <= y
  <2> HIDE DEF S
  <2> QED
    BY <1>1, LeastIs
<1>3. x \in Nat /\ (\E c \in cs : far[c] = x) /\ \A c \in cs : x <= far[c]
  BY <1>1, <1>2
<1> DEFINE T == {m - c : c \in {d \in cs : far[d] = x}}
<1>4. T \in SUBSET Nat /\ T # {}
  BY <1>3
<1>5. PICK y \in T : \A z \in T : y <= z
  <2> HIDE DEF T
  <2> QED
    BY <1>4, LeastIs
<1>6. PICK c \in cs : far[c] = x /\ y = m - c
  BY <1>5
<1>7. ASSUME NEW d \in cs \ {c} PROVE far[c] < far[d] \/ (far[c] = far[d] /\ d < c)
  <2>1. c \in Int /\ d \in Int /\ far[d] \in Nat /\ x <= far[d] /\ c # d /\ x \in Nat
    BY <1>3
  <2>2. CASE far[d] = x
    <3>1. m - d \in T
      BY <2>2
    <3>2. m - c <= m - d
      BY <1>5, <1>6, <3>1
    <3> QED
      BY <1>6, <2>1, <2>2, <3>2
  <2>3. CASE far[d] # x
    BY <1>6, <2>1, <2>3
  <2> QED
    BY <2>2, <2>3
<1> QED
  BY <1>7, Zenon DEF Closest

Turn(far) == [k \in 1..Cardinality(Executed) |->
  CHOOSE c \in Executed : Cardinality({d \in Executed : Farther(far, d, c)}) = k - 1]

\* Every executed command has its turn.
LEMMA EveryTurn ==
  ASSUME EditorInv, NEW far, \A c \in Executed : far[c] \in Nat
  PROVE  \A c \in Executed : \E k \in 1..Cardinality(Executed) : Turn(far)[k] = c
<1>0. PICK n, turn : n = Cardinality(Executed) /\ turn = Turn(far)
  OBVIOUS
<1>1. PICK S, R : S = Executed /\ R = {w \in S \X S : Farther(far, w[1], w[2])}
  OBVIOUS
<1>2. IsFiniteSet(S) /\ n \in Nat /\ \A c \in S : c \in Int
  BY <1>0, <1>1, ExecutedFinite
<1>3. \A c, d \in S : <<d, c>> \in R <=> far[d] > far[c] \/ (far[d] = far[c] /\ d < c)
  BY <1>1 DEF Farther
<1>4. Linear(S, R)
  <2>1. \A c \in S : far[c] \in Nat
    BY <1>1
  <2> QED
    BY <1>2, <1>3, <2>1 DEF Linear
<1>5. \A c \in S : {d \in Executed : Farther(far, d, c)} = Under(S, R, c)
  BY <1>1 DEF Under
<1> DEFINE rank(c) == Cardinality({d \in Executed : Farther(far, d, c)})
<1>6. \A c \in S : rank(c) \in 0..n - 1 /\ \A d \in S : <<c, d>> \in R => rank(c) < rank(d)
  <2>1. ASSUME NEW c \in S
        PROVE  /\ Cardinality(Under(S, R, c)) \in 0..Cardinality(S) - 1
               /\ \A d \in S : <<c, d>> \in R => Cardinality(Under(S, R, c)) < Cardinality(Under(S, R, d))
    BY <1>2, <1>4, RanksGrow
  <2>2. \A c \in S : rank(c) = Cardinality(Under(S, R, c))
    BY <1>5
  <2>3. n = Cardinality(S)
    BY <1>0, <1>1
  <2> HIDE DEF rank
  <2> QED
    BY <2>1, <2>2, <2>3
<1>7. turn = [k \in 1..n |-> CHOOSE c \in S : rank(c) = k - 1]
  BY <1>0, <1>1 DEF Turn
<1> HIDE DEF rank
<1> SUFFICES ASSUME NEW c \in S PROVE \E k \in 1..n : turn[k] = c
  BY <1>0, <1>1
<1>8. PICK k : k = rank(c) + 1
  OBVIOUS
<1>9. k \in 1..n /\ rank(c) = k - 1
  BY <1>2, <1>6, <1>8
<1>10. turn[k] \in S /\ rank(turn[k]) = k - 1
  BY <1>7, <1>9
<1>11. turn[k] = c
  <2>1. PICK d : d = turn[k]
    OBVIOUS
  <2>2. d \in S /\ rank(d) = rank(c) /\ rank(c) \in Int
    BY <1>6, <1>9, <1>10, <2>1
  <2>3. d = c \/ <<d, c>> \in R \/ <<c, d>> \in R
    BY <1>4, <2>2 DEF Linear
  <2>4. (<<d, c>> \in R => rank(d) < rank(c)) /\ (<<c, d>> \in R => rank(c) < rank(d))
    BY <1>6, <2>2
  <2>5. d = c
    <3>1. PICK rc, rd : rc = rank(c) /\ rd = rank(d)
      OBVIOUS
    <3>2. rc \in Int /\ rc = rd
      BY <2>2, <3>1
    <3>3. ~(rc < rd) /\ ~(rd < rc)
      BY <3>2
    <3> QED
      BY <2>3, <2>4, <3>1, <3>3
  <2> QED
    BY <2>1, <2>5
<1> QED
  BY <1>9, <1>11

\* Leaving commands out as long as the failure stays keeps the failure, and
\* what is left was decisive when it had its turn.
LEMMA RetainedDecides ==
  ASSUME EditorInv, NEW failing \in SUBSET SUBSET Executed, Executed \in failing, {} \notin failing,
         Cardinality(Executed) <= syntaxLocalizationGroupLimit,
         NEW far, \A c \in Executed : far[c] \in Nat
  PROVE  /\ retained(far, failing) \in failing
         /\ \A c \in retained(far, failing) : \E cs \in failing :
              retained(far, failing) \subseteq cs /\ cs \ {c} \notin failing
<1> DEFINE n == Cardinality(Executed)
           turn == [k \in 1..n |-> CHOOSE c \in Executed : Cardinality({d \in Executed : Farther(far, d, c)}) = k - 1]
<1>1. PICK all : all = Executed
  OBVIOUS
<1>2. n \in Nat
  BY ExecutedFinite
<1> HIDE DEF n, turn
<1> DEFINE Step(k, v) == IF LeavesOut(failing, v \ {turn[k]}) THEN v \ {turn[k]} ELSE v
           Solves(f) == f = [k \in 0..n |-> IF k = 0 THEN Executed ELSE Step(k, f[k - 1])]
<1>4. \A k \in 1..n : \A v \in failing : Step(k, v) \in failing
  BY DEF LeavesOut
<1> HIDE DEF Step
<1>5. PICK g \in [0..n -> failing] : g[0] = all /\ \A k \in 1..n : g[k] = Step(k, g[k - 1])
  <2>1. PICK st : st = [k \in 1..n |-> [v \in failing |-> Step(k, v)]]
    OBVIOUS
  <2>2. st \in [1..n -> [failing -> failing]] /\ all \in failing
    BY <1>1, <1>4, <2>1
  <2>3. \A k \in 1..n : \A v \in failing : st[k][v] = Step(k, v)
    BY <2>1
  <2>4. PICK f \in [0..n -> failing] : f[0] = all /\ \A k \in 1..n : f[k] = st[k][f[k - 1]]
    <3>1. PICK W : W = failing
      OBVIOUS
    <3>2. st \in [1..n -> [W -> W]] /\ all \in W
      BY <2>2, <3>1
    <3>3. \E f \in [0..n -> W] : f[0] = all /\ \A k \in 1..n : f[k] = st[k][f[k - 1]]
      BY ONLY <1>2, <3>2, RunExists
    <3> QED
      BY <3>1, <3>3
  <2>5. \A k \in 1..n : f[k - 1] \in failing
    BY <1>2, <2>4
  <2>6. \A k \in 1..n : f[k] = Step(k, f[k - 1])
    BY <2>3, <2>4, <2>5
  <2> QED
    BY <2>4, <2>6
<1>6. Solves(g)
  <2>1. ASSUME NEW k \in 0..n PROVE g[k] = IF k = 0 THEN Executed ELSE Step(k, g[k - 1])
    BY <1>1, <1>2, <1>5
  <2> QED
    BY <2>1
<1> DEFINE F == CHOOSE f : Solves(f)
<1>7. Solves(F)
  <2> HIDE DEF Solves
  <2> QED
    BY <1>6
<1>8. retained(far, failing) = IF n = 1 THEN Executed ELSE F[n]
  <2>1. retained(far, failing) = IF n = 1 \/ n > syntaxLocalizationGroupLimit \/ {} \in failing THEN Executed ELSE F[n]
    BY Zenon DEF retained, Step, turn, n
  <2>2. ~(n > syntaxLocalizationGroupLimit)
    BY <1>2, EditorAssumption DEF n
  <2> QED
    BY <2>1, <2>2
<1> HIDE DEF F
<1>9. F[0] = Executed /\ \A k \in 1..n : F[k] = Step(k, F[k - 1])
  BY <1>2, <1>7
<1> DEFINE G == {k \in 0..n : F[k] \in failing}
<1>10. 0 \in G
  BY <1>2, <1>9
<1>11. ASSUME NEW k \in 1..n, k - 1 \in G PROVE k \in G
  BY <1>2, <1>4, <1>9, <1>11
<1> HIDE DEF G
<1>12. \A k \in 0..n : k \in G
  BY <1>2, <1>10, <1>11, EveryRound
<1>13. F[n] \in failing
  BY <1>2, <1>12 DEF G
<1>14. \A c \in Executed : \E k \in 1..n : turn[k] = c
  <2>1. n = Cardinality(Executed) /\ turn = Turn(far)
    BY DEF n, turn, Turn
  <2> QED
    BY <2>1, EveryTurn
<1>15. ASSUME NEW k \in 1..n PROVE F[k] \subseteq F[k - 1] /\ (F[k] = F[k - 1] \ {turn[k]} \/ F[k - 1] \ {turn[k]} \notin failing)
  BY <1>9 DEF Step, LeavesOut
<1>16. ASSUME NEW k \in 0..n PROVE F[n] \subseteq F[k]
  <2> DEFINE H == {i \in 0..n : i >= k => F[i] \subseteq F[k]}
  <2>1. 0 \in H
    BY <1>2
  <2>2. ASSUME NEW i \in 1..n, i - 1 \in H PROVE i \in H
    <3>1. F[i] \subseteq F[i - 1]
      BY <1>15
    <3>2. CASE i - 1 >= k
      BY <2>2, <3>1, <3>2
    <3>3. CASE i = k
      BY <3>3
    <3>4. CASE i < k
      BY <1>2, <3>4
    <3> QED
      BY <1>2, <3>2, <3>3, <3>4
  <2> HIDE DEF H
  <2>3. \A i \in 0..n : i \in H
    BY <1>2, <2>1, <2>2, EveryRound
  <2> QED
    BY <1>2, <2>3 DEF H
<1>17. CASE n = 1
  <2>1. retained(far, failing) = Executed
    BY <1>8, <1>17
  <2>2. PICK x : Executed = {x}
    BY <1>17, ExecutedFinite, FS_Singleton DEF n
  <2>3. \A c \in Executed : Executed \ {c} = {}
    BY <2>2
  <2> QED
    BY <2>1, <2>3
<1>18. CASE n # 1
  <2>1. retained(far, failing) = F[n]
    BY <1>8, <1>18
  <2>2. ASSUME NEW c \in F[n] PROVE \E cs \in failing : F[n] \subseteq cs /\ cs \ {c} \notin failing
    <3>1. c \in Executed
      BY <1>13
    <3>2. PICK k \in 1..n : turn[k] = c
      BY <1>14, <3>1
    <3>3. k - 1 \in 0..n /\ k \in 0..n
      BY <1>2
    <3>4. F[k - 1] \in failing /\ F[n] \subseteq F[k - 1] /\ F[n] \subseteq F[k]
      BY <1>12, <1>16, <3>3 DEF G
    <3>5. F[k - 1] \ {c} \notin failing
      BY <1>15, <3>2, <3>4
    <3> QED
      BY <3>4, <3>5
  <2> QED
    BY <1>13, <2>1, <2>2
<1> QED
  BY <1>17, <1>18

\* Every command a syntax failure may be put down to is decisive, however many
\* commands there are up to the limit.
THEOREM BlameIsCausal == EditorSpec => []BlameIsDecisive
<1>1. EditorInv => BlameIsDecisive
  <2> SUFFICES ASSUME EditorInv, Executed \in Failing, {} \notin Failing,
                      Cardinality(Executed) <= syntaxLocalizationGroupLimit, NEW offset \in 0..Len(content(edits))
               PROVE  LET far == Distances(projected(edits), offset)
                          left == retained(far, Failing) IN
                      /\ left \in Failing /\ Closest(far, left) \in left
                      /\ \A c \in left : \E cs \in Failing : left \subseteq cs /\ cs \ {c} \notin Failing
    BY Zenon DEF BlameIsDecisive
  <2>0. PICK failing, far, left : failing = Failing /\ far = Distances(projected(edits), offset) /\ left = retained(far, failing)
    OBVIOUS
  <2>1. failing \in SUBSET SUBSET Executed
    BY <2>0 DEF Failing
  <2>2. offset \in Nat
    OBVIOUS
  <2>3. \A c \in Executed : far[c] \in Nat
    BY <2>0, <2>2, DistancesAre
  <2>4. left \in failing /\ \A c \in left : \E cs \in failing : left \subseteq cs /\ cs \ {c} \notin failing
    BY <2>0, <2>1, <2>3, RetainedDecides
  <2>5. left # {} /\ left \subseteq Executed
    BY <2>0, <2>1, <2>4
  <2>6. left \subseteq 1..count /\ count \in Nat
    BY <2>5, ExecutedFinite
  <2>7. Closest(far, left) \in left
    BY <2>3, <2>5, <2>6, ClosestExists
  <2> QED
    BY <2>0, <2>4, <2>7
<1> QED
  BY <1>1, EditorInvariance, PTL

-----------------------------------------------------------------------------
(* Lines and the rows of offsets.                                          *)

\* Lines do not overlap, and only the last one may lack a terminator.
LEMMA LinesApart ==
  ASSUME NEW t \in Text, NEW s \in LineStarts(t)
  PROVE  /\ s \in Nat /\ FullEnd(t, s) \in Nat /\ Len(t) \in Nat /\ s < FullEnd(t, s) /\ FullEnd(t, s) <= Len(t)
         /\ \A u \in LineStarts(t) : s < u => FullEnd(t, s) <= u
         /\ FullEnd(t, s) < Len(t) => t[FullEnd(t, s)] = Newline /\ FullEnd(t, s) \in LineStarts(t)
<1> DEFINE S == {k \in s + 1..Len(t) : t[k] = Newline \/ k = Len(t)}
<1>1. Len(t) \in Nat /\ s \in 0..Len(t) - 1
  BY DEF LineStarts, Text
<1>2. Len(t) \in S /\ S \in SUBSET Nat
  BY <1>1
<1>3. Least(S) \in S /\ \A y \in S : Least(S) <= y
  <2> HIDE DEF S
  <2> QED
    BY <1>2, LeastIs
<1>4. PICK e : e = FullEnd(t, s)
  OBVIOUS
<1>5. e = Least(S)
  BY <1>4 DEF FullEnd
<1>6. e \in S /\ \A y \in S : e <= y
  BY <1>3, <1>5
<1>7. e \in s + 1..Len(t) /\ (t[e] = Newline \/ e = Len(t))
  BY <1>6
<1>8. ASSUME NEW u \in LineStarts(t), s < u PROVE e <= u
  <2>1. u \in 0..Len(t) - 1 /\ (u = 0 \/ t[u] = Newline)
    BY DEF LineStarts
  <2>2. u \in S
    BY <1>1, <1>8, <2>1
  <2> QED
    BY <1>6, <2>2
<1>9. e < Len(t) => t[e] = Newline /\ e \in LineStarts(t)
  BY <1>1, <1>7 DEF LineStarts
<1>10. s \in Nat /\ e \in Nat /\ s < e /\ e <= Len(t)
  BY <1>1, <1>7
<1> QED
  BY <1>1, <1>4, <1>8, <1>9, <1>10

Holding(t, offset) ==
  {s \in LineStarts(t) : offset <= IF t[FullEnd(t, s)] = Newline THEN FullEnd(t, s) - 1 ELSE FullEnd(t, s)}

\* An offset within the text is in the row of one line.
LEMMA RowAtIs ==
  ASSUME NEW t \in Text, NEW offset \in 0..Len(t) - 1
  PROVE  \E s \in LineStarts(t) : s <= offset /\ offset < FullEnd(t, s) /\ RowAt(t, offset) = RowOf(t, s)
                                  /\ Holding(t, offset) # {} /\ Least(Holding(t, offset)) = s
<1>0. Len(t) \in Nat /\ t # << >> /\ offset \in Nat /\ offset < Len(t)
  BY DEF Text
<1> DEFINE T == {offset - u : u \in {v \in LineStarts(t) : v <= offset}}
<1>1. LineStarts(t) \in SUBSET Nat /\ 0 \in LineStarts(t)
  BY <1>0 DEF LineStarts
<1>2. T \in SUBSET Nat /\ T # {}
  BY <1>0, <1>1
<1>3. PICK y \in T : \A z \in T : y <= z
  <2> HIDE DEF T
  <2> QED
    BY <1>2, LeastIs
<1>4. PICK s \in LineStarts(t) : s <= offset /\ y = offset - s
  BY <1>3
<1>5. \A u \in LineStarts(t) : u <= offset => u <= s
  <2> SUFFICES ASSUME NEW u \in LineStarts(t), u <= offset PROVE u <= s
    OBVIOUS
  <2>1. offset - u \in T
    OBVIOUS
  <2>2. offset - s <= offset - u
    BY <1>3, <1>4, <2>1
  <2>3. u \in Nat /\ s \in Nat
    BY <1>1
  <2> QED
    BY <1>0, <2>2, <2>3
<1> HIDE DEF T
<1>6. PICK e : e = FullEnd(t, s)
  OBVIOUS
<1>7. /\ s \in Nat /\ e \in Nat /\ s < e /\ e <= Len(t)
      /\ e < Len(t) => t[e] = Newline /\ e \in LineStarts(t)
  BY <1>6, LinesApart
<1>8. offset < e
  <2> SUFFICES ASSUME e <= offset PROVE FALSE
    BY <1>0, <1>7
  <2>1. e < Len(t)
    BY <1>0, <1>7
  <2>2. e <= s
    BY <1>5, <1>7, <2>1
  <2> QED
    BY <1>7, <2>2
<1>9. s \in Holding(t, offset)
  BY <1>0, <1>6, <1>7, <1>8 DEF Holding
<1>10. ASSUME NEW u \in Holding(t, offset) PROVE s <= u
  <2>1. PICK f : f = FullEnd(t, u)
    OBVIOUS
  <2>2. u \in LineStarts(t) /\ offset <= IF t[f] = Newline THEN f - 1 ELSE f
    BY <2>1 DEF Holding
  <2>3. u \in Nat /\ f \in Nat /\ f <= Len(t) /\ (f < Len(t) => t[f] = Newline) /\ (u < s => f <= s)
    BY <2>1, <2>2, LinesApart
  <2>4. ~(u < s)
    <3> SUFFICES ASSUME u < s PROVE FALSE
      OBVIOUS
    <3>1. f <= s /\ f < Len(t)
      BY <1>0, <1>4, <1>7, <2>3
    <3>2. offset <= f - 1
      BY <2>2, <2>3, <3>1
    <3> QED
      BY <1>0, <1>4, <1>7, <2>3, <3>1, <3>2
  <2> QED
    BY <1>7, <2>3, <2>4
<1>11. PICK H : H = Holding(t, offset)
  OBVIOUS
<1>12. H \in SUBSET Nat /\ H # {}
  BY <1>1, <1>9, <1>11 DEF Holding
<1>13. Least(H) \in H /\ \A x \in H : Least(H) <= x
  BY <1>12, LeastIs
<1>14. Least(H) = s
  <2>1. Least(H) <= s /\ s <= Least(H) /\ Least(H) \in Nat
    BY <1>9, <1>10, <1>11, <1>12, <1>13
  <2> QED
    BY <1>7, <2>1
<1>15. RowAt(t, offset) = IF t = << >> THEN 1 ELSE IF H = {} THEN Cardinality(LineStarts(t)) ELSE RowOf(t, Least(H))
  BY <1>11, Zenon DEF RowAt, Holding
<1>16. RowAt(t, offset) = RowOf(t, s)
  BY <1>0, <1>12, <1>14, <1>15
<1> QED
  BY <1>4, <1>6, <1>8, <1>11, <1>12, <1>14, <1>16

\* Rows grow with the offset.
LEMMA RowAtGrows ==
  ASSUME NEW t \in Text, NEW offset \in 0..Len(t) - 1
  PROVE  RowAt(t, offset) \in Nat /\ RowAt(t, offset + 1) \in Nat /\ RowAt(t, offset) <= RowAt(t, offset + 1)
<1>0. Len(t) \in Nat /\ t # << >> /\ offset \in Nat /\ offset < Len(t)
  BY DEF Text
<1>1. PICK s \in LineStarts(t) : RowAt(t, offset) = RowOf(t, s) /\ Least(Holding(t, offset)) = s
  BY RowAtIs
<1>2. PICK H, I, m : H = Holding(t, offset) /\ I = Holding(t, offset + 1) /\ m = Cardinality(LineStarts(t))
  OBVIOUS
<1>3. LineStarts(t) \in SUBSET Nat /\ H \in SUBSET LineStarts(t) /\ I \in SUBSET H
  <2>1. ASSUME NEW u \in I PROVE u \in H
    <3>1. PICK f : f = FullEnd(t, u)
      OBVIOUS
    <3>2. u \in LineStarts(t) /\ offset + 1 <= IF t[f] = Newline THEN f - 1 ELSE f
      BY <1>2, <2>1, <3>1 DEF Holding
    <3>3. f \in Nat
      BY <3>1, <3>2, LinesApart
    <3>4. offset <= IF t[f] = Newline THEN f - 1 ELSE f
      BY <1>0, <3>2, <3>3
    <3> QED
      BY <1>2, <3>1, <3>2, <3>4 DEF Holding
  <2>2. H \in SUBSET LineStarts(t)
    BY <1>2 DEF Holding
  <2> QED
    BY <2>1, <2>2, RowsGrow
<1>4. RowAt(t, offset + 1) = IF t = << >> THEN 1 ELSE IF I = {} THEN m ELSE RowOf(t, Least(I))
  BY <1>2, Zenon DEF RowAt, Holding
<1>5. RowOf(t, s) \in 1..m /\ m \in Nat
  BY <1>2, RowsGrow, FS_CardinalityType
<1>6. CASE I = {}
  BY <1>0, <1>1, <1>4, <1>5, <1>6
<1>7. CASE I # {}
  <2>1. I \in SUBSET Nat /\ H \in SUBSET Nat /\ H # {}
    BY <1>3, <1>7
  <2>2. PICK u : u = Least(I)
    OBVIOUS
  <2>3. u \in I
    BY <1>7, <2>1, <2>2, LeastIs
  <2>4. s <= u /\ u \in LineStarts(t) /\ u \in Nat /\ s \in Nat
    BY <1>1, <1>2, <1>3, <2>1, <2>3, LeastIs
  <2>5. RowOf(t, u) \in 1..m /\ (s < u => RowOf(t, s) < RowOf(t, u))
    BY <1>2, <2>4, RowsGrow
  <2>6. RowOf(t, s) <= RowOf(t, u)
    BY <1>5, <2>4, <2>5
  <2> QED
    BY <1>0, <1>1, <1>4, <1>5, <1>7, <2>2, <2>5, <2>6
<1> QED
  BY <1>6, <1>7

\* The rows of a span are the rows of the lines that it touches.
LEMMA SpanRows ==
  ASSUME NEW t \in Text, NEW i \in Nat, NEW j \in Nat, i < j, j <= Len(t), NEW s \in LineStarts(t)
  PROVE  /\ s < j /\ i < FullEnd(t, s) <=> RowOf(t, s) \in RowAt(t, i)..RowAt(t, j - 1)
         /\ RowAt(t, i) <= RowAt(t, j - 1)
<1>0. Len(t) \in Nat /\ i \in 0..Len(t) - 1 /\ j - 1 \in 0..Len(t) - 1
  BY DEF Text
<1>1. PICK a \in LineStarts(t) : a <= i /\ i < FullEnd(t, a) /\ RowAt(t, i) = RowOf(t, a)
  BY <1>0, RowAtIs
<1>2. PICK h : h = j - 1
  OBVIOUS
<1>3. h \in 0..Len(t) - 1 /\ h + 1 = j /\ h \in Nat
  BY <1>0, <1>2
<1>4. PICK b \in LineStarts(t) : b <= h /\ h < FullEnd(t, b) /\ RowAt(t, h) = RowOf(t, b)
  BY <1>3, RowAtIs
<1>5. PICK fa, fb, fs : fa = FullEnd(t, a) /\ fb = FullEnd(t, b) /\ fs = FullEnd(t, s)
  OBVIOUS
<1>6. /\ a \in Nat /\ b \in Nat /\ s \in Nat /\ fa \in Nat /\ fb \in Nat /\ fs \in Nat
      /\ a < fa /\ b < fb /\ s < fs
      /\ (s < a => fs <= a) /\ (a < s => fa <= s) /\ (b < s => fb <= s) /\ (b < a => fb <= a)
  BY <1>5, LinesApart
<1>7. PICK ra, rb, rs : ra = RowOf(t, a) /\ rb = RowOf(t, b) /\ rs = RowOf(t, s)
  OBVIOUS
<1>8. /\ ra \in Int /\ rb \in Int /\ rs \in Int
      /\ (s < a => rs < ra) /\ (a < s => ra < rs) /\ (b < s => rb < rs) /\ (s < b => rs < rb) /\ (a < b => ra < rb)
  BY <1>7, RowsGrow
<1>9. s < j /\ i < fs <=> a <= s /\ s <= b
  BY <1>1, <1>3, <1>4, <1>5, <1>6
<1>10. a <= s /\ s <= b <=> ra <= rs /\ rs <= rb
  <2>1. (a = s => ra = rs) /\ (b = s => rb = rs)
    BY <1>7
  <2> QED
    BY <1>6, <1>8, <2>1
<1>11. a <= b /\ (a = b => ra = rb)
  BY <1>1, <1>3, <1>4, <1>5, <1>6, <1>7
<1>12. ra <= rb
  BY <1>6, <1>8, <1>11
<1>13. rs \in ra..rb <=> ra <= rs /\ rs <= rb
  BY <1>8
<1> QED
  BY <1>1, <1>2, <1>4, <1>5, <1>7, <1>9, <1>10, <1>12, <1>13

-----------------------------------------------------------------------------
(* Aliases.                                                                *)

\* What is rendered is a text.
LEMMA ContentIsText ==
  ASSUME EditorInv
  PROVE  content(edits) \in Text
<1>0. baseline \in Text /\ Len(baseline) \in Nat
  BY EditorAssumption DEF EditorInv, EditorTypeOK, Text
<1>1. PICK es, n, o, c : es = edits /\ n = Cardinality(es) /\ o = ordered(es) /\ c = Rendering(es)
  OBVIOUS
<1>2. Renders(es, n, o, c)
  BY <1>1, RenderingIs
<1>3. n \in Nat /\ n \in 0..n
  BY <1>2 DEF Renders
<1>4. c[n].text \in Text /\ c[n].cursor \in 0..Len(baseline) /\ content(es) = c[n].text \o Slice(baseline, c[n].cursor, Len(baseline))
  BY <1>2, <1>3 DEF Renders
<1>5. PICK a, z : a = c[n].cursor /\ z = Len(baseline)
  OBVIOUS
<1>6. a \in 0..Len(baseline) /\ z \in 0..Len(baseline)
  BY <1>0, <1>4, <1>5
<1>7. Slice(baseline, a, z) \in Text
  BY <1>0, <1>6, SliceIs
<1> QED
  BY <1>1, <1>4, <1>5, <1>7, Joins

\* The author's references have line numbers.
LEMMA ReferencesNumbered ==
  ASSUME EditorInv
  PROVE  \A r \in References : r.line \in Int
<1>1. baseline \in Text /\ content(edits) \in Text
  BY ContentIsText, EditorAssumption DEF EditorInv, EditorTypeOK
<1>2. ASSUME NEW t \in Text, NEW r \in Seen(t) PROVE r.line \in Int
  <2>1. PICK s \in LineStarts(t), d \in {0, 1} : r = [line |-> RowOf(t, s) + d, hash |-> HashAt(t, s)]
    BY DEF Seen
  <2>2. RowOf(t, s) \in Int
    BY RowsGrow
  <2> QED
    BY <2>1, <2>2
<1> QED
  BY <1>1, <1>2 DEF References

TargetsNumbered == \A e \in edits : e.rows => FirstLine(e.target) \in Int /\ LastLine(e.target) \in Int

\* The target kept with a replaced row or range has line numbers.
LEMMA CommandNumbers ==
  ASSUME EditorInv, TargetsNumbered, NEW operation \in {"type", "add"}, NEW value \in Values,
         NEW target \in Targets(operation), applyMutation(operation, target, value)
  PROVE  TargetsNumbered'
<1>1. ASSUME NEW e \in edits' PROVE e \in edits \/ \E s \in resolveTarget(target) : e = edit(operation, target, value, s)
  BY DEF applyMutation
<1>2. ASSUME NEW e, NEW s \in resolveTarget(target), e = edit(operation, target, value, s), e.rows
      PROVE  FirstLine(e.target) \in Int /\ LastLine(e.target) \in Int
  <2>1. s.linewise /\ e.target = renderRowTarget(target)
    BY <1>2 DEF edit
  <2>2. target.kind \in {"line", "range"}
    <3>1. target.kind \in {"line", "range", "literal", "text", "EOF"}
      BY DEF Targets
    <3>2. ASSUME target.kind \in {"literal", "text"} PROVE FALSE
      <4>1. \E S : s \in Matches(target.literal, S)
        BY <3>2, Zenon DEF resolveTarget
      <4> QED
        BY <2>1, <4>1 DEF Matches, Span
    <3>3. ASSUME target.kind = "EOF" PROVE FALSE
      <4>1. s = Span(Len(baseline), Len(baseline), FALSE)
        BY <3>3 DEF resolveTarget
      <4> QED
        BY <2>1, <4>1 DEF Span
    <3> QED
      BY <3>1, <3>2, <3>3
  <2>3. target.from \in References /\ (target.kind = "range" => target.to \in References)
    BY <2>2 DEF Targets
  <2>4. target.from.line \in Int /\ (target.kind = "range" => target.to.line \in Int)
    BY <2>3, ReferencesNumbered
  <2>5. CASE target.kind = "line"
    <3>1. e.target = <<target.from>>
      BY <2>1, <2>5 DEF renderRowTarget
    <3>2. e.target[1] = target.from /\ Len(e.target) = 1
      BY <3>1
    <3> QED
      BY <2>4, <3>2 DEF FirstLine, LastLine
  <2>6. CASE target.kind = "range"
    <3>1. e.target = <<target.from, target.to>>
      BY <2>1, <2>6 DEF renderRowTarget
    <3>2. e.target[1] = target.from /\ Len(e.target) = 2 /\ e.target[2] = target.to
      BY <3>1
    <3> QED
      BY <2>4, <2>6, <3>2 DEF FirstLine, LastLine
  <2> QED
    BY <2>2, <2>5, <2>6
<1>3. ASSUME NEW e \in edits', e.rows PROVE FirstLine(e.target) \in Int /\ LastLine(e.target) \in Int
  BY <1>1, <1>2, <1>3 DEF TargetsNumbered
<1> QED
  BY <1>3 DEF TargetsNumbered, FirstLine, LastLine

LEMMA TargetsAreNumbered == EditorSpec => []TargetsNumbered
<1>1. EditorInit => TargetsNumbered
  BY DEF EditorInit, TargetsNumbered
<1>2. EditorInv /\ TargetsNumbered /\ [EditorNext]_editorVars => TargetsNumbered'
  <2> SUFFICES ASSUME EditorInv, TargetsNumbered, [EditorNext]_editorVars PROVE TargetsNumbered'
    OBVIOUS
  <2>1. CASE UNCHANGED editorVars
    BY <2>1 DEF editorVars, TargetsNumbered, FirstLine, LastLine
  <2>2. CASE finish
    BY <2>2 DEF finish, TargetsNumbered, FirstLine, LastLine
  <2>3. ASSUME NEW operation \in {"type", "add"}, NEW value \in Values,
               NEW target \in Targets(operation), applyMutation(operation, target, value)
        PROVE  TargetsNumbered'
    BY <2>3, CommandNumbers
  <2> QED
    BY <2>1, <2>2, <2>3 DEF EditorNext
<1> QED
  BY <1>1, <1>2, EditorInvariance, PTL DEF EditorSpec

\* The extent of a command that records one edit is the projected span of it.
LEMMA ExtentIs ==
  ASSUME EditorInv, NEW p, p = projected(edits), NEW e \in edits, e.rows
  PROVE  \E k \in DOMAIN p : p[k].edit = e /\ extent(p, e.command).start = p[k].start /\ extent(p, e.command).end = p[k].end
<1>1. PICK es, n, o, r : es = edits /\ n = Cardinality(es) /\ o = ordered(es) /\ r = Rendering(es)
  OBVIOUS
<1>2. Projects(n, o, r, p)
  BY <1>1, ProjectionIs
<1>3. /\ n \in Nat /\ o \in [1..n -> es] /\ \A f \in es : \E k \in 1..n : o[k] = f
      /\ \A i, j \in 1..n : i < j => Before(o[i], o[j])
  BY <1>1, OrderedIs
<1>4. PICK k \in 1..n : o[k] = e
  BY <1>1, <1>3
<1>5. ASSUME NEW j \in 1..n, o[j].command = e.command PROVE j = k
  <2>1. o[j] = e
    <3>1. o[j] \in edits
      BY <1>1, <1>3
    <3> QED
      BY <1>5, <3>1 DEF EditorInv, EditsRegular
  <2>2. ~Before(e, e)
    BY DEF Before, Insertion, EditorInv, EditorTypeOK
  <2> QED
    BY <1>3, <1>4, <2>1, <2>2
<1>6. {j \in DOMAIN p : p[j].edit.command = e.command} = {k}
  BY <1>2, <1>4, <1>5 DEF Projects
<1>7. k \in DOMAIN p /\ p[k].edit = e
  BY <1>2, <1>4 DEF Projects
<1>8. PICK a, z : a = p[k].start /\ z = p[k].end
  OBVIOUS
<1>9. a \in Nat /\ z \in Int
  <2>1. a \in Nat /\ z = a + Len(e.text)
    BY <1>7, <1>8, ProjectedHolds
  <2>2. e.text \in Text
    BY DEF EditorInv, EditorTypeOK
  <2>3. Len(e.text) \in Nat
    BY <2>2 DEF Text
  <2> QED
    BY <2>1, <2>3
<1>10. Least({a}) = a /\ Greatest({z}) = z
  BY <1>9 DEF Least, Greatest
<1>11. PICK mine : mine = {j \in DOMAIN p : p[j].edit.command = e.command}
  OBVIOUS
<1>12. {p[j].start : j \in mine} = {a} /\ {p[j].end : j \in mine} = {z}
  BY <1>6, <1>8, <1>11
<1>13. extent(p, e.command) = [start |-> Least({p[j].start : j \in mine}), end |-> Greatest({p[j].end : j \in mine})]
  BY <1>11, Zenon DEF extent
<1>14. extent(p, e.command) = [start |-> a, end |-> z]
  BY <1>10, <1>12, <1>13, Zenon
<1>15. extent(p, e.command).start = p[k].start /\ extent(p, e.command).end = p[k].end
  BY <1>8, <1>14
<1> QED
  BY <1>7, <1>15

\* What the alias al of the replaced rows e says, x being where they are in t.
Tells(al, e, t, x) ==
  /\ al.command = e.command
  /\ x.start \in Nat /\ x.end \in Nat /\ x.start < x.end /\ x.end <= Len(t)
  /\ al.before = e.target
  /\ FirstLine(al.after) = RowAt(t, x.start) /\ LastLine(al.after) = RowAt(t, x.end - 1)

\* An alias is the target as it was written and the rows of the projected span.
LEMMA AliasTells ==
  ASSUME EditorInv, NEW t, t = content(edits), NEW p, p = projected(edits), NEW e \in edits, e.rows, e.text # << >>
  PROVE  Tells(aliasOf(e.command, t, p), e, t, extent(p, e.command))
<1>0. baseline \in Text /\ Len(baseline) \in Nat
  BY EditorAssumption DEF EditorInv, EditorTypeOK, Text
<1>1. (CHOOSE f \in edits : f.command = e.command) = e
  <2>1. \A f \in edits : f.command = e.command => f = e
    BY DEF EditorInv, EditsRegular
  <2> QED
    BY <2>1
<1>2. PICK x, al : x = extent(p, e.command) /\ al = aliasOf(e.command, t, p)
  OBVIOUS
<1>3. e.text \in Text
  BY <1>0 DEF EditorInv, EditorTypeOK, EditsRegular
<1>4. Len(e.text) \in Nat /\ Len(e.text) > 0
  BY <1>3 DEF Text
<1>5. PICK k \in DOMAIN p : p[k].edit = e /\ x.start = p[k].start /\ x.end = p[k].end
  BY <1>2, ExtentIs
<1>6. x.start \in Nat /\ x.end = x.start + Len(e.text) /\ x.end <= Len(t)
  BY <1>5, ProjectedHolds
<1>7. x.start \in Nat /\ x.end \in Nat /\ x.start < x.end /\ x.end <= Len(t)
  BY <1>4, <1>6
<1>8. al = [before |-> e.target, after |-> RangeOf(t, RowAt(t, x.start), LastRow(t, x)), command |-> e.command]
  BY <1>1, <1>2, Zenon DEF aliasOf
<1>9. Larger(x.start, x.end - 1) = x.end - 1
  BY <1>7 DEF Larger
<1>10. LastRow(t, x) = RowAt(t, x.end - 1)
  BY <1>9 DEF LastRow
<1>11. ASSUME NEW a, NEW z PROVE FirstLine(RangeOf(t, a, z)) = a /\ LastLine(RangeOf(t, a, z)) = z
  <2>1. Reference(t, a).line = a /\ Reference(t, z).line = z
    BY DEF Reference
  <2>2. PICK ra, rz : ra = Reference(t, a) /\ rz = Reference(t, z)
    OBVIOUS
  <2>3. CASE a = z
    <3>1. RangeOf(t, a, z) = <<ra>>
      BY <2>2, <2>3, Zenon DEF RangeOf
    <3>2. Len(<<ra>>) = 1 /\ <<ra>>[1] = ra
      OBVIOUS
    <3> QED
      BY <2>1, <2>2, <2>3, <3>1, <3>2 DEF FirstLine, LastLine
  <2>4. CASE a # z
    <3>1. RangeOf(t, a, z) = <<ra, rz>>
      BY <2>2, <2>4, Zenon DEF RangeOf
    <3>2. Len(<<ra, rz>>) = 2 /\ <<ra, rz>>[1] = ra /\ <<ra, rz>>[2] = rz
      OBVIOUS
    <3> QED
      BY <2>1, <2>2, <3>1, <3>2 DEF FirstLine, LastLine
  <2> QED
    BY <2>3, <2>4
<1>12. /\ al.before = e.target
       /\ al.after = RangeOf(t, RowAt(t, x.start), RowAt(t, x.end - 1)) /\ al.command = e.command
  BY <1>8, <1>10
<1>13. FirstLine(al.after) = RowAt(t, x.start) /\ LastLine(al.after) = RowAt(t, x.end - 1)
  BY <1>11, <1>12
<1> QED
  BY <1>2, <1>7, <1>12, <1>13 DEF Tells

\* The m aliases are those of the replaced rows of.
AliasesOf(aliases, m, of, t, p) ==
  /\ m \in Nat /\ DOMAIN aliases = 1..m /\ Len(aliases) = m
  /\ \A k \in 1..m : /\ of[k] \in edits /\ of[k].rows /\ of[k].text # << >>
                     /\ aliases[k] = aliasOf(of[k].command, t, p)

LEMMA AliasesAre ==
  ASSUME EditorInv, NEW t, NEW p
  PROVE  \E m, of : AliasesOf(targetAliases(t, p), m, of, t, p)
<1>1. PICK S : S = Aliased
  OBVIOUS
<1>2. S \in SUBSET Executed /\ IsFiniteSet(Executed) /\ Executed \subseteq 1..count /\ count \in Nat
  BY <1>1, ExecutedFinite DEF Aliased
<1>3. IsFiniteSet(S) /\ S \in SUBSET Nat
  <2>1. IsFiniteSet(S)
    BY <1>2, FS_Subset
  <2> QED
    BY <1>2, <2>1
<1>4. PICK R : R = {w \in S \X S : w[1] < w[2]}
  OBVIOUS
<1>5. \A c, d \in S : <<d, c>> \in R <=> d < c
  BY <1>4
<1>6. Linear(S, R)
  BY <1>3, <1>5 DEF Linear
<1>7. \A c \in S : {d \in Aliased : d < c} = Under(S, R, c)
  BY <1>1, <1>5 DEF Under
<1>8. PICK m : m = Cardinality(S)
  OBVIOUS
<1>9. /\ m \in Nat /\ \A k \in 1..m : \E c \in S : Cardinality(Under(S, R, c)) = k - 1
  <2>1. PICK l : l = Listed(S, R)
    OBVIOUS
  <2>2. m \in Nat /\ l \in [1..m -> S] /\ \A k \in 1..m : Cardinality(Under(S, R, l[k])) = k - 1
    BY <1>3, <1>6, <1>8, <2>1, ListedIs
  <2> QED
    BY <2>2
<1> DEFINE by(k) == CHOOSE c \in Aliased : Cardinality({d \in Aliased : d < c}) = k - 1
           of == [k \in 1..m |-> CHOOSE e \in edits : e.command = by(k) /\ e.rows /\ e.text # << >>]
           aliases == targetAliases(t, p)
<1>10. ASSUME NEW k \in 1..m PROVE by(k) \in Aliased /\ Cardinality({d \in Aliased : d < by(k)}) = k - 1
  <2>1. \E c \in Aliased : Cardinality({d \in Aliased : d < c}) = k - 1
    BY <1>1, <1>7, <1>9
  <2> QED
    BY <2>1
<1>11. aliases = [k \in 1..m |-> aliasOf(by(k), t, p)]
  BY <1>1, <1>8, Zenon DEF targetAliases
<1> HIDE DEF by
<1>12. ASSUME NEW k \in 1..m PROVE of[k] \in edits /\ of[k].command = by(k) /\ of[k].rows /\ of[k].text # << >>
  <2>1. \E e \in edits : e.command = by(k) /\ e.rows /\ e.text # << >>
    BY <1>1, <1>10 DEF Aliased
  <2> QED
    BY <2>1
<1>14. DOMAIN aliases = 1..m /\ \A k \in 1..m : aliases[k] = aliasOf(by(k), t, p)
  BY <1>11
<1>15. Len(aliases) = m
  BY <1>9, <1>14
<1> HIDE DEF of
<1>16. AliasesOf(aliases, m, of, t, p)
  BY <1>9, <1>12, <1>14, <1>15 DEF AliasesOf
<1> QED
  BY <1>16

\* A target that no earlier alias names goes through its alias, and through no
\* other unless what comes out is named again.
LEMMA RewrittenOnce ==
  ASSUME NEW aliases, NEW m \in Nat, Len(aliases) = m, NEW k \in 1..m,
         NEW old, old = aliases[k].before, NEW new, new = aliases[k].after,
         \A i \in 1..m : i < k => aliases[i].before # old,
         \A i \in 1..m : i > k => aliases[i].before # new
  PROVE  rewritten(old, aliases) = new
<1> DEFINE Through(i, v) == IF SameTarget(aliases[i].before, v) THEN aliases[i].after ELSE v
           Solves(f) == f = [i \in 0..m |-> IF i = 0 THEN old ELSE Through(i, f[i - 1])]
           g == [i \in 0..m |-> IF i < k THEN old ELSE new]
<1>1. g[0] = old
  OBVIOUS
<1>2. ASSUME NEW i \in 1..m PROVE g[i] = Through(i, g[i - 1])
  <2>1. i \in 0..m /\ i - 1 \in 0..m
    OBVIOUS
  <2>2. CASE i < k
    <3>1. g[i] = old /\ g[i - 1] = old
      BY <2>1, <2>2
    <3>2. aliases[i].before # old
      BY <2>2
    <3> QED
      BY <3>1, <3>2 DEF SameTarget
  <2>3. CASE i = k
    <3>1. g[i] = new /\ g[i - 1] = old
      BY <2>1, <2>3
    <3> QED
      BY <2>3, <3>1 DEF SameTarget
  <2>4. CASE i > k
    <3>1. g[i] = new /\ g[i - 1] = new
      BY <2>1, <2>4
    <3>2. aliases[i].before # new
      BY <2>4
    <3> QED
      BY <3>1, <3>2 DEF SameTarget
  <2> QED
    BY <2>2, <2>3, <2>4
<1>3. Solves(g)
  <2> HIDE DEF g, Through
  <2>1. \A i \in 0..m : g[i] = IF i = 0 THEN old ELSE Through(i, g[i - 1])
    BY <1>1, <1>2
  <2>2. g = [i \in 0..m |-> g[i]]
    BY DEF g
  <2> QED
    BY <2>1, <2>2
<1> DEFINE F == CHOOSE f : Solves(f)
<1>4. Solves(F)
  <2> HIDE DEF Solves
  <2> QED
    BY <1>3
<1>5. rewritten(old, aliases) = F[m]
  BY Zenon DEF rewritten
<1> HIDE DEF F, g, Through
<1>6. F[0] = old /\ \A i \in 1..m : F[i] = Through(i, F[i - 1])
  BY <1>4
<1> DEFINE G == {i \in 0..m : F[i] = g[i]}
<1>7. \A i \in 0..m : i \in G
  <2>1. 0 \in G
    BY <1>1, <1>6
  <2>2. ASSUME NEW i \in 1..m, i - 1 \in G PROVE i \in G
    BY <1>2, <1>6, <2>2
  <2> HIDE DEF G
  <2> QED
    BY <2>1, <2>2, EveryRound
<1>8. F[m] = g[m]
  BY <1>7
<1>9. g[m] = new
  BY DEF g
<1> QED
  BY <1>5, <1>8, <1>9

Rewrites(g, aliases, m, old) == g = [i \in 0..m |->
  IF i = 0 THEN old ELSE IF SameTarget(aliases[i].before, g[i - 1]) THEN aliases[i].after ELSE g[i - 1]]

\* Targets can be rewritten round by round.
LEMMA RewritingRuns ==
  ASSUME NEW aliases, NEW m \in Nat, NEW old
  PROVE  \E g : Rewrites(g, aliases, m, old)
<1> DEFINE Through(i, v) == IF SameTarget(aliases[i].before, v) THEN aliases[i].after ELSE v
<1>1. PICK V, w : V = {old} \cup {aliases[i].after : i \in 1..m} /\ w = old
  OBVIOUS
<1>2. PICK st : st = [i \in 1..m |-> [v \in V |-> Through(i, v)]]
  OBVIOUS
<1>3. \A i \in 1..m : \A v \in V : Through(i, v) \in V
  BY <1>1
<1> HIDE DEF Through
<1>4. st \in [1..m -> [V -> V]] /\ w \in V /\ \A i \in 1..m : \A v \in V : st[i][v] = Through(i, v)
  BY <1>1, <1>2, <1>3
<1>5. m \in Nat /\ st \in [1..m -> [V -> V]] /\ w \in V
  BY <1>4
<1>6. PICK f \in [0..m -> V] : f[0] = w /\ \A k \in 1..m : f[k] = st[k][f[k - 1]]
  BY ONLY <1>5, RunExists
<1>7. \A i \in 1..m : f[i - 1] \in V
  BY <1>6
<1>8. \A i \in 1..m : f[i] = Through(i, f[i - 1])
  BY <1>4, <1>6, <1>7
<1>9. f = [i \in 0..m |-> IF i = 0 THEN old ELSE Through(i, f[i - 1])]
  BY <1>1, <1>6, <1>8
<1> QED
  BY <1>9 DEF Through, Rewrites

\* A target that an alias names comes out as what some alias leads to.
LEMMA RewrittenSomewhere ==
  ASSUME NEW aliases, NEW m \in Nat, Len(aliases) = m, NEW z \in 1..m, NEW old, old = aliases[z].before
  PROVE  \E i \in 1..m : rewritten(old, aliases) = aliases[i].after
<1> DEFINE A == {aliases[i].after : i \in 1..m}
           Through(i, v) == IF SameTarget(aliases[i].before, v) THEN aliases[i].after ELSE v
           F == CHOOSE g : Rewrites(g, aliases, m, old)
<1>3. Rewrites(F, aliases, m, old)
  BY RewritingRuns, Zenon
<1>4. rewritten(old, aliases) = F[m]
  BY Zenon DEF rewritten, Rewrites
<1> HIDE DEF F
<1>5. F[0] = old /\ \A i \in 1..m : F[i] = Through(i, F[i - 1])
  BY <1>3 DEF Rewrites
<1> DEFINE G == {i \in 0..m : F[i] \in A \/ (i < z /\ F[i] = old)}
<1>6. \A i \in 0..m : i \in G
  <2>1. 0 \in G
    BY <1>5
  <2>2. ASSUME NEW i \in 1..m, i - 1 \in G PROVE i \in G
    <3>1. F[i] \in A \/ F[i] = F[i - 1]
      BY <1>5 DEF Through
    <3>2. CASE F[i - 1] \in A
      BY <3>1, <3>2
    <3>3. CASE i - 1 < z /\ F[i - 1] = old
      <4>1. CASE i = z
        BY <1>5, <3>3, <4>1 DEF Through, SameTarget
      <4>2. CASE i < z
        BY <3>1, <3>3, <4>2
      <4> QED
        BY <3>3, <4>1, <4>2
    <3> QED
      BY <2>2, <3>2, <3>3
  <2> HIDE DEF G
  <2> QED
    BY <2>1, <2>2, EveryRound
<1>7. m \in G
  BY <1>6
<1> QED
  BY <1>4, <1>7

\* A range that is listed is found, as exactly that range.
LEMMA ExactlyRelated ==
  ASSUME NEW aliases, NEW k \in DOMAIN aliases, NEW r, r = aliases[k].before,
         FirstLine(r) \in Int, LastLine(r) \in Int, FirstLine(r) <= LastLine(r)
  PROVE  targetAliasRelation(r, aliases) = 4
<1>1. rowSpanRelation(r, r) = 4
  BY DEF rowSpanRelation
<1>2. \A s : rowSpanRelation(r, s) \in 0..4
  BY DEF rowSpanRelation
<1>3. PICK W : W = {0} \cup {rowSpanRelation(r, aliases[i].before) : i \in DOMAIN aliases}
  OBVIOUS
<1>4. 4 \in W /\ W \subseteq 0..4
  BY <1>1, <1>2, <1>3
<1>5. \A y \in W : y \in Int /\ y <= 4
  <2> SUFFICES ASSUME NEW y \in W PROVE y \in Int /\ y <= 4
    OBVIOUS
  <2>1. y \in 0..4
    BY <1>4
  <2> QED
    BY <2>1
<1>6. Greatest(W) = 4
  <2>1. PICK z : z = CHOOSE y \in W : \A w \in W : w <= y
    OBVIOUS
  <2>2. z \in W /\ \A w \in W : w <= z
    BY <1>4, <1>5, <2>1
  <2>3. 4 <= z /\ z <= 4 /\ z \in Int
    BY <1>4, <1>5, <2>2
  <2> QED
    BY <2>1, <2>3 DEF Greatest
<1> QED
  BY <1>3, <1>6 DEF targetAliasRelation

\* What the next script learns is true, whatever was edited.
THEOREM AliasesAreTrue == EditorSpec => []AliasesFollow
<1>1. EditorInv /\ TargetsNumbered => AliasesFollow
  <2> SUFFICES ASSUME EditorInv, TargetsNumbered, NEW t, t = content(edits), NEW p, p = projected(edits),
                      NEW aliases, aliases = targetAliases(t, p), NEW k \in DOMAIN aliases,
                      NEW al, al = aliases[k], NEW x, x = extent(p, al.command)
               PROVE  /\ \A s \in LineStarts(t) :
                           s < x.end /\ x.start < FullEnd(t, s) <=> RowOf(t, s) \in FirstLine(al.after)..LastLine(al.after)
                      /\ FirstLine(al.after)..LastLine(al.after) \subseteq ReportedRows(t, x)
                      /\ FirstLine(al.before) <= LastLine(al.before) => targetAliasRelation(al.before, aliases) = 4
                      /\ \E i \in DOMAIN aliases :
                           /\ rewritten(al.before, aliases) = aliases[i].after
                           /\ \/ i = k
                              \/ \E j \in DOMAIN aliases : \/ j < k /\ aliases[j].before = al.before
                                                           \/ j > k /\ aliases[j].before = al.after
    BY DEF AliasesFollow
  <2>0. t \in Text /\ baseline \in Text
    BY ContentIsText, EditorAssumption DEF EditorInv, EditorTypeOK
  <2>1. PICK m, of : AliasesOf(aliases, m, of, t, p)
    BY AliasesAre
  <2>2. m \in Nat /\ DOMAIN aliases = 1..m /\ Len(aliases) = m
    BY <2>1 DEF AliasesOf
  <2>3. ASSUME NEW i \in 1..m PROVE of[i] \in edits /\ of[i].rows /\ Tells(aliases[i], of[i], t, extent(p, of[i].command))
    BY <2>1, AliasTells DEF AliasesOf
  <2>4. PICK e : e = of[k]
    OBVIOUS
  <2>5. e \in edits /\ e.rows /\ Tells(al, e, t, extent(p, e.command))
    BY <2>2, <2>3, <2>4
  <2>6. x = extent(p, e.command)
    BY <2>5 DEF Tells
  <2>7. PICK i, j : i = x.start /\ j = x.end
    OBVIOUS
  <2>8. /\ i \in Nat /\ j \in Nat /\ i < j /\ j <= Len(t)
        /\ FirstLine(al.after) = RowAt(t, i) /\ LastLine(al.after) = RowAt(t, j - 1)
    BY <2>5, <2>6, <2>7 DEF Tells
  <2>11. ASSUME NEW s \in LineStarts(t)
         PROVE  s < x.end /\ x.start < FullEnd(t, s) <=> RowOf(t, s) \in FirstLine(al.after)..LastLine(al.after)
    <3>1. s < j /\ i < FullEnd(t, s) <=> RowOf(t, s) \in RowAt(t, i)..RowAt(t, j - 1)
      BY <2>0, <2>8, SpanRows
    <3> QED
      BY <2>7, <2>8, <3>1
  <2>12. FirstLine(al.after)..LastLine(al.after) \subseteq ReportedRows(t, x)
    <3>1. PICK h : h = j - 1
      OBVIOUS
    <3>2. h \in 0..Len(t) - 1 /\ i \in 0..Len(t) - 1 /\ h + 1 = j
      <4>1. Len(t) \in Nat
        BY <2>0 DEF Text
      <4> QED
        BY <2>8, <3>1, <4>1
    <3>3. RowAt(t, h) \in Nat /\ RowAt(t, h + 1) \in Nat /\ RowAt(t, h) <= RowAt(t, h + 1)
      BY <2>0, <3>2, RowAtGrows
    <3>4. RowAt(t, i) \in Nat
      BY <2>0, <3>2, RowAtGrows
    <3>5. PICK u, v, w : u = RowAt(t, i) /\ v = RowAt(t, h) /\ w = RowAt(t, j)
      OBVIOUS
    <3>6. u \in Nat /\ v \in Nat /\ w \in Nat /\ v <= w
      BY <3>2, <3>3, <3>4, <3>5
    <3>7. u..v \subseteq u..w
      BY <3>6
    <3>8. ReportedRows(t, x) = u..w
      BY <2>7, <3>5 DEF ReportedRows
    <3> QED
      BY <2>8, <3>1, <3>5, <3>7, <3>8
  <2>13. ASSUME FirstLine(al.before) <= LastLine(al.before) PROVE targetAliasRelation(al.before, aliases) = 4
    <3>1. al.before = e.target
      BY <2>5 DEF Tells
    <3>2. FirstLine(al.before) \in Int /\ LastLine(al.before) \in Int
      BY <2>5, <3>1 DEF TargetsNumbered
    <3> QED
      BY <2>13, <3>2, ExactlyRelated
  <2>14. CASE \E l \in DOMAIN aliases : \/ l < k /\ aliases[l].before = al.before
                                        \/ l > k /\ aliases[l].before = al.after
    <3>1. PICK old : old = al.before
      OBVIOUS
    <3>2. k \in 1..m /\ old = aliases[k].before
      BY <2>2, <3>1
    <3>3. \E l \in 1..m : rewritten(old, aliases) = aliases[l].after
      BY ONLY <2>2, <3>2, RewrittenSomewhere
    <3> QED
      BY <2>2, <2>11, <2>12, <2>13, <2>14, <3>1, <3>3
  <2>15. CASE ~\E l \in DOMAIN aliases : \/ l < k /\ aliases[l].before = al.before
                                         \/ l > k /\ aliases[l].before = al.after
    <3>1. PICK old, new : old = al.before /\ new = al.after
      OBVIOUS
    <3>2. /\ k \in 1..m /\ old = aliases[k].before /\ new = aliases[k].after
          /\ \A l \in 1..m : l < k => aliases[l].before # old
          /\ \A l \in 1..m : l > k => aliases[l].before # new
      BY <2>2, <2>15, <3>1
    <3>3. rewritten(old, aliases) = new
      BY ONLY <2>2, <3>2, RewrittenOnce
    <3>4. rewritten(al.before, aliases) = aliases[k].after
      BY <3>1, <3>2, <3>3
    <3> QED
      BY <2>11, <2>12, <2>13, <3>4
  <2> QED
    BY <2>14, <2>15
<1> QED
  BY <1>1, EditorInvariance, TargetsAreNumbered, PTL
=============================================================================
