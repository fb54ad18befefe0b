----------------------------- MODULE ReplayStore -----------------------------
(***************************************************************************)
(* The durable replay store of one workspace (mekugi_store.go) and its     *)
(* index of tracked changes (mekugi_changes.go), shared by several router  *)
(* processes through an exclusive file lock.                               *)
(*                                                                         *)
(* Every file is replaced by writing and syncing a temporary file, renaming *)
(* it and syncing the directory.  Any of these calls may fail, a process   *)
(* may die between any two of them, and a power cut leaves every file at   *)
(* one of the versions renamed since the last successful sync of the       *)
(* directory.  Only the holder of the lock moves, so the operation in      *)
(* progress is one record; what a process remembers between two operations *)
(* is stale by then.                                                       *)
(***************************************************************************)
EXTENDS Integers, Sequences, FiniteSets, SequencesExt

CONSTANTS
  Processes, Threads,
  Calls, Notes,          \* tool calls and generated commentary messages
  Correlations, CorrelationOf, AttemptOf,
  Outcomes, Statuses,    \* of a translation, and of its upstream item
  MaxRecords,            \* the quota of call records, and of notes, in files
  MaxOperations, MaxFaults, MaxCrashes,
  None

AllOutcomes == {"prepared", "applied", "rejected"}
AllStatuses == {"in_progress", "completed", "incomplete"}
Objects == Calls \cup Notes
Tracked(c) == c \in Calls /\ CorrelationOf[c] # None

\* A change is identified by the position of its thread's stream and a number.
Changes == (Nat \ {0}) \X (Nat \ {0})
Histories == [change : Changes \cup {None}, outcome : AllOutcomes, status : AllStatuses]

ASSUME StoreAssumption ==
  /\ Calls \cap Notes = {} /\ IsFiniteSet(Calls)
  /\ None \notin Objects \cup Correlations \cup Processes
  /\ None \notin Changes /\ None \notin Histories
  /\ CorrelationOf \in [Calls -> Correlations \cup {None}]
  /\ Outcomes \subseteq AllOutcomes
  /\ Statuses \subseteq AllStatuses
  /\ AttemptOf \in [Calls -> Nat \ {0}]
  /\ \A n \in {MaxRecords, MaxOperations, MaxFaults, MaxCrashes} : n \in Nat

VARIABLES
  record, index,       \* the files as the processes see them
  recordMay, indexMay, \* the versions a power cut may leave
  garbage,             \* temporary files of dead processes, per class of record
  holder,              \* the process that holds store.lock
  pc, op, todo, current, draft,   \* the operation in progress
  open,                \* the processes that have opened the store
  known,               \* per process: the change reserved for a correlation
  view,                \* per process: the records read for a request
  acked,               \* what operations that returned nil have promised
  operations, faults, crashes, cuts

files  == <<record, index, recordMay, indexMay>>
memory == <<open, known, view>>
work   == <<pc, op, todo, current, draft>>
bounds == <<operations, faults, crashes, cuts>>
vars == <<files, garbage, holder, work, memory, acked, bounds>>

ChangeOf(i, k) == {d \in DOMAIN i.changes : i.changes[d].correlation = k}
Members(i, d) == {i.changes[d].calls[n].id : n \in DOMAIN i.changes[d].calls}
EmptyIndex == [streams |-> << >>, changes |-> [d \in {} |-> None]]

Idle == [kind |-> "none"]

Init ==
  /\ record = [o \in Objects |-> None] /\ recordMay = [o \in Objects |-> {None}]
  /\ index = EmptyIndex /\ indexMay = {EmptyIndex}
  /\ garbage = [calls |-> 0, notes |-> 0]
  /\ holder = None /\ pc = "idle" /\ op = Idle
  /\ todo = {} /\ current = None /\ draft = None
  /\ open = {}
  /\ known = [p \in Processes |-> [k \in Correlations |-> None]]
  /\ view = [p \in Processes |-> [o \in Calls |-> None]]
  /\ acked = {}
  /\ operations = 0 /\ faults = 0 /\ crashes = 0 /\ cuts = 0

-----------------------------------------------------------------------------
(* openMekugiReplayStore and withLock *)

\* Mutant: the directory is not synced.
SyncedNothing == UNCHANGED files

\* syncReplayDirectory: every rename so far is durable.
Synced ==
  /\ recordMay' = [o \in Objects |-> {record[o]}]
  /\ indexMay' = {index}
  /\ UNCHANGED <<record, index>>

\* Opening syncs the directory: an earlier sync may have failed.
Open(p) ==
  /\ p \notin open
  /\ open' = open \cup {p}
  /\ Synced
  /\ UNCHANGED <<garbage, holder, work, known, view, acked, bounds>>

\* The lock is free for a process that has opened the store.
Free(p) == holder = None /\ p \in open

Lock(p, operation, at, objects) ==
  /\ Free(p) /\ operations < MaxOperations
  /\ operations' = operations + 1
  /\ holder' = p /\ op' = operation /\ pc' = at /\ todo' = objects
  /\ current' = None /\ draft' = None
  /\ UNCHANGED <<files, garbage, memory, acked, faults, crashes, cuts>>

Release ==
  /\ holder' = None /\ op' = Idle /\ pc' = "idle" /\ todo' = {}
  /\ current' = None /\ draft' = None

\* The operation returns an error.
Fails == Release /\ UNCHANGED <<files, garbage, memory, acked, bounds>>

\* A filesystem call fails.
Fault == faults < MaxFaults /\ faults' = faults + 1

-----------------------------------------------------------------------------
(* Operations begin *)

\* reserveChange, before a new evaluation
BeginReserve(p, thread, k) ==
  Lock(p, [kind |-> "reserve", thread |-> thread, correlation |-> k], "index", {})

\* changeIDForAttempt of a correction: the ID of the visible ancestor's
\* correlation, read without a write.  An empty ID, for an ancestor that has no
\* change, makes the correction one of the calls that are not Tracked.
BeginCorrection(p, k) ==
  /\ \E c \in Calls : view[p][c] # None /\ CorrelationOf[c] = k
  /\ Free(p)
  /\ known[p][k] = None /\ ChangeOf(index, k) # {}
  /\ known' = [known EXCEPT ![p][k] = CHOOSE d \in ChangeOf(index, k) : TRUE]
  /\ UNCHANGED <<files, garbage, holder, work, open, view, acked, bounds>>

\* The history a process builds for a call: the change it knows of and what
\* the evaluation came to.
HistoryOf(p, c, result) ==
  [change |-> IF Tracked(c) THEN known[p][CorrelationOf[c]] ELSE None,
   outcome |-> result.outcome, status |-> result.status]

Recordable(p) == {c \in Calls : Tracked(c) => known[p][CorrelationOf[c]] # None}

\* put: commitLocalCall has one call, commitHistory all calls of the turn.
BeginPut(p, results) ==
  Lock(p, [kind |-> "put", histories |-> [c \in DOMAIN results |-> HistoryOf(p, c, results[c])]],
       "record", DOMAIN results)

NoteHistory == [change |-> None, outcome |-> "prepared", status |-> "completed"]

BeginPutCommentary(p, ids) ==
  Lock(p, [kind |-> "commentary", histories |-> [n \in ids |-> NoteHistory]], "record", ids)

\* lookup for a call of the request's input, or of a continuation that confirms
\* it.  Only a call whose record is durable was ever handed out.
Lookup(p, c) ==
  /\ Free(p) /\ None \notin recordMay[c] /\ view[p][c] # record[c]
  /\ view' = [view EXCEPT ![p][c] = record[c]]
  /\ UNCHANGED <<files, garbage, holder, work, open, known, acked, bounds>>

\* confirmChanges: the input shows the exact report of these calls.
BeginConfirm(p, S) ==
  /\ \A c \in S : view[p][c] # None /\ view[p][c].change # None /\ view[p][c].outcome # "rejected"
  /\ Lock(p, [kind |-> "confirm", histories |-> [c \in S |-> view[p][c]]], "index", {})

-----------------------------------------------------------------------------
(* write: one record *)

Finalizes(old, new) == old = "in_progress" /\ new \in {"completed", "incomplete"}

\* mergeReplayHistory accepts: the same translation, and the item only finalized.
Mergeable(old, new) ==
  /\ old.change = new.change /\ old.outcome = new.outcome
  /\ old.status = new.status \/ Finalizes(old.status, new.status)

Class(o) == IF o \in Calls THEN Calls ELSE Notes
ClassName(o) == IF o \in Calls THEN "calls" ELSE "notes"
Others(o) == Cardinality({x \in Class(o) \ {o} : record[x] # None}) + garbage[ClassName(o)]

\* read: a file that cannot be read, or that is not the record of this call in
\* this workspace, is an error and never "no record".
ReadFails ==
  /\ pc \in {"record", "index"} /\ Fault /\ Release
  /\ UNCHANGED <<files, garbage, memory, acked, operations, crashes, cuts>>

\* A record that exists conflicts, is identical or is replaced by the merge.
Conflicts(o) == record[o] # None /\ ~Mergeable(record[o], op.histories[o])

ReadRecord ==
  /\ pc = "record"
  /\ \E o \in todo :
       IF Conflicts(o) THEN Fails
       ELSE IF record[o] # op.histories[o] /\ Others(o) + 1 > MaxRecords THEN Fails
       ELSE /\ pc' = IF record[o] = op.histories[o] THEN "recordSync" ELSE "recordTemp"
            /\ current' = o
            /\ UNCHANGED <<files, garbage, holder, op, todo, draft, memory, acked, bounds>>

\* CreateTemp, write, sync and close; on an error the temporary file is removed.
WriteTemp(at, next) ==
  /\ pc = at
  /\ \/ /\ pc' = next
        /\ UNCHANGED <<files, garbage, holder, op, todo, current, draft, memory, acked, bounds>>
     \/ /\ Fault /\ Release
        /\ UNCHANGED <<files, garbage, memory, acked, operations, crashes, cuts>>

RenameRecord ==
  /\ pc = "recordRename"
  /\ \/ /\ record' = [record EXCEPT ![current] = op.histories[current]]
        /\ recordMay' = [recordMay EXCEPT ![current] = @ \cup {op.histories[current]}]
        /\ pc' = "recordSync"
        /\ UNCHANGED <<index, indexMay, holder, op, todo, current, draft, faults>>
     \/ Fault /\ Release /\ UNCHANGED files
  /\ UNCHANGED <<garbage, memory, acked, operations, crashes, cuts>>

\* Mutant: the index is published as soon as the first record is written.
AfterRecordsEarly == IF op.kind = "put" THEN "index" ELSE "return"

\* After the last record the changes are published.
AfterRecords ==
  IF todo # {current} THEN "record"
  ELSE IF op.kind = "put" /\ \E c \in DOMAIN op.histories : op.histories[c].change # None
  THEN "index" ELSE "return"

\* The directory is synced after a rename, and for an identical record as well.
SyncRecord ==
  /\ pc = "recordSync"
  /\ \/ /\ Synced
        /\ todo' = todo \ {current}
        /\ pc' = AfterRecords
        /\ UNCHANGED <<holder, op, current, draft, faults>>
     \/ Fault /\ Release /\ UNCHANGED files
  /\ UNCHANGED <<garbage, memory, acked, operations, crashes, cuts>>

-----------------------------------------------------------------------------
(* The index: reserveChange, publishChanges, confirmChanges *)

Number(i, n) == IF n > Len(i.streams) THEN 1 ELSE i.streams[n].next + 1

Stream(i, thread) ==
  IF \E n \in DOMAIN i.streams : i.streams[n].thread = thread
  THEN CHOOSE n \in DOMAIN i.streams : i.streams[n].thread = thread
  ELSE Len(i.streams) + 1

Put(f, x, v) == [y \in DOMAIN f \cup {x} |-> IF y = x THEN v ELSE f[y]]

NewChange(i) == LET n == Stream(i, op.thread) IN <<n, Number(i, n)>>

Reserved(i) ==
  LET d == NewChange(i) IN
  [streams |-> Put(i.streams, d[1], [thread |-> op.thread, next |-> d[2]]),
   changes |-> Put(i.changes, d, [correlation |-> op.correlation, calls |-> << >>])]

Consistent(i, c) ==
  LET d == op.histories[c].change IN
  d \in DOMAIN i.changes /\ i.changes[d].correlation = CorrelationOf[c]

\* The list of calls of change d is replaced.
WithCalls(i, d, calls) == [i EXCEPT !.changes[d].calls = calls]
CallsOf(i, c) == i.changes[op.histories[c].change].calls

\* Mutant: the call is appended without looking for it.
AddCallAgain(i, c) ==
  WithCalls(i, op.histories[c].change,
            Append(CallsOf(i, c), [id |-> c, confirmed |-> op.histories[c].outcome = "applied"]))

AddCall(i, c) ==
  LET d == op.histories[c].change IN
  IF c \in Members(i, d) THEN i
  ELSE WithCalls(i, d, Append(CallsOf(i, c), [id |-> c, confirmed |-> op.histories[c].outcome = "applied"]))

\* repairChangeCall needs the durable record of the call and of the members.
Evidence(c, d) == record[c] # None /\ record[c].change = d
\* Mutant: only a change without published calls is repaired.
RepairableAlone(i, c) ==
  LET d == op.histories[c].change IN
  Evidence(c, d) /\ record[c].outcome # "rejected" /\ Members(i, d) = {}

Repairable(i, c) ==
  LET d == op.histories[c].change IN
  /\ Evidence(c, d) /\ record[c].outcome # "rejected"
  /\ \A m \in Members(i, d) : Evidence(m, d)

\* Before the first member of a later attempt, or at the end.
Position(calls, c) ==
  LET later == {n \in DOMAIN calls : AttemptOf[calls[n].id] > AttemptOf[c]} IN
  IF later = {} THEN Len(calls) + 1 ELSE CHOOSE n \in later : \A m \in later : n <= m

Repaired(i, c) ==
  LET d == op.histories[c].change IN
  IF c \in Members(i, d) THEN i
  ELSE WithCalls(i, d, InsertAt(CallsOf(i, c), Position(CallsOf(i, c), c), [id |-> c, confirmed |-> FALSE]))

\* Mutant: receipts of calls that the input does not show are dropped.
ConfirmOnly(i, c) ==
  LET calls == CallsOf(i, c) IN
  WithCalls(i, op.histories[c].change,
    [n \in DOMAIN calls |->
       [id |-> calls[n].id,
        confirmed |-> calls[n].id = c \/ (calls[n].id \in DOMAIN op.histories /\ calls[n].confirmed)]])

Confirm(i, c) ==
  LET calls == CallsOf(i, c) IN
  WithCalls(i, op.histories[c].change,
    [n \in DOMAIN calls |->
       [id |-> calls[n].id, confirmed |-> calls[n].id = c \/ calls[n].confirmed]])

\* One round of the loop over the tracked calls, and the loop.
Entered(i, c) == IF op.kind = "put" THEN AddCall(i, c) ELSE Confirm(Repaired(i, c), c)

Each(order) ==
  LET after[n \in 0..Len(order)] == IF n = 0 THEN index ELSE Entered(after[n - 1], order[n])
  IN after[Len(order)]

\* Does the operation accept the index, and what does it make of it?
Accepts(order) ==
  CASE op.kind = "reserve" ->
         ChangeOf(index, op.correlation) # {} \/ NewChange(index) \notin DOMAIN index.changes
    [] op.kind = "put" -> \A c \in Range(order) : Consistent(index, c)
    [] op.kind = "confirm" ->
         \A c \in Range(order) :
           Consistent(index, c) /\ (c \notin Members(index, op.histories[c].change) => Repairable(index, c))

Outcome(order) ==
  IF op.kind # "reserve" THEN Each(order)
  ELSE IF ChangeOf(index, op.correlation) # {} THEN index ELSE Reserved(index)

\* The tracked calls in the order of the turn or of the input.
Orders ==
  IF op.kind = "reserve" THEN {<< >>}
  ELSE LET S == {c \in DOMAIN op.histories : op.histories[c].change # None}
       IN Bijection(1..Cardinality(S), S)

\* validateChangeIndex: counters agree with the IDs, and no thread, correlation
\* or call occurs twice.
validateChangeIndex(i) ==
  /\ \A n \in DOMAIN i.streams : i.streams[n].next >= 1
  /\ \A n, m \in DOMAIN i.streams : n # m => i.streams[n].thread # i.streams[m].thread
  /\ DOMAIN i.changes = UNION {{n} \X (1..i.streams[n].next) : n \in DOMAIN i.streams}
  /\ \A d, e \in DOMAIN i.changes : d # e => i.changes[d].correlation # i.changes[e].correlation
  /\ \A d, e \in DOMAIN i.changes :
       \A n \in DOMAIN i.changes[d].calls, m \in DOMAIN i.changes[e].calls :
         i.changes[d].calls[n].id = i.changes[e].calls[m].id => d = e /\ n = m

\* readChangeIndex refuses an index that does not validate.
ReadIndex ==
  /\ pc = "index"
  /\ IF ~validateChangeIndex(index) THEN Fails ELSE
     \E order \in Orders :
       \/ ~Accepts(order) /\ Fails
       \/ /\ Accepts(order)
          /\ draft' = Outcome(order)
          /\ pc' = IF draft' = index THEN "done" ELSE "indexTemp"
          /\ UNCHANGED <<files, garbage, holder, op, todo, current, memory, acked, bounds>>

RenameIndex ==
  /\ pc = "indexRename"
  /\ \/ /\ index' = draft
        /\ indexMay' = indexMay \cup {draft}
        /\ pc' = "done"
        /\ UNCHANGED <<record, recordMay, holder, op, todo, current, draft, faults>>
     \/ Fault /\ Release /\ UNCHANGED files
  /\ UNCHANGED <<garbage, memory, acked, operations, crashes, cuts>>

\* What a nil error promises.
Promises ==
  CASE op.kind = "reserve" ->
         {[kind |-> "change", correlation |-> op.correlation, change |-> d] :
            d \in ChangeOf(index, op.correlation)}
    [] op.kind = "confirm" -> {[kind |-> "confirmed", call |-> c] : c \in DOMAIN op.histories}
    [] OTHER -> {[kind |-> "record", call |-> o, history |-> op.histories[o]] : o \in DOMAIN op.histories}

Remembered ==
  IF op.kind = "reserve"
  THEN [known EXCEPT ![holder][op.correlation] = CHOOSE d \in ChangeOf(index, op.correlation) : TRUE]
  ELSE known

\* The index is synced, also when it did not change, and nil is returned.
Finish ==
  /\ \/ pc = "done" /\ Synced
     \/ pc = "return" /\ UNCHANGED files
  /\ acked' = acked \cup Promises
  /\ known' = Remembered
  /\ Release
  /\ UNCHANGED <<garbage, open, view, bounds>>

FinishFails ==
  /\ pc = "done" /\ Fault /\ Release
  /\ UNCHANGED <<files, garbage, memory, acked, operations, crashes, cuts>>

-----------------------------------------------------------------------------
(* Crashes *)

Forgotten(S) ==
  /\ open' = open \ S
  /\ known' = [p \in Processes |-> IF p \in S THEN [k \in Correlations |-> None] ELSE known[p]]
  /\ view' = [p \in Processes |-> IF p \in S THEN [c \in Calls |-> None] ELSE view[p]]

\* A process dies: its lock is released, its temporary file stays.
Left == IF pc = "recordRename" THEN [garbage EXCEPT ![ClassName(current)] = @ + 1] ELSE garbage

Crash(p) ==
  /\ crashes + cuts < MaxCrashes /\ crashes' = crashes + 1
  /\ Forgotten({p})
  /\ IF holder = p THEN Release /\ garbage' = Left ELSE UNCHANGED <<holder, work, garbage>>
  /\ UNCHANGED <<files, acked, operations, faults, cuts>>

PowerCut ==
  /\ crashes + cuts < MaxCrashes /\ cuts' = cuts + 1
  /\ Forgotten(Processes)
  /\ Release /\ garbage' = Left
  /\ index' \in indexMay /\ indexMay' = {index'}
  /\ record' \in {r \in [Objects -> UNION {recordMay[o] : o \in Objects}] :
                   \A o \in Objects : r[o] \in recordMay[o]}
  /\ recordMay' = [o \in Objects |-> {record'[o]}]
  /\ UNCHANGED <<acked, operations, faults, crashes>>

-----------------------------------------------------------------------------
Results(S) == [S -> [outcome : Outcomes, status : Statuses]]

Operation(p) ==
  \/ \E thread \in Threads, k \in Correlations : BeginReserve(p, thread, k)
  \/ \E k \in Correlations : BeginCorrection(p, k)
  \/ \E S \in SUBSET Recordable(p) \ {{}} : \E results \in Results(S) : BeginPut(p, results)
  \/ \E ids \in SUBSET Notes \ {{}} : BeginPutCommentary(p, ids)
  \/ \E c \in Calls : Lookup(p, c)
  \/ \E S \in SUBSET Calls \ {{}} : BeginConfirm(p, S)

ProcessStep(p) == (Free(p) /\ Operation(p)) \/ Open(p) \/ Crash(p)

HolderStep ==
  \/ ReadFails \/ ReadRecord \/ WriteTemp("recordTemp", "recordRename") \/ RenameRecord \/ SyncRecord
  \/ ReadIndex \/ WriteTemp("indexTemp", "indexRename") \/ RenameIndex \/ Finish \/ FinishFails

Next == (\E p \in Processes : ProcessStep(p)) \/ HolderStep \/ PowerCut

Spec == Init /\ [][Next]_vars

-----------------------------------------------------------------------------
(* Properties *)

\* validateChangeIndex accepts every index the disk can hold.  An index it
\* refuses would block the workspace for good (mekugi_changes.go:80-82).
IndexValid == \A i \in indexMay : validateChangeIndex(i)

\* Promise a holds of every version that a power cut may leave.
Kept(a) ==
  /\ a.kind = "change" => \A i \in indexMay : ChangeOf(i, a.correlation) = {a.change}
  /\ a.kind = "confirmed" =>
       \A i \in indexMay : \E d \in DOMAIN i.changes : \E n \in DOMAIN i.changes[d].calls :
         i.changes[d].calls[n] = [id |-> a.call, confirmed |-> TRUE]
  /\ a.kind = "record" =>
       /\ \A v \in recordMay[a.call] : v # None /\ Mergeable(a.history, v)
       /\ a.history.change # None =>
            \A i \in indexMay : a.call \in Members(i, a.history.change)

\* What an operation promised by returning nil survives every later failure,
\* crash and power cut: a reserved ID stays the correlation's, a record keeps
\* its translation, a tracked call stays listed, a receipt stays
\* (doc/spec/changes.md: "IDs and stream allocation persist across router
\* restarts", "Published attempts are never removed or overwritten").
PromisesKept == \A a \in acked : Kept(a)

\* Index i lists calls for their records' change, and has every record's change.
Backed(i) ==
  /\ \A d \in DOMAIN i.changes : \A c \in Members(i, d) :
       \A v \in recordMay[c] : v # None /\ v.change = d
  /\ \A c \in Calls : \A v \in recordMay[c] :
       v # None /\ v.change # None =>
         v.change \in DOMAIN i.changes /\ i.changes[v.change].correlation = CorrelationOf[c]

\* Whatever the disk is left with, a listed call has the record it is listed
\* for, and a record's change exists: the index never outruns the evidence
\* (mekugi_changes.go:236-237).  So a confirmation of a call that is in the
\* store is never refused: neither an interrupted publication nor what other
\* processes did since leaves an index that reconciliation rejects for ever.
EvidenceFirst ==
  /\ \A i \in indexMay : Backed(i)
  /\ pc = "index" /\ op.kind = "confirm" => \A order \in Orders : Accepts(order)

\* Whatever a crash leaves, the index is accepted and backed by records.
DiskIsSound == IndexValid /\ EvidenceFirst

\* The calls of old are in new, in their order, and none lost its receipt.
Grown(old, new) ==
  /\ \A n \in DOMAIN old : \E m \in DOMAIN new :
       new[m].id = old[n].id /\ (old[n].confirmed => new[m].confirmed)
  /\ \A n1, n2 \in DOMAIN old : \A m1, m2 \in DOMAIN new :
       n1 < n2 /\ new[m1].id = old[n1].id /\ new[m2].id = old[n2].id => m1 < m2

\* Publication, repair and confirmation only insert calls and set receipts:
\* the calls of a change are never removed, reordered or unconfirmed
\* ("without reordering existing calls", doc/spec/changes.md).
ChangesOnlyGrow ==
  [][cuts' = cuts =>
       \A d \in DOMAIN index.changes :
         d \in DOMAIN index'.changes /\ Grown(index.changes[d].calls, index'.changes[d].calls)]_vars
=============================================================================
