----------------------------- MODULE EditChange -----------------------------
(***************************************************************************)
(* A change of the workspace (workspace.go), the value that the evaluated  *)
(* workspace hands over to the transaction.                                *)
(***************************************************************************)
EXTENDS Integers, Sequences

CONSTANTS
  Names,       \* paths of the workspace
  Contents,    \* contents of files
  Absent       \* the content of a path that does not exist

ChangeKinds == {"add", "update", "delete"}

\* A change takes the file at "from" (unless it adds) to "to" (unless it
\* deletes) with the given content.
Change == [kind : ChangeKinds, from : Names, to : Names, content : Contents]

\* What the transaction relies on: sources exist and are distinct, destinations
\* are distinct, and a destination is free or given up by a change.
WellFormed(disk, seq) ==
  /\ \A i \in DOMAIN seq : seq[i].kind # "add" => disk[seq[i].from] # Absent
  /\ \A i, j \in DOMAIN seq : i # j =>
       /\ seq[i].kind # "add" /\ seq[j].kind # "add" => seq[i].from # seq[j].from
       /\ seq[i].kind # "delete" /\ seq[j].kind # "delete" => seq[i].to # seq[j].to
  /\ \A i \in DOMAIN seq : seq[i].kind # "delete" =>
       \/ disk[seq[i].to] = Absent
       \/ \E j \in DOMAIN seq : seq[j].kind # "add" /\ seq[j].from = seq[i].to

\* The files after the changes.
Result(disk, seq) == [p \in Names |->
  IF \E i \in DOMAIN seq : seq[i].kind # "delete" /\ seq[i].to = p
  THEN seq[CHOOSE i \in DOMAIN seq : seq[i].kind # "delete" /\ seq[i].to = p].content
  ELSE IF \E i \in DOMAIN seq : seq[i].kind # "add" /\ seq[i].from = p THEN Absent
  ELSE disk[p]]
=============================================================================
