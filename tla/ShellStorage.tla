---------------------------- MODULE ShellStorage ----------------------------
(* The retained scripts of one Codex thread                                *)
(* (internal/router/shell_runtime.go).  A session owns a directory that it *)
(* alone created; each retained artifact has a timer; readers lease the    *)
(* directory for as long as they read.  An artifact whose timer fired      *)
(* waits for the last lease, and the directory goes with its last          *)
(* artifact.  Worker processes write into the directory without a lease.   *)
(* Every method is one critical section of the proxy's mutex.              *)
EXTENDS Naturals, FiniteSets

CONSTANTS
  Names,    \* identifiers of artifacts
  Readers,  \* operations of the router that read artifacts
  None      \* absent

VARIABLES
  directory, \* the pathname: "none", "ours" (scripts is its root) or "other"
  files,     \* artifacts in our directory
  timers,    \* session.timers: TRUE while armed, FALSE when expired
  lease,     \* what each lease holder saw when it got the root, or None
  closing    \* "open", "closed" (new leases are refused) or "gone"

storage == <<directory, files, timers, lease, closing>>

Leases == {r \in Readers : lease[r] # None}
NoTimers == [n \in {} |-> TRUE]

StorageInit ==
  /\ directory = "none" /\ files = {} /\ timers = NoTimers
  /\ lease = [r \in Readers |-> None] /\ closing = "open"

(* retireStorage and removeShellDirectory: the entries go, then the        *)
(* directory unless a worker's new file or a replacement keeps it.         *)
RetireStorage == directory' \in {"none", "other"} /\ files' = {}

\* Mutant: expiry does not wait for readers.
RetireIdleNow(t, present, held) ==
  LET live == {n \in DOMAIN t : t[n]}
  IN  /\ timers' = [n \in live |-> TRUE]
      /\ IF live = {} THEN RetireStorage
         ELSE directory' = "ours" /\ files' = present \ (DOMAIN t \ live)

(* retireIdle, with the timers, files and leases as they are now.          *)
RetireIdle(t, present, held) ==
  LET live == {n \in DOMAIN t : t[n]}
  IN  IF held # {}
      THEN timers' = t /\ files' = present /\ directory' = "ours"
      ELSE /\ timers' = [n \in live |-> TRUE]
           /\ IF live = {} THEN RetireStorage
              ELSE directory' = "ours" /\ files' = present \ (DOMAIN t \ live)

\* createStorage: only a directory that the session makes itself is used.
HasStorage == directory \in {"ours", "none"}

(* retainShell.  A name in use, a failed open or a failed write leaves the *)
(* artifacts as they were.                                                 *)
Retained(n) ==
  /\ closing = "open" /\ HasStorage /\ n \notin DOMAIN timers \cup files
  /\ RetireIdle([k \in DOMAIN timers \cup {n} |-> IF k = n THEN TRUE ELSE timers[k]],
                files \cup {n}, Leases)
  /\ UNCHANGED <<lease, closing>>

RetainFails ==
  /\ closing = "open" /\ HasStorage
  /\ RetireIdle(timers, files, Leases)
  /\ UNCHANGED <<lease, closing>>

(* The timer of retainShell fires.                                         *)
Expire(n) ==
  /\ closing = "open" /\ n \in DOMAIN timers /\ timers[n]
  /\ RetireIdle([timers EXCEPT ![n] = FALSE], files, Leases)
  /\ UNCHANGED <<lease, closing>>

(* shellRoot and its release.                                              *)
Lease(r) ==
  /\ closing = "open" /\ directory = "ours" /\ lease[r] = None
  /\ lease' = [lease EXCEPT ![r] = files]
  /\ UNCHANGED <<directory, files, timers, closing>>

Release(r) ==
  /\ lease[r] # None
  /\ lease' = [lease EXCEPT ![r] = None]
  /\ IF closing = "open" THEN RetireIdle(timers, files, Leases \ {r})
     ELSE UNCHANGED <<directory, files, timers>>
  /\ UNCHANGED closing

(* Close: new leases are refused, existing ones finish, the rest goes.     *)
BeginClose ==
  /\ closing = "open" /\ closing' = "closed"
  /\ UNCHANGED <<directory, files, timers, lease>>

FinishClose ==
  /\ closing = "closed" /\ Leases = {}
  /\ closing' = "gone" /\ timers' = NoTimers
  /\ IF directory = "ours" THEN RetireStorage ELSE UNCHANGED <<directory, files>>
  /\ UNCHANGED lease

\* What happens to the storage beside its readers; others are the artifacts that
\* other calls retain.
StorageNext(others) ==
  \/ \E n \in others : Retained(n)
  \/ \E n \in Names : Expire(n)
  \/ RetainFails \/ BeginClose \/ FinishClose

\* Before its expiry an artifact can be read and replaced by its worker.
Available(n) == n \in files /\ n \in DOMAIN timers /\ timers[n]

(* Storage follows its use: what a reader saw stays until it lets go, no   *)
(* matter which timers fire or whether the router shuts down meanwhile;    *)
(* and with the last artifact gone and no reader left nothing stays behind *)
(* (retireIdle, shellRoot, Close).                                         *)
StorageFollowsUse ==
  /\ \A r \in Leases : directory = "ours" /\ lease[r] \subseteq files
  /\ directory = "ours" => Leases # {} \/ DOMAIN timers # {}
  /\ Leases = {} /\ closing = "open" => \A n \in DOMAIN timers : timers[n]
  /\ closing = "gone" => directory # "ours"
=============================================================================
