------------------------- MODULE ReplayStore_proofs -------------------------
(***************************************************************************)
(* Proofs about the durable replay store and its index (ReplayStore), for  *)
(* every set of processes, threads, calls and messages and every number of *)
(* operations, failing filesystem calls, crashes and power cuts: whatever  *)
(* is left on the disk is an index that the next reader accepts and that   *)
(* its records back, what an operation promised is kept, and the calls of  *)
(* a change only grow.                                                     *)
(*                                                                         *)
(* The inductive invariant speaks about all versions that a power cut may  *)
(* leave.  The index in progress (draft) is built by a loop over the calls *)
(* of the operation; what a round does is a lemma, and that the whole loop *)
(* does it is an induction, written as a least counterexample.             *)
(***************************************************************************)
EXTENDS ReplayStore, FiniteSetTheorems, WellFoundedInduction, TLAPS

-----------------------------------------------------------------------------
(* The inductive invariant.                                                *)

Receipts == [id : Calls, confirmed : BOOLEAN]
Entries == [correlation : Correlations, calls : Seq(Receipts)]
Streams == [thread : Threads, next : Nat \ {0}]

IsIndex(i) ==
  /\ i = [streams |-> i.streams, changes |-> i.changes]
  /\ i.streams \in Seq(Streams)
  /\ i.changes \in [DOMAIN i.changes -> Entries] /\ DOMAIN i.changes \subseteq Changes

\* Index j has all changes of i, with all their calls.
Grows(i, j) ==
  \A d \in DOMAIN i.changes :
    /\ d \in DOMAIN j.changes /\ j.changes[d].correlation = i.changes[d].correlation
    /\ Grown(i.changes[d].calls, j.changes[d].calls)

\* An index that may be on the disk, or may get there.
Sound(i) == IsIndex(i) /\ validateChangeIndex(i) /\ Backed(i)

\* Change d is correlation k's whatever a power cut leaves.
Durable(d, k) == \A i \in indexMay : d \in DOMAIN i.changes /\ i.changes[d].correlation = k

\* History h is one that a process may write for object o.
Sourced(o, h) ==
  /\ h \in Histories
  /\ h.change # None <=> Tracked(o)
  /\ h.change # None => Durable(h.change, CorrelationOf[o])

\* History h was read from the durable record of c.
Shown(c, h) ==
  /\ h \in Histories
  /\ h.change # None <=> Tracked(c)
  /\ \A v \in recordMay[c] : v # None /\ v.change = h.change /\ v.outcome = h.outcome

\* The files: every version is sound, and a record only moved on by merging.
FilesInv ==
  /\ index \in indexMay
  /\ \A i \in indexMay : Sound(i)
  /\ record \in [Objects -> Histories \cup {None}]
  /\ recordMay \in [Objects -> SUBSET (Histories \cup {None})]
  /\ \A o \in Objects : record[o] \in recordMay[o]
  /\ \A o \in Objects : \A v \in recordMay[o] : v # None =>
       /\ record[o] # None /\ Mergeable(v, record[o])
       /\ v.change # None <=> Tracked(o)

\* What processes remember is stale but durable.
MemoryInv ==
  /\ known \in [Processes -> [Correlations -> Changes \cup {None}]]
  /\ view \in [Processes -> [Calls -> Histories \cup {None}]]
  /\ \A p \in Processes, k \in Correlations : known[p][k] # None => Durable(known[p][k], k)
  /\ \A p \in Processes, c \in Calls : view[p][c] # None => Shown(c, view[p][c])

\* A put: its histories are durable as far as it has come.
PutInv ==
  /\ op.kind \in {"put", "commentary"}
  /\ DOMAIN op.histories \subseteq (IF op.kind = "put" THEN Calls ELSE Notes)
  /\ todo \subseteq DOMAIN op.histories
  /\ \A o \in DOMAIN op.histories : Sourced(o, op.histories[o])
  /\ \A o \in DOMAIN op.histories \ todo : recordMay[o] = {op.histories[o]}

ConfirmInv ==
  /\ DOMAIN op.histories \subseteq Calls
  /\ \A c \in DOMAIN op.histories :
       /\ Shown(c, op.histories[c])
       /\ op.histories[c].change # None /\ op.histories[c].outcome # "rejected"

ReserveInv == op.thread \in Threads /\ op.correlation \in Correlations

\* Call c is listed and confirmed under change d of index i.
Receipt(i, d, c) ==
  \E n \in DOMAIN i.changes[d].calls : i.changes[d].calls[n] = [id |-> c, confirmed |-> TRUE]

\* Index i holds what the operation will promise of it.
Delivers(i) ==
  /\ op.kind = "reserve" => ChangeOf(i, op.correlation) # {}
  /\ op.kind = "put" =>
       \A c \in DOMAIN op.histories : op.histories[c].change # None => c \in Members(i, op.histories[c].change)
  /\ op.kind = "confirm" =>
       \A c \in DOMAIN op.histories : \E d \in DOMAIN i.changes : Receipt(i, d, c)

DraftInv ==
  pc \in {"indexTemp", "indexRename", "done"} =>
    /\ Sound(draft) /\ Grows(index, draft) /\ Delivers(draft)
    /\ pc = "done" => index = draft

WorkInv ==
  /\ pc \in {"idle", "record", "recordTemp", "recordRename", "recordSync",
             "index", "indexTemp", "indexRename", "done", "return"}
  /\ holder \in Processes \cup {None}
  /\ pc = "idle" <=> holder = None
  /\ pc \in {"record", "recordTemp", "recordRename", "recordSync", "return"} => PutInv
  /\ pc \in {"recordTemp", "recordRename", "recordSync"} => current \in todo
  /\ pc \in {"recordTemp", "recordRename"} => ~Conflicts(current)
  /\ pc = "recordSync" => record[current] = op.histories[current]
  /\ pc = "return" =>
       todo = {} /\ (op.kind = "put" => \A c \in DOMAIN op.histories : op.histories[c].change = None)
  /\ pc \in {"index", "indexTemp", "indexRename", "done"} =>
       /\ op.kind \in {"reserve", "put", "confirm"}
       /\ op.kind = "reserve" => ReserveInv
       /\ op.kind = "put" => PutInv /\ todo = {}
       /\ op.kind = "confirm" => ConfirmInv
  /\ DraftInv

\* A promise about a record names an object of the store.
Promise(a) == a.kind = "record" => a.call \in Objects

StoreInv ==
  /\ FilesInv /\ MemoryInv /\ WorkInv /\ PromisesKept
  /\ \A a \in acked : Promise(a)
  /\ open \subseteq Processes /\ cuts \in Nat

-----------------------------------------------------------------------------
(* Lists of calls.                                                         *)

\* No call is listed twice.
Unique(s) == \A n, m \in DOMAIN s : s[n].id = s[m].id => n = m
Listed(s) == {s[n].id : n \in DOMAIN s}

\* A list has its own calls in their order.
LEMMA GrownSame ==
  ASSUME NEW s \in Seq(Receipts), Unique(s)
  PROVE  Grown(s, s)
  BY DEF Grown, Unique

\* Growing is transitive: the calls in between carry the order over.
LEMMA GrownTrans ==
  ASSUME NEW s, NEW t, NEW u, Grown(s, t), Grown(t, u)
  PROVE  Grown(s, u)
<1>1. ASSUME NEW n \in DOMAIN s
      PROVE  \E m \in DOMAIN u : u[m].id = s[n].id /\ (s[n].confirmed => u[m].confirmed)
  <2>1. PICK l \in DOMAIN t : t[l].id = s[n].id /\ (s[n].confirmed => t[l].confirmed)
    BY <1>1 DEF Grown
  <2>2. PICK m \in DOMAIN u : u[m].id = t[l].id /\ (t[l].confirmed => u[m].confirmed)
    BY <2>1 DEF Grown
  <2> QED
    BY <2>1, <2>2
<1>2. ASSUME NEW n1 \in DOMAIN s, NEW n2 \in DOMAIN s, NEW m1 \in DOMAIN u, NEW m2 \in DOMAIN u,
             n1 < n2, u[m1].id = s[n1].id, u[m2].id = s[n2].id
      PROVE  m1 < m2
  <2>1. PICK l1 \in DOMAIN t : t[l1].id = s[n1].id
    BY <1>2 DEF Grown
  <2>2. PICK l2 \in DOMAIN t : t[l2].id = s[n2].id
    BY <1>2 DEF Grown
  <2>3. l1 < l2
    BY <1>2, <2>1, <2>2 DEF Grown
  <2> QED
    BY <1>2, <2>1, <2>2, <2>3 DEF Grown
<1> QED
  BY <1>1, <1>2 DEF Grown

\* A call that is not listed is put at place k of the list, the others keep their order.
LEMMA InsertGrows ==
  ASSUME NEW s \in Seq(Receipts), Unique(s), NEW e \in Receipts, e.id \notin Listed(s),
         NEW k \in 1..Len(s) + 1
  PROVE  LET t == InsertAt(s, k, e) IN
         t \in Seq(Receipts) /\ Unique(t) /\ Listed(t) = Listed(s) \cup {e.id} /\ Grown(s, t)
<1> DEFINE t == InsertAt(s, k, e)
<1>1. /\ t \in Seq(Receipts) /\ Len(t) = Len(s) + 1
      /\ \A n \in 1..Len(s) + 1 :
           t[n] = IF n < k THEN s[n] ELSE IF n = k THEN e ELSE s[n - 1]
  <2> DEFINE a == SubSeq(s, 1, k - 1)
             b == SubSeq(s, k, Len(s))
             ae == a \o <<e>>
  <2>0. Len(s) \in Nat /\ k \in Nat
    OBVIOUS
  <2>1. a \in Seq(Receipts) /\ Len(a) = k - 1 /\ \A n \in 1..k - 1 : a[n] = s[n]
    BY <2>0
  <2>2. b \in Seq(Receipts) /\ Len(b) = Len(s) - k + 1 /\ \A n \in 1..Len(s) - k + 1 : b[n] = s[n + k - 1]
    BY <2>0
  <2>3. t = ae \o b
    BY DEF InsertAt
  <2> HIDE DEF a, b, t
  <2>4. ae \in Seq(Receipts) /\ Len(ae) = k /\ (\A n \in 1..k - 1 : ae[n] = s[n]) /\ ae[k] = e
    BY <2>0, <2>1
  <2> HIDE DEF ae
  <2>5. t \in Seq(Receipts) /\ Len(t) = Len(s) + 1
    <3>0. ae \in Seq(Receipts) /\ b \in Seq(Receipts)
      BY <2>2, <2>4
    <3>1. ae \o b \in Seq(Receipts) /\ Len(ae \o b) = Len(ae) + Len(b)
      BY <3>0
    <3>2. Len(ae) + Len(b) = Len(s) + 1
      BY <2>0, <2>2, <2>4
    <3> QED
      BY <2>3, <3>1, <3>2
  <2>6. \A n \in 1..Len(s) + 1 : t[n] = IF n <= k THEN ae[n] ELSE b[n - k]
    <3>1. \A n \in 1..Len(ae) + Len(b) : (ae \o b)[n] = IF n <= Len(ae) THEN ae[n] ELSE b[n - Len(ae)]
      BY <2>2, <2>4
    <3> QED
      BY <2>0, <2>2, <2>3, <2>4, <3>1
  <2>7. \A n \in k + 1..Len(s) + 1 : n - k \in 1..Len(s) - k + 1 /\ (n - k) + k - 1 = n - 1
    BY <2>0
  <2>8. \A n \in k + 1..Len(s) + 1 : b[n - k] = s[n - 1]
    BY <2>2, <2>7
  <2> QED
    BY <2>0, <2>4, <2>5, <2>6, <2>8
<1> HIDE DEF t
<1>2. DOMAIN t = 1..Len(s) + 1 /\ DOMAIN s = 1..Len(s) /\ Len(s) \in Nat
  BY <1>1
<1>3. \A n \in DOMAIN s : s[n].id # e.id
  BY DEF Listed
<1>4. Unique(t)
  <2> DEFINE from(n) == IF n < k THEN n ELSE n - 1
  <2>1. \A n \in DOMAIN t \ {k} : from(n) \in DOMAIN s /\ t[n] = s[from(n)]
    BY <1>1, <1>2
  <2>2. \A n, m \in DOMAIN t \ {k} : from(n) = from(m) => n = m
    BY <1>2
  <2>3. t[k] = e
    BY <1>1, <1>2
  <2> HIDE DEF from
  <2> QED
    BY <1>3, <2>1, <2>2, <2>3 DEF Unique
<1>5. Listed(t) = Listed(s) \cup {e.id}
  <2>1. \A n \in DOMAIN t : t[n].id \in Listed(s) \cup {e.id}
    BY <1>1, <1>2 DEF Listed
  <2>2. t[k].id = e.id /\ k \in DOMAIN t
    BY <1>1, <1>2
  <2>3. ASSUME NEW n \in DOMAIN s PROVE \E m \in DOMAIN t : t[m].id = s[n].id
    <3>1. CASE n < k
      BY <1>1, <1>2, <3>1
    <3>2. CASE ~(n < k)
      <4>1. n + 1 \in DOMAIN t /\ t[n + 1] = s[n]
        BY <1>1, <1>2, <3>2
      <4> QED
        BY <4>1
    <3> QED
      BY <3>1, <3>2
  <2> QED
    BY <2>1, <2>2, <2>3 DEF Listed
<1>6. Grown(s, t)
  <2> DEFINE at(n) == IF n < k THEN n ELSE n + 1
  <2>1. \A n \in DOMAIN s : at(n) \in DOMAIN t /\ t[at(n)] = s[n]
    BY <1>1, <1>2
  <2>2. \A n \in DOMAIN s : \A m \in DOMAIN t : t[m].id = s[n].id => m = at(n)
    BY <1>4, <2>1 DEF Unique
  <2>3. \A n1, n2 \in DOMAIN s : n1 < n2 => at(n1) < at(n2)
    BY <1>2
  <2> HIDE DEF at
  <2> QED
    BY <2>1, <2>2, <2>3 DEF Grown
<1> QED
  BY <1>1, <1>4, <1>5, <1>6 DEF t

\* Appending is inserting at the end.
LEMMA AppendGrows ==
  ASSUME NEW s \in Seq(Receipts), Unique(s), NEW e \in Receipts, e.id \notin Listed(s)
  PROVE  LET t == Append(s, e) IN
         t \in Seq(Receipts) /\ Unique(t) /\ Listed(t) = Listed(s) \cup {e.id} /\ Grown(s, t)
<1>1. Append(s, e) = InsertAt(s, Len(s) + 1, e)
  BY DEF InsertAt
<1>2. Len(s) + 1 \in 1..Len(s) + 1
  OBVIOUS
<1> QED
  BY <1>1, <1>2, InsertGrows

\* The list with the receipt of c set.
Marked(s, c) == [n \in DOMAIN s |-> [id |-> s[n].id, confirmed |-> s[n].id = c \/ s[n].confirmed]]

\* Setting the receipt of c changes nothing else.
LEMMA MarkGrows ==
  ASSUME NEW s \in Seq(Receipts), Unique(s), NEW c
  PROVE  LET t == Marked(s, c) IN
         /\ t \in Seq(Receipts) /\ Unique(t) /\ Listed(t) = Listed(s) /\ Grown(s, t)
         /\ c \in Listed(s) => \E n \in DOMAIN t : t[n] = [id |-> c, confirmed |-> TRUE]
<1> DEFINE t == [n \in DOMAIN s |-> [id |-> s[n].id, confirmed |-> s[n].id = c \/ s[n].confirmed]]
<1>1. /\ t \in Seq(Receipts) /\ DOMAIN t = DOMAIN s /\ Len(s) \in Nat /\ DOMAIN s = 1..Len(s)
  <2>1. ASSUME NEW n \in 1..Len(s)
        PROVE  [id |-> s[n].id, confirmed |-> s[n].id = c \/ s[n].confirmed] \in Receipts
    <3>1. s[n] \in Receipts
      OBVIOUS
    <3>2. s[n].id \in Calls
      BY <3>1 DEF Receipts
    <3>3. (s[n].id = c \/ s[n].confirmed) \in BOOLEAN
      BY Zenon
    <3> QED
      BY <3>2, <3>3, Zenon DEF Receipts
  <2> QED
    BY <2>1
<1>2. \A n \in DOMAIN s : t[n].id = s[n].id /\ (t[n].confirmed <=> s[n].id = c \/ s[n].confirmed)
  OBVIOUS
<1>3. c \in Listed(s) => \E n \in DOMAIN t : t[n] = [id |-> c, confirmed |-> TRUE]
  BY DEF Listed
<1> HIDE DEF t
<1>4. Unique(t)
  BY <1>1, <1>2 DEF Unique
<1>5. Listed(t) = Listed(s)
  BY <1>1, <1>2 DEF Listed
<1>6. Grown(s, t)
  BY <1>1, <1>2, <1>4 DEF Grown, Unique
<1> QED
  BY <1>1, <1>3, <1>4, <1>5, <1>6 DEF t, Marked

-----------------------------------------------------------------------------
(* One round of the loop over the calls of an operation.                   *)

\* The entries of an index, by their parts.
LEMMA EntryIs ==
  ASSUME NEW i, IsIndex(i), NEW d \in DOMAIN i.changes
  PROVE  /\ d \in Changes /\ i.changes[d] \in Entries
         /\ i.changes[d].correlation \in Correlations /\ i.changes[d].calls \in Seq(Receipts)
         /\ DOMAIN i.changes[d].calls = 1..Len(i.changes[d].calls)
  BY DEF IsIndex, Entries

\* In a valid index no list has a call twice.
LEMMA ListsUnique ==
  ASSUME NEW i, validateChangeIndex(i), NEW d \in DOMAIN i.changes
  PROVE  Unique(i.changes[d].calls)
  BY DEF validateChangeIndex, Unique

\* Members are the calls of the list.
LEMMA MembersIs == \A i, d : Members(i, d) = Listed(i.changes[d].calls)
  BY DEF Members, Listed

\* Growing between indexes is reflexive and transitive.
LEMMA GrowsSame ==
  ASSUME NEW i, IsIndex(i), validateChangeIndex(i)
  PROVE  Grows(i, i)
  BY EntryIs, ListsUnique, GrownSame DEF Grows

\* What grew twice has grown.
LEMMA GrowsTrans ==
  ASSUME NEW i, NEW j, NEW k, Grows(i, j), Grows(j, k)
  PROVE  Grows(i, k)
<1> SUFFICES ASSUME NEW d \in DOMAIN i.changes
             PROVE  /\ d \in DOMAIN k.changes /\ k.changes[d].correlation = i.changes[d].correlation
                    /\ Grown(i.changes[d].calls, k.changes[d].calls)
  BY DEF Grows
<1>1. /\ d \in DOMAIN j.changes /\ j.changes[d].correlation = i.changes[d].correlation
      /\ Grown(i.changes[d].calls, j.changes[d].calls)
  BY DEF Grows
<1>2. /\ d \in DOMAIN k.changes /\ k.changes[d].correlation = j.changes[d].correlation
      /\ Grown(j.changes[d].calls, k.changes[d].calls)
  BY <1>1 DEF Grows
<1> QED
  BY <1>1, <1>2, GrownTrans

\* Replacing a list leaves the rest of the index alone.
LEMMA WithCallsIs ==
  ASSUME NEW i, IsIndex(i), NEW d \in DOMAIN i.changes, NEW calls \in Seq(Receipts)
  PROVE  LET j == WithCalls(i, d, calls) IN
         /\ IsIndex(j) /\ j.streams = i.streams /\ DOMAIN j.changes = DOMAIN i.changes
         /\ j.changes[d].calls = calls
         /\ \A e \in DOMAIN i.changes :
              /\ j.changes[e].correlation = i.changes[e].correlation
              /\ e # d => j.changes[e].calls = i.changes[e].calls
<1> DEFINE j == WithCalls(i, d, calls)
           entry == [i.changes[d] EXCEPT !.calls = calls]
           changes == [i.changes EXCEPT ![d] = entry]
<1>1. j = [i EXCEPT !.changes = changes]
  BY DEF WithCalls
<1>2. /\ entry \in Entries /\ entry.calls = calls
      /\ entry.correlation = i.changes[d].correlation
  BY EntryIs DEF Entries
<1> HIDE DEF entry
<1>3. /\ DOMAIN changes = DOMAIN i.changes /\ changes[d] = entry
      /\ \A e \in DOMAIN i.changes : e # d => changes[e] = i.changes[e]
      /\ changes \in [DOMAIN i.changes -> Entries]
  BY <1>2 DEF IsIndex
<1> HIDE DEF changes
<1>4. j = [streams |-> i.streams, changes |-> changes]
  BY <1>1 DEF IsIndex
<1>5. j.streams = i.streams /\ j.changes = changes
  BY <1>4
<1> HIDE DEF j
<1>6. IsIndex(j)
  BY <1>3, <1>4, <1>5 DEF IsIndex
<1> QED
  BY <1>2, <1>3, <1>5, <1>6 DEF j

\* A list may be replaced by one that has grown and whose new calls, if any,
\* have durable records for this change.
LEMMA ListStep ==
  ASSUME NEW i, Sound(i), NEW d \in DOMAIN i.changes, NEW calls \in Seq(Receipts), Unique(calls),
         Grown(i.changes[d].calls, calls),
         \A c \in Listed(calls) : c \in Listed(i.changes[d].calls)
                                  \/ \A v \in recordMay[c] : v # None /\ v.change = d,
         \A c \in Calls : recordMay[c] # {}
  PROVE  LET j == WithCalls(i, d, calls) IN Sound(j) /\ Grows(i, j)
<1> DEFINE j == WithCalls(i, d, calls)
<1>1. /\ IsIndex(i) /\ validateChangeIndex(i) /\ Backed(i)
  BY DEF Sound
<1>2. /\ IsIndex(j) /\ j.streams = i.streams /\ DOMAIN j.changes = DOMAIN i.changes
      /\ j.changes[d].calls = calls
      /\ \A e \in DOMAIN i.changes :
           /\ j.changes[e].correlation = i.changes[e].correlation
           /\ e # d => j.changes[e].calls = i.changes[e].calls
  BY <1>1, WithCallsIs
<1> HIDE DEF j
<1>3. Grows(i, j)
  BY <1>1, <1>2, EntryIs, ListsUnique, GrownSame DEF Grows
<1>4. ASSUME NEW e \in DOMAIN j.changes, NEW c \in Members(j, e)
      PROVE  \A v \in recordMay[c] : v # None /\ v.change = e
  <2>1. CASE e = d
    <3>1. c \in Listed(calls)
      BY <1>2, <1>4, <2>1, MembersIs
    <3>2. c \in Members(i, d) \/ \A v \in recordMay[c] : v # None /\ v.change = d
      BY <3>1, MembersIs
    <3> QED
      BY <1>1, <2>1, <3>2 DEF Backed
  <2>2. CASE e # d
    <3>1. c \in Members(i, e) /\ e \in DOMAIN i.changes
      BY <1>2, <1>4, <2>2 DEF Members
    <3> QED
      BY <1>1, <3>1 DEF Backed
  <2> QED
    BY <2>1, <2>2
<1>5. Backed(j)
  BY <1>1, <1>2, <1>4 DEF Backed
<1>6. ASSUME NEW e \in DOMAIN j.changes, NEW f \in DOMAIN j.changes,
             NEW n \in DOMAIN j.changes[e].calls, NEW m \in DOMAIN j.changes[f].calls,
             j.changes[e].calls[n].id = j.changes[f].calls[m].id
      PROVE  e = f /\ n = m
  <2> DEFINE c == j.changes[e].calls[n].id
  <2>1. c \in Members(j, e) /\ c \in Members(j, f)
    BY <1>6 DEF Members
  <2>2. c \in Calls
    <3>1. j.changes[e].calls \in Seq(Receipts) /\ DOMAIN j.changes[e].calls = 1..Len(j.changes[e].calls)
      BY <1>2, EntryIs
    <3>2. j.changes[e].calls[n] \in Receipts
      BY <1>6, <3>1
    <3> QED
      BY <3>2 DEF Receipts
  <2>3. e = f
    BY <1>4, <2>1, <2>2
  <2>4. Unique(j.changes[e].calls)
    BY <1>1, <1>2, ListsUnique
  <2> QED
    BY <1>6, <2>3, <2>4 DEF Unique
<1>7. validateChangeIndex(j)
  <2>1. \A n \in DOMAIN j.streams : j.streams[n].next >= 1
    BY <1>1, <1>2 DEF validateChangeIndex
  <2>2. \A n, m \in DOMAIN j.streams : n # m => j.streams[n].thread # j.streams[m].thread
    BY <1>1, <1>2 DEF validateChangeIndex
  <2>3. DOMAIN j.changes = UNION {{n} \X (1..j.streams[n].next) : n \in DOMAIN j.streams}
    BY <1>1, <1>2 DEF validateChangeIndex
  <2>4. \A e, f \in DOMAIN j.changes : e # f => j.changes[e].correlation # j.changes[f].correlation
    BY <1>1, <1>2 DEF validateChangeIndex
  <2> QED
    BY <1>6, <2>1, <2>2, <2>3, <2>4 DEF validateChangeIndex
<1> QED
  BY <1>2, <1>3, <1>5, <1>7 DEF j, Sound

\* A nonempty set of natural numbers has a least member.
LEMMA Least ==
  ASSUME NEW T, T \subseteq Nat, T # {}
  PROVE  \E n \in T : \A m \in T : ~ (m < n)
<1> DEFINE R == OpToRel(<, Nat)
<1>1. IsWellFoundedOn(R, Nat)
  BY NatLessThanWellFounded
<1> HIDE DEF R
<1>2. PICK n \in T : \A m \in T : ~ (<<m, n>> \in R)
  BY <1>1, WFMin
<1> QED
  BY <1>2 DEF R, OpToRel

\* A repaired call goes before some call of the list or to its end.
LEMMA PositionIs ==
  ASSUME NEW s \in Seq(Receipts), NEW c
  PROVE  Position(s, c) \in 1..Len(s) + 1
<1> DEFINE later == {n \in DOMAIN s : AttemptOf[s[n].id] > AttemptOf[c]}
<1>1. later \subseteq Nat /\ later \subseteq 1..Len(s) /\ Len(s) \in Nat
  OBVIOUS
<1> DEFINE first == CHOOSE n \in later : \A m \in later : n <= m
<1>2. Position(s, c) = IF later = {} THEN Len(s) + 1 ELSE first
  BY DEF Position
<1> HIDE DEF later
<1>3. CASE later = {}
  BY <1>1, <1>2, <1>3
<1>4. CASE later # {}
  <2>1. PICK l \in later : \A m \in later : ~ (m < l)
    BY <1>1, <1>4, Least
  <2>2. l \in later /\ \A m \in later : l <= m
    BY <1>1, <2>1
  <2>3. first \in later
    BY <2>2
  <2> HIDE DEF first
  <2> QED
    BY <1>1, <1>2, <1>4, <2>3
<1> QED
  BY <1>3, <1>4

\* An operation enters calls whose records are durable for their changes.
Enterable(i, c) ==
  /\ c \in Calls /\ op.histories[c].change \in DOMAIN i.changes
  /\ \A v \in recordMay[c] : v # None /\ v.change = op.histories[c].change

\* A call that is not listed is added at place k.
LEMMA AddStep ==
  ASSUME NEW i, Sound(i), NEW c, Enterable(i, c), \A x \in Calls : recordMay[x] # {},
         c \notin Members(i, op.histories[c].change), NEW b \in BOOLEAN,
         NEW k \in 1..Len(CallsOf(i, c)) + 1
  PROVE  LET d == op.histories[c].change
             j == WithCalls(i, d, InsertAt(CallsOf(i, c), k, [id |-> c, confirmed |-> b]))
         IN Sound(j) /\ Grows(i, j) /\ c \in Members(j, d)
<1> DEFINE d == op.histories[c].change
           s == i.changes[d].calls
           e == [id |-> c, confirmed |-> b]
           t == InsertAt(s, k, e)
           j == WithCalls(i, d, t)
<1>1. d \in DOMAIN i.changes /\ c \in Calls /\ IsIndex(i) /\ validateChangeIndex(i)
  BY DEF Enterable, Sound
<1>2. s \in Seq(Receipts) /\ Unique(s) /\ c \notin Listed(s)
  BY <1>1, EntryIs, ListsUnique, MembersIs
<1>3. e \in Receipts /\ e.id = c
  BY <1>1 DEF Receipts
<1>4. s = CallsOf(i, c) /\ k \in 1..Len(s) + 1
  BY DEF CallsOf
<1> HIDE DEF e
<1>5. t \in Seq(Receipts) /\ Unique(t) /\ Listed(t) = Listed(s) \cup {c} /\ Grown(s, t)
  BY <1>2, <1>3, <1>4, InsertGrows
<1> HIDE DEF t
<1>6. Sound(j) /\ Grows(i, j)
  BY <1>1, <1>5, ListStep DEF Enterable
<1>7. j.changes[d].calls = t
  BY <1>1, <1>5, WithCallsIs
<1>8. c \in Members(j, d)
  BY <1>5, <1>7, MembersIs
<1> QED
  BY <1>4, <1>6, <1>8 DEF t, e

\* One round keeps the index sound and enters its call.
LEMMA EnterStep ==
  ASSUME NEW i, Sound(i), NEW c, Enterable(i, c), \A x \in Calls : recordMay[x] # {}
  PROVE  LET j == Entered(i, c)
             d == op.histories[c].change
         IN /\ Sound(j) /\ Grows(i, j) /\ c \in Members(j, d)
            /\ op.kind # "put" => Receipt(j, d, c)
<1> DEFINE d == op.histories[c].change
           s == CallsOf(i, c)
<1>1. d \in DOMAIN i.changes /\ c \in Calls /\ IsIndex(i) /\ validateChangeIndex(i)
  BY DEF Enterable, Sound
<1>2. s \in Seq(Receipts) /\ Grows(i, i)
  BY <1>1, EntryIs, GrowsSame DEF CallsOf
<1>3. CASE op.kind = "put"
  <2> DEFINE j == AddCall(i, c)
  <2>1. j = Entered(i, c)
    BY <1>3 DEF Entered
  <2>2. CASE c \in Members(i, d)
    BY <1>2, <1>3, <2>1, <2>2 DEF AddCall
  <2>3. CASE c \notin Members(i, d)
    <3>1. PICK b \in BOOLEAN : b = (op.histories[c].outcome = "applied")
      OBVIOUS
    <3>2. j = WithCalls(i, d, Append(s, [id |-> c, confirmed |-> b]))
      BY <2>3, <3>1 DEF AddCall
    <3>3. [id |-> c, confirmed |-> b] \in Receipts
      BY <1>1 DEF Receipts
    <3>4. Append(s, [id |-> c, confirmed |-> b]) = InsertAt(s, Len(s) + 1, [id |-> c, confirmed |-> b])
      BY <1>2, <3>3 DEF InsertAt
    <3>5. Len(s) + 1 \in 1..Len(s) + 1
      BY <1>2
    <3> HIDE DEF j, s
    <3>6. Sound(j) /\ Grows(i, j) /\ c \in Members(j, d)
      BY <2>3, <3>2, <3>4, <3>5, AddStep DEF s
    <3> QED
      BY <1>3, <2>1, <3>6
  <2> QED
    BY <2>2, <2>3
<1>4. CASE op.kind # "put"
  <2> DEFINE r == Repaired(i, c)
             j == Confirm(r, c)
  <2>1. Sound(r) /\ Grows(i, r) /\ c \in Members(r, d)
    <3>1. CASE c \in Members(i, d)
      BY <1>2, <3>1 DEF Repaired
    <3>2. CASE c \notin Members(i, d)
      <4>1. PICK b \in BOOLEAN : b = FALSE
        OBVIOUS
      <4>2. r = WithCalls(i, d, InsertAt(s, Position(s, c), [id |-> c, confirmed |-> b]))
        BY <3>2, <4>1 DEF Repaired
      <4>3. Position(s, c) \in 1..Len(s) + 1
        BY <1>2, PositionIs
      <4> HIDE DEF r, s
      <4> QED
        BY <3>2, <4>2, <4>3, AddStep DEF s
    <3> QED
      BY <3>1, <3>2
  <2> HIDE DEF r
  <2> DEFINE u == CallsOf(r, c)
             t == Marked(u, c)
  <2>2. j = WithCalls(r, d, t)
    BY DEF Confirm, Marked
  <2>3. d \in DOMAIN r.changes /\ IsIndex(r) /\ validateChangeIndex(r) /\ u = r.changes[d].calls
    BY <1>1, <2>1 DEF Grows, Sound, CallsOf
  <2>4. u \in Seq(Receipts) /\ Unique(u) /\ c \in Listed(u)
    BY <2>1, <2>3, EntryIs, ListsUnique, MembersIs
  <2> HIDE DEF u, j
  <2>5. /\ t \in Seq(Receipts) /\ Unique(t) /\ Listed(t) = Listed(u) /\ Grown(u, t)
        /\ \E n \in DOMAIN t : t[n] = [id |-> c, confirmed |-> TRUE]
    BY <2>4, MarkGrows
  <2> HIDE DEF t
  <2>6. Sound(j) /\ Grows(r, j)
    BY <2>1, <2>2, <2>3, <2>5, ListStep
  <2>7. j.changes[d].calls = t
    BY <2>2, <2>3, <2>5, WithCallsIs
  <2>8. c \in Members(j, d)
    BY <2>4, <2>5, <2>7, MembersIs
  <2>9. Grows(i, j)
    BY <2>1, <2>6, GrowsTrans
  <2>10. j = Entered(i, c)
    BY <1>4 DEF Entered, j, r
  <2>11. Receipt(j, d, c)
    BY <2>5, <2>7 DEF Receipt
  <2> QED
    BY <2>6, <2>8, <2>9, <2>10, <2>11
<1> QED
  BY <1>3, <1>4

-----------------------------------------------------------------------------
(* The whole loop.                                                         *)

\* The index after the first n rounds, from the indexes f before.
Round(f, order, n) == IF n = 0 THEN index ELSE Entered(f[n - 1], order[n])
Rounds(order) == CHOOSE f : f = [n \in 0..Len(order) |-> Round(f, order, n)]

\* The recursion of the loop has a solution.
LEMMA RoundsExist ==
  ASSUME NEW order, Len(order) \in Nat
  PROVE  /\ Each(order) = Rounds(order)[Len(order)]
         /\ Rounds(order) = [n \in 0..Len(order) |-> Round(Rounds(order), order, n)]
<1> DEFINE Solved(l) == \E f : f = [n \in 0..l |-> Round(f, order, n)]
           Bad == {l \in Nat : ~Solved(l)}
<1>1. Bad = {}
  <2>1. SUFFICES ASSUME Bad # {} PROVE FALSE
    OBVIOUS
  <2>2. PICK l \in Bad : \A m \in Bad : ~ (m < l)
    <3> HIDE DEF Bad
    <3>1. Bad \subseteq Nat
      BY DEF Bad
    <3> QED
      BY <2>1, <3>1, Least
  <2>3. l # 0
    <3>1. SUFFICES ASSUME l = 0 PROVE Solved(0)
      BY <2>2
    <3> DEFINE f == [n \in 0..0 |-> index]
    <3>2. f = [n \in 0..0 |-> Round(f, order, n)]
      BY DEF Round
    <3> QED
      BY <3>2
  <2>4. l - 1 \in Nat /\ Solved(l - 1)
    <3>1. l \in Nat /\ l - 1 \in Nat /\ l - 1 < l
      BY <2>2, <2>3
    <3>2. l - 1 \notin Bad
      <4> HIDE DEF Bad
      <4> QED
        BY <2>2, <3>1
    <3> HIDE DEF Solved
    <3> QED
      BY <3>1, <3>2
  <2>5. PICK f : f = [n \in 0..l - 1 |-> Round(f, order, n)]
    BY <2>4
  <2> DEFINE g == [n \in 0..l |-> Round(f, order, n)]
  <2>6. ASSUME NEW n \in 0..l PROVE Round(g, order, n) = Round(f, order, n)
    <3>1. CASE n = 0
      BY <3>1 DEF Round
    <3>2. CASE n # 0
      <4>1. n - 1 \in 0..l - 1 /\ n - 1 \in 0..l
        BY <2>4, <3>2
      <4>2. g[n - 1] = f[n - 1]
        BY <2>5, <4>1
      <4> HIDE DEF g
      <4> QED
        BY <4>2 DEF Round
    <3> QED
      BY <3>1, <3>2
  <2>7. g = [n \in 0..l |-> Round(g, order, n)]
    BY <2>6
  <2> QED
    BY <2>2, <2>7
<1>2. Solved(Len(order))
  BY <1>1
<1>3. Rounds(order) = [n \in 0..Len(order) |-> Round(Rounds(order), order, n)]
  BY <1>2 DEF Rounds
<1>4. Each(order) = Rounds(order)[Len(order)]
  BY DEF Each, Rounds, Round
<1> QED
  BY <1>3, <1>4

\* The orders of an operation list its tracked calls.
LEMMA OrdersAre ==
  ASSUME NEW order \in Orders, op.kind # "reserve", DOMAIN op.histories \subseteq Calls
  PROVE  /\ Len(order) \in Nat /\ DOMAIN order = 1..Len(order)
         /\ Range(order) = {c \in DOMAIN op.histories : op.histories[c].change # None}
<1> DEFINE S == {c \in DOMAIN op.histories : op.histories[c].change # None}
<1>1. IsFiniteSet(S)
  BY StoreAssumption, FS_Subset
<1>2. Cardinality(S) \in Nat
  BY <1>1, FS_CardinalityType
<1>3. order \in Bijection(1..Cardinality(S), S)
  BY DEF Orders
<1> HIDE DEF S
<1>4. order \in [1..Cardinality(S) -> S] /\ \A c \in S : \E n \in 1..Cardinality(S) : order[n] = c
  BY <1>3, Zenon DEF Bijection, Injection, Surjection
<1>5. order \in Seq(S) /\ Len(order) = Cardinality(S)
  BY <1>2, <1>4
<1>6. Range(order) = S
  BY <1>4 DEF Range
<1> QED
  BY <1>2, <1>4, <1>5, <1>6 DEF S

\* An index that has grown keeps its members and receipts.
LEMMA GrownKeeps ==
  ASSUME NEW i, NEW j, IsIndex(i), IsIndex(j), Grows(i, j), NEW d \in DOMAIN i.changes, NEW c
  PROVE  /\ d \in DOMAIN j.changes
         /\ c \in Members(i, d) => c \in Members(j, d)
         /\ Receipt(i, d, c) => Receipt(j, d, c)
<1> DEFINE s == i.changes[d].calls
           t == j.changes[d].calls
<1>1. d \in DOMAIN j.changes /\ Grown(s, t)
  BY DEF Grows
<1>2. ASSUME c \in Members(i, d) PROVE c \in Members(j, d)
  <2>1. PICK n \in DOMAIN s : s[n].id = c
    BY <1>2 DEF Members
  <2>2. \E m \in DOMAIN t : t[m].id = c
    BY <1>1, <2>1 DEF Grown
  <2> QED
    BY <2>2 DEF Members
<1>3. ASSUME NEW n \in DOMAIN s, s[n] = [id |-> c, confirmed |-> TRUE]
      PROVE  \E m \in DOMAIN t : t[m] = [id |-> c, confirmed |-> TRUE]
  <2>1. s[n].id = c /\ s[n].confirmed
    BY <1>3
  <2>2. PICK m \in DOMAIN t : t[m].id = c /\ t[m].confirmed
    BY <1>1, <2>1 DEF Grown
  <2>3. t \in Seq(Receipts) /\ DOMAIN t = 1..Len(t)
    BY <1>1, EntryIs
  <2>4. t[m] \in Receipts
    BY <2>2, <2>3
  <2>5. t[m] = [id |-> c, confirmed |-> TRUE]
    BY <2>2, <2>4 DEF Receipts
  <2> QED
    BY <2>5
<1> QED
  BY <1>1, <1>2, <1>3 DEF Receipt

\* The loop keeps the index sound and enters all its calls.
LEMMA LoopStep ==
  ASSUME Sound(index), \A x \in Calls : recordMay[x] # {},
         NEW order, Len(order) \in Nat, DOMAIN order = 1..Len(order),
         \A c \in Range(order) : Enterable(index, c)
  PROVE  LET j == Each(order) IN
         /\ Sound(j) /\ Grows(index, j)
         /\ \A c \in Range(order) :
              LET d == op.histories[c].change IN
              /\ d \in DOMAIN j.changes /\ c \in Members(j, d)
              /\ op.kind # "put" => Receipt(j, d, c)
<1> DEFINE f == Rounds(order)
           Entry(i, c) ==
             LET d == op.histories[c].change IN
             /\ d \in DOMAIN i.changes /\ c \in Members(i, d)
             /\ op.kind # "put" => Receipt(i, d, c)
           Good(n) == /\ Sound(f[n]) /\ Grows(index, f[n])
                      /\ \A m \in 1..n : Entry(f[n], order[m])
           Bad == {n \in 0..Len(order) : ~Good(n)}
<1>1. /\ Each(order) = f[Len(order)]
      /\ \A n \in 0..Len(order) : f[n] = Round(f, order, n)
  <2>1. f = [n \in 0..Len(order) |-> Round(f, order, n)] /\ Each(order) = f[Len(order)]
    BY RoundsExist
  <2> HIDE DEF f
  <2> QED
    BY <2>1
<1> HIDE DEF f
<1>2. Good(0)
  <2>1. f[0] = index
    BY <1>1 DEF Round
  <2>2. Grows(index, index)
    BY GrowsSame DEF Sound
  <2> QED
    BY <2>1, <2>2
<1>3. ASSUME NEW n \in 1..Len(order), Good(n - 1) PROVE Good(n)
  <2> DEFINE i == f[n - 1]
             c == order[n]
             d == op.histories[c].change
  <2>1. f[n] = Entered(i, c)
    BY <1>1 DEF Round
  <2>2. c \in Range(order)
    BY DEF Range
  <2>3. /\ Sound(i) /\ Grows(index, i)
        /\ \A m \in 1..n - 1 : Entry(i, order[m])
    BY <1>3
  <2>4. Enterable(i, c) /\ d \in DOMAIN i.changes
    BY <2>2, <2>3 DEF Enterable, Grows
  <2> HIDE DEF i, c
  <2>5. /\ Sound(f[n]) /\ Grows(i, f[n]) /\ c \in Members(f[n], d)
        /\ op.kind # "put" => Receipt(f[n], d, c)
    BY <2>1, <2>3, <2>4, EnterStep
  <2>6. Grows(index, f[n]) /\ d \in DOMAIN f[n].changes
    <3>1. Grows(index, f[n])
      BY <2>3, <2>5, GrowsTrans
    <3> QED
      BY <2>4, <2>5, <3>1 DEF Grows
  <2>7. Entry(f[n], c)
    BY <2>5, <2>6
  <2>8. ASSUME NEW m \in 1..n - 1 PROVE Entry(f[n], order[m])
    <3>1. Entry(i, order[m])
      BY <2>3
    <3>2. IsIndex(i) /\ IsIndex(f[n])
      BY <2>3, <2>5 DEF Sound
    <3> DEFINE h == op.histories[order[m]].change
               b == order[m]
    <3>3. h \in DOMAIN i.changes /\ b \in Members(i, h)
      BY <3>1
    <3>4. op.kind # "put" => Receipt(i, h, b)
      BY <3>1
    <3> HIDE DEF h, b
    <3>5. h \in DOMAIN f[n].changes /\ b \in Members(f[n], h)
      BY <2>5, <3>2, <3>3, GrownKeeps
    <3>6. op.kind # "put" => Receipt(f[n], h, b)
      BY <2>5, <3>2, <3>3, <3>4, GrownKeeps
    <3> QED
      BY <3>5, <3>6 DEF h, b
  <2> HIDE DEF Entry
  <2>9. \A m \in 1..n : m = n \/ m \in 1..n - 1
    OBVIOUS
  <2>10. \A m \in 1..n : Entry(f[n], order[m])
    BY <2>7, <2>8, <2>9 DEF c
  <2> QED
    BY <2>5, <2>6, <2>10
<1>4. Bad = {}
  <2> HIDE DEF Good
  <2>1. SUFFICES ASSUME Bad # {} PROVE FALSE
    OBVIOUS
  <2>2. PICK n \in Bad : \A m \in Bad : ~ (m < n)
    <3>1. Bad \subseteq Nat
      OBVIOUS
    <3> HIDE DEF Bad
    <3> QED
      BY <2>1, <3>1, Least
  <2>3. n \in 1..Len(order) /\ n - 1 \in 0..Len(order) /\ n - 1 < n
    BY <1>2, <2>2
  <2>4. ~Good(n) /\ Good(n - 1)
    BY <2>2, <2>3
  <2> QED
    BY <1>3, <2>3, <2>4
<1>5. Good(Len(order))
  <2> HIDE DEF Good
  <2> QED
    BY <1>4
<1>6. \A c \in Range(order) : \E m \in 1..Len(order) : order[m] = c
  BY DEF Range
<1> HIDE DEF Entry
<1>7. \A c \in Range(order) : Entry(f[Len(order)], c)
  BY <1>5, <1>6
<1> QED
  BY <1>1, <1>5, <1>7 DEF Entry

\* A thread's stream is one of the index or the next one.
LEMMA StreamIs ==
  ASSUME NEW i, IsIndex(i), NEW thread
  PROVE  LET n == Stream(i, thread) IN
         /\ n \in 1..Len(i.streams) + 1 /\ Len(i.streams) \in Nat /\ DOMAIN i.streams = 1..Len(i.streams)
         /\ n \in DOMAIN i.streams => i.streams[n].thread = thread
         /\ n \notin DOMAIN i.streams => \A m \in DOMAIN i.streams : i.streams[m].thread # thread
<1>1. Len(i.streams) \in Nat /\ DOMAIN i.streams = 1..Len(i.streams)
  BY DEF IsIndex
<1>2. CASE \E n \in DOMAIN i.streams : i.streams[n].thread = thread
  <2>1. Stream(i, thread) \in DOMAIN i.streams /\ i.streams[Stream(i, thread)].thread = thread
    BY <1>2 DEF Stream
  <2> QED
    BY <1>1, <2>1
<1>3. CASE ~(\E n \in DOMAIN i.streams : i.streams[n].thread = thread)
  <2>1. Stream(i, thread) = Len(i.streams) + 1
    BY <1>3 DEF Stream
  <2> QED
    BY <1>1, <1>3, <2>1
<1> QED
  BY <1>2, <1>3

\* A new change gets the next number of its thread's stream.
LEMMA ReserveStep ==
  ASSUME Sound(index), ReserveInv, ChangeOf(index, op.correlation) = {}
  PROVE  LET j == Reserved(index) IN
         Sound(j) /\ Grows(index, j) /\ ChangeOf(j, op.correlation) # {}
<1> DEFINE d == NewChange(index)
           n == Stream(index, op.thread)
           x == Number(index, n)
           old == index.streams
           e == [thread |-> op.thread, next |-> x]
           streams == Put(old, n, e)
           c == [correlation |-> op.correlation, calls |-> << >>]
           changes == Put(index.changes, d, c)
           j == Reserved(index)
<1>0. IsIndex(index) /\ validateChangeIndex(index) /\ Backed(index)
  BY DEF Sound
<1>1. /\ n \in 1..Len(old) + 1 /\ Len(old) \in Nat /\ DOMAIN old = 1..Len(old)
      /\ n \in DOMAIN old => old[n].thread = op.thread
      /\ n \notin DOMAIN old => \A m \in DOMAIN old : old[m].thread # op.thread
  BY <1>0, StreamIs
<1>2. d = <<n, x>>
  BY DEF NewChange
<1>3. d[1] = n /\ d[2] = x
  BY <1>2
<1>4. j = [streams |-> streams, changes |-> changes]
  BY <1>3 DEF Reserved
<1>5. \A m \in DOMAIN old : old[m] \in Streams /\ old[m].next \in Nat \ {0} /\ old[m].thread \in Threads
  <2>1. old \in Seq(Streams)
    BY <1>0 DEF IsIndex
  <2>2. \A m \in DOMAIN old : old[m] \in Streams
    BY <1>1, <2>1
  <2> QED
    BY <2>2 DEF Streams
<1>6. x \in Nat \ {0} /\ x = (IF n \in DOMAIN old THEN old[n].next + 1 ELSE 1)
  <2> HIDE DEF n
  <2>1. CASE n \in DOMAIN old
    BY <1>1, <1>5, <2>1 DEF Number
  <2>2. CASE n \notin DOMAIN old
    BY <1>1, <2>2 DEF Number
  <2> QED
    BY <2>1, <2>2
<1>7. e \in Streams /\ e.thread = op.thread /\ e.next = x
  BY <1>6 DEF ReserveInv, Streams
<1>8. c \in Entries /\ c.correlation = op.correlation /\ c.calls = << >>
  <2>1. << >> \in Seq(Receipts)
    OBVIOUS
  <2> QED
    BY <2>1 DEF Entries, ReserveInv
<1>9. d \in Changes
  BY <1>1, <1>2, <1>6 DEF Changes
<1> HIDE DEF d, n, x, e, c, j
<1>10. /\ DOMAIN streams = DOMAIN old \cup {n} /\ streams[n] = e
       /\ \A m \in DOMAIN old : m # n => streams[m] = old[m]
  BY DEF Put
<1>11. /\ DOMAIN changes = DOMAIN index.changes \cup {d} /\ changes[d] = c
       /\ \A f \in DOMAIN index.changes : f # d => changes[f] = index.changes[f]
  BY DEF Put
<1>12. streams \in Seq(Streams)
  <2> DEFINE l == IF n \in DOMAIN old THEN Len(old) ELSE Len(old) + 1
  <2>1. l \in Nat /\ DOMAIN old \cup {n} = 1..l
    BY <1>1
  <2>2. \A m \in 1..l : streams[m] \in Streams
    BY <1>5, <1>7, <1>10, <2>1
  <2>3. streams = [m \in 1..l |-> streams[m]]
    BY <2>1 DEF Put
  <2> HIDE DEF l, streams
  <2> QED
    BY <2>1, <2>2, <2>3
<1>13. d \notin DOMAIN index.changes
  <2>1. SUFFICES ASSUME <<n, x>> \in DOMAIN index.changes PROVE FALSE
    BY <1>2
  <2>2. <<n, x>> \in UNION {{m} \X (1..old[m].next) : m \in DOMAIN old}
    BY <1>0, <2>1 DEF validateChangeIndex
  <2>3. n \in DOMAIN old /\ x \in 1..old[n].next
    BY <2>2
  <2> QED
    BY <1>5, <1>6, <2>3
<1>14. IsIndex(j) /\ j.streams = streams /\ j.changes = changes
  <2>1. j.streams = streams /\ j.changes = changes
    BY <1>4
  <2>2. changes \in [DOMAIN changes -> Entries] /\ DOMAIN changes \subseteq Changes
    <3>1. \A f \in DOMAIN changes : changes[f] \in Entries
      BY <1>0, <1>8, <1>11 DEF IsIndex
    <3>2. changes = [f \in DOMAIN changes |-> changes[f]]
      BY DEF Put
    <3>3. DOMAIN changes \subseteq Changes
      BY <1>0, <1>9, <1>11 DEF IsIndex
    <3> HIDE DEF changes
    <3> QED
      BY <3>1, <3>2, <3>3
  <2> HIDE DEF streams, changes
  <2> QED
    BY <1>4, <1>12, <2>1, <2>2 DEF IsIndex
<1> HIDE DEF streams, changes
<1>15. Grows(index, j)
  BY <1>0, <1>11, <1>13, <1>14, EntryIs, ListsUnique, GrownSame DEF Grows
<1>16. d \in ChangeOf(j, op.correlation)
  BY <1>8, <1>11, <1>14 DEF ChangeOf
<1>17. DOMAIN c.calls = {} /\ Members(j, d) = {}
  BY <1>8, <1>11, <1>14 DEF Members
<1>18. \A f \in DOMAIN index.changes : Members(j, f) = Members(index, f)
  BY <1>11, <1>13, <1>14 DEF Members
<1>19. Backed(j)
  BY <1>0, <1>11, <1>13, <1>14, <1>17, <1>18 DEF Backed
<1>20. validateChangeIndex(j)
  <2>1. \A m \in DOMAIN streams : streams[m].next >= 1
    BY <1>5, <1>6, <1>7, <1>10
  <2>2. \A m, k \in DOMAIN streams : m # k => streams[m].thread # streams[k].thread
    BY <1>0, <1>1, <1>7, <1>10 DEF validateChangeIndex
  <2>3. DOMAIN changes = UNION {{m} \X (1..streams[m].next) : m \in DOMAIN streams}
    <3>1. DOMAIN index.changes = UNION {{m} \X (1..old[m].next) : m \in DOMAIN old}
      BY <1>0 DEF validateChangeIndex
    <3>2. ASSUME NEW f \in DOMAIN index.changes
          PROVE  f \in UNION {{m} \X (1..streams[m].next) : m \in DOMAIN streams}
      <4>1. PICK m \in DOMAIN old : f \in {m} \X (1..old[m].next)
        BY <3>1, <3>2
      <4>2. f \in {m} \X (1..streams[m].next)
        BY <1>5, <1>6, <1>7, <1>10, <4>1
      <4> QED
        BY <1>10, <4>1, <4>2
    <3>3. d \in {n} \X (1..streams[n].next)
      BY <1>2, <1>6, <1>7, <1>10
    <3>4. ASSUME NEW m \in DOMAIN streams, NEW f \in {m} \X (1..streams[m].next)
          PROVE  f \in DOMAIN index.changes \cup {d}
      <4>1. CASE m # n
        BY <1>10, <3>1, <3>4, <4>1
      <4>2. CASE m = n
        <5>1. PICK y \in 1..x : f = <<n, y>>
          BY <1>7, <1>10, <3>4, <4>2
        <5>2. CASE y = x
          BY <1>2, <5>1, <5>2
        <5>3. CASE y # x
          <6>1. n \in DOMAIN old /\ y \in 1..old[n].next
            BY <1>5, <1>6, <5>1, <5>3
          <6> QED
            BY <3>1, <5>1, <6>1
        <5> QED
          BY <5>2, <5>3
      <4> QED
        BY <4>1, <4>2
    <3> QED
      BY <1>10, <1>11, <3>2, <3>3, <3>4
  <2>4. \A f, g \in DOMAIN changes : f # g => changes[f].correlation # changes[g].correlation
    <3>1. \A f \in DOMAIN index.changes : index.changes[f].correlation # op.correlation
      BY DEF ChangeOf
    <3> QED
      BY <1>0, <1>8, <1>11, <1>13, <3>1 DEF validateChangeIndex
  <2>5. \A f, g \in DOMAIN changes :
          \A k \in DOMAIN changes[f].calls, m \in DOMAIN changes[g].calls :
            changes[f].calls[k].id = changes[g].calls[m].id => f = g /\ k = m
    BY <1>0, <1>11, <1>13, <1>17 DEF validateChangeIndex
  <2> QED
    BY <1>14, <2>1, <2>2, <2>3, <2>4, <2>5 DEF validateChangeIndex
<1> QED
  BY <1>14, <1>15, <1>16, <1>19, <1>20 DEF Sound, j

-----------------------------------------------------------------------------
(* What a step does to the files.                                          *)

\* What was true of the files and matters to others is true after the step.
Carries ==
  /\ FilesInv'
  /\ \A d, k : Durable(d, k) => Durable(d, k)'
  /\ \A c \in Calls : \A h : Shown(c, h) => Shown(c, h)'
  /\ \A a : Promise(a) /\ Kept(a) => Kept(a)'

\* Fewer versions are left: a sync, a power cut, or nothing happened.
Shrinks ==
  /\ indexMay' \subseteq indexMay /\ index' \in indexMay'
  /\ recordMay' \in [Objects -> SUBSET (Histories \cup {None})]
  /\ record' \in [Objects -> Histories \cup {None}]
  /\ \A o \in Objects :
       /\ recordMay'[o] \subseteq recordMay[o] /\ record'[o] \in recordMay'[o]
       /\ record'[o] = record[o] \/ recordMay'[o] = {record'[o]}

\* Merging is transitive: what is final stays.
LEMMA MergeTrans ==
  ASSUME NEW u, NEW v, NEW w, Mergeable(u, v), Mergeable(v, w)
  PROVE  Mergeable(u, w)
  BY DEF Mergeable, Finalizes

\* Every version of a record has the same translation.
LEMMA SameTranslation ==
  ASSUME FilesInv, NEW o \in Objects, NEW v \in recordMay[o], v # None
  PROVE  record[o] # None /\ v.change = record[o].change /\ v.outcome = record[o].outcome
  BY DEF FilesInv, Mergeable

\* The members of an index are calls.
LEMMA MembersAreCalls ==
  ASSUME NEW i, IsIndex(i), NEW d \in DOMAIN i.changes
  PROVE  Members(i, d) \subseteq Calls
<1>1. i.changes[d].calls \in Seq(Receipts) /\ DOMAIN i.changes[d].calls = 1..Len(i.changes[d].calls)
  BY EntryIs
<1>2. \A n \in DOMAIN i.changes[d].calls : i.changes[d].calls[n] \in Receipts
  BY <1>1
<1> QED
  BY <1>2 DEF Members, Receipts

\* An index stays sound when versions of records are lost.
LEMMA ShrinkSound ==
  ASSUME NEW i, Sound(i), \A o \in Objects : recordMay'[o] \subseteq recordMay[o]
  PROVE  Sound(i)'
<1>1. IsIndex(i) /\ validateChangeIndex(i) /\ Backed(i)
  BY DEF Sound
<1>2. \A d \in DOMAIN i.changes : Members(i, d) \subseteq Calls
  BY <1>1, MembersAreCalls
<1>3. Backed(i)'
  BY <1>1, <1>2 DEF Backed, Objects
<1> QED
  BY <1>1, <1>3 DEF Sound

\* So nothing that was true of every version is lost with some of them.
LEMMA ShrinkCarries ==
  ASSUME FilesInv, Shrinks
  PROVE  Carries
<1>1. \A i \in indexMay' : Sound(i)'
  BY ShrinkSound DEF FilesInv, Shrinks
<1>2. ASSUME NEW o \in Objects, NEW v \in recordMay'[o], v # None
      PROVE  record'[o] # None /\ Mergeable(v, record'[o]) /\ (v.change # None <=> Tracked(o))
  <2>1. v \in recordMay[o]
    BY <1>2 DEF Shrinks
  <2>2. record[o] # None /\ Mergeable(v, record[o]) /\ (v.change # None <=> Tracked(o))
    BY <1>2, <2>1 DEF FilesInv
  <2>3. CASE record'[o] = record[o]
    BY <2>2, <2>3
  <2>4. CASE recordMay'[o] = {record'[o]}
    <3>1. v = record'[o]
      BY <1>2, <2>4
    <3> QED
      BY <1>2, <2>2, <3>1 DEF Mergeable
  <2> QED
    BY <2>3, <2>4 DEF Shrinks
<1>3. FilesInv'
  BY <1>1, <1>2 DEF FilesInv, Shrinks
<1>4. \A d, k : Durable(d, k) => Durable(d, k)'
  BY DEF Durable, Shrinks
<1>5. \A c \in Calls : \A h : Shown(c, h) => Shown(c, h)'
  BY DEF Shown, Shrinks, Objects
<1>6. ASSUME NEW a, Promise(a), Kept(a) PROVE Kept(a)'
  <2>1. \A i \in indexMay' : i \in indexMay
    BY DEF Shrinks
  <2>2. a.kind = "record" => \A v \in recordMay'[a.call] : v \in recordMay[a.call]
    BY <1>6 DEF Promise, Shrinks
  <2> QED
    BY <1>6, <2>1, <2>2 DEF Kept
<1> QED
  BY <1>3, <1>4, <1>5, <1>6 DEF Carries

\* Nothing happened to the files.
LEMMA SameFiles ==
  ASSUME FilesInv, UNCHANGED files
  PROVE  Carries /\ (\A i : Sound(i) => Sound(i)')
<1>1. Shrinks
  BY DEF FilesInv, Shrinks, files
<1> QED
  BY <1>1, ShrinkCarries, ShrinkSound DEF Shrinks

\* A sync of the directory.
LEMMA SyncedFiles ==
  ASSUME FilesInv, Synced
  PROVE  Carries /\ (\A i : Sound(i) => Sound(i)')
<1>1. Shrinks
  BY DEF FilesInv, Shrinks, Synced
<1> QED
  BY <1>1, ShrinkCarries, ShrinkSound DEF Shrinks

\* A record is replaced by one that it merges with.
LEMMA RecordCarries ==
  ASSUME FilesInv, NEW o \in Objects, NEW h, Sourced(o, h), record[o] # None => Mergeable(record[o], h),
         record' = [record EXCEPT ![o] = h], recordMay' = [recordMay EXCEPT ![o] = recordMay[o] \cup {h}],
         UNCHANGED <<index, indexMay>>
  PROVE  Carries
<1>0. h \in Histories /\ h # None /\ (h.change # None <=> Tracked(o))
  BY StoreAssumption DEF Sourced
<1>1. /\ record \in [Objects -> Histories \cup {None}]
      /\ recordMay \in [Objects -> SUBSET (Histories \cup {None})]
  BY DEF FilesInv
<1>2. /\ record'[o] = h /\ recordMay'[o] = recordMay[o] \cup {h}
      /\ \A x \in Objects : x # o => record'[x] = record[x] /\ recordMay'[x] = recordMay[x]
  BY <1>1
<1>3. \A v \in recordMay[o] : v # None => record[o] # None /\ Mergeable(v, record[o])
  BY DEF FilesInv
<1>4. \A v \in recordMay[o] : v # None => Mergeable(v, h) /\ v.change = h.change /\ v.outcome = h.outcome
  BY <1>3, MergeTrans DEF Mergeable
<1>5. ASSUME NEW i \in indexMay PROVE Sound(i)'
  <2>1. IsIndex(i) /\ validateChangeIndex(i) /\ Backed(i)
    BY DEF FilesInv, Sound
  <2>2. ASSUME NEW d \in DOMAIN i.changes, NEW c \in Members(i, d), NEW v \in recordMay'[c]
        PROVE  v # None /\ v.change = d
    <3>1. c \in Calls /\ c \in Objects
      BY <2>1, <2>2, MembersAreCalls DEF Objects
    <3>2. \A w \in recordMay[c] : w # None /\ w.change = d
      BY <2>1, <2>2 DEF Backed
    <3>3. CASE v \in recordMay[c]
      BY <3>2, <3>3
    <3>4. CASE v \notin recordMay[c]
      <4>1. c = o /\ v = h
        BY <1>2, <2>2, <3>1, <3>4
      <4>2. record[o] \in recordMay[o]
        BY DEF FilesInv
      <4> QED
        BY <1>0, <1>4, <3>2, <4>1, <4>2
    <3> QED
      BY <3>3, <3>4
  <2>3. ASSUME NEW c \in Calls, NEW v \in recordMay'[c], v # None, v.change # None
        PROVE  v.change \in DOMAIN i.changes /\ i.changes[v.change].correlation = CorrelationOf[c]
    <3>1. CASE v \in recordMay[c]
      BY <2>1, <2>3, <3>1 DEF Backed
    <3>2. CASE v \notin recordMay[c]
      <4>1. c = o /\ v = h
        BY <1>2, <2>3, <3>2 DEF Objects
      <4> QED
        BY <2>3, <4>1 DEF Sourced, Durable
    <3> QED
      BY <3>1, <3>2
  <2>4. Backed(i)'
    BY <2>2, <2>3 DEF Backed
  <2> QED
    BY <2>1, <2>4 DEF Sound
<1>6. ASSUME NEW x \in Objects, NEW v \in recordMay'[x], v # None
      PROVE  record'[x] # None /\ Mergeable(v, record'[x]) /\ (v.change # None <=> Tracked(x))
  <2>1. CASE x # o
    BY <1>2, <1>6, <2>1 DEF FilesInv
  <2>2. CASE x = o /\ v \in recordMay[o]
    BY <1>0, <1>2, <1>4, <1>6, <2>2
  <2>3. CASE x = o /\ v = h
    BY <1>0, <1>2, <2>3 DEF Mergeable
  <2> QED
    BY <1>2, <1>6, <2>1, <2>2, <2>3
<1>7. FilesInv'
  <2>1. record' \in [Objects -> Histories \cup {None}] /\ recordMay' \in [Objects -> SUBSET (Histories \cup {None})]
    BY <1>0, <1>1
  <2>2. \A x \in Objects : record'[x] \in recordMay'[x]
    BY <1>2 DEF FilesInv
  <2> QED
    BY <1>5, <1>6, <2>1, <2>2 DEF FilesInv
<1>8. \A d, k : Durable(d, k) => Durable(d, k)'
  BY DEF Durable
<1>9. ASSUME NEW c \in Calls, NEW g, Shown(c, g) PROVE Shown(c, g)'
  <2>1. CASE c # o
    BY <1>2, <1>9, <2>1 DEF Shown, Objects
  <2>2. CASE c = o
    <3>1. record[o] \in recordMay[o] /\ record[o] # None
      BY <1>9, <2>2 DEF Shown, FilesInv
    <3> QED
      BY <1>0, <1>2, <1>4, <1>9, <2>2, <3>1 DEF Shown
  <2> QED
    BY <2>1, <2>2
<1>10. ASSUME NEW a, Promise(a), Kept(a) PROVE Kept(a)'
  <2>1. CASE a.kind # "record"
    BY <1>10, <2>1 DEF Kept
  <2>2. CASE a.kind = "record"
    <3>1. a.call \in Objects
      BY <1>10, <2>2 DEF Promise
    <3>2. \A v \in recordMay[a.call] : v # None /\ Mergeable(a.history, v)
      BY <1>10, <2>2 DEF Kept
    <3>3. \A v \in recordMay'[a.call] : v # None /\ Mergeable(a.history, v)
      <4>1. CASE a.call # o
        BY <1>2, <3>1, <3>2, <4>1
      <4>2. CASE a.call = o
        <5>1. record[o] \in recordMay[o]
          BY DEF FilesInv
        <5>2. Mergeable(a.history, record[o]) /\ record[o] # None
          BY <3>2, <4>2, <5>1
        <5>3. Mergeable(a.history, h)
          BY <5>2, MergeTrans
        <5> QED
          BY <1>0, <1>2, <3>2, <4>2, <5>3
      <4> QED
        BY <4>1, <4>2
    <3> QED
      BY <1>10, <2>2, <3>3 DEF Kept
  <2> QED
    BY <2>1, <2>2
<1> QED
  BY <1>7, <1>8, <1>9, <1>10 DEF Carries

\* The index is replaced by a sound one that has grown from it.
LEMMA IndexCarries ==
  ASSUME FilesInv, Sound(draft), Grows(index, draft),
         index' = draft, indexMay' = indexMay \cup {draft}, UNCHANGED <<record, recordMay>>
  PROVE  Carries
<1>1. \A i : Sound(i) => Sound(i)'
  BY DEF Sound, Backed
<1>2. FilesInv'
  BY <1>1 DEF FilesInv
<1>3. IsIndex(index) /\ IsIndex(draft) /\ validateChangeIndex(draft) /\ index \in indexMay
  BY DEF FilesInv, Sound
<1>4. \A d, k : Durable(d, k) => Durable(d, k)'
  BY <1>3 DEF Durable, Grows
<1>5. \A c \in Calls : \A h : Shown(c, h) => Shown(c, h)'
  BY DEF Shown
<1>6. ASSUME NEW a, Promise(a), Kept(a) PROVE Kept(a)'
  <2>1. CASE a.kind = "change"
    <3>1. ChangeOf(index, a.correlation) = {a.change}
      BY <1>3, <1>6, <2>1 DEF Kept
    <3>2. a.change \in DOMAIN draft.changes /\ draft.changes[a.change].correlation = a.correlation
      BY <3>1 DEF ChangeOf, Grows
    <3>3. ChangeOf(draft, a.correlation) = {a.change}
      BY <1>3, <3>2 DEF ChangeOf, validateChangeIndex
    <3> QED
      BY <1>6, <2>1, <3>3 DEF Kept
  <2>2. CASE a.kind = "confirmed"
    <3>1. \A i \in indexMay : \E d \in DOMAIN i.changes : Receipt(i, d, a.call)
      BY <1>6, <2>2 DEF Kept, Receipt
    <3>2. PICK d \in DOMAIN index.changes : Receipt(index, d, a.call)
      BY <1>3, <3>1
    <3>3. d \in DOMAIN draft.changes /\ Receipt(draft, d, a.call)
      BY <1>3, <3>2, GrownKeeps
    <3>4. \A i \in indexMay' : \E e \in DOMAIN i.changes : Receipt(i, e, a.call)
      BY <3>1, <3>3
    <3> QED
      BY <2>2, <3>4 DEF Kept, Receipt
  <2>3. CASE a.kind = "record"
    <3>1. CASE a.history.change = None
      BY <1>6, <2>3, <3>1 DEF Kept
    <3>2. CASE a.history.change # None
      <4>1. a.call \in Members(index, a.history.change) /\ recordMay[a.call] = recordMay'[a.call]
        BY <1>3, <1>6, <2>3, <3>2 DEF Kept
      <4>2. a.call \in Objects /\ record[a.call] \in recordMay[a.call]
        BY <1>6, <2>3 DEF Promise, FilesInv
      <4>3. record[a.call] # None /\ record[a.call].change = a.history.change
        BY <1>6, <2>3, <4>2 DEF Kept, Mergeable
      <4>4. a.call \in Calls
        BY <3>2, <4>2, <4>3 DEF FilesInv, Tracked
      <4>5. a.history.change \in DOMAIN index.changes
        BY <1>3, <3>2, <4>2, <4>3, <4>4 DEF FilesInv, Sound, Backed
      <4>6. a.call \in Members(draft, a.history.change)
        BY <1>3, <4>1, <4>5, GrownKeeps
      <4> QED
        BY <1>6, <2>3, <3>2, <4>6 DEF Kept
    <3> QED
      BY <3>1, <3>2
  <2> QED
    BY <2>1, <2>2, <2>3 DEF Kept
<1> QED
  BY <1>2, <1>4, <1>5, <1>6 DEF Carries

-----------------------------------------------------------------------------
(* The steps of the processes.                                             *)

\* What an operation may write stays so.
LEMMA SourcedCarries ==
  ASSUME Carries, NEW o, NEW h, Sourced(o, h)
  PROVE  Sourced(o, h)'
  BY DEF Sourced, Carries

\* What processes remember stays true.
LEMMA MemorySame ==
  ASSUME MemoryInv, Carries, UNCHANGED <<known, view>>
  PROVE  MemoryInv'
  BY DEF MemoryInv, Carries

\* A dead process remembers nothing.
LEMMA MemoryForgotten ==
  ASSUME MemoryInv, Carries, NEW S, Forgotten(S)
  PROVE  MemoryInv'
<1>1. known' \in [Processes -> [Correlations -> Changes \cup {None}]]
  <2>1. [k \in Correlations |-> None] \in [Correlations -> Changes \cup {None}]
    OBVIOUS
  <2> QED
    BY <2>1 DEF MemoryInv, Forgotten
<1>2. view' \in [Processes -> [Calls -> Histories \cup {None}]]
  <2>1. [c \in Calls |-> None] \in [Calls -> Histories \cup {None}]
    OBVIOUS
  <2> QED
    BY <2>1 DEF MemoryInv, Forgotten
<1>3. ASSUME NEW p \in Processes, NEW k \in Correlations, known'[p][k] # None
      PROVE  Durable(known[p][k], k)'
  <2>1. PICK d : d = known[p][k]
    OBVIOUS
  <2>2. known'[p][k] = d
    BY <1>3, <2>1 DEF Forgotten
  <2>3. Durable(d, k)'
    BY <1>3, <2>1, <2>2 DEF MemoryInv, Carries
  <2> QED
    BY <2>2, <2>3
<1>4. ASSUME NEW p \in Processes, NEW c \in Calls, view'[p][c] # None
      PROVE  Shown(c, view[p][c])'
  <2>1. PICK h : h = view[p][c]
    OBVIOUS
  <2>2. view'[p][c] = h
    BY <1>4, <2>1 DEF Forgotten
  <2>3. Shown(c, h)'
    BY <1>4, <2>1, <2>2 DEF MemoryInv, Carries
  <2> QED
    BY <2>2, <2>3
<1> QED
  BY <1>1, <1>2, <1>3, <1>4 DEF MemoryInv

\* Old promises are kept.
LEMMA PromisesSame ==
  ASSUME StoreInv, Carries, acked' = acked
  PROVE  PromisesKept' /\ \A a \in acked' : Promise(a)
  BY DEF StoreInv, Carries, PromisesKept

\* The lock is released.
LEMMA ReleaseWork ==
  ASSUME StoreInv, Release
  PROVE  WorkInv'
  BY DEF Release, WorkInv, DraftInv

\* An operation that ends without a promise.
LEMMA ReleaseStep ==
  ASSUME StoreInv, Carries, Release, UNCHANGED <<known, view, open, acked, cuts>>
  PROVE  StoreInv'
  BY ReleaseWork, MemorySame, PromisesSame DEF StoreInv, Carries

\* The operation in progress goes on as long as no record is written.
LEMMA WorkSame ==
  ASSUME StoreInv, Carries, \A i : Sound(i) => Sound(i)', UNCHANGED <<holder, work, record, index>>,
         \A o \in Objects : recordMay'[o] = recordMay[o] \/ recordMay'[o] = {record[o]}
  PROVE  WorkInv'
<1>1. PutInv => PutInv'
  <2> SUFFICES ASSUME PutInv PROVE PutInv'
    OBVIOUS
  <2>1. ASSUME NEW o \in DOMAIN op.histories PROVE Sourced(o, op.histories[o])'
    <3>1. PICK h : h = op.histories[o]
      OBVIOUS
    <3>2. Sourced(o, h)'
      BY <3>1, SourcedCarries DEF PutInv
    <3> QED
      BY <3>1, <3>2 DEF work
  <2>2. ASSUME NEW o \in DOMAIN op.histories \ todo PROVE recordMay'[o] = {op.histories[o]}
    <3>1. o \in Objects /\ recordMay[o] = {op.histories[o]}
      BY DEF PutInv, Objects
    <3>2. record[o] \in recordMay[o]
      BY <3>1 DEF StoreInv, FilesInv
    <3> QED
      BY <3>1, <3>2
  <2> QED
    BY <2>1, <2>2 DEF PutInv, work
<1>2. ConfirmInv => ConfirmInv'
  BY DEF ConfirmInv, Carries, work
<1>3. ReserveInv => ReserveInv'
  BY DEF ReserveInv, work
<1>4. DraftInv => DraftInv'
  BY DEF DraftInv, Grows, Delivers, Receipt, work
<1>5. \A o : Conflicts(o)' <=> Conflicts(o)
  BY DEF Conflicts, work
<1> QED
  BY <1>1, <1>2, <1>3, <1>4, <1>5 DEF StoreInv, WorkInv, work

\* Opening the store
LEMMA OpenStep ==
  ASSUME StoreInv, NEW p \in Processes, Open(p)
  PROVE  StoreInv'
<1>1. Carries /\ \A i : Sound(i) => Sound(i)'
  BY SyncedFiles DEF StoreInv, Open
<1>2. WorkInv'
  BY <1>1, WorkSame DEF Open, Synced
<1> QED
  BY <1>1, <1>2, MemorySame, PromisesSame DEF StoreInv, Carries, Open, bounds

\* A step that takes the lock changes no file and no memory.
LEMMA LockStep ==
  ASSUME StoreInv, NEW p \in Processes, NEW operation, NEW at, NEW objects,
         Lock(p, operation, at, objects), WorkInv'
  PROVE  StoreInv'
<1>1. Carries
  BY SameFiles DEF StoreInv, Lock
<1> QED
  BY <1>1, MemorySame, PromisesSame DEF StoreInv, Carries, Lock, memory

\* reserveChange
LEMMA BeginReserveStep ==
  ASSUME StoreInv, NEW p \in Processes, NEW thread \in Threads, NEW k \in Correlations,
         BeginReserve(p, thread, k)
  PROVE  StoreInv'
<1>1. WorkInv'
  BY StoreAssumption DEF BeginReserve, Lock, WorkInv, DraftInv, ReserveInv
<1> QED
  BY <1>1, LockStep DEF BeginReserve

\* put: the histories name changes that are durable.
LEMMA BeginPutStep ==
  ASSUME StoreInv, NEW p \in Processes, NEW S \in SUBSET Recordable(p), NEW results \in Results(S),
         BeginPut(p, results)
  PROVE  StoreInv'
<1> DEFINE histories == [c \in DOMAIN results |-> HistoryOf(p, c, results[c])]
           operation == [kind |-> "put", histories |-> histories]
<1>1. Carries
  BY SameFiles DEF StoreInv, BeginPut, Lock
<1>2. DOMAIN results = S /\ S \subseteq Calls
  BY DEF Results, Recordable
<1>3. ASSUME NEW c \in S PROVE Sourced(c, histories[c])
  <2>1. /\ histories[c].change = (IF Tracked(c) THEN known[p][CorrelationOf[c]] ELSE None)
        /\ histories[c] = [change |-> histories[c].change, outcome |-> results[c].outcome, status |-> results[c].status]
    BY <1>2, <1>3 DEF HistoryOf
  <2>2. results[c].outcome \in AllOutcomes /\ results[c].status \in AllStatuses
    BY <1>3, StoreAssumption DEF Results
  <2>3. c \in Calls /\ (Tracked(c) => known[p][CorrelationOf[c]] # None)
    BY <1>2, <1>3 DEF Recordable
  <2>4. ASSUME Tracked(c)
        PROVE  /\ CorrelationOf[c] \in Correlations /\ histories[c].change \in Changes
               /\ histories[c].change # None /\ Durable(histories[c].change, CorrelationOf[c])
    <3>1. CorrelationOf[c] \in Correlations
      BY <2>3, <2>4, StoreAssumption DEF Tracked
    <3>2. known[p][CorrelationOf[c]] \in Changes \cup {None}
      BY <3>1 DEF StoreInv, MemoryInv
    <3>3. Durable(known[p][CorrelationOf[c]], CorrelationOf[c])
      BY <2>3, <2>4, <3>1 DEF StoreInv, MemoryInv
    <3> QED
      BY <2>1, <2>3, <2>4, <3>1, <3>2, <3>3
  <2>5. histories[c].change \in Changes \cup {None} /\ (histories[c].change # None <=> Tracked(c))
    BY <2>1, <2>4
  <2>6. histories[c] \in Histories
    BY <2>1, <2>2, <2>5 DEF Histories
  <2> QED
    BY <2>4, <2>5, <2>6 DEF Sourced
<1> HIDE DEF histories
<1>4. /\ op' = operation /\ todo' = DOMAIN results /\ pc' = "record" /\ holder' = p
  BY DEF BeginPut, Lock, histories
<1>5. op'.kind = "put" /\ op'.histories = histories /\ DOMAIN histories = S
  BY <1>2, <1>4 DEF histories
<1>6. ASSUME NEW c \in S PROVE Sourced(c, op.histories[c])'
  <2>1. PICK h : h = histories[c]
    OBVIOUS
  <2>2. Sourced(c, h)'
    BY <1>1, <1>3, <2>1, SourcedCarries
  <2> QED
    BY <1>5, <2>1, <2>2
<1>7. PutInv'
  BY <1>2, <1>4, <1>5, <1>6 DEF PutInv
<1>8. WorkInv'
  BY <1>4, <1>7, StoreAssumption DEF WorkInv, DraftInv
<1> QED
  BY <1>8, LockStep DEF BeginPut

\* putCommentary
LEMMA BeginPutCommentaryStep ==
  ASSUME StoreInv, NEW p \in Processes, NEW ids \in SUBSET Notes, BeginPutCommentary(p, ids)
  PROVE  StoreInv'
<1>1. /\ op'.kind = "commentary" /\ op'.histories = [n \in ids |-> NoteHistory]
      /\ todo' = ids /\ pc' = "record" /\ holder' = p
  BY DEF BeginPutCommentary, Lock
<1>2. \A n \in ids : Sourced(n, NoteHistory)'
  BY StoreAssumption DEF Sourced, NoteHistory, Histories, AllOutcomes, AllStatuses, Tracked
<1>3. PutInv'
  BY <1>1, <1>2 DEF PutInv
<1>4. WorkInv'
  BY <1>1, <1>3, StoreAssumption DEF WorkInv, DraftInv
<1> QED
  BY <1>4, LockStep DEF BeginPutCommentary

\* confirmChanges
LEMMA BeginConfirmStep ==
  ASSUME StoreInv, NEW p \in Processes, NEW S \in SUBSET Calls, BeginConfirm(p, S)
  PROVE  StoreInv'
<1>1. Carries
  BY SameFiles DEF StoreInv, BeginConfirm, Lock
<1>2. /\ op'.kind = "confirm" /\ op'.histories = [c \in S |-> view[p][c]]
      /\ pc' = "index" /\ holder' = p
  BY DEF BeginConfirm, Lock
<1>3. \A c \in S : Shown(c, view[p][c]) /\ view[p][c].change # None /\ view[p][c].outcome # "rejected"
  BY DEF BeginConfirm, StoreInv, MemoryInv
<1>4. ASSUME NEW c \in S PROVE Shown(c, op.histories[c])'
  <2>1. PICK h : h = view[p][c]
    OBVIOUS
  <2>2. Shown(c, h)'
    BY <1>1, <1>3, <2>1 DEF Carries
  <2> QED
    BY <1>2, <2>1, <2>2
<1>5. ConfirmInv'
  BY <1>2, <1>3, <1>4 DEF ConfirmInv
<1>6. WorkInv'
  BY <1>2, <1>5, StoreAssumption DEF WorkInv, DraftInv
<1> QED
  BY <1>6, LockStep DEF BeginConfirm

\* The version of a valid index has one change of a correlation.
LEMMA OneChange ==
  ASSUME NEW i, validateChangeIndex(i), NEW k, NEW d \in ChangeOf(i, k)
  PROVE  ChangeOf(i, k) = {d}
  BY DEF ChangeOf, validateChangeIndex

\* changeIDForAttempt of a correction: the record of the ancestor shows that
\* the change is durable.
LEMMA BeginCorrectionStep ==
  ASSUME StoreInv, NEW p \in Processes, NEW k \in Correlations, BeginCorrection(p, k)
  PROVE  StoreInv'
<1>1. Carries /\ \A i : Sound(i) => Sound(i)'
  BY SameFiles DEF StoreInv, BeginCorrection
<1>2. PICK c \in Calls : view[p][c] # None /\ CorrelationOf[c] = k
  BY DEF BeginCorrection
<1> DEFINE d == record[c].change
<1>3. record[c] \in recordMay[c] /\ record[c] # None /\ d # None
  <2>1. Shown(c, view[p][c])
    BY <1>2 DEF StoreInv, MemoryInv
  <2>2. record[c] \in recordMay[c]
    BY DEF StoreInv, FilesInv, Objects
  <2>3. Tracked(c)
    BY <1>2, StoreAssumption DEF Tracked
  <2> QED
    BY <2>1, <2>2, <2>3 DEF Shown
<1>4. Durable(d, k) /\ index \in indexMay /\ validateChangeIndex(index)
  BY <1>2, <1>3 DEF Durable, StoreInv, FilesInv, Sound, Backed
<1>5. d \in ChangeOf(index, k) /\ d \in Changes
  BY <1>4 DEF Durable, ChangeOf, StoreInv, FilesInv, Sound, IsIndex
<1>6. ChangeOf(index, k) = {d}
  BY <1>4, <1>5, OneChange
<1> HIDE DEF d
<1>7. known' = [known EXCEPT ![p][k] = d] /\ view' = view
  BY <1>6 DEF BeginCorrection
<1>8. known' \in [Processes -> [Correlations -> Changes \cup {None}]]
  BY <1>5, <1>7 DEF StoreInv, MemoryInv
<1>9. \A q \in Processes, l \in Correlations :
        known'[q][l] = IF q = p /\ l = k THEN d ELSE known[q][l]
  BY <1>7 DEF StoreInv, MemoryInv
<1>10. ASSUME NEW q \in Processes, NEW l \in Correlations, known'[q][l] # None
       PROVE  Durable(known[q][l], l)'
  <2>1. PICK e : e = known'[q][l]
    OBVIOUS
  <2>2. Durable(e, l)
    BY <1>4, <1>9, <1>10, <2>1 DEF StoreInv, MemoryInv
  <2>3. Durable(e, l)'
    BY <1>1, <2>2 DEF Carries
  <2> QED
    BY <2>1, <2>3
<1>11. MemoryInv'
  BY <1>1, <1>7, <1>8, <1>10 DEF StoreInv, MemoryInv, Carries
<1>12. WorkInv'
  BY <1>1, WorkSame DEF BeginCorrection, files
<1> QED
  BY <1>1, <1>11, <1>12, PromisesSame DEF StoreInv, Carries, BeginCorrection, bounds

\* lookup: only durable records are shown.
LEMMA LookupStep ==
  ASSUME StoreInv, NEW p \in Processes, NEW c \in Calls, Lookup(p, c)
  PROVE  StoreInv'
<1>1. Carries /\ \A i : Sound(i) => Sound(i)'
  BY SameFiles DEF StoreInv, Lookup
<1>2. record[c] \in recordMay[c] /\ record[c] \in Histories /\ c \in Objects
  BY DEF StoreInv, FilesInv, Lookup, Objects
<1>3. Shown(c, record[c])
  <2>1. \A v \in recordMay[c] : v # None
    BY DEF Lookup
  <2>2. record[c].change # None <=> Tracked(c)
    BY <1>2, <2>1 DEF StoreInv, FilesInv
  <2>3. \A v \in recordMay[c] : v.change = record[c].change /\ v.outcome = record[c].outcome
    BY <1>2, <2>1, SameTranslation DEF StoreInv
  <2> QED
    BY <1>2, <2>1, <2>2, <2>3 DEF Shown
<1>4. view' = [view EXCEPT ![p][c] = record[c]] /\ known' = known
  BY DEF Lookup
<1>5. view' \in [Processes -> [Calls -> Histories \cup {None}]]
  BY <1>2, <1>4 DEF StoreInv, MemoryInv
<1>6. \A q \in Processes, x \in Calls : view'[q][x] = IF q = p /\ x = c THEN record[c] ELSE view[q][x]
  BY <1>4 DEF StoreInv, MemoryInv
<1>7. ASSUME NEW q \in Processes, NEW x \in Calls, view'[q][x] # None
      PROVE  Shown(x, view[q][x])'
  <2>1. PICK h : h = view'[q][x]
    OBVIOUS
  <2>2. Shown(x, h)
    BY <1>3, <1>6, <1>7, <2>1 DEF StoreInv, MemoryInv
  <2>3. Shown(x, h)'
    BY <1>1, <2>2 DEF Carries
  <2> QED
    BY <2>1, <2>3
<1>8. MemoryInv'
  BY <1>1, <1>4, <1>5, <1>7 DEF StoreInv, MemoryInv, Carries
<1>9. WorkInv'
  BY <1>1, WorkSame DEF Lookup, files
<1> QED
  BY <1>1, <1>8, <1>9, PromisesSame DEF StoreInv, Carries, Lookup, bounds

\* A process dies.
LEMMA CrashStep ==
  ASSUME StoreInv, NEW p \in Processes, Crash(p)
  PROVE  StoreInv'
<1>1. Carries /\ \A i : Sound(i) => Sound(i)'
  BY SameFiles DEF StoreInv, Crash
<1>2. MemoryInv'
  BY <1>1, MemoryForgotten DEF StoreInv, Crash
<1>3. WorkInv'
  <2>1. CASE holder = p
    BY <2>1, ReleaseWork DEF Crash
  <2>2. CASE holder # p
    BY <1>1, <2>2, WorkSame DEF Crash, files
  <2> QED
    BY <2>1, <2>2
<1> QED
  BY <1>1, <1>2, <1>3, PromisesSame DEF StoreInv, Carries, Crash, Forgotten

\* The power is cut: one of the versions of every file is left.
LEMMA PowerCutStep ==
  ASSUME StoreInv, PowerCut
  PROVE  StoreInv'
<1>1. Shrinks
  <2>1. \A o \in Objects : record'[o] \in recordMay[o] /\ recordMay'[o] = {record'[o]}
    BY DEF PowerCut
  <2>2. recordMay \in [Objects -> SUBSET (Histories \cup {None})]
    BY DEF StoreInv, FilesInv
  <2>3. record' \in [Objects -> Histories \cup {None}]
    BY <2>1, <2>2 DEF PowerCut
  <2>4. recordMay' \in [Objects -> SUBSET (Histories \cup {None})]
    BY <2>3 DEF PowerCut
  <2> QED
    BY <2>1, <2>3, <2>4 DEF Shrinks, PowerCut
<1>2. Carries
  BY <1>1, ShrinkCarries DEF StoreInv
<1>3. MemoryInv'
  BY <1>2, MemoryForgotten DEF StoreInv, PowerCut
<1>4. WorkInv'
  BY ReleaseWork DEF PowerCut
<1> QED
  BY <1>2, <1>3, <1>4, PromisesSame DEF StoreInv, Carries, PowerCut, Forgotten

-----------------------------------------------------------------------------
(* The steps of the holder of the lock.                                    *)

\* A step that fails changes no file.
LEMMA FailStep ==
  ASSUME StoreInv, Release, UNCHANGED <<files, memory, acked, cuts>>
  PROVE  StoreInv'
  BY SameFiles, ReleaseStep DEF StoreInv, memory

\* The holder goes on, the files stay as they are.
LEMMA WorkOnly ==
  ASSUME StoreInv, UNCHANGED <<files, memory, acked, cuts>>, WorkInv'
  PROVE  StoreInv'
<1>1. Carries
  BY SameFiles DEF StoreInv
<1> QED
  BY <1>1, MemorySame, PromisesSame DEF StoreInv, Carries, memory

\* What a put has reached stays.
LEMMA PutSame ==
  ASSUME PutInv, Carries, UNCHANGED <<op, recordMay>>, todo' = todo
  PROVE  PutInv'
<1>1. ASSUME NEW o \in DOMAIN op.histories PROVE Sourced(o, op.histories[o])'
  <2>1. PICK h : h = op.histories[o]
    OBVIOUS
  <2>2. Sourced(o, h)'
    BY <2>1, SourcedCarries DEF PutInv
  <2> QED
    BY <2>1, <2>2
<1> QED
  BY <1>1 DEF PutInv

\* What is to be confirmed stays shown.
LEMMA ConfirmSame ==
  ASSUME ConfirmInv, Carries, op' = op
  PROVE  ConfirmInv'
<1>1. ASSUME NEW c \in DOMAIN op.histories PROVE Shown(c, op.histories[c])'
  <2>1. PICK h : h = op.histories[c]
    OBVIOUS
  <2>2. Shown(c, h)'
    BY <2>1 DEF ConfirmInv, Carries
  <2> QED
    BY <2>1, <2>2
<1> QED
  BY <1>1 DEF ConfirmInv

\* read and the first half of write
LEMMA ReadRecordStep ==
  ASSUME StoreInv, ReadRecord
  PROVE  StoreInv'
<1>1. PICK o \in todo :
        IF Conflicts(o) THEN Fails
        ELSE IF record[o] # op.histories[o] /\ Others(o) + 1 > MaxRecords THEN Fails
        ELSE /\ pc' = IF record[o] = op.histories[o] THEN "recordSync" ELSE "recordTemp"
             /\ current' = o
             /\ UNCHANGED <<files, garbage, holder, op, todo, draft, memory, acked, bounds>>
  BY DEF ReadRecord
<1>2. CASE Fails
  BY <1>2, FailStep DEF Fails, bounds
<1>3. CASE /\ ~Conflicts(o) /\ current' = o
           /\ pc' = IF record[o] = op.histories[o] THEN "recordSync" ELSE "recordTemp"
           /\ UNCHANGED <<files, garbage, holder, op, todo, draft, memory, acked, bounds>>
  <2>1. Carries
    BY <1>3, SameFiles DEF StoreInv
  <2>2. PutInv /\ pc = "record" /\ holder # None
    BY DEF StoreInv, WorkInv, ReadRecord
  <2>3. PutInv'
    BY <1>3, <2>1, <2>2, PutSame DEF files
  <2>4. ~Conflicts(current)' /\ (pc' = "recordSync" => record'[current'] = op'.histories[current'])
    BY <1>3 DEF Conflicts, files
  <2>5. WorkInv'
    BY <1>3, <2>2, <2>3, <2>4 DEF StoreInv, WorkInv, DraftInv
  <2> QED
    BY <1>3, <2>5, WorkOnly DEF bounds
<1> QED
  BY <1>1, <1>2, <1>3

\* The temporary file of a record
LEMMA RecordTempStep ==
  ASSUME StoreInv, WriteTemp("recordTemp", "recordRename")
  PROVE  StoreInv'
<1>1. CASE Release /\ UNCHANGED <<files, garbage, memory, acked, operations, crashes, cuts>>
  BY <1>1, FailStep
<1>2. CASE pc' = "recordRename" /\ UNCHANGED <<files, garbage, holder, op, todo, current, draft, memory, acked, bounds>>
  <2>1. Carries
    BY <1>2, SameFiles DEF StoreInv
  <2>2. PutInv /\ pc = "recordTemp" /\ holder # None /\ ~Conflicts(current) /\ current \in todo
    BY DEF StoreInv, WorkInv, WriteTemp
  <2>3. PutInv'
    BY <1>2, <2>1, <2>2, PutSame DEF files
  <2>4. ~Conflicts(current)'
    BY <1>2, <2>2 DEF Conflicts, files
  <2>5. WorkInv'
    BY <1>2, <2>2, <2>3, <2>4 DEF StoreInv, WorkInv, DraftInv
  <2> QED
    BY <1>2, <2>5, WorkOnly DEF bounds
<1> QED
  BY <1>1, <1>2 DEF WriteTemp

\* The record is renamed.
LEMMA RenameRecordStep ==
  ASSUME StoreInv, RenameRecord
  PROVE  StoreInv'
<1>1. CASE Release /\ UNCHANGED files
  BY <1>1, FailStep DEF RenameRecord
<1>2. CASE /\ record' = [record EXCEPT ![current] = op.histories[current]]
           /\ recordMay' = [recordMay EXCEPT ![current] = @ \cup {op.histories[current]}]
           /\ pc' = "recordSync"
           /\ UNCHANGED <<index, indexMay, holder, op, todo, current, draft, faults>>
  <2> DEFINE o == current
             h == op.histories[o]
  <2>1. PutInv /\ pc = "recordRename" /\ holder # None /\ ~Conflicts(o) /\ o \in todo
    BY DEF StoreInv, WorkInv, RenameRecord
  <2>2. o \in DOMAIN op.histories /\ o \in Objects /\ Sourced(o, h)
    BY <2>1 DEF PutInv, Objects
  <2>3. record[o] # None => Mergeable(record[o], h)
    BY <2>1 DEF Conflicts
  <2>4. recordMay' = [recordMay EXCEPT ![o] = recordMay[o] \cup {h}] /\ record' = [record EXCEPT ![o] = h]
    BY <1>2
  <2>5. Carries
    <3>0. PICK g : g = h
      OBVIOUS
    <3>1. PICK x \in Objects : x = o
      BY <2>2
    <3>2. /\ Sourced(x, g) /\ (record[x] # None => Mergeable(record[x], g))
          /\ record' = [record EXCEPT ![x] = g] /\ recordMay' = [recordMay EXCEPT ![x] = recordMay[x] \cup {g}]
      BY <2>2, <2>3, <2>4, <3>0, <3>1
    <3> QED
      BY <1>2, <3>2, RecordCarries DEF StoreInv
  <2>6. ASSUME NEW x \in DOMAIN op.histories PROVE Sourced(x, op.histories[x])'
    <3>1. PICK g : g = op.histories[x]
      OBVIOUS
    <3>2. Sourced(x, g)'
      BY <2>1, <2>5, <3>1, SourcedCarries DEF PutInv
    <3> QED
      BY <1>2, <3>1, <3>2
  <2>7. ASSUME NEW x \in DOMAIN op.histories \ todo PROVE recordMay'[x] = {op.histories[x]}
    <3>1. x \in Objects /\ x # o /\ recordMay[x] = {op.histories[x]}
      BY <2>1 DEF PutInv, Objects
    <3> QED
      BY <2>4, <3>1 DEF StoreInv, FilesInv
  <2>8. PutInv'
    BY <1>2, <2>1, <2>6, <2>7 DEF PutInv
  <2>9. record'[current'] = op'.histories[current']
    BY <1>2, <2>2 DEF StoreInv, FilesInv
  <2>10. WorkInv'
    BY <1>2, <2>1, <2>8, <2>9 DEF StoreInv, WorkInv, DraftInv
  <2> QED
    BY <2>5, <2>10, MemorySame, PromisesSame DEF StoreInv, Carries, RenameRecord, memory
<1> QED
  BY <1>1, <1>2 DEF RenameRecord

\* The directory is synced: this record is durable, and the ones before stay so.
LEMMA SyncRecordStep ==
  ASSUME StoreInv, SyncRecord
  PROVE  StoreInv'
<1>1. CASE Release /\ UNCHANGED files
  BY <1>1, FailStep DEF SyncRecord
<1>2. CASE /\ Synced /\ todo' = todo \ {current} /\ pc' = AfterRecords
           /\ UNCHANGED <<holder, op, current, draft, faults>>
  <2>1. Carries
    BY <1>2, SyncedFiles DEF StoreInv
  <2>2. PutInv /\ pc = "recordSync" /\ holder # None /\ current \in todo /\ record[current] = op.histories[current]
    BY DEF StoreInv, WorkInv, SyncRecord
  <2>3. ASSUME NEW x \in DOMAIN op.histories PROVE Sourced(x, op.histories[x])'
    <3>1. PICK g : g = op.histories[x]
      OBVIOUS
    <3>2. Sourced(x, g)'
      BY <2>1, <2>2, <3>1, SourcedCarries DEF PutInv
    <3> QED
      BY <1>2, <3>1, <3>2
  <2>4. ASSUME NEW x \in DOMAIN op.histories \ todo' PROVE recordMay'[x] = {op.histories[x]}
    <3>1. x \in Objects
      BY <2>2 DEF PutInv, Objects
    <3>2. recordMay'[x] = {record[x]} /\ record[x] \in recordMay[x]
      BY <1>2, <3>1 DEF Synced, StoreInv, FilesInv
    <3>3. CASE x = current
      BY <2>2, <3>2, <3>3
    <3>4. CASE x # current
      <4>1. recordMay[x] = {op.histories[x]}
        BY <1>2, <2>2, <2>4, <3>4 DEF PutInv
      <4> QED
        BY <3>2, <4>1
    <3> QED
      BY <3>3, <3>4
  <2>5. PutInv'
    BY <1>2, <2>2, <2>3, <2>4 DEF PutInv
  <2>6. /\ pc' \in {"record", "index", "return"}
        /\ pc' # "record" => todo' = {}
        /\ pc' = "index" => op.kind = "put"
        /\ pc' = "return" /\ op.kind = "put" => \A c \in DOMAIN op.histories : op.histories[c].change = None
    BY <1>2 DEF AfterRecords
  <2>7. WorkInv'
    BY <1>2, <2>2, <2>5, <2>6 DEF StoreInv, WorkInv, DraftInv
  <2> QED
    BY <2>1, <2>7, MemorySame, PromisesSame DEF StoreInv, Carries, SyncRecord, memory
<1> QED
  BY <1>1, <1>2 DEF SyncRecord

\* Every call has a version of its record, none or one.
LEMMA SomeVersion ==
  ASSUME FilesInv
  PROVE  \A x \in Calls : recordMay[x] # {}
  BY DEF FilesInv, Objects

\* The calls of a put or a confirmation can be entered.
LEMMA AllEnterable ==
  ASSUME StoreInv, pc = "index", op.kind # "reserve", NEW c \in DOMAIN op.histories, op.histories[c].change # None
  PROVE  Enterable(index, c) /\ index.changes[op.histories[c].change].correlation = CorrelationOf[c]
<1>1. index \in indexMay /\ Backed(index)
  BY DEF StoreInv, FilesInv, Sound
<1>2. CASE op.kind = "put"
  <2>1. PutInv /\ todo = {}
    BY <1>2 DEF StoreInv, WorkInv
  <2>2. c \in Calls /\ Sourced(c, op.histories[c]) /\ recordMay[c] = {op.histories[c]}
    BY <1>2, <2>1 DEF PutInv
  <2>3. op.histories[c] # None
    BY <2>2, StoreAssumption DEF Sourced
  <2> QED
    BY <1>1, <2>2, <2>3 DEF Enterable, Sourced, Durable
<1>3. CASE op.kind # "put"
  <2>1. ConfirmInv
    BY <1>3 DEF StoreInv, WorkInv
  <2>2. c \in Calls /\ Shown(c, op.histories[c])
    BY <2>1 DEF ConfirmInv
  <2>3. record[c] \in recordMay[c]
    BY <2>2 DEF StoreInv, FilesInv, Objects
  <2>4. record[c] # None /\ record[c].change = op.histories[c].change
    BY <2>2, <2>3 DEF Shown
  <2>5. /\ op.histories[c].change \in DOMAIN index.changes
        /\ index.changes[op.histories[c].change].correlation = CorrelationOf[c]
    BY <1>1, <2>2, <2>3, <2>4 DEF Backed
  <2> QED
    BY <2>2, <2>5 DEF Enterable, Shown
<1> QED
  BY <1>2, <1>3

\* What the operation makes of the index is sound, has grown and has what the
\* operation will promise.
LEMMA OutcomeIs ==
  ASSUME StoreInv, pc = "index", NEW order \in Orders
  PROVE  LET j == Outcome(order) IN Sound(j) /\ Grows(index, j) /\ Delivers(j)
<1>1. Sound(index) /\ Grows(index, index)
  BY GrowsSame DEF StoreInv, FilesInv, Sound
<1>2. CASE op.kind = "reserve"
  <2>1. ReserveInv
    BY <1>2 DEF StoreInv, WorkInv
  <2>2. CASE ChangeOf(index, op.correlation) # {}
    BY <1>1, <1>2, <2>2 DEF Outcome, Delivers
  <2>3. CASE ChangeOf(index, op.correlation) = {}
    <3>1. Sound(Reserved(index)) /\ Grows(index, Reserved(index)) /\ ChangeOf(Reserved(index), op.correlation) # {}
      BY <1>1, <2>1, <2>3, ReserveStep
    <3>2. Outcome(order) = Reserved(index)
      BY <1>2, <2>3 DEF Outcome
    <3> QED
      BY <1>2, <3>1, <3>2 DEF Delivers
  <2> QED
    BY <2>2, <2>3
<1>3. CASE op.kind # "reserve"
  <2> DEFINE j == Each(order)
  <2>1. DOMAIN op.histories \subseteq Calls /\ op.kind \in {"put", "confirm"}
    BY <1>3 DEF StoreInv, WorkInv, PutInv, ConfirmInv
  <2>2. /\ Len(order) \in Nat /\ DOMAIN order = 1..Len(order)
        /\ Range(order) = {c \in DOMAIN op.histories : op.histories[c].change # None}
    BY <1>3, <2>1, OrdersAre
  <2>3. \A c \in Range(order) : Enterable(index, c)
    BY <1>3, <2>2, AllEnterable
  <2>4. /\ Sound(j) /\ Grows(index, j)
        /\ \A c \in Range(order) :
             /\ op.histories[c].change \in DOMAIN j.changes /\ c \in Members(j, op.histories[c].change)
             /\ op.kind # "put" => Receipt(j, op.histories[c].change, c)
    BY <1>1, <2>2, <2>3, SomeVersion, LoopStep DEF StoreInv
  <2>5. op.kind = "confirm" => \A c \in DOMAIN op.histories : op.histories[c].change # None
    BY DEF StoreInv, WorkInv, ConfirmInv
  <2> HIDE DEF j
  <2>6. Delivers(j)
    BY <1>3, <2>2, <2>4, <2>5 DEF Delivers
  <2> QED
    BY <1>3, <2>4, <2>6 DEF Outcome, j
<1> QED
  BY <1>2, <1>3

\* The parts of the invariant that an operation on the index carries along.
LEMMA IndexWork ==
  ASSUME StoreInv, Carries, pc \in {"index", "indexTemp", "indexRename"},
         pc' \in {"indexTemp", "indexRename", "done"}, UNCHANGED <<holder, op, recordMay, todo>>,
         Sound(draft)', Grows(index, draft)', Delivers(draft)', pc' = "done" => index' = draft'
  PROVE  WorkInv'
<1>1. /\ op.kind \in {"reserve", "put", "confirm"} /\ holder # None
      /\ op.kind = "reserve" => ReserveInv
      /\ op.kind = "put" => PutInv /\ todo = {}
      /\ op.kind = "confirm" => ConfirmInv
  BY DEF StoreInv, WorkInv
<1>2. op.kind = "put" => PutInv'
  BY <1>1, PutSame
<1>3. op.kind = "confirm" => ConfirmInv'
  BY <1>1, ConfirmSame
<1>4. op.kind = "reserve" => ReserveInv'
  BY <1>1 DEF ReserveInv
<1> QED
  BY <1>1, <1>2, <1>3, <1>4 DEF StoreInv, WorkInv, DraftInv

\* readChangeIndex and what the operation makes of it
LEMMA ReadIndexStep ==
  ASSUME StoreInv, ReadIndex
  PROVE  StoreInv'
<1>1. CASE Fails
  BY <1>1, FailStep DEF Fails, bounds
<1>2. CASE ~Fails
  <2>1. PICK order \in Orders :
          /\ draft' = Outcome(order)
          /\ pc' = IF draft' = index THEN "done" ELSE "indexTemp"
          /\ UNCHANGED <<files, garbage, holder, op, todo, current, memory, acked, bounds>>
    BY <1>2 DEF ReadIndex
  <2>2. Carries /\ (\A i : Sound(i) => Sound(i)') /\ pc = "index"
    BY <2>1, SameFiles DEF StoreInv, ReadIndex
  <2>3. PICK j : j = Outcome(order)
    OBVIOUS
  <2>4. Sound(j) /\ Grows(index, j) /\ Delivers(j)
    BY <2>2, <2>3, OutcomeIs
  <2>5. draft' = j /\ index' = index /\ op' = op
    BY <2>1, <2>3 DEF files
  <2>6. Sound(j)' /\ Grows(index', j) /\ Delivers(j)'
    BY <2>2, <2>4, <2>5 DEF Delivers
  <2>7. Sound(draft)' /\ Grows(index, draft)' /\ Delivers(draft)'
    BY <2>5, <2>6
  <2>8. WorkInv'
    BY <2>1, <2>2, <2>5, <2>7, IndexWork DEF files
  <2> QED
    BY <2>1, <2>8, WorkOnly DEF bounds
<1> QED
  BY <1>1, <1>2

\* The temporary file of the index
LEMMA IndexTempStep ==
  ASSUME StoreInv, WriteTemp("indexTemp", "indexRename")
  PROVE  StoreInv'
<1>1. CASE Release /\ UNCHANGED <<files, garbage, memory, acked, operations, crashes, cuts>>
  BY <1>1, FailStep
<1>2. CASE pc' = "indexRename" /\ UNCHANGED <<files, garbage, holder, op, todo, current, draft, memory, acked, bounds>>
  <2>1. Carries /\ (\A i : Sound(i) => Sound(i)') /\ pc = "indexTemp"
    BY <1>2, SameFiles DEF StoreInv, WriteTemp
  <2>2. Sound(draft) /\ Grows(index, draft) /\ Delivers(draft)
    BY <2>1 DEF StoreInv, WorkInv, DraftInv
  <2>3. PICK j : j = draft
    OBVIOUS
  <2>4. Sound(j)' /\ Delivers(j)' /\ draft' = j /\ index' = index /\ Grows(index', j)
    BY <1>2, <2>1, <2>2, <2>3 DEF Delivers, files
  <2>5. Sound(draft)' /\ Grows(index, draft)' /\ Delivers(draft)'
    BY <2>4
  <2>6. WorkInv'
    BY <1>2, <2>1, <2>5, IndexWork DEF files
  <2> QED
    BY <1>2, <2>6, WorkOnly DEF bounds
<1> QED
  BY <1>1, <1>2 DEF WriteTemp

\* The index is renamed.
LEMMA RenameIndexStep ==
  ASSUME StoreInv, RenameIndex
  PROVE  StoreInv' /\ (index' = index \/ Grows(index, index'))
<1>1. CASE Release /\ UNCHANGED files
  BY <1>1, FailStep DEF RenameIndex, files
<1>2. CASE /\ index' = draft /\ indexMay' = indexMay \cup {draft} /\ pc' = "done"
           /\ UNCHANGED <<record, recordMay, holder, op, todo, current, draft, faults>>
  <2>1. pc = "indexRename" /\ Sound(draft) /\ Grows(index, draft) /\ Delivers(draft)
    BY DEF StoreInv, WorkInv, DraftInv, RenameIndex
  <2>2. Carries
    BY <1>2, <2>1, IndexCarries DEF StoreInv
  <2>3. PICK j : j = draft
    OBVIOUS
  <2>4. Sound(j)'
    BY <1>2, <2>2, <2>3 DEF Carries, FilesInv
  <2>5. Grows(j, j) /\ Delivers(j)'
    BY <1>2, <2>1, <2>3, GrowsSame DEF Sound, Delivers
  <2>6. Sound(draft)' /\ Grows(index, draft)' /\ Delivers(draft)'
    BY <1>2, <2>3, <2>4, <2>5
  <2>7. WorkInv'
    BY <1>2, <2>1, <2>2, <2>6, IndexWork
  <2> QED
    BY <1>2, <2>1, <2>2, <2>7, MemorySame, PromisesSame DEF StoreInv, Carries, RenameIndex, memory
<1> QED
  BY <1>1, <1>2 DEF RenameIndex

\* What is promised is true of every version that is left.
LEMMA NewPromises ==
  ASSUME StoreInv, Carries, NEW a \in Promises,
         \/ pc = "done" /\ Synced
         \/ pc = "return" /\ UNCHANGED files
  PROVE  Promise(a) /\ Kept(a)'
<1>1. CASE op.kind = "reserve"
  <2>1. PICK d \in ChangeOf(index, op.correlation) :
          a = [kind |-> "change", correlation |-> op.correlation, change |-> d]
    BY <1>1 DEF Promises
  <2>2. pc = "done" /\ Synced
    BY <1>1 DEF StoreInv, WorkInv, PutInv
  <2>3. ChangeOf(index, op.correlation) = {d} /\ indexMay' = {index}
    BY <2>2, OneChange DEF StoreInv, FilesInv, Sound, Synced
  <2> QED
    BY <2>1, <2>3 DEF Promise, Kept
<1>2. CASE op.kind = "confirm"
  <2>1. PICK c \in DOMAIN op.histories : a = [kind |-> "confirmed", call |-> c]
    BY <1>2 DEF Promises
  <2>2. pc = "done" /\ Synced
    BY <1>2 DEF StoreInv, WorkInv, PutInv
  <2>3. Delivers(index)
    BY <2>2 DEF StoreInv, WorkInv, DraftInv
  <2>4. indexMay' = {index} /\ \E d \in DOMAIN index.changes : Receipt(index, d, c)
    BY <1>2, <2>2, <2>3 DEF Delivers, Synced
  <2> QED
    BY <2>1, <2>4 DEF Promise, Kept, Receipt
<1>3. CASE op.kind \in {"put", "commentary"}
  <2>1. PICK o \in DOMAIN op.histories : a = [kind |-> "record", call |-> o, history |-> op.histories[o]]
    BY <1>3 DEF Promises
  <2>2. PutInv /\ todo = {}
    BY <1>3 DEF StoreInv, WorkInv
  <2>3. o \in Objects /\ recordMay[o] = {op.histories[o]} /\ Sourced(o, op.histories[o])
    BY <2>2 DEF PutInv, Objects
  <2>4. recordMay'[o] = {op.histories[o]}
    <3>1. record[o] \in recordMay[o]
      BY <2>3 DEF StoreInv, FilesInv
    <3> QED
      BY <2>3, <3>1 DEF Synced, files
  <2>5. op.histories[o] # None /\ Mergeable(op.histories[o], op.histories[o])
    BY <2>3, StoreAssumption DEF Sourced, Mergeable
  <2>6. ASSUME op.histories[o].change # None
        PROVE  \A i \in indexMay' : o \in Members(i, op.histories[o].change)
    <3>1. o \in Calls
      BY <2>3, <2>6 DEF Sourced, Tracked
    <3>2. op.kind = "put"
      BY <1>3, <2>2, <3>1, StoreAssumption DEF PutInv
    <3>3. pc = "done" /\ Synced
      BY <2>1, <2>6, <3>2 DEF StoreInv, WorkInv
    <3>4. Delivers(index)
      BY <3>3 DEF StoreInv, WorkInv, DraftInv
    <3> QED
      BY <2>1, <2>6, <3>2, <3>3, <3>4 DEF Delivers, Synced
  <2> QED
    BY <2>1, <2>3, <2>4, <2>5, <2>6 DEF Promise, Kept
<1> QED
  BY <1>1, <1>2, <1>3 DEF StoreInv, WorkInv, PutInv

\* A nil error is returned.
LEMMA FinishStep ==
  ASSUME StoreInv, Finish
  PROVE  StoreInv'
<1>1. \/ pc = "done" /\ Synced
      \/ pc = "return" /\ UNCHANGED files
  BY DEF Finish
<1>2. Carries
  BY <1>1, SyncedFiles, SameFiles DEF StoreInv
<1>3. PromisesKept' /\ \A a \in acked' : Promise(a)
  <2>1. acked' = acked \cup Promises
    BY DEF Finish
  <2>2. \A a \in Promises : Promise(a) /\ Kept(a)'
    BY <1>1, <1>2, NewPromises
  <2>3. \A a \in acked : Promise(a) /\ Kept(a)'
    BY <1>2 DEF StoreInv, PromisesKept, Carries
  <2> QED
    BY <2>1, <2>2, <2>3 DEF PromisesKept
<1>4. MemoryInv'
  <2>1. CASE op.kind # "reserve"
    BY <1>2, <2>1, MemorySame DEF StoreInv, Finish, Remembered
  <2>2. CASE op.kind = "reserve"
    <3> DEFINE k == op.correlation
               p == holder
               d == CHOOSE e \in ChangeOf(index, k) : TRUE
    <3>1. pc = "done" /\ Synced
      BY <1>1, <2>2 DEF StoreInv, WorkInv, PutInv
    <3>2. p \in Processes /\ k \in Correlations /\ ChangeOf(index, k) # {}
      BY <2>2, <3>1 DEF StoreInv, WorkInv, DraftInv, Delivers, ReserveInv
    <3>3. d \in ChangeOf(index, k)
      BY <3>2
    <3>4. d \in Changes
      BY <3>3 DEF ChangeOf, StoreInv, FilesInv, Sound, IsIndex
    <3>5. known' = [known EXCEPT ![p][k] = d] /\ view' = view
      BY <2>2 DEF Finish, Remembered
    <3> HIDE DEF d
    <3>6. PICK q \in Processes, l \in Correlations, e \in Changes : q = p /\ l = k /\ e = d
      BY <3>2, <3>4
    <3>7. known' = [known EXCEPT ![q][l] = e] /\ Durable(e, l)'
      BY <3>1, <3>3, <3>5, <3>6 DEF Durable, ChangeOf, Synced
    <3>8. known' \in [Processes -> [Correlations -> Changes \cup {None}]]
      BY <3>7 DEF StoreInv, MemoryInv
    <3>9. ASSUME NEW x \in Processes, NEW y \in Correlations, known'[x][y] # None
          PROVE  Durable(known[x][y], y)'
      <4>1. CASE x = q /\ y = l
        <5>1. known'[x][y] = e
          BY <3>7, <4>1 DEF StoreInv, MemoryInv
        <5> QED
          BY <3>7, <4>1, <5>1
      <4>2. CASE ~(x = q /\ y = l)
        <5>1. PICK f : f = known[x][y]
          OBVIOUS
        <5>2. known'[x][y] = f
          BY <3>7, <4>2, <5>1 DEF StoreInv, MemoryInv
        <5>3. Durable(f, y)'
          BY <1>2, <3>9, <5>1, <5>2 DEF StoreInv, MemoryInv, Carries
        <5> QED
          BY <5>2, <5>3
      <4> QED
        BY <4>1, <4>2
    <3> QED
      BY <1>2, <3>5, <3>8, <3>9 DEF StoreInv, MemoryInv, Carries
  <2> QED
    BY <2>1, <2>2
<1> QED
  BY <1>2, <1>3, <1>4, ReleaseWork DEF StoreInv, Carries, Finish, bounds

-----------------------------------------------------------------------------
(* The theorems.                                                           *)

\* The files of a new store are sound.
LEMMA InitStore == Init => StoreInv
<1> SUFFICES ASSUME Init PROVE StoreInv
  OBVIOUS
<1>1. IsIndex(EmptyIndex)
  BY DEF EmptyIndex, IsIndex
<1>2. DOMAIN EmptyIndex.streams = {} /\ DOMAIN EmptyIndex.changes = {}
  BY DEF EmptyIndex
<1>3. validateChangeIndex(EmptyIndex)
  BY <1>2 DEF validateChangeIndex
<1>4. Backed(EmptyIndex)
  BY <1>2 DEF Backed, Init, Objects
<1>5. FilesInv
  BY <1>1, <1>3, <1>4 DEF FilesInv, Sound, Init
<1>6. MemoryInv
  BY DEF MemoryInv, Init
<1>7. WorkInv
  BY DEF WorkInv, DraftInv, Init
<1> QED
  BY <1>5, <1>6, <1>7 DEF StoreInv, PromisesKept, Init

\* No step breaks the invariant, and only a power cut takes anything from the index.
LEMMA NextStore ==
  ASSUME StoreInv, [Next]_vars
  PROVE  StoreInv' /\ (cuts' = cuts => index' = index \/ Grows(index, index'))
<1>1. CASE UNCHANGED vars
  <2>1. Carries /\ \A i : Sound(i) => Sound(i)'
    BY <1>1, SameFiles DEF StoreInv, vars
  <2>2. WorkInv'
    BY <1>1, <2>1, WorkSame DEF vars, files, work
  <2> QED
    BY <1>1, <2>1, <2>2, MemorySame, PromisesSame DEF StoreInv, Carries, vars, files, memory, bounds
<1>2. ASSUME NEW p \in Processes, ProcessStep(p) PROVE StoreInv' /\ index' = index
  <2>1. CASE Open(p)
    BY <2>1, OpenStep DEF Open, Synced
  <2>2. CASE Crash(p)
    BY <2>2, CrashStep DEF Crash, files
  <2>3. ASSUME NEW thread \in Threads, NEW k \in Correlations, BeginReserve(p, thread, k)
        PROVE  StoreInv' /\ index' = index
    BY <2>3, BeginReserveStep DEF BeginReserve, Lock, files
  <2>4. ASSUME NEW k \in Correlations, BeginCorrection(p, k) PROVE StoreInv' /\ index' = index
    BY <2>4, BeginCorrectionStep DEF BeginCorrection, files
  <2>5. ASSUME NEW S \in SUBSET Recordable(p), NEW results \in Results(S), BeginPut(p, results)
        PROVE  StoreInv' /\ index' = index
    BY <2>5, BeginPutStep DEF BeginPut, Lock, files
  <2>6. ASSUME NEW ids \in SUBSET Notes, BeginPutCommentary(p, ids) PROVE StoreInv' /\ index' = index
    BY <2>6, BeginPutCommentaryStep DEF BeginPutCommentary, Lock, files
  <2>7. ASSUME NEW c \in Calls, Lookup(p, c) PROVE StoreInv' /\ index' = index
    BY <2>7, LookupStep DEF Lookup, files
  <2>8. ASSUME NEW S \in SUBSET Calls, BeginConfirm(p, S) PROVE StoreInv' /\ index' = index
    BY <2>8, BeginConfirmStep DEF BeginConfirm, Lock, files
  <2> QED
    BY <1>2, <2>1, <2>2, <2>3, <2>4, <2>5, <2>6, <2>7, <2>8 DEF ProcessStep, Operation
<1>3. CASE ReadFails
  BY <1>3, FailStep DEF ReadFails, files
<1>4. CASE ReadRecord
  BY <1>4, ReadRecordStep DEF ReadRecord, Fails, files
<1>5. CASE WriteTemp("recordTemp", "recordRename")
  BY <1>5, RecordTempStep DEF WriteTemp, files
<1>6. CASE RenameRecord
  BY <1>6, RenameRecordStep DEF RenameRecord, files
<1>7. CASE SyncRecord
  BY <1>7, SyncRecordStep DEF SyncRecord, Synced, files
<1>8. CASE ReadIndex
  BY <1>8, ReadIndexStep DEF ReadIndex, Fails, files
<1>9. CASE WriteTemp("indexTemp", "indexRename")
  BY <1>9, IndexTempStep DEF WriteTemp, files
<1>10. CASE RenameIndex
  BY <1>10, RenameIndexStep
<1>11. CASE Finish
  BY <1>11, FinishStep DEF Finish, Synced, files
<1>12. CASE FinishFails
  BY <1>12, FailStep DEF FinishFails, files
<1>13. CASE PowerCut
  <2>1. cuts' # cuts
    BY <1>13 DEF PowerCut, StoreInv
  <2> QED
    BY <1>13, <2>1, PowerCutStep
<1> QED
  BY <1>1, <1>2, <1>3, <1>4, <1>5, <1>6, <1>7, <1>8, <1>9, <1>10, <1>11, <1>12, <1>13 DEF Next, HolderStep

\* The inductive invariant of the store: every version of the index that a power
\* cut may leave is valid and backed by records, what processes remember is
\* durable, and the operation in progress is as far as its place says
\* (mekugi_store.go, mekugi_changes.go).
THEOREM StoreIsSound == Spec => []StoreInv
<1>1. StoreInv /\ [Next]_vars => StoreInv'
  BY NextStore
<1> QED
  BY InitStore, <1>1, PTL DEF Spec

\* The invariant makes the disk sound; a confirmation that reads the index then
\* is never refused.
LEMMA SoundDisk ==
  ASSUME StoreInv
  PROVE  DiskIsSound
<1>1. IndexValid /\ \A i \in indexMay : Backed(i)
  BY DEF StoreInv, FilesInv, Sound, IndexValid
<1>2. ASSUME pc = "index", op.kind = "confirm", NEW order \in Orders PROVE Accepts(order)
  <2>1. ConfirmInv
    BY <1>2 DEF StoreInv, WorkInv
  <2>2. Range(order) = {c \in DOMAIN op.histories : op.histories[c].change # None}
    BY <1>2, <2>1, OrdersAre DEF ConfirmInv
  <2>3. ASSUME NEW c \in Range(order)
        PROVE  Consistent(index, c) /\ Repairable(index, c)
    <3> DEFINE d == op.histories[c].change
    <3>1. c \in DOMAIN op.histories /\ d # None /\ c \in Calls /\ Shown(c, op.histories[c])
          /\ op.histories[c].outcome # "rejected"
      BY <2>1, <2>2 DEF ConfirmInv
    <3>2. Enterable(index, c) /\ index.changes[d].correlation = CorrelationOf[c]
      BY <1>2, <3>1, AllEnterable
    <3>3. d \in DOMAIN index.changes
      BY <3>2 DEF Enterable
    <3>4. record[c] \in recordMay[c] /\ \A m \in Calls : record[m] \in recordMay[m]
      BY <3>1 DEF StoreInv, FilesInv, Objects
    <3>5. Evidence(c, d) /\ record[c].outcome # "rejected"
      BY <3>1, <3>4 DEF Shown, Evidence
    <3>6. index \in indexMay /\ Members(index, d) \subseteq Calls /\ Backed(index)
      BY <3>3, MembersAreCalls DEF StoreInv, FilesInv, Sound
    <3>7. \A m \in Members(index, d) : Evidence(m, d)
      BY <3>3, <3>4, <3>6 DEF Backed, Evidence
    <3> QED
      BY <3>2, <3>3, <3>5, <3>7 DEF Consistent, Repairable
  <2> QED
    BY <1>2, <2>3 DEF Accepts
<1> QED
  BY <1>1, <1>2 DEF DiskIsSound, EvidenceFirst

\* Whatever failures, crashes and power cuts leave on the disk, the next reader
\* accepts the index, every listed call has its record and every record's change
\* exists, so that a confirmation is never refused (mekugi_changes.go:86-119,
\* 236-237, 331-352).
THEOREM DiskStaysSound == Spec => []DiskIsSound
<1>1. StoreInv => DiskIsSound
  BY SoundDisk
<1> QED
  BY <1>1, StoreIsSound, PTL

\* What an operation promised by returning nil holds of every version that any
\* later power cut may leave (mekugi_store.go:384-447, mekugi_changes.go:171-324).
THEOREM PromisesAreKept == Spec => []PromisesKept
<1>1. StoreInv => PromisesKept
  BY DEF StoreInv
<1> QED
  BY <1>1, StoreIsSound, PTL

\* No step of a process removes, reorders or unconfirms a call of a change
\* (publishChanges, confirmChanges and repairChangeCall).
THEOREM ChangesGrow == Spec => ChangesOnlyGrow
<1> DEFINE A == cuts' = cuts =>
             \A d \in DOMAIN index.changes :
               d \in DOMAIN index'.changes /\ Grown(index.changes[d].calls, index'.changes[d].calls)
<1>1. StoreInv /\ [Next]_vars => [A]_vars
  <2> SUFFICES ASSUME StoreInv, [Next]_vars, cuts' = cuts, NEW d \in DOMAIN index.changes
               PROVE  d \in DOMAIN index'.changes /\ Grown(index.changes[d].calls, index'.changes[d].calls)
    OBVIOUS
  <2>1. CASE index' = index
    <3>1. IsIndex(index) /\ validateChangeIndex(index)
      BY DEF StoreInv, FilesInv, Sound
    <3>2. Grows(index, index)
      BY <3>1, GrowsSame
    <3> QED
      BY <2>1, <3>2 DEF Grows
  <2>2. CASE Grows(index, index')
    BY <2>2 DEF Grows
  <2> QED
    BY <2>1, <2>2, NextStore
<1> QED
  BY <1>1, StoreIsSound, PTL DEF Spec, ChangesOnlyGrow
=============================================================================
