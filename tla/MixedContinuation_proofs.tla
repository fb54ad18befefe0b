---------------------- MODULE MixedContinuation_proofs ----------------------
(***************************************************************************)
(* Proofs about mixed scripts and the storage that holds them, for every   *)
(* script, any number of carriers and readers and every value of the       *)
(* bounds.                                                                 *)
(***************************************************************************)
EXTENDS MixedContinuation, FiniteSetTheorems, SequenceTheorems, TLAPS

-----------------------------------------------------------------------------
(* The storage.                                                            *)

(* StorageFollowsUse is not inductive: that a directory in use keeps a     *)
(* timer must also hold while readers are left, or the last of them would  *)
(* leave an empty directory behind after shutdown began.                   *)
StorageInv ==
  /\ closing \in {"open", "closed", "gone"}
  /\ lease = [r \in Readers |-> lease[r]]
  /\ \A n \in DOMAIN timers : timers[n] \in BOOLEAN
  /\ \A r \in Leases : directory = "ours" /\ lease[r] \subseteq files
  /\ directory = "ours" => DOMAIN timers # {}
  /\ Leases = {} /\ closing = "open" => \A n \in DOMAIN timers : timers[n]
  /\ closing = "gone" => directory # "ours"

\* One pass of retireIdle over the timers and files as they are: readers keep
\* everything, and without readers the directory goes with the last timer.
LEMMA RetireFacts ==
  ASSUME NEW t, NEW present, NEW held, RetireIdle(t, present, held),
         \A n \in DOMAIN t : t[n] \in BOOLEAN
  PROVE  /\ \A n \in DOMAIN timers' : timers'[n] \in BOOLEAN
         /\ held # {} => timers' = t /\ files' = present /\ directory' = "ours"
         /\ held = {} => \A n \in DOMAIN timers' : timers'[n]
         /\ held = {} /\ directory' = "ours" => DOMAIN timers' # {}
  BY DEF RetireIdle, RetireStorage

\* Every operation of the storage keeps its invariant.
LEMMA StorageStep ==
  ASSUME StorageInv,
         \/ \E n \in Names : Retained(n) \/ Expire(n)
         \/ \E r \in Readers : Lease(r) \/ Release(r)
         \/ RetainFails \/ BeginClose \/ FinishClose
  PROVE  StorageInv'
<1>1. ASSUME NEW n \in Names, Retained(n) PROVE StorageInv'
  <2> DEFINE t == [k \in DOMAIN timers \cup {n} |-> IF k = n THEN TRUE ELSE timers[k]]
  <2>1. RetireIdle(t, files \cup {n}, Leases) /\ lease' = lease /\ closing' = closing /\ closing = "open"
    BY <1>1 DEF Retained
  <2>2. \A k \in DOMAIN t : t[k] \in BOOLEAN
    BY DEF StorageInv
  <2> HIDE DEF t
  <2>3. Leases' = Leases
    BY <2>1 DEF Leases
  <2>4. /\ \A k \in DOMAIN timers' : timers'[k] \in BOOLEAN
        /\ Leases # {} => timers' = t /\ files' = files \cup {n} /\ directory' = "ours"
        /\ Leases = {} => \A k \in DOMAIN timers' : timers'[k]
        /\ Leases = {} /\ directory' = "ours" => DOMAIN timers' # {}
    BY <2>1, <2>2, RetireFacts
  <2>5. DOMAIN t # {}
    BY DEF t
  <2> QED
    BY <2>1, <2>3, <2>4, <2>5 DEF StorageInv
<1>2. ASSUME NEW n \in Names, Expire(n) PROVE StorageInv'
  <2> DEFINE t == [timers EXCEPT ![n] = FALSE]
  <2>1. RetireIdle(t, files, Leases) /\ lease' = lease /\ closing' = closing /\ closing = "open" /\ n \in DOMAIN timers
    BY <1>2 DEF Expire
  <2>2. (\A k \in DOMAIN t : t[k] \in BOOLEAN) /\ DOMAIN t # {}
    BY <2>1 DEF StorageInv
  <2> HIDE DEF t
  <2>3. Leases' = Leases
    BY <2>1 DEF Leases
  <2>4. /\ \A k \in DOMAIN timers' : timers'[k] \in BOOLEAN
        /\ Leases # {} => timers' = t /\ files' = files /\ directory' = "ours"
        /\ Leases = {} => \A k \in DOMAIN timers' : timers'[k]
        /\ Leases = {} /\ directory' = "ours" => DOMAIN timers' # {}
    BY <2>1, <2>2, RetireFacts
  <2> QED
    BY <2>1, <2>2, <2>3, <2>4 DEF StorageInv
<1>3. ASSUME NEW r \in Readers, Lease(r) PROVE StorageInv'
  <2>1. /\ lease' = [lease EXCEPT ![r] = files] /\ directory = "ours" /\ closing = "open"
        /\ UNCHANGED <<directory, files, timers, closing>>
    BY <1>3 DEF Lease
  <2>2. lease' = [q \in Readers |-> lease'[q]] /\ \A q \in Readers : lease'[q] = IF q = r THEN files ELSE lease[q]
    BY <2>1 DEF StorageInv
  <2>3. \A q \in Leases' : lease'[q] \subseteq files
    BY <2>2 DEF StorageInv, Leases
  <2>4. Leases' = {} => Leases = {}
    BY <1>3, <2>2 DEF Leases, Lease
  <2> QED
    BY <2>1, <2>2, <2>3, <2>4 DEF StorageInv
<1>4. ASSUME NEW r \in Readers, Release(r) PROVE StorageInv'
  <2>1. lease' = [lease EXCEPT ![r] = None] /\ closing' = closing /\ lease[r] # None
    BY <1>4 DEF Release
  <2>2. lease' = [q \in Readers |-> lease'[q]] /\ \A q \in Readers : lease'[q] = IF q = r THEN None ELSE lease[q]
    BY <2>1 DEF StorageInv
  <2>3. Leases' = Leases \ {r} /\ \A q \in Leases' : lease'[q] = lease[q]
    BY <2>2 DEF Leases
  <2>4. directory = "ours" /\ DOMAIN timers # {}
    BY <2>1 DEF StorageInv, Leases
  <2>5. CASE closing = "open"
    <3>1. RetireIdle(timers, files, Leases \ {r})
      BY <1>4, <2>5 DEF Release
    <3>2. /\ \A k \in DOMAIN timers' : timers'[k] \in BOOLEAN
          /\ Leases' # {} => timers' = timers /\ files' = files /\ directory' = "ours"
          /\ Leases' = {} => \A k \in DOMAIN timers' : timers'[k]
          /\ Leases' = {} /\ directory' = "ours" => DOMAIN timers' # {}
      BY <3>1, <2>3, RetireFacts DEF StorageInv
    <3> QED
      BY <2>1, <2>2, <2>3, <2>4, <2>5, <3>2 DEF StorageInv
  <2>6. CASE closing # "open"
    <3>1. UNCHANGED <<directory, files, timers>>
      BY <1>4, <2>6 DEF Release
    <3> QED
      BY <2>1, <2>2, <2>3, <2>4, <2>6, <3>1 DEF StorageInv
  <2> QED
    BY <2>5, <2>6
<1>5. ASSUME RetainFails PROVE StorageInv'
  <2>1. RetireIdle(timers, files, Leases) /\ lease' = lease /\ closing' = closing /\ closing = "open"
    BY <1>5 DEF RetainFails
  <2>2. Leases' = Leases
    BY <2>1 DEF Leases
  <2>3. /\ \A k \in DOMAIN timers' : timers'[k] \in BOOLEAN
        /\ Leases # {} => timers' = timers /\ files' = files /\ directory' = "ours"
        /\ Leases = {} => \A k \in DOMAIN timers' : timers'[k]
        /\ Leases = {} /\ directory' = "ours" => DOMAIN timers' # {}
    BY <2>1, RetireFacts DEF StorageInv
  <2>4. Leases # {} => directory = "ours"
    BY DEF StorageInv
  <2> QED
    BY <2>1, <2>2, <2>3, <2>4 DEF StorageInv
<1>6. ASSUME BeginClose PROVE StorageInv'
  BY <1>6 DEF BeginClose, StorageInv, Leases
<1>7. ASSUME FinishClose PROVE StorageInv'
  <2>1. Leases' = {} /\ Leases = {}
    BY <1>7 DEF FinishClose, Leases
  <2>2. directory' # "ours"
    BY <1>7 DEF FinishClose, RetireStorage
  <2> QED
    BY <1>7, <2>1, <2>2 DEF FinishClose, StorageInv, NoTimers
<1> QED
  BY <1>1, <1>2, <1>3, <1>4, <1>5, <1>6, <1>7

\* What a reader saw stays until it lets go, and nothing stays behind when the
\* last artifact and the last reader are gone, whatever expires or shuts down.
THEOREM StorageIsSafe == Spec => []StorageFollowsUse
<1>1. Init => StorageInv
  BY DEF Init, StorageInit, StorageInv, NoTimers, Leases
<1>2. StorageInv /\ [Next]_vars => StorageInv'
  <2> SUFFICES ASSUME StorageInv, [Next]_vars PROVE StorageInv'
    OBVIOUS
  <2>1. ASSUME UNCHANGED storage PROVE StorageInv'
    BY <2>1 DEF storage, StorageInv, Leases
  <2>2. ASSUME NEW c \in Carriers, Step(c) PROVE StorageInv'
    <3>1. CASE Begin(c)
      BY <3>1, StorageStep, HandleAssumption DEF Begin
    <3>2. CASE ResumeBegins(c)
      BY <3>2, StorageStep DEF ResumeBegins, Carriers
    <3>3. ASSUME NEW a \in {"plain", "retry", "repair", "accept"}, ResumeReads(c, a) PROVE StorageInv'
      BY <3>3, StorageStep DEF ResumeReads, Carriers
    <3>4. CASE Claim(c)
      BY <3>4, <2>1 DEF Claim
    <3>5. CASE Execute(c)
      BY <3>5, <2>1 DEF Execute
    <3> QED
      BY <2>1, <2>2, <3>1, <3>2, <3>3, <3>4, <3>5
      DEF Step, Settle, Done, StartSegment, Revalidate, Invoke, Unknown, Record, StopSegment,
          CompleteSegment, Interrupted, Cancel, Quiet
  <2>3. ASSUME StorageNext(Names \ {Handle}) PROVE StorageInv'
    BY <2>3, StorageStep DEF StorageNext
  <2> QED
    BY <2>1, <2>2, <2>3 DEF Next, vars
<1>3. StorageInv => StorageFollowsUse
  BY DEF StorageInv, StorageFollowsUse
<1> QED
  BY <1>1, <1>2, <1>3, PTL DEF Spec

-----------------------------------------------------------------------------
(* Progress.                                                               *)

Works == Segments \X Steps
Roles == {"translate", "guard", "command", "patch"}
OpResults == {"none", "patch", "empty", "rejected", "ok", "error", "zero", "nonzero", "session"}
Operations == [step : Nat, role : Roles, waits : BOOLEAN, pending : BOOLEAN, result : OpResults]
Shells == {t \in Seq({"command", "write"}) : Len(t) <= MaxSteps}
Texts == {Edit} \cup Shells
Progresses ==
  [plan : Seq(Segments), program : [Segments -> Texts], index : Nat \ {0},
   results : Seq([segment : Segments, status : {"completed", "reconciled"}]),
   current : {"none", "started", "completed", "rejected", "failed", "interrupted"},
   ops : Seq(Operations)]
CarrierStates ==
  [pc : {"none", "reading", "claim", "next", "run", "execute", "returned", "failed"},
   translated : BOOLEAN, prog : Progresses, refresh : BOOLEAN, inspected : Segments \cup {None}]

TypeOK ==
  /\ saved \in Progresses /\ latest \subseteq Carriers
  /\ carrier \in [Carriers -> CarrierStates]
  /\ launched \in Nat
  /\ effects \in [Works -> Nat] /\ granted \in [Segments -> Nat]

\* The plan has no segment twice, and an inserted one gets a new number; a
\* replacement keeps the kind of its segment.
PlanOK(prog) ==
  /\ \A k \in 1..Len(prog.plan) : prog.plan[k] <= Len(prog.plan)
  /\ \A j, k \in 1..Len(prog.plan) : prog.plan[j] = prog.plan[k] => j = k
KindsOK(prog) == \A s \in Segments : prog.program[s] = Edit <=> KindOf(s) = "edit"

\* The results are those of the segments before the current one.
ResultsOK(prog) ==
  /\ prog.index <= Len(prog.plan) + 1
  /\ Len(prog.results) = prog.index - 1
  /\ \A k \in 1..Len(prog.results) : prog.results[k].segment = prog.plan[k]
  /\ prog.index > Len(prog.plan) => prog.current = "none"
  /\ prog.current = "none" => prog.ops = <<>>

ResultsOf(role) ==
  CASE role = "translate" -> {"none", "patch", "empty", "rejected"}
    [] role = "patch"     -> {"none", "ok", "error"}
    [] OTHER              -> {"none", "zero", "nonzero", "session"}
RolesOf(step) ==
  CASE step = "edit"  -> {"translate", "patch"}
    [] step = "write" -> {"guard", "command", "patch"}
    [] OTHER          -> {"command"}

\* An operation has its place in the text of its segment, and only the last
\* one can be open.
OpFits(ops, text, n) ==
  /\ ops[n].step \in 1..Len(text) /\ ops[n].role \in RolesOf(text[ops[n].step])
  /\ ops[n].waits => ops[n].role \in {"guard", "command"}
  /\ ops[n].result \in ResultsOf(ops[n].role)
  /\ ops[n].pending => n = Len(ops) /\ ops[n].result = "none"
  /\ text = Edit => n <= 2 /\ (ops[n].role = "translate" <=> n = 1)
\* The steps come in order, and after a step has been started only its session
\* is awaited.
OpsOrdered(ops, m, n) ==
  /\ ops[m].step <= ops[n].step
  /\ ops[m].step = ops[n].step /\ Starts(ops[m]) => ~Starts(ops[n]) /\ ops[n].role = "command"
\* A step that is left behind, or past its guard, has been started.
OpsCover(ops, n) ==
  \A k \in Nat \ {0} : k < ops[n].step \/ (k = ops[n].step /\ ops[n].role \in {"command", "patch"}) =>
    \E m \in 1..n : Starts(ops[m]) /\ ops[m].step = k
OpsFit(ops, text) ==
  \A n \in 1..Len(ops) :
    OpFits(ops, text, n) /\ OpsCover(ops, n) /\ \A m \in 1..(n - 1) : OpsOrdered(ops, m, n)
OpsOK(prog) == prog.ops # <<>> => OpsFit(prog.ops, Program(prog))

WellFormed(prog) == PlanOK(prog) /\ KindsOK(prog) /\ ResultsOK(prog) /\ OpsOK(prog)

\* A step whose work has been booked: its segment is behind, or its starting
\* operation is on record.
StartedAt(prog, k) == \E n \in 1..Len(prog.ops) : Starts(prog.ops[n]) /\ prog.ops[n].step = k
Booked(prog, w) ==
  \/ \E k \in 1..(prog.index - 1) : prog.plan[k] = w[1]
  \/ prog.index <= Len(prog.plan) /\ Segment(prog) = w[1] /\ StartedAt(prog, w[2])
Bookings(prog, w) == IF Booked(prog, w) THEN 1 ELSE 0

\* A carrier that is about to start the work of a step; it may have been
\* superseded since it recorded that.
Owes(x, w) ==
  /\ x.pc = "execute" /\ Starts(x.prog.ops[Len(x.prog.ops)])
  /\ w = <<Segment(x.prog), x.prog.ops[Len(x.prog.ops)].step>>
Outstanding(w) == {c \in Carriers : Owes(carrier[c], w)}

\* What a carrier may rely on by itself, whether or not it has been superseded.
CarrierOK(x) ==
  /\ WellFormed(x.prog)
  /\ x.pc \in {"none", "reading"} => x = [Unlaunched EXCEPT !.pc = x.pc]
  /\ x.pc # "claim" => x.inspected = None
  /\ x.pc \in {"run", "execute", "returned", "failed"} =>
       x.prog.index <= Len(x.prog.plan) /\ x.prog.current # "none"
  /\ x.pc = "execute" => x.prog.ops # <<>> /\ x.prog.ops[Len(x.prog.ops)].pending
  /\ x.pc = "returned" => x.prog.ops # <<>> /\ ~x.prog.ops[Len(x.prog.ops)].pending
  /\ x.refresh => /\ x.prog.index <= Len(x.prog.plan) /\ KindOf(Segment(x.prog)) = "edit"
                  /\ Len(x.prog.ops) <= 1
  /\ x.prog.ops # <<>> /\ x.prog.ops[Len(x.prog.ops)].result = "patch" => x.refresh \/ x.translated
  /\ x.pc = "execute" /\ KindOf(Segment(x.prog)) = "edit" /\ x.prog.ops[Len(x.prog.ops)].role = "patch" =>
       x.translated

\* A retry starts the segment over, with another program perhaps; a repair puts
\* a new edit before the current segment, which starts over too.
Retried(p, t) == [Reset(p) EXCEPT !.program = [p.program EXCEPT ![Segment(p)] = t]]
Repaired(p) == [Reset(p) EXCEPT !.plan = InsertAt(p.plan, p.index, Len(p.plan) + 1)]

\* A carrier that holds the retained revision knows what is retained.
Claims(x, p) ==
  \/ x.inspected = None /\ x.prog = p
  \/ /\ p.current \notin {"none", "completed"}
     /\ \/ x.inspected = None /\ x.prog = Completed(p, "reconciled")
        \/ /\ x.inspected = Segment(p)
           /\ \/ \E t \in Replaces(p) : x.prog = Retried(p, t)
              \/ Len(p.plan) < Len(Script) + MaxRepairs /\ x.prog = Repaired(p)
Knows(x, p) ==
  CASE x.pc = "claim"    -> Claims(x, p)
    [] x.pc = "returned" ->
         /\ p.ops # <<>> /\ Len(p.ops) = Len(x.prog.ops) /\ p.ops[Len(p.ops)].pending
         /\ \E r \in OpResults : x.prog = [p EXCEPT !.ops = [p.ops EXCEPT ![Len(p.ops)] =
                                             [p.ops[Len(p.ops)] EXCEPT !.pending = FALSE, !.result = r]]]
    [] OTHER             -> x.pc \notin {"none", "reading"} /\ x.prog = p

\* Work that a progress claims has been done.
Ran(s, text) == \A k \in 1..Len(text) : effects[<<s, k>>] >= 1
Worked(prog) ==
  /\ \A k \in 1..Len(prog.results) :
       prog.results[k].status = "completed" /\ KindOf(prog.plan[k]) = "shell" =>
         Ran(prog.plan[k], prog.program[prog.plan[k]])
  /\ prog.index <= Len(prog.plan) /\ KindOf(Segment(prog)) = "shell" =>
       /\ prog.current = "completed" => Ran(Segment(prog), Program(prog))
       /\ \A n \in 1..Len(prog.ops) :
            Starts(prog.ops[n]) /\ ~prog.ops[n].pending => effects[<<Segment(prog), prog.ops[n].step>>] >= 1

ProgressInv ==
  /\ TypeOK /\ WellFormed(saved) /\ Worked(saved)
  /\ \A c \in Carriers : CarrierOK(carrier[c]) /\ Worked(carrier[c].prog)
  /\ \A c \in latest : Knows(carrier[c], saved)
  /\ launched = 0 => saved = Fresh /\ \A c \in Carriers : carrier[c].pc = "none"
  /\ \A w \in Works : effects[w] + Cardinality(Outstanding(w)) <= granted[w[1]] + Bookings(saved, w)

-----------------------------------------------------------------------------
(* What the operations on a progress return.                               *)

\* A checkpoint sends the fields that changed; applied to the progress they
\* were computed from they give the new progress.
LEMMA MutatedIs ==
  ASSUME NEW p \in Progresses, NEW q \in Progresses
  PROVE  Mutated(p, Mutations(p, q)) = q
<1> DEFINE fields == {"plan", "program", "index", "results", "current", "ops"}
           m == Mutations(p, q)
<1>1. DOMAIN p = fields /\ DOMAIN q = fields
  BY DEF Progresses
<1>2. DOMAIN m = {g \in fields : p[g] # q[g]} /\ \A g \in DOMAIN m : m[g] = q[g]
  BY <1>1 DEF Mutations
<1>3. Mutated(p, m) = [g \in fields |-> q[g]]
  BY <1>1, <1>2 DEF Mutated
<1>4. q = [g \in fields |-> q[g]]
  BY <1>1 DEF Progresses
<1> QED
  BY <1>3, <1>4

\* Replacing fields by values of their types gives a progress.
LEMMA Updated ==
  ASSUME NEW p \in Progresses, NEW o \in Seq(Operations), NEW i \in Nat \ {0}, NEW l \in Seq(Segments),
         NEW r \in Seq([segment : Segments, status : {"completed", "reconciled"}]),
         NEW f \in [Segments -> Texts],
         NEW c \in {"none", "started", "completed", "rejected", "failed", "interrupted"}
  PROVE  /\ [p EXCEPT !.ops = o] \in Progresses
         /\ [p EXCEPT !.current = c] \in Progresses
         /\ [p EXCEPT !.ops = o, !.current = c] \in Progresses
         /\ [p EXCEPT !.results = r, !.index = i, !.ops = o, !.current = c] \in Progresses
         /\ [p EXCEPT !.plan = l] \in Progresses
         /\ [p EXCEPT !.program = f] \in Progresses
<1>1. [p EXCEPT !.ops = o] \in Progresses
  BY DEF Progresses
<1>2. [p EXCEPT !.current = c] \in Progresses
  BY DEF Progresses
<1>3. [p EXCEPT !.ops = o, !.current = c] \in Progresses
  BY DEF Progresses
<1>4. [p EXCEPT !.results = r, !.index = i, !.ops = o, !.current = c] \in Progresses
  BY DEF Progresses
<1>5. [p EXCEPT !.plan = l] \in Progresses
  BY DEF Progresses
<1>6. [p EXCEPT !.program = f] \in Progresses
  BY DEF Progresses
<1> QED
  BY <1>1, <1>2, <1>3, <1>4, <1>5, <1>6

\* The text of a segment is an edit or a shell program of a bounded length.
LEMMA TextFacts ==
  ASSUME NEW text \in Texts
  PROVE  /\ Len(text) \in Nat /\ 1..Len(text) \subseteq Steps
         /\ text = Edit => Len(text) = 1 /\ text[1] = "edit"
         /\ text # Edit => \A k \in 1..Len(text) : text[k] \in {"command", "write"}
<1>1. MaxSteps \in Nat /\ MaxSteps >= 1
  BY HandleAssumption
<1>2. CASE text = Edit
  BY <1>1, <1>2 DEF Edit, Steps
<1>3. CASE text # Edit
  <2>1. text \in Seq({"command", "write"}) /\ Len(text) <= MaxSteps
    BY <1>3 DEF Texts, Shells
  <2> QED
    BY <1>1, <1>3, <2>1 DEF Steps
<1> QED
  BY <1>2, <1>3

\* The segment that a progress is at, with its text.
LEMMA CurrentFacts ==
  ASSUME NEW p \in Progresses, p.index <= Len(p.plan)
  PROVE  Segment(p) \in Segments /\ Program(p) \in Texts /\ (KindsOK(p) => (Program(p) = Edit <=> KindOf(Segment(p)) = "edit"))
<1>1. p.plan \in Seq(Segments) /\ p.index \in Nat \ {0} /\ p.program \in [Segments -> Texts]
  BY DEF Progresses
<1>2. Segment(p) \in Segments
  BY <1>1 DEF Segment
<1> QED
  BY <1>1, <1>2 DEF Program, KindsOK

\* A work is a segment with a step.
LEMMA WorkFacts ==
  /\ \A w \in Works : w[1] \in Segments /\ w[2] \in Steps /\ w = <<w[1], w[2]>>
  /\ \A s \in Segments, k \in Steps : <<s, k>> \in Works
  BY DEF Works

\* Without operations nothing is started.
LEMMA NoOps ==
  ASSUME NEW q, q.ops = <<>>
  PROVE  OpsOK(q) /\ \A k : ~StartedAt(q, k)
<1>1. 1..Len(q.ops) = {}
  OBVIOUS
<1> QED
  BY <1>1 DEF OpsOK, StartedAt

\* The empty progress is one.
LEMMA FreshFacts ==
  /\ Fresh \in Progresses /\ WellFormed(Fresh) /\ Worked(Fresh)
  /\ Unlaunched \in CarrierStates /\ CarrierOK(Unlaunched) /\ Unlaunched.pc = "none"
  /\ \A w : ~Owes(Unlaunched, w)
<1>1. Len(Script) \in Nat /\ MaxRepairs \in Nat
  BY HandleAssumption
<1>2. [n \in Originals |-> n] \in Seq(Segments) /\ Len([n \in Originals |-> n]) = Len(Script)
  BY <1>1 DEF Originals, Segments
<1>0. \A s \in Segments : Written(s) \in Texts
  BY HandleAssumption DEF Written, Texts, Shells, Originals
<1>3. Fresh \in Progresses
  BY <1>0, <1>2 DEF Fresh, Progresses
<1>4. WellFormed(Fresh)
  BY <1>1, <1>2 DEF WellFormed, PlanOK, KindsOK, KindOf, ResultsOK, OpsOK, Fresh, Originals
<1>5. Unlaunched \in CarrierStates
  BY <1>3 DEF Unlaunched, CarrierStates
<1>6. CarrierOK(Unlaunched)
  BY <1>4 DEF CarrierOK, Unlaunched, Fresh
<1>7. Worked(Fresh)
  BY DEF Worked, Fresh
<1> QED
  BY <1>3, <1>4, <1>5, <1>6, <1>7 DEF Owes, Unlaunched

\* completeCurrent moves the current segment behind: its work stays booked.
LEMMA CompletedFacts ==
  ASSUME NEW p \in Progresses, WellFormed(p), p.index <= Len(p.plan),
         NEW status \in {"completed", "reconciled"}
  PROVE  LET q == Completed(p, status) IN
         /\ q \in Progresses /\ WellFormed(q) /\ q.ops = <<>> /\ q.current = "none"
         /\ \A w : Booked(p, w) => Booked(q, w)
         /\ TypeOK /\ Worked(p) /\ (status = "completed" => p.current = "completed") => Worked(q)
<1> DEFINE seg == Segment(p)
           entry == [segment |-> seg, status |-> status]
           q == Completed(p, status)
<1>1. /\ p.plan \in Seq(Segments) /\ p.index \in Nat \ {0} /\ p.ops \in Seq(Operations)
      /\ p.results \in Seq([segment : Segments, status : {"completed", "reconciled"}])
      /\ seg \in Segments
  BY DEF Progresses, Segment
<1>2. /\ q.plan = p.plan /\ q.program = p.program /\ q.index = p.index + 1 /\ q.ops = <<>> /\ q.current = "none"
      /\ q.results = Append(p.results, entry)
  BY DEF Completed, Progresses
<1>3. q.results \in Seq([segment : Segments, status : {"completed", "reconciled"}])
  BY <1>1, <1>2
<1>4. q \in Progresses
  <2>1. PICK r, i, o : r = Append(p.results, entry) /\ i = p.index + 1 /\ o = <<>>
    OBVIOUS
  <2>2. /\ r \in Seq([segment : Segments, status : {"completed", "reconciled"}])
        /\ i \in Nat \ {0} /\ o \in Seq(Operations)
    BY <1>1, <1>2, <1>3, <2>1
  <2>3. q = [p EXCEPT !.results = r, !.index = i, !.ops = o, !.current = "none"]
    BY <2>1 DEF Completed
  <2>4. p.plan \in Seq(Segments) /\ p.program \in [Segments -> Texts]
    BY DEF Progresses
  <2> HIDE DEF q, entry
  <2> QED
    BY <2>2, <2>3, <2>4, Updated
<1>5. /\ Len(q.results) = Len(p.results) + 1 /\ q.results[Len(p.results) + 1] = entry
      /\ \A k \in 1..Len(p.results) : q.results[k] = p.results[k]
  BY <1>1, <1>2
<1>6. Len(p.results) = p.index - 1
  BY DEF WellFormed, ResultsOK
<1>7. WellFormed(q)
  <2>1. PlanOK(q) /\ KindsOK(q)
    BY <1>2 DEF WellFormed, PlanOK, KindsOK
  <2>2. \A k \in 1..Len(q.results) : q.results[k].segment = q.plan[k]
    BY <1>1, <1>2, <1>5, <1>6 DEF WellFormed, ResultsOK, Segment
  <2>3. ResultsOK(q)
    BY <1>1, <1>2, <1>5, <1>6, <2>2 DEF ResultsOK
  <2>4. OpsOK(q)
    BY <1>2, NoOps
  <2> QED
    BY <2>1, <2>3, <2>4 DEF WellFormed
<1>8. \A w : Booked(p, w) => Booked(q, w)
  BY <1>1, <1>2 DEF Booked, Segment
<1>9. ASSUME TypeOK, Worked(p), status = "completed" => p.current = "completed" PROVE Worked(q)
  <2>1. ASSUME NEW k \in 1..Len(q.results), q.results[k].status = "completed", KindOf(q.plan[k]) = "shell"
        PROVE  Ran(q.plan[k], q.program[q.plan[k]])
    <3>1. CASE k \in 1..Len(p.results)
      BY <1>1, <1>2, <1>5, <1>9, <2>1, <3>1 DEF Worked
    <3>2. CASE k = Len(p.results) + 1
      BY <1>1, <1>2, <1>5, <1>6, <1>9, <2>1, <3>2 DEF Worked, Segment, Program
    <3> QED
      BY <1>1, <1>5, <3>1, <3>2
  <2>2. 1..Len(q.ops) = {}
    BY <1>2
  <2> QED
    BY <1>2, <2>1, <2>2 DEF Worked
<1> QED
  BY <1>2, <1>4, <1>7, <1>8, <1>9

\* A retry forgets the operations of the current segment and nothing else.
LEMMA ResetFacts ==
  ASSUME NEW p \in Progresses, WellFormed(p)
  PROVE  LET q == Reset(p) IN
         /\ q \in Progresses /\ q.plan = p.plan /\ q.index = p.index /\ q.results = p.results
         /\ q.ops = <<>> /\ q.current = "none" /\ q.program = p.program
         /\ WellFormed(q)
         /\ \A w : Booked(p, w) => Booked(q, w) \/ w[1] = Segment(p)
         /\ Worked(p) => Worked(q)
<1> DEFINE q == Reset(p)
<1>1. /\ q \in Progresses /\ q.plan = p.plan /\ q.index = p.index /\ q.results = p.results
      /\ q.ops = <<>> /\ q.current = "none" /\ q.program = p.program
  <2>1. q = [p EXCEPT !.ops = <<>>, !.current = "none"] /\ <<>> \in Seq(Operations)
    BY DEF Reset
  <2>2. \A o \in Seq(Operations) : [p EXCEPT !.ops = o, !.current = "none"] \in Progresses
    BY DEF Progresses
  <2>3. q \in Progresses
    BY <2>1, <2>2, Zenon
  <2> QED
    BY <2>3 DEF Reset, Progresses
<1> HIDE DEF q
<1>2. WellFormed(q)
  BY <1>1, NoOps DEF WellFormed, PlanOK, KindsOK, ResultsOK
<1>3. \A w : Booked(p, w) => Booked(q, w) \/ w[1] = Segment(p)
  BY <1>1 DEF Booked
<1>4. Worked(p) => Worked(q)
  <2>1. 1..Len(q.ops) = {}
    BY <1>1
  <2> QED
    BY <1>1, <2>1 DEF Worked
<1> QED
  BY <1>1, <1>2, <1>3, <1>4 DEF q

\* A replacement changes the text of the segment that starts over and no other.
LEMMA RetryFacts ==
  ASSUME NEW p \in Progresses, WellFormed(p), p.index <= Len(p.plan), NEW text \in Replaces(p)
  PROVE  LET q == Retried(p, text) IN
         /\ q \in Progresses /\ q.ops = <<>> /\ q.current = "none"
         /\ WellFormed(q)
         /\ \A w : Booked(p, w) => Booked(q, w) \/ w[1] = Segment(p)
         /\ Worked(p) => Worked(q)
<1> DEFINE r == Reset(p)
           seg == Segment(p)
           f == [p.program EXCEPT ![seg] = text]
           q == Retried(p, text)
<1>1. /\ r \in Progresses /\ r.plan = p.plan /\ r.index = p.index /\ r.results = p.results
      /\ r.ops = <<>> /\ r.current = "none" /\ r.program = p.program /\ WellFormed(r)
      /\ Worked(p) => Worked(r)
  BY ResetFacts
<1>2. /\ p.plan \in Seq(Segments) /\ p.index \in Nat \ {0} /\ p.program \in [Segments -> Texts]
      /\ seg \in Segments /\ p.results \in Seq([segment : Segments, status : {"completed", "reconciled"}])
  BY DEF Progresses, Segment
<1>3. text \in Texts /\ (text = Edit <=> KindOf(seg) = "edit")
  <2>1. Program(p) \in Texts /\ (Program(p) = Edit <=> KindOf(seg) = "edit")
    BY CurrentFacts DEF WellFormed
  <2>2. CASE text = Program(p)
    BY <2>1, <2>2
  <2>3. CASE KindOf(seg) = "shell" /\ text \in Replacements
    <3>1. text \in Shells
      BY <2>3, HandleAssumption DEF Shells
    <3>2. text # Edit
      <4>1. \A k \in 1..Len(text) : text[k] \in {"command", "write"}
        BY <3>1 DEF Shells
      <4> QED
        BY <4>1 DEF Edit
    <3> QED
      BY <2>3, <3>1, <3>2 DEF Texts
  <2> QED
    BY <2>2, <2>3 DEF Replaces
<1>4. f \in [Segments -> Texts] /\ \A s \in Segments : f[s] = IF s = seg THEN text ELSE p.program[s]
  BY <1>2, <1>3
<1>5. q = [r EXCEPT !.program = f]
  BY <1>1 DEF Retried
<1> HIDE DEF r, f, q
<1>6. /\ q \in Progresses /\ q.plan = p.plan /\ q.index = p.index /\ q.results = p.results
      /\ q.ops = <<>> /\ q.current = "none" /\ q.program = f
  <2>1. [r EXCEPT !.program = f] \in Progresses
    BY <1>1, <1>4 DEF Progresses
  <2> QED
    BY <1>1, <1>5, <2>1 DEF Progresses
<1>7. WellFormed(q)
  <2>1. KindsOK(q)
    BY <1>3, <1>4, <1>6 DEF WellFormed, KindsOK
  <2>2. PlanOK(q) /\ ResultsOK(q)
    BY <1>1, <1>6 DEF WellFormed, PlanOK, ResultsOK
  <2> QED
    BY <1>6, <2>1, <2>2, NoOps DEF WellFormed
<1>8. \A w : Booked(p, w) => Booked(q, w) \/ w[1] = seg
  BY <1>6 DEF Booked
<1>9. ASSUME Worked(p) PROVE Worked(q)
  <2>1. ASSUME NEW k \in 1..Len(p.results) PROVE q.program[q.plan[k]] = p.program[p.plan[k]]
    <3>1. k \in 1..Len(p.plan) /\ p.plan[k] \in Segments /\ k # p.index
      BY <1>2, <2>1 DEF WellFormed, ResultsOK
    <3>2. p.plan[k] # seg
      BY <1>2, <3>1 DEF WellFormed, PlanOK, Segment
    <3> QED
      BY <1>4, <1>6, <3>1, <3>2
  <2>2. 1..Len(q.ops) = {} /\ q.current # "completed"
    BY <1>6
  <2> QED
    BY <1>6, <1>9, <2>1, <2>2 DEF Worked
<1> QED
  BY <1>6, <1>7, <1>8, <1>9 DEF q

\* Inserting into a sequence shifts what follows.
LEMMA InsertFacts ==
  ASSUME NEW S, NEW sq \in Seq(S), NEW i \in 1..(Len(sq) + 1), NEW e \in S
  PROVE  /\ InsertAt(sq, i, e) \in Seq(S) /\ Len(InsertAt(sq, i, e)) = Len(sq) + 1
         /\ \A k \in 1..(i - 1) : InsertAt(sq, i, e)[k] = sq[k]
         /\ InsertAt(sq, i, e)[i] = e
         /\ \A k \in (i + 1)..(Len(sq) + 1) : InsertAt(sq, i, e)[k] = sq[k - 1]
<1> DEFINE a == SubSeq(sq, 1, i - 1)
           b == SubSeq(sq, i, Len(sq))
           t == InsertAt(sq, i, e)
<1>1. a \in Seq(S) /\ Len(a) = i - 1 /\ \A k \in 1..(i - 1) : a[k] = sq[k]
  OBVIOUS
<1>2. b \in Seq(S) /\ Len(b) = Len(sq) - i + 1 /\ \A k \in 1..(Len(sq) - i + 1) : b[k] = sq[i + k - 1]
  OBVIOUS
<1>3. t = a \o <<e>> \o b
  BY DEF InsertAt
<1> HIDE DEF a, b, t
<1> DEFINE ae == a \o <<e>>
<1>4. ae \in Seq(S) /\ Len(ae) = i /\ (\A k \in 1..(i - 1) : ae[k] = a[k]) /\ ae[i] = e
  BY <1>1
<1> HIDE DEF ae
<1>5. /\ t \in Seq(S) /\ Len(t) = Len(sq) + 1
      /\ \A k \in 1..(Len(sq) + 1) : t[k] = IF k <= i THEN ae[k] ELSE b[k - i]
  BY <1>2, <1>3, <1>4 DEF ae
<1>6. Len(sq) \in Nat /\ i \in Nat /\ 1 <= i /\ i <= Len(sq) + 1
  OBVIOUS
<1>7. \A k \in 1..(i - 1) : t[k] = sq[k]
  BY <1>1, <1>4, <1>5, <1>6
<1>8. t[i] = e
  BY <1>4, <1>5, <1>6
<1>9. ASSUME NEW k \in (i + 1)..(Len(sq) + 1) PROVE t[k] = sq[k - 1]
  <2>1. t[k] = b[k - i] /\ k - i \in 1..(Len(sq) - i + 1) /\ i + (k - i) - 1 = k - 1
    BY <1>5, <1>6
  <2> QED
    BY <1>2, <2>1
<1> QED
  BY <1>5, <1>7, <1>8, <1>9 DEF t

\* An inserted edit leaves a well-formed progress that has not begun the current segment.
LEMMA RepairFacts ==
  ASSUME NEW p \in Progresses, WellFormed(p), p.index <= Len(p.plan),
         Len(p.plan) < Len(Script) + MaxRepairs
  PROVE  /\ Repaired(p) \in Progresses /\ Repaired(p).ops = <<>> /\ Repaired(p).current = "none"
         /\ Repaired(p).index = p.index
         /\ WellFormed(Repaired(p))
         /\ \A w : Booked(p, w) => Booked(Repaired(p), w) \/ w[1] = Segment(p)
         /\ Worked(p) => Worked(Repaired(p))
<1> DEFINE r == Reset(p)
           len == Len(p.plan)
           i == p.index
           l == InsertAt(p.plan, i, len + 1)
           q == Repaired(p)
<1>1. /\ p.plan \in Seq(Segments) /\ i \in 1..(len + 1) /\ i \in 1..len /\ len + 1 \in Segments
      /\ len \in Nat
      /\ p.results \in Seq([segment : Segments, status : {"completed", "reconciled"}])
  BY HandleAssumption DEF Progresses, Segments
<1>2. /\ l \in Seq(Segments) /\ Len(l) = len + 1
      /\ \A k \in 1..(i - 1) : l[k] = p.plan[k]
      /\ l[i] = len + 1
      /\ \A k \in (i + 1)..(len + 1) : l[k] = p.plan[k - 1]
  <2> HIDE DEF len, i
  <2> QED
    BY <1>1, InsertFacts DEF len, i
<1>3. /\ r \in Progresses /\ r.plan = p.plan /\ r.index = i /\ r.results = p.results
      /\ r.ops = <<>> /\ r.current = "none" /\ WellFormed(r) /\ r.program = p.program
      /\ (Worked(p) => Worked(r))
  BY ResetFacts
<1>4. q = [r EXCEPT !.plan = l]
  BY DEF Repaired
<1> HIDE DEF r, l, q
<1>5. /\ q \in Progresses /\ q.plan = l /\ q.index = i /\ q.results = p.results
      /\ q.ops = <<>> /\ q.current = "none" /\ q.program = p.program
  <2>1. q \in Progresses
    <3>1. [r EXCEPT !.plan = l] \in Progresses
      BY <1>2, <1>3 DEF Progresses
    <3> QED
      BY <1>4, <3>1
  <2> QED
    BY <1>3, <1>4, <2>1 DEF Progresses
<1>6. /\ \A k \in 1..len : p.plan[k] \in Nat /\ p.plan[k] <= len
      /\ \A j, k \in 1..len : p.plan[j] = p.plan[k] => j = k
  <2>1. \A k \in 1..len : p.plan[k] \in Segments
    BY <1>1
  <2>2. \A s \in Segments : s \in Nat
    BY HandleAssumption DEF Segments
  <2> QED
    BY <2>1, <2>2 DEF WellFormed, PlanOK
<1>7. Len(p.results) = i - 1 /\ i \in Nat \ {0}
  BY <1>1 DEF WellFormed, ResultsOK
<1>8. \A k \in 1..Len(p.results) : p.results[k].segment = p.plan[k]
  BY DEF WellFormed, ResultsOK
<1>9. \A w : Booked(p, w) => (\E k \in 1..(i - 1) : p.plan[k] = w[1]) \/ w[1] = Segment(p)
  BY DEF Booked
<1> HIDE DEF len, i
<1>10. \A k \in 1..(len + 1) : l[k] <= len + 1
  <2> SUFFICES ASSUME NEW k \in 1..(len + 1) PROVE l[k] <= len + 1
    OBVIOUS
  <2>1. CASE k \in 1..(i - 1)
    <3>1. k \in 1..len
      BY <1>1, <2>1
    <3> QED
      BY <1>1, <1>2, <1>6, <2>1, <3>1
  <2>2. CASE k = i
    BY <1>1, <1>2, <2>2
  <2>3. CASE k \in (i + 1)..(len + 1)
    <3>1. k - 1 \in 1..len /\ l[k] = p.plan[k - 1]
      BY <1>1, <1>2, <2>3
    <3>2. p.plan[k - 1] \in Nat /\ p.plan[k - 1] <= len
      BY <1>6, <3>1
    <3> QED
      BY <1>1, <3>1, <3>2
  <2> QED
    BY <1>1, <2>1, <2>2, <2>3
<1>11. ASSUME NEW j \in 1..(len + 1), NEW k \in 1..(len + 1), l[j] = l[k] PROVE j = k
  <2> DEFINE f(x) == IF x < i THEN x ELSE x - 1
  <2>1. ASSUME NEW x \in 1..(len + 1), x # i
        PROVE  f(x) \in 1..len /\ l[x] = p.plan[f(x)]
    <3>1. CASE x \in 1..(i - 1)
      BY <1>1, <1>2, <3>1
    <3>2. CASE x \in (i + 1)..(len + 1)
      BY <1>1, <1>2, <3>2
    <3> QED
      BY <1>1, <2>1, <3>1, <3>2
  <2>2. ASSUME NEW x \in 1..(len + 1), x # i PROVE l[x] # l[i]
    <3>1. l[x] = p.plan[f(x)] /\ f(x) \in 1..len
      BY <2>1, <2>2
    <3>2. p.plan[f(x)] \in Nat /\ p.plan[f(x)] <= len
      BY <1>6, <3>1
    <3> HIDE DEF f
    <3> QED
      BY <1>1, <1>2, <3>1, <3>2
  <2>3. CASE j = i \/ k = i
    BY <1>1, <1>11, <2>2, <2>3
  <2>4. CASE j # i /\ k # i
    <3>1. f(j) = f(k)
      <4> HIDE DEF f
      <4> QED
        BY <1>6, <1>11, <2>1, <2>4
    <3> QED
      BY <1>1, <2>4, <3>1
  <2> QED
    BY <2>3, <2>4
<1>12. PlanOK(q) /\ KindsOK(q)
  BY <1>2, <1>5, <1>10, <1>11 DEF PlanOK, KindsOK, WellFormed
<1>13. \A k \in 1..Len(p.results) : l[k] = p.plan[k]
  BY <1>2, <1>7
<1>14. ResultsOK(q)
  BY <1>1, <1>2, <1>5, <1>7, <1>8, <1>13 DEF ResultsOK
<1>15. \A w : Booked(p, w) => Booked(q, w) \/ w[1] = Segment(p)
  <2>1. \A w : (\E k \in 1..(i - 1) : l[k] = w[1]) => Booked(q, w)
    BY <1>5 DEF Booked
  <2> QED
    BY <1>2, <1>9, <2>1
<1>16. ASSUME Worked(p) PROVE Worked(q)
  <2>1. 1..Len(q.ops) = {} /\ q.current # "completed"
    BY <1>5
  <2> QED
    BY <1>5, <1>13, <1>16, <2>1 DEF Worked
<1> QED
  BY <1>5, <1>12, <1>14, <1>15, <1>16, NoOps DEF WellFormed, q, i

-----------------------------------------------------------------------------
(* Steps.                                                                  *)

Owing(x, w) == IF Owes(x, w) THEN 1 ELSE 0

\* Only the carrier that takes a step changes what is outstanding.
LEMMA OutstandingCount ==
  ASSUME NEW c \in Carriers, NEW x, carrier \in [Carriers -> CarrierStates],
         carrier' = [carrier EXCEPT ![c] = x], NEW w
  PROVE  /\ Cardinality(Outstanding(w)) \in Nat /\ Cardinality(Outstanding(w)') \in Nat
         /\ Cardinality(Outstanding(w)') + Owing(carrier[c], w) = Cardinality(Outstanding(w)) + Owing(x, w)
<1> DEFINE others == Outstanding(w) \ {c}
<1>1. IsFiniteSet(Outstanding(w)) /\ IsFiniteSet(Outstanding(w)') /\ IsFiniteSet(others)
  BY HandleAssumption, FS_Subset DEF Outstanding, Carriers
<1>2. /\ Outstanding(w) = IF Owes(carrier[c], w) THEN others \cup {c} ELSE others
      /\ Outstanding(w)' = IF Owes(x, w) THEN others \cup {c} ELSE others
  BY DEF Outstanding
<1>3. c \notin others
  OBVIOUS
<1> HIDE DEF others
<1>4. Cardinality(others) \in Nat /\ Cardinality(others \cup {c}) = Cardinality(others) + 1
  BY <1>1, <1>3, FS_AddElement, FS_CardinalityType
<1> QED
  BY <1>2, <1>4 DEF Owing

\* Work that was done stays done.
LEMMA WorkedStays ==
  ASSUME NEW p \in Progresses, WellFormed(p), Worked(p),
         effects \in [Works -> Nat], effects' \in [Works -> Nat],
         \A w \in Works : effects'[w] >= effects[w]
  PROVE  Worked(p)'
<1>1. /\ p.plan \in Seq(Segments) /\ p.index \in Nat \ {0}
      /\ Len(p.results) = p.index - 1 /\ p.index <= Len(p.plan) + 1
  BY DEF Progresses, WellFormed, ResultsOK
<1>2. \A w \in Works : effects[w] >= 1 => effects'[w] >= 1
  OBVIOUS
<1>3. \A k \in 1..Len(p.results) : p.plan[k] \in Segments
  BY <1>1
<1>4. p.index <= Len(p.plan) => Segment(p) \in Segments
  BY <1>1 DEF Segment
<1>5. ASSUME NEW s \in Segments, Ran(s, p.program[s]) PROVE Ran(s, p.program[s])'
  <2>1. p.program[s] \in Texts
    BY DEF Progresses
  <2>2. \A k \in 1..Len(p.program[s]) : k \in Steps
    BY <2>1, TextFacts
  <2> QED
    BY <1>2, <1>5, <2>2, WorkFacts DEF Ran
<1>6. ASSUME p.index <= Len(p.plan), NEW n \in 1..Len(p.ops), effects[<<Segment(p), p.ops[n].step>>] >= 1
      PROVE  effects'[<<Segment(p), p.ops[n].step>>] >= 1
  <2>1. p.ops # <<>> /\ p.ops \in Seq(Operations)
    BY DEF Progresses
  <2>2. p.ops[n].step \in 1..Len(Program(p)) /\ Program(p) \in Texts
    BY <1>6, <2>1, CurrentFacts DEF WellFormed, OpsOK, OpsFit, OpFits
  <2>3. p.ops[n].step \in Steps
    BY <2>2, TextFacts
  <2> QED
    BY <1>2, <1>4, <1>6, <2>3, WorkFacts
<1>7. p.index <= Len(p.plan) => (Ran(Segment(p), Program(p)) => Ran(Segment(p), Program(p))')
  BY <1>4, <1>5 DEF Program
<1>8. \A k \in 1..Len(p.results) : Ran(p.plan[k], p.program[p.plan[k]]) => Ran(p.plan[k], p.program[p.plan[k]])'
  BY <1>3, <1>5
<1> QED
  BY <1>6, <1>7, <1>8 DEF Worked

\* A step of one carrier: what it has to establish.
LEMMA CarrierStep ==
  ASSUME ProgressInv, NEW c \in Carriers, NEW x \in CarrierStates,
         carrier' = [carrier EXCEPT ![c] = x], CarrierOK(x), Worked(x.prog)',
         saved' \in Progresses, WellFormed(saved'), Worked(saved)',
         launched' \in Nat \ {0},
         effects' \in [Works -> Nat], granted' \in [Segments -> Nat],
         \A w \in Works : effects'[w] >= effects[w],
         latest' \subseteq {c} \/ (saved' = saved /\ latest' \subseteq latest \cup {c}),
         c \in latest' => Knows(x, saved'),
         \A w \in Works :
           effects'[w] + Owing(x, w) + granted[w[1]] + Bookings(saved, w)
             <= granted'[w[1]] + Bookings(saved', w) + effects[w] + Owing(carrier[c], w)
  PROVE  ProgressInv'
<1>1. carrier \in [Carriers -> CarrierStates] /\ saved \in Progresses
      /\ effects \in [Works -> Nat] /\ granted \in [Segments -> Nat]
      /\ latest \subseteq Carriers
  BY DEF ProgressInv, TypeOK
<1>2. \A d \in Carriers : carrier'[d] = IF d = c THEN x ELSE carrier[d]
  BY <1>1
<1>3. TypeOK'
  BY <1>1 DEF TypeOK
<1>4. ASSUME NEW d \in Carriers PROVE CarrierOK(carrier'[d]) /\ Worked(carrier[d].prog)'
  <2>1. CASE d = c
    BY <1>2, <2>1
  <2>2. CASE d # c
    <3>1. CarrierOK(carrier[d]) /\ Worked(carrier[d].prog) /\ carrier'[d] = carrier[d]
      BY <1>2, <2>2 DEF ProgressInv
    <3>2. carrier[d].prog \in Progresses /\ WellFormed(carrier[d].prog)
      BY <1>1, <3>1 DEF CarrierStates, CarrierOK
    <3> DEFINE p == carrier[d].prog
    <3>3. \A q \in Progresses : WellFormed(q) /\ Worked(q) => Worked(q)'
      BY <1>1, WorkedStays
    <3> QED
      BY <3>1, <3>2, <3>3
  <2> QED
    BY <2>1, <2>2
<1>5. ASSUME NEW d \in latest' PROVE Knows(carrier'[d], saved')
  <2>1. CASE d = c
    BY <1>2, <1>5, <2>1
  <2>2. CASE d # c
    BY <1>1, <1>2, <1>5, <2>2 DEF ProgressInv
  <2> QED
    BY <2>1, <2>2
<1>6. ASSUME NEW w \in Works
      PROVE effects'[w] + Cardinality(Outstanding(w)') <= granted'[w[1]] + Bookings(saved', w)
  <2>1. /\ Cardinality(Outstanding(w)) \in Nat /\ Cardinality(Outstanding(w)') \in Nat
        /\ Cardinality(Outstanding(w)') + Owing(carrier[c], w) = Cardinality(Outstanding(w)) + Owing(x, w)
    BY <1>1, OutstandingCount
  <2>2. effects[w] + Cardinality(Outstanding(w)) <= granted[w[1]] + Bookings(saved, w)
    BY DEF ProgressInv
  <2>3. /\ effects[w] \in Nat /\ effects'[w] \in Nat /\ granted[w[1]] \in Nat /\ granted'[w[1]] \in Nat
        /\ Bookings(saved, w) \in Nat /\ Bookings(saved', w) \in Nat
        /\ Owing(x, w) \in Nat /\ Owing(carrier[c], w) \in Nat
    BY <1>1, WorkFacts DEF Bookings, Owing
  <2>4. effects'[w] + Owing(x, w) + granted[w[1]] + Bookings(saved, w)
          <= granted'[w[1]] + Bookings(saved', w) + effects[w] + Owing(carrier[c], w)
    OBVIOUS
  <2> QED
    BY <2>1, <2>2, <2>3, <2>4
<1> QED
  BY <1>3, <1>4, <1>5, <1>6 DEF ProgressInv

\* A step of a carrier outside its checkpoints: nothing retained changes.
LEMMA LocalStep ==
  ASSUME ProgressInv, NEW c \in Carriers, NEW x \in CarrierStates,
         carrier' = [carrier EXCEPT ![c] = x], CarrierOK(x), Worked(x.prog),
         saved' = saved, effects' = effects, granted' = granted, launched' \in Nat \ {0},
         latest' \subseteq latest \cup {c}, c \in latest' => Knows(x, saved),
         x.pc # "execute"
  PROVE  ProgressInv'
<1>1. TypeOK /\ WellFormed(saved) /\ Worked(saved)
  BY DEF ProgressInv
<1>2. Worked(x.prog)' /\ Worked(saved)'
  BY <1>1 DEF Worked, Ran
<1>3. ASSUME NEW w \in Works
      PROVE  effects'[w] + Owing(x, w) + granted[w[1]] + Bookings(saved, w)
               <= granted'[w[1]] + Bookings(saved', w) + effects[w] + Owing(carrier[c], w)
  <2>1. effects[w] \in Nat /\ granted[w[1]] \in Nat /\ Bookings(saved, w) \in Nat /\ Owing(carrier[c], w) \in Nat
    BY <1>1, WorkFacts DEF TypeOK, Bookings, Owing
  <2>2. Owing(x, w) = 0
    BY DEF Owing, Owes
  <2> QED
    BY <2>1, <2>2
<1>4. /\ \A w \in Works : effects'[w] >= effects[w]
      /\ effects' \in [Works -> Nat] /\ granted' \in [Segments -> Nat] /\ saved' \in Progresses
  BY <1>1 DEF TypeOK
<1> QED
  BY <1>1, <1>2, <1>3, <1>4, CarrierStep

\* What a checkpoint does to the retained progress and to its carrier.
After(c, prog, pc, refresh) ==
  [carrier[c] EXCEPT !.prog = prog, !.pc = pc, !.refresh = refresh, !.inspected = None]

\* A checkpoint of the latest carrier makes its progress the retained one, and the carrier goes
\* on or ends; any other carrier stops.
LEMMA CheckpointCases ==
  ASSUME TypeOK, NEW c \in Carriers, NEW prog \in Progresses, NEW pc, NEW refresh,
         Checkpoint(c, prog, pc, refresh)
  PROVE  \/ /\ c \in latest /\ saved' = prog /\ latest' = {c} /\ pc # "ended"
            /\ carrier' = [carrier EXCEPT ![c] = After(c, prog, pc, refresh)]
         \/ c \in latest /\ saved' = prog /\ latest' = {} /\ Ended(c)
         \/ Stops(c)
<1>1. Mutated(saved, Mutations(saved, prog)) = prog
  BY MutatedIs DEF TypeOK
<1>2. [carrier EXCEPT ![c].prog = prog, ![c].pc = pc, ![c].refresh = refresh, ![c].inspected = None]
      = [carrier EXCEPT ![c] = After(c, prog, pc, refresh)]
  BY DEF TypeOK, CarrierStates, After
<1> QED
  BY <1>1, <1>2 DEF Checkpoint, Accepts

\* A carrier may go on with a progress.
Fits(prog, pc, refresh, translated) ==
  /\ pc \in {"run", "execute"} => prog.index <= Len(prog.plan) /\ prog.current # "none"
  /\ pc = "execute" => prog.ops # <<>> /\ prog.ops[Len(prog.ops)].pending
  /\ refresh => /\ prog.index <= Len(prog.plan) /\ KindOf(Segment(prog)) = "edit"
                /\ Len(prog.ops) <= 1
  /\ prog.ops # <<>> /\ prog.ops[Len(prog.ops)].result = "patch" => refresh \/ translated
  /\ pc = "execute" /\ KindOf(Segment(prog)) = "edit" /\ prog.ops[Len(prog.ops)].role = "patch" => translated

\* A checkpoint keeps the invariant when its progress is true and books what
\* the carrier is going to start.
LEMMA CheckpointStep ==
  ASSUME ProgressInv, NEW c \in Carriers, carrier[c].pc \notin {"none", "reading", "execute"},
         launched' = launched, effects' = effects,
         NEW prog \in Progresses, WellFormed(prog), Worked(prog),
         NEW pc \in {"next", "run", "execute", "ended"}, NEW refresh \in BOOLEAN,
         Checkpoint(c, prog, pc, refresh),
         pc # "ended" => Fits(prog, pc, refresh, carrier[c].translated),
         granted' \in [Segments -> Nat],
         \A s \in Segments : granted'[s] >= granted[s],
         c \in latest /\ saved' = prog => \A w \in Works :
           granted[w[1]] + Bookings(saved, w) + Owing(After(c, prog, pc, refresh), w)
             <= granted'[w[1]] + Bookings(prog, w)
  PROVE  ProgressInv'
<1> DEFINE x == After(c, prog, pc, refresh)
<1>1. /\ TypeOK /\ carrier[c] \in CarrierStates /\ carrier[c].prog \in Progresses
      /\ WellFormed(saved) /\ Worked(saved) /\ saved \in Progresses
      /\ effects' \in [Works -> Nat] /\ \A w \in Works : effects'[w] >= effects[w]
      /\ granted \in [Segments -> Nat]
  BY DEF ProgressInv, TypeOK, CarrierStates
<1>2. launched' \in Nat \ {0}
  BY DEF ProgressInv, TypeOK
<1>3. Worked(prog)' /\ (saved' = saved => Worked(saved)')
  BY <1>1 DEF Worked, Ran
<1>4. \A w : Owing(carrier[c], w) = 0
  BY DEF Owing, Owes
<1>5. /\ Unlaunched \in CarrierStates /\ CarrierOK(Unlaunched) /\ Unlaunched.pc = "none"
      /\ (\A w : Owing(Unlaunched, w) = 0) /\ Worked(Unlaunched.prog)'
  <2>1. Unlaunched \in CarrierStates /\ CarrierOK(Unlaunched) /\ Unlaunched.pc = "none"
        /\ (\A w : Owing(Unlaunched, w) = 0)
    BY FreshFacts DEF Owing
  <2>2. Worked(Fresh) /\ Fresh \in Progresses /\ WellFormed(Fresh)
    BY FreshFacts
  <2>3. Worked(Fresh)'
    BY <1>1, <2>2, WorkedStays DEF TypeOK
  <2> QED
    BY <2>1, <2>3 DEF Unlaunched
<1>6. \A w \in Works : /\ effects[w] \in Nat /\ granted[w[1]] \in Nat /\ granted'[w[1]] \in Nat
                       /\ granted'[w[1]] >= granted[w[1]]
                       /\ Bookings(saved, w) \in Nat /\ Bookings(prog, w) \in Nat /\ Owing(x, w) \in Nat
  BY <1>1, WorkFacts DEF TypeOK, Bookings, Owing
<1>7. CASE /\ c \in latest /\ saved' = prog /\ latest' = {c} /\ pc # "ended"
           /\ carrier' = [carrier EXCEPT ![c] = x]
  <2>1. x \in CarrierStates
    BY <1>1, <1>7 DEF After, CarrierStates
  <2>2. PICK y \in CarrierStates : y = x
    BY <2>1
  <2>3. /\ y.prog = prog /\ y.pc = pc /\ y.refresh = refresh /\ y.inspected = None
        /\ y.translated = carrier[c].translated
    BY <1>1, <1>7, <2>2 DEF After, CarrierStates
  <2> HIDE DEF x
  <2>4. CarrierOK(y) /\ Knows(y, prog)
    BY <1>7, <2>3 DEF CarrierOK, Knows, Fits
  <2>5. Worked(y.prog)' /\ Worked(saved)'
    BY <1>3, <1>7, <2>3 DEF Worked, Ran
  <2>6. \A w \in Works :
           effects'[w] + Owing(y, w) + granted[w[1]] + Bookings(saved, w)
             <= granted'[w[1]] + Bookings(saved', w) + effects[w] + Owing(carrier[c], w)
    BY <1>4, <1>6, <1>7, <2>2 DEF x
  <2> QED
    BY <1>1, <1>2, <1>7, <2>2, <2>4, <2>5, <2>6, CarrierStep
<1>8. CASE c \in latest /\ saved' = prog /\ latest' = {} /\ Ended(c)
  <2> HIDE DEF x
  <2>1. carrier' = [carrier EXCEPT ![c] = Unlaunched]
    BY <1>8 DEF Ended
  <2>2. Worked(saved)'
    BY <1>3, <1>8 DEF Worked, Ran
  <2>3. \A w \in Works :
           effects'[w] + Owing(Unlaunched, w) + granted[w[1]] + Bookings(saved, w)
             <= granted'[w[1]] + Bookings(saved', w) + effects[w] + Owing(carrier[c], w)
    BY <1>4, <1>5, <1>6, <1>8 DEF x
  <2> QED
    BY <1>1, <1>2, <1>5, <1>8, <2>1, <2>2, <2>3, CarrierStep
<1>9. CASE Stops(c)
  <2> HIDE DEF x
  <2>1. carrier' = [carrier EXCEPT ![c] = Unlaunched] /\ latest' = latest \ {c} /\ saved' = saved
    BY <1>9 DEF Ended, Stops
  <2>3. \A w \in Works :
           effects'[w] + Owing(Unlaunched, w) + granted[w[1]] + Bookings(saved, w)
             <= granted'[w[1]] + Bookings(saved', w) + effects[w] + Owing(carrier[c], w)
    BY <1>4, <1>5, <1>6, <2>1
  <2> QED
    BY <1>1, <1>2, <1>3, <1>5, <2>1, <2>3, CarrierStep
<1> QED
  BY <1>1, <1>7, <1>8, <1>9, CheckpointCases

\* What holds of a carrier and of the progress it works on.
LEMMA CarrierFacts ==
  ASSUME ProgressInv, NEW c \in Carriers
  PROVE  /\ carrier[c] \in CarrierStates /\ Prog(c) \in Progresses
         /\ WellFormed(Prog(c)) /\ Worked(Prog(c))
         /\ CarrierOK(carrier[c])
         /\ c \in latest /\ carrier[c].pc \notin {"claim", "returned"} => Prog(c) = saved
         /\ Prog(c).plan \in Seq(Segments) /\ Prog(c).index \in Nat \ {0}
         /\ Prog(c).ops \in Seq(Operations) /\ carrier[c].refresh \in BOOLEAN
  BY DEF ProgressInv, TypeOK, CarrierStates, CarrierOK, Knows, Prog, Progresses

\* A checkpoint that neither starts nor grants anything unbooked.
LEMMA QuietStep ==
  ASSUME ProgressInv, NEW c \in Carriers, carrier[c].pc \notin {"none", "reading", "execute"}, Quiet,
         NEW prog \in Progresses, WellFormed(prog), Worked(prog),
         NEW pc \in {"next", "run", "execute", "ended"}, NEW refresh \in BOOLEAN,
         Checkpoint(c, prog, pc, refresh),
         pc # "ended" => Fits(prog, pc, refresh, carrier[c].translated),
         c \in latest => \A w \in Works :
           Bookings(saved, w) + Owing(After(c, prog, pc, refresh), w) <= Bookings(prog, w)
  PROVE  ProgressInv'
<1>1. granted' = granted /\ granted \in [Segments -> Nat] /\ launched' = launched /\ effects' = effects
  BY DEF Quiet, ProgressInv, TypeOK
<1>2. /\ \A s \in Segments : granted[s] \in Nat /\ granted'[s] = granted[s]
      /\ \A w \in Works : granted[w[1]] \in Nat /\ granted'[w[1]] = granted[w[1]]
  BY <1>1, WorkFacts
<1>3. \A w : Bookings(saved, w) \in Nat /\ Bookings(prog, w) \in Nat
             /\ Owing(After(c, prog, pc, refresh), w) \in Nat
  BY DEF Bookings, Owing
<1>4. ASSUME c \in latest, NEW w \in Works
      PROVE granted[w[1]] + Bookings(saved, w) + Owing(After(c, prog, pc, refresh), w)
              <= granted'[w[1]] + Bookings(prog, w)
  <2>1. Bookings(saved, w) + Owing(After(c, prog, pc, refresh), w) <= Bookings(prog, w)
    BY <1>4
  <2> QED
    BY <1>2, <1>3, <2>1
<1>5. \A s \in Segments : granted'[s] >= granted[s]
  BY <1>2
<1> QED
  BY <1>1, <1>4, <1>5, CheckpointStep

\* Nothing is owed by a carrier that does not execute.
LEMMA OwesNothing ==
  ASSUME TypeOK, NEW c \in Carriers, NEW prog, NEW pc, NEW refresh, NEW w,
         \/ pc # "execute"
         \/ <<Segment(prog), prog.ops[Len(prog.ops)].step>> # w
         \/ ~Starts(prog.ops[Len(prog.ops)])
  PROVE  Owing(After(c, prog, pc, refresh), w) = 0
<1>1. /\ After(c, prog, pc, refresh).pc = pc /\ After(c, prog, pc, refresh).prog = prog
  BY DEF After, TypeOK, CarrierStates
<1> QED
  BY <1>1 DEF Owing, Owes

\* Changing the status of the current segment changes nothing else.
LEMMA StatusFacts ==
  ASSUME NEW p \in Progresses, WellFormed(p), p.index <= Len(p.plan),
         NEW v \in {"started", "completed", "rejected", "failed", "interrupted"}
  PROVE  /\ [p EXCEPT !.current = v] \in Progresses /\ WellFormed([p EXCEPT !.current = v])
         /\ [p EXCEPT !.current = v].current = v
         /\ [p EXCEPT !.current = v].plan = p.plan /\ [p EXCEPT !.current = v].index = p.index
         /\ [p EXCEPT !.current = v].ops = p.ops
         /\ \A w : Bookings([p EXCEPT !.current = v], w) = Bookings(p, w)
         /\ Worked(p) /\ (v = "completed" /\ KindOf(Segment(p)) = "shell" => Ran(Segment(p), Program(p)))
              => Worked([p EXCEPT !.current = v])
<1> DEFINE q == [p EXCEPT !.current = v]
<1>1. /\ q \in Progresses /\ q.plan = p.plan /\ q.index = p.index /\ q.ops = p.ops
      /\ q.results = p.results /\ q.current = v /\ q.program = p.program
  BY DEF Progresses
<1> HIDE DEF q
<1>2. Segment(q) = Segment(p) /\ Program(q) = Program(p)
  BY <1>1 DEF Segment, Program
<1>3. WellFormed(q)
  <2>1. PlanOK(q) /\ KindsOK(q)
    BY <1>1 DEF WellFormed, PlanOK, KindsOK
  <2>2. ResultsOK(q)
    BY <1>1 DEF WellFormed, ResultsOK, Progresses
  <2>3. OpsOK(q)
    BY <1>1, <1>2 DEF WellFormed, OpsOK
  <2> QED
    BY <2>1, <2>2, <2>3 DEF WellFormed
<1>4. \A w : Bookings(q, w) = Bookings(p, w)
  BY <1>1, <1>2 DEF Bookings, Booked, StartedAt
<1>5. Worked(p) /\ (v = "completed" /\ KindOf(Segment(p)) = "shell" => Ran(Segment(p), Program(p))) => Worked(q)
  BY <1>1, <1>2 DEF Worked
<1> QED
  BY <1>1, <1>3, <1>4, <1>5 DEF q

-----------------------------------------------------------------------------
(* The checkpoints of a carrier.                                           *)

\* between_segments keeps the booking of the segment it leaves behind.
LEMMA SettleStep ==
  ASSUME ProgressInv, NEW c \in Carriers, Settle(c)
  PROVE  ProgressInv'
<1> DEFINE p == Prog(c)
           q == Completed(p, "completed")
           no == FALSE
<1>1. /\ carrier[c].pc = "next" /\ p.current = "completed" /\ Quiet
      /\ Checkpoint(c, q, "next", no)
  BY DEF Settle, At
<1>2. /\ p \in Progresses /\ WellFormed(p) /\ Worked(p) /\ TypeOK
      /\ c \in latest => p = saved
  BY <1>1, CarrierFacts DEF ProgressInv
<1>0. no \in BOOLEAN /\ ~no
  OBVIOUS
<1> HIDE DEF p, no
<1>3. p.index <= Len(p.plan)
  BY <1>1, <1>2 DEF WellFormed, ResultsOK, Progresses
<1>4. /\ q \in Progresses /\ WellFormed(q) /\ q.ops = <<>> /\ q.current = "none" /\ Worked(q)
      /\ \A w : Booked(p, w) => Booked(q, w)
  BY <1>1, <1>2, <1>3, CompletedFacts
<1> HIDE DEF q
<1>5. Fits(q, "next", no, carrier[c].translated)
  BY <1>0, <1>4 DEF Fits
<1>6. ASSUME c \in latest, NEW w \in Works
      PROVE  Bookings(saved, w) + Owing(After(c, q, "next", no), w) <= Bookings(q, w)
  <2>1. Owing(After(c, q, "next", no), w) = 0
    BY <1>2, OwesNothing
  <2>2. p = saved
    BY <1>2, <1>6
  <2>3. Booked(saved, w) => Booked(q, w)
    BY <1>4, <2>2
  <2>4. Bookings(saved, w) \in Nat /\ Bookings(q, w) \in Nat /\ Bookings(saved, w) <= Bookings(q, w)
    BY <2>3 DEF Bookings
  <2> QED
    BY <2>1, <2>4
<1> QED
  BY <1>0, <1>1, <1>4, <1>5, <1>6, QuietStep

\* A checkpoint of a new status of the current segment.
LEMMA StatusStep ==
  ASSUME ProgressInv, NEW c \in Carriers, carrier[c].pc \in {"next", "run", "failed"}, Quiet,
         Prog(c).index <= Len(Prog(c).plan),
         NEW v \in {"started", "completed", "rejected", "failed", "interrupted"},
         NEW pc \in {"next", "run", "ended"},
         Checkpoint(c, [Prog(c) EXCEPT !.current = v], pc, carrier[c].refresh),
         v = "completed" /\ KindOf(Segment(Prog(c))) = "shell" => Ran(Segment(Prog(c)), Program(Prog(c)))
  PROVE  ProgressInv'
<1> DEFINE p == Prog(c)
           q == [p EXCEPT !.current = v]
<1>1. /\ p \in Progresses /\ WellFormed(p) /\ Worked(p) /\ TypeOK /\ CarrierOK(carrier[c])
      /\ c \in latest => p = saved
      /\ carrier[c].refresh \in BOOLEAN
  BY CarrierFacts DEF ProgressInv
<1>2. /\ q \in Progresses /\ WellFormed(q) /\ q.plan = p.plan /\ q.index = p.index /\ q.ops = p.ops
      /\ q.current = v /\ Worked(q) /\ \A w : Bookings(q, w) = Bookings(p, w)
  BY <1>1, StatusFacts
<1>3. Segment(q) = Segment(p)
  BY <1>2 DEF Segment
<1>4. Checkpoint(c, q, pc, carrier[c].refresh)
  OBVIOUS
<1> HIDE DEF q
<1>5. Fits(q, pc, carrier[c].refresh, carrier[c].translated)
  BY <1>1, <1>2, <1>3 DEF Fits, CarrierOK, Prog
<1> HIDE DEF p
<1>6. ASSUME c \in latest, NEW w \in Works
      PROVE  Bookings(saved, w) + Owing(After(c, q, pc, carrier[c].refresh), w) <= Bookings(q, w)
  <2>1. Owing(After(c, q, pc, carrier[c].refresh), w) = 0
    BY <1>1, OwesNothing
  <2> QED
    BY <1>1, <1>2, <1>6, <2>1 DEF Bookings
<1> QED
  BY <1>1, <1>2, <1>4, <1>5, <1>6, QuietStep

\* Marking the next segment as started (StartSegment) keeps ProgressInv.
LEMMA StartStep ==
  ASSUME ProgressInv, NEW c \in Carriers, StartSegment(c)
  PROVE  ProgressInv'
  BY StatusStep DEF StartSegment, At

\* Marking a segment that a restart interrupted keeps ProgressInv.
LEMMA InterruptedStep ==
  ASSUME ProgressInv, NEW c \in Carriers, Interrupted(c)
  PROVE  ProgressInv'
<1>1. Prog(c).index <= Len(Prog(c).plan)
  BY CarrierFacts DEF Interrupted, At, CarrierOK, Prog
<1> QED
  BY <1>1, StatusStep DEF Interrupted, At

\* Marking a segment that failed as stopped keeps ProgressInv.
LEMMA StopStep ==
  ASSUME ProgressInv, NEW c \in Carriers, StopSegment(c)
  PROVE  ProgressInv'
<1>1. Prog(c).index <= Len(Prog(c).plan)
  BY CarrierFacts DEF StopSegment, At, CarrierOK, Prog
<1> QED
  BY <1>1, StatusStep DEF StopSegment, At

\* Codex cancels a carrier, it ends by itself, or it cannot confirm an edit.
LEMMA StopsStep ==
  ASSUME ProgressInv, NEW c \in Carriers, Stops(c), Quiet, carrier[c].pc \notin {"none", "reading"}
  PROVE  ProgressInv'
<1>1. /\ carrier' = [carrier EXCEPT ![c] = Unlaunched] /\ latest' = latest \ {c}
      /\ UNCHANGED <<saved, effects, granted>>
  BY DEF Ended, Stops, Quiet
<1>2. launched' \in Nat \ {0}
  BY DEF ProgressInv, TypeOK, Quiet
<1>3. /\ Unlaunched \in CarrierStates /\ CarrierOK(Unlaunched) /\ Worked(Unlaunched.prog)
      /\ Unlaunched.pc # "execute"
  BY FreshFacts DEF Unlaunched
<1> QED
  BY <1>1, <1>2, <1>3, LocalStep

\* An operation that returned was booked when it was recorded as pending.
LEMMA RecordStep ==
  ASSUME ProgressInv, NEW c \in Carriers, Record(c)
  PROVE  ProgressInv'
<1> DEFINE p == Prog(c)
           n == Len(p.ops)
<1>1. carrier[c].pc = "returned" /\ Quiet /\ Checkpoint(c, p, "run", carrier[c].refresh)
  BY DEF Record, At
<1>2. /\ p \in Progresses /\ WellFormed(p) /\ Worked(p) /\ TypeOK /\ CarrierOK(carrier[c])
      /\ carrier[c].refresh \in BOOLEAN
  BY CarrierFacts DEF ProgressInv
<1>3. Fits(p, "run", carrier[c].refresh, carrier[c].translated)
  BY <1>1, <1>2 DEF Fits, CarrierOK, Prog
<1>4. ASSUME c \in latest, NEW w \in Works
      PROVE  Bookings(saved, w) + Owing(After(c, p, "run", carrier[c].refresh), w) <= Bookings(p, w)
  <2>1. Owing(After(c, p, "run", carrier[c].refresh), w) = 0
    BY <1>2, OwesNothing
  <2>2. /\ saved.ops # <<>> /\ Len(saved.ops) = n
        /\ saved \in Progresses /\ WellFormed(saved)
    BY <1>1, <1>4 DEF ProgressInv, TypeOK, Knows, Prog
  <2>3. PICK r \in OpResults : p = [saved EXCEPT !.ops = [saved.ops EXCEPT ![n] =
                                    [saved.ops[n] EXCEPT !.pending = FALSE, !.result = r]]]
    BY <1>1, <1>4, <2>2 DEF ProgressInv, Knows, Prog
  <2>4. /\ p.plan = saved.plan /\ p.index = saved.index /\ Segment(p) = Segment(saved)
        /\ saved.ops \in Seq(Operations) /\ n \in Nat \ {0}
        /\ p.ops = [saved.ops EXCEPT ![n] = [saved.ops[n] EXCEPT !.pending = FALSE, !.result = r]]
    BY <2>2, <2>3 DEF Progresses, Segment
  <2> HIDE DEF p
  <2>5. ASSUME NEW k \in 1..n PROVE p.ops[k].step = saved.ops[k].step /\ (Starts(p.ops[k]) <=> Starts(saved.ops[k]))
    <3>1. saved.ops[k] \in Operations
      BY <2>2, <2>4
    <3>2. CASE k = n
      <4>1. p.ops[k] = [saved.ops[k] EXCEPT !.pending = FALSE, !.result = r]
        BY <2>4, <3>2
      <4> QED
        BY <3>1, <4>1 DEF Operations, Starts
    <3>3. CASE k # n
      BY <2>2, <2>4, <3>3
    <3> QED
      BY <3>2, <3>3
  <2>6. \A k : StartedAt(p, k) <=> StartedAt(saved, k)
    BY <2>2, <2>5 DEF StartedAt, n
  <2>7. Bookings(p, w) = Bookings(saved, w) /\ Bookings(saved, w) \in Nat
    BY <2>4, <2>6 DEF Bookings, Booked
  <2> QED
    BY <2>1, <2>7
<1> QED
  BY <1>1, <1>2, <1>3, <1>4, QuietStep

\* The operations of an edit that is translated again were not yet booked.
LEMMA RevalidateStep ==
  ASSUME ProgressInv, NEW c \in Carriers, Revalidate(c)
  PROVE  ProgressInv'
<1> DEFINE p == Prog(c)
           q == [p EXCEPT !.ops = <<>>]
           no == FALSE
<1>0. no \in BOOLEAN /\ ~no
  OBVIOUS
<1>1. carrier[c].pc = "run" /\ carrier[c].refresh /\ Quiet /\ Checkpoint(c, q, "run", no)
  BY DEF Revalidate, Revalidates, At
<1>2. /\ p \in Progresses /\ WellFormed(p) /\ Worked(p) /\ TypeOK /\ CarrierOK(carrier[c])
      /\ c \in latest => p = saved
  BY <1>1, CarrierFacts DEF ProgressInv
<1>3. /\ p.index <= Len(p.plan) /\ p.current # "none" /\ KindOf(Segment(p)) = "edit"
      /\ Len(p.ops) <= 1
  BY <1>1, <1>2 DEF CarrierOK, Prog
<1> HIDE DEF p
<1>4. /\ q \in Progresses /\ q.plan = p.plan /\ q.index = p.index /\ q.ops = <<>>
      /\ q.results = p.results /\ q.current = p.current /\ q.program = p.program
  <2>1. \A o \in Seq(Operations) : [p EXCEPT !.ops = o] \in Progresses
    BY <1>2 DEF Progresses
  <2>2. <<>> \in Seq(Operations)
    OBVIOUS
  <2>3. q \in Progresses
    BY <2>1, <2>2, Zenon
  <2>4. \A o : LET r == [p EXCEPT !.ops = o] IN
          /\ r.plan = p.plan /\ r.index = p.index /\ r.ops = o
          /\ r.results = p.results /\ r.current = p.current /\ r.program = p.program
    BY <1>2 DEF Progresses
  <2> QED
    BY <2>3, <2>4, Zenon
<1> HIDE DEF q, no
<1>5. Segment(q) = Segment(p) /\ Program(q) = Program(p)
  BY <1>4 DEF Segment, Program
<1>6. WellFormed(q)
  BY <1>2, <1>3, <1>4, NoOps DEF WellFormed, PlanOK, KindsOK, ResultsOK
<1>7. Worked(q)
  <2>1. 1..Len(q.ops) = {}
    BY <1>4
  <2> QED
    BY <1>2, <1>4, <1>5, <2>1 DEF Worked
<1>8. \A k : ~StartedAt(p, k)
  <2>1. p.ops \in Seq(Operations)
    BY <1>2 DEF Progresses
  <2>2. \A k \in 1..Len(p.ops) : k = 1
    BY <1>3, <2>1
  <2>3. Program(p) = Edit
    BY <1>2, <1>3, CurrentFacts DEF WellFormed
  <2>4. \A k \in 1..Len(p.ops) : p.ops[k].role = "translate"
    BY <1>2, <2>1, <2>2, <2>3 DEF WellFormed, OpsOK, OpsFit, OpFits
  <2> QED
    BY <2>4 DEF StartedAt, Starts
<1>9. Fits(q, "run", no, carrier[c].translated)
  BY <1>0, <1>3, <1>4 DEF Fits
<1>10. ASSUME c \in latest, NEW w \in Works
       PROVE  Bookings(saved, w) + Owing(After(c, q, "run", no), w) <= Bookings(q, w)
  <2>1. Owing(After(c, q, "run", no), w) = 0
    BY <1>2, OwesNothing
  <2>2. Booked(p, w) => Booked(q, w)
    BY <1>4, <1>8 DEF Booked
  <2>3. Bookings(p, w) <= Bookings(q, w) /\ Bookings(p, w) \in Nat /\ Bookings(q, w) \in Nat
    BY <2>2 DEF Bookings
  <2> QED
    BY <1>2, <1>10, <2>1, <2>3
<1> QED
  BY <1>0, <1>1, <1>4, <1>6, <1>7, <1>9, <1>10, QuietStep

\* A program that ended has been started.
LEMMA CompleteStep ==
  ASSUME ProgressInv, NEW c \in Carriers, CompleteSegment(c)
  PROVE  ProgressInv'
<1> DEFINE p == Prog(c)
           n == Len(p.ops)
<1>1. /\ carrier[c].pc = "run" /\ Quiet /\ Result(p) \in {"empty", "ok", "zero"} /\ Finished(p)
      /\ \/ Checkpoint(c, [p EXCEPT !.current = "completed"], "next", carrier[c].refresh)
         \/ Stops(c)
  BY DEF CompleteSegment, ConfirmFails, At
<1>2. /\ p \in Progresses /\ WellFormed(p) /\ Worked(p) /\ p.index <= Len(p.plan)
      /\ p.ops \in Seq(Operations)
  BY <1>1, CarrierFacts DEF ProgressInv, CarrierOK, Prog
<1>3. KindOf(Segment(p)) = "shell" => Ran(Segment(p), Program(p))
  <2> HIDE DEF p
  <2> DEFINE text == Program(p)
             o == p.ops[n]
  <2> SUFFICES ASSUME KindOf(Segment(p)) = "shell" PROVE Ran(Segment(p), text)
    OBVIOUS
  <2>1. text \in Texts /\ text # Edit /\ Len(text) \in Nat
    BY <1>2, CurrentFacts, TextFacts DEF WellFormed
  <2>2. CASE p.ops = <<>>
    <3>1. Opening(text, 1) = {}
      BY <1>1, <2>2 DEF Finished, NextOp, HasOps
    <3>2. 1 > Len(text)
      BY <3>1 DEF Opening
    <3>3. 1..Len(text) = {}
      BY <2>1, <3>2
    <3> HIDE DEF text
    <3> QED
      BY <3>3 DEF Ran
  <2>3. CASE p.ops # <<>>
    <3>1. n \in Nat \ {0} /\ n \in 1..n /\ o \in Operations
      BY <1>2, <2>3
    <3>2. OpsFit(p.ops, text)
      BY <1>2, <2>3 DEF WellFormed, OpsOK
    <3>3. o.result \in {"empty", "ok", "zero"} /\ Following(text, o) = {} /\ ~o.pending
      BY <1>1, <2>3 DEF Finished, NextOp, HasOps, Result, Last, Unresolved
    <3>4. o.step \in 1..Len(text) /\ o.role \in RolesOf(text[o.step]) /\ o.result \in ResultsOf(o.role)
      BY <3>1, <3>2 DEF OpsFit, OpFits
    <3>5. text[o.step] \in {"command", "write"}
      BY <2>1, <3>4, TextFacts
    <3> HIDE DEF text, o
    <3>6. o.role \in {"guard", "command", "patch"}
      BY <3>4, <3>5 DEF RolesOf
    <3>7. o.role # "guard" /\ o.result \in {"ok", "zero"}
      BY <3>3, <3>4, <3>6 DEF Following, ResultsOf
    <3>8. Opening(text, o.step + 1) = {}
      BY <3>3, <3>7 DEF Following
    <3>9. o.step + 1 > Len(text)
      BY <3>8 DEF Opening
    <3>10. o.step = Len(text)
      BY <2>1, <3>4, <3>9
    <3>11. ASSUME NEW k \in 1..Len(text) PROVE effects[<<Segment(p), k>>] >= 1
      <4>1. k \in Nat \ {0} /\ (k < o.step \/ k = o.step)
        BY <2>1, <3>10
      <4>2. PICK m \in 1..n : Starts(p.ops[m]) /\ p.ops[m].step = k
        <5>1. OpsCover(p.ops, n)
          BY <3>1, <3>2 DEF OpsFit
        <5> QED
          BY <3>6, <3>7, <4>1, <5>1 DEF OpsCover, o
      <4>3. ~p.ops[m].pending
        <5>1. CASE m = n
          BY <3>3, <5>1 DEF o
        <5>2. CASE m # n
          BY <3>1, <3>2, <5>2 DEF OpsFit, OpFits
        <5> QED
          BY <5>1, <5>2
      <4> QED
        BY <1>2, <4>2, <4>3 DEF Worked
    <3> QED
      BY <3>11 DEF Ran
  <2> QED
    BY <2>2, <2>3
<1>4. CASE Checkpoint(c, [p EXCEPT !.current = "completed"], "next", carrier[c].refresh)
  BY <1>1, <1>2, <1>3, <1>4, StatusStep
<1>5. CASE Stops(c)
  BY <1>1, <1>5, StopsStep
<1> QED
  BY <1>1, <1>4, <1>5

\* What the operation to record next looks like, whatever came before it.
Fitting(p, o) ==
  LET text == Program(p)
      n == Len(p.ops)
  IN  /\ o \in Operations /\ o.pending /\ o.result = "none"
      /\ o.step \in 1..Len(text) /\ o.role \in RolesOf(text[o.step])
      /\ o.waits => o.role \in {"guard", "command"}
      /\ text = Edit => n + 1 <= 2 /\ (o.role = "translate" <=> n = 0)
      /\ \A m \in 1..n : /\ p.ops[m].step <= o.step
                         /\ p.ops[m].step = o.step /\ Starts(p.ops[m]) => ~Starts(o) /\ o.role = "command"
      /\ \A k \in Nat \ {0} : k < o.step \/ (k = o.step /\ o.role \in {"command", "patch"} /\ ~Starts(o)) =>
           StartedAt(p, k)
      /\ text = Edit /\ o.role = "patch" => p.ops # <<>> /\ p.ops[n].result = "patch"

\* The operation that opens a step is of the step's kind.
LEMMA OpeningFacts ==
  ASSUME NEW text \in Texts, NEW k \in Nat \ {0}, NEW o \in Opening(text, k)
  PROVE  /\ o \in Operations /\ o.pending /\ o.result = "none" /\ ~o.waits
         /\ o.step = k /\ k \in 1..Len(text) /\ o.role \in RolesOf(text[k]) /\ o.role # "patch"
         /\ text = Edit => o.role = "translate" /\ k = 1
<1> DEFINE role == CASE text[k] = "edit" -> "translate" [] text[k] = "write" -> "guard" [] OTHER -> "command"
<1>1. Len(text) \in Nat
  BY TextFacts
<1>2. k \in 1..Len(text) /\ o = Op(k, role, FALSE)
  <2>1. ~(k > Len(text))
    BY DEF Opening
  <2>2. Opening(text, k) = {Op(k, role, FALSE)}
    BY <2>1 DEF Opening
  <2> HIDE DEF role
  <2> QED
    BY <1>1, <2>1, <2>2
<1>3. role \in Roles /\ role # "patch" /\ role \in RolesOf(text[k]) /\ (text[k] = "edit" => role = "translate")
  <2>1. CASE text[k] = "edit"
    BY <2>1 DEF Roles, RolesOf
  <2>2. CASE text[k] = "write"
    BY <2>2 DEF Roles, RolesOf
  <2>3. CASE text[k] \notin {"edit", "write"}
    BY <2>3 DEF Roles, RolesOf
  <2> QED
    BY <2>1, <2>2, <2>3
<1> HIDE DEF role
<1>4. text = Edit => k = 1 /\ text[k] = "edit"
  <2>1. text = Edit => Len(text) = 1 /\ text[1] = "edit"
    BY TextFacts
  <2>2. ASSUME text = Edit PROVE k = 1
    <3>1. k \in 1..1
      BY <1>2, <2>1, <2>2, Zenon
    <3> QED
      BY <3>1
  <2> QED
    BY <2>1, <2>2
<1>5. /\ o.step = k /\ o.role = role /\ ~o.waits /\ o.pending /\ o.result = "none" /\ o \in Operations
  BY <1>2, <1>3 DEF Op, Operations, OpResults
<1> QED
  BY <1>2, <1>3, <1>4, <1>5

\* The operation that follows has its place in the segment.
LEMMA NextFits ==
  ASSUME NEW p \in Progresses, WellFormed(p), p.index <= Len(p.plan), ~Unresolved(p), NEW o \in NextOp(p)
  PROVE  Fitting(p, o)
<1> DEFINE text == Program(p)
           n == Len(p.ops)
           e == p.ops[n]
<1>1. text \in Texts /\ Len(text) \in Nat /\ p.ops \in Seq(Operations) /\ n \in Nat
  <2>1. text \in Texts
    BY CurrentFacts
  <2>2. p.ops \in Seq(Operations)
    BY DEF Progresses
  <2> HIDE DEF text
  <2> QED
    BY <2>1, <2>2, TextFacts
<1>2. CASE p.ops = <<>>
  <2>1. o \in Opening(text, 1) /\ n = 0 /\ 1..n = {}
    BY <1>2 DEF NextOp, HasOps
  <2>2. /\ o \in Operations /\ o.pending /\ o.result = "none" /\ ~o.waits
        /\ o.step = 1 /\ 1 \in 1..Len(text) /\ o.role \in RolesOf(text[1]) /\ o.role # "patch"
        /\ text = Edit => o.role = "translate"
    BY <1>1, <2>1, OpeningFacts
  <2> HIDE DEF n, text
  <2>3. \A k \in Nat \ {0} : ~(k < o.step) /\ ~(o.role \in {"command", "patch"} /\ ~Starts(o))
    BY <2>2 DEF Starts
  <2> QED
    BY <2>1, <2>2, <2>3 DEF Fitting, n, text
<1>3. CASE p.ops # <<>>
  <2>1. n \in 1..n /\ e \in Operations /\ OpsFit(p.ops, text)
    BY <1>1, <1>3 DEF WellFormed, OpsOK
  <2>2. o \in Following(text, e) /\ ~e.pending
    BY <1>3 DEF NextOp, HasOps, Unresolved, Last
  <2>3. /\ e.step \in 1..Len(text) /\ e.role \in RolesOf(text[e.step])
        /\ e.waits => e.role \in {"guard", "command"}
        /\ e.result \in ResultsOf(e.role)
        /\ text = Edit => n <= 2 /\ (e.role = "translate" <=> n = 1)
        /\ \A k \in Nat \ {0} : k < e.step \/ (k = e.step /\ e.role \in {"command", "patch"}) => StartedAt(p, k)
    BY <2>1 DEF OpsFit, OpFits, OpsCover, StartedAt
  <2>4. \A m \in 1..n : p.ops[m].step \in Nat /\ p.ops[m].step <= e.step
    <3> SUFFICES ASSUME NEW m \in 1..n PROVE p.ops[m].step \in Nat /\ p.ops[m].step <= e.step
      OBVIOUS
    <3>1. p.ops[m] \in Operations
      BY <1>1
    <3>2. m # n => OpsOrdered(p.ops, m, n)
      BY <1>1, <2>1 DEF OpsFit
    <3> QED
      BY <2>1, <3>1, <3>2 DEF OpsOrdered, Operations
  <2>5. e.role # "command" /\ ~Starts(e) =>
          \A m \in 1..n : p.ops[m].step = e.step => ~Starts(p.ops[m])
    <3> SUFFICES ASSUME e.role # "command", ~Starts(e), NEW m \in 1..n, p.ops[m].step = e.step
                 PROVE  ~Starts(p.ops[m])
      OBVIOUS
    <3>1. m # n => OpsOrdered(p.ops, m, n)
      BY <1>1, <2>1 DEF OpsFit
    <3> QED
      BY <3>1 DEF OpsOrdered
  <2>6. e.step \in Nat \ {0} /\ e.role \in Roles
    BY <1>1, <2>1, <2>3 DEF Operations
  <2>7. text = Edit => e.step = 1 /\ text[e.step] = "edit" /\ e.role \in {"translate", "patch"}
    <3>1. text = Edit => e.step = 1 /\ text[e.step] = "edit"
      BY <1>1, <2>3, TextFacts
    <3> QED
      BY <2>3, <3>1 DEF RolesOf
  <2> HIDE DEF text, e, n
  <2>8. ASSUME NEW role \in Roles, NEW waits \in BOOLEAN, o = Op(e.step, role, waits)
        PROVE  /\ o \in Operations /\ o.pending /\ o.result = "none" /\ o.step = e.step
               /\ o.role = role /\ o.waits = waits
    BY <2>6, <2>8 DEF Op, Operations, OpResults
  <2>9. CASE e.result = "session"
    <3>1. o = Op(e.step, e.role, TRUE)
      BY <2>2, <2>9 DEF Following
    <3>2. /\ o \in Operations /\ o.pending /\ o.result = "none" /\ o.step = e.step
          /\ o.role = e.role /\ o.waits
      BY <2>6, <2>8, <3>1
    <3>3. e.role \in {"guard", "command"} /\ text # Edit
      BY <2>3, <2>6, <2>7, <2>9 DEF ResultsOf, Roles
    <3>4. ~Starts(o)
      BY <3>2 DEF Starts
    <3>5. e.role = "guard" => ~Starts(e)
      BY DEF Starts
    <3> QED
      BY <2>3, <2>4, <2>5, <3>2, <3>3, <3>4, <3>5 DEF Fitting, n, text
  <2>10. CASE e.result = "patch"
    <3>1. o = Op(e.step, "patch", FALSE)
      BY <2>2, <2>10 DEF Following
    <3>2. /\ o \in Operations /\ o.pending /\ o.result = "none" /\ o.step = e.step
          /\ o.role = "patch" /\ ~o.waits
      BY <2>8, <3>1 DEF Roles
    <3>3. e.role = "translate"
      BY <2>3, <2>6, <2>10 DEF ResultsOf, Roles
    <3>4. text[e.step] = "edit" /\ text = Edit
      BY <1>1, <2>3, <3>3, TextFacts DEF RolesOf
    <3>5. n = 1 /\ n + 1 <= 2 /\ n # 0
      BY <2>3, <3>3, <3>4
    <3>6. Starts(o) /\ ~Starts(e)
      BY <3>2, <3>3 DEF Starts
    <3>7. o.role \in RolesOf(text[o.step])
      BY <3>2, <3>4 DEF RolesOf
    <3> QED
      BY <1>3, <2>3, <2>4, <2>5, <2>10, <3>2, <3>3, <3>5, <3>6, <3>7 DEF Fitting, n, text, e
  <2>11. CASE e.role = "guard" /\ e.result \in {"zero", "nonzero"}
    <3>1. PICK role \in {"patch", "command"} : o = Op(e.step, role, FALSE)
      BY <2>2, <2>11 DEF Following
    <3>2. /\ o \in Operations /\ o.pending /\ o.result = "none" /\ o.step = e.step
          /\ o.role = role /\ ~o.waits
      BY <2>8, <3>1 DEF Roles
    <3>3. text[e.step] = "write"
      BY <1>1, <2>3, <2>11, TextFacts DEF RolesOf
    <3>4. o.role \in RolesOf(text[o.step]) /\ text # Edit
      BY <2>7, <2>11, <3>2, <3>3 DEF RolesOf
    <3>5. Starts(o) /\ ~Starts(e)
      BY <2>11, <3>2 DEF Starts
    <3> QED
      BY <2>3, <2>4, <2>5, <2>11, <3>2, <3>4, <3>5 DEF Fitting, n, text
  <2>12. CASE e.role # "guard" /\ e.result \in {"zero", "nonzero", "ok"}
    <3>1. o \in Opening(text, e.step + 1)
      BY <2>2, <2>12 DEF Following
    <3>2. e.role \in {"command", "patch"}
      BY <2>3, <2>6, <2>12 DEF ResultsOf, Roles
    <3>3. e.step + 1 \in Nat \ {0}
      BY <2>6
    <3>4. /\ o \in Operations /\ o.pending /\ o.result = "none" /\ ~o.waits
          /\ o.step = e.step + 1 /\ e.step + 1 \in 1..Len(text) /\ o.role \in RolesOf(text[e.step + 1])
          /\ o.role # "patch"
          /\ text = Edit => e.step + 1 = 1
      BY <1>1, <3>1, <3>3, OpeningFacts
    <3>5. text # Edit
      BY <2>6, <3>4
    <3>6. \A m \in 1..n : p.ops[m].step <= o.step /\ p.ops[m].step # o.step
      BY <2>4, <2>6, <3>4
    <3>7. ASSUME NEW k \in Nat \ {0}, k < o.step \/ (k = o.step /\ o.role \in {"command", "patch"} /\ ~Starts(o))
          PROVE  StartedAt(p, k)
      <4>1. k < o.step
        BY <3>4, <3>7 DEF Starts
      <4>2. k < e.step \/ k = e.step
        BY <2>6, <3>4, <4>1
      <4> QED
        BY <2>3, <3>2, <4>2
    <3> QED
      BY <3>4, <3>5, <3>6, <3>7 DEF Fitting, n, text
  <2>13. ASSUME e.result \notin {"session", "patch"},
                ~(e.role = "guard" /\ e.result \in {"zero", "nonzero"}),
                ~(e.role # "guard" /\ e.result \in {"zero", "nonzero", "ok"})
         PROVE  Following(text, e) = {}
    BY <2>13 DEF Following
  <2> QED
    BY <2>2, <2>9, <2>10, <2>11, <2>12, <2>13
<1> QED
  BY <1>2, <1>3

\* Recording the next operation of a segment keeps a progress well formed.
LEMMA AppendFacts ==
  ASSUME NEW p \in Progresses, WellFormed(p), p.index <= Len(p.plan), p.current # "none",
         ~Unresolved(p), NEW e, Fitting(p, e), NEW q, q = [p EXCEPT !.ops = Append(@, e)]
  PROVE  /\ q \in Progresses /\ WellFormed(q) /\ (Worked(p) => Worked(q))
         /\ q.plan = p.plan /\ q.index = p.index /\ q.current = p.current
         /\ q.ops # <<>> /\ Len(q.ops) = Len(p.ops) + 1 /\ q.ops[Len(q.ops)] = e
         /\ \A k : StartedAt(p, k) => StartedAt(q, k)
         /\ Starts(e) => StartedAt(q, e.step) /\ ~StartedAt(p, e.step)
<1> DEFINE o == Append(p.ops, e)
           n == Len(p.ops)
           text == Program(p)
<1>1. /\ p.ops \in Seq(Operations) /\ n \in Nat /\ (p.ops # <<>> => OpsFit(p.ops, text))
      /\ e \in Operations /\ text \in Texts
  <2>1. text \in Texts
    BY CurrentFacts
  <2>2. p.ops \in Seq(Operations)
    BY DEF Progresses
  <2>3. e \in Operations
    BY DEF Fitting
  <2>4. p.ops # <<>> => OpsFit(p.ops, text)
    BY DEF WellFormed, OpsOK
  <2> HIDE DEF text
  <2> QED
    BY <2>1, <2>2, <2>3, <2>4
<1>2. e.pending /\ e.result = "none"
  BY DEF Fitting
<1>3. /\ o \in Seq(Operations) /\ Len(o) = n + 1 /\ o[n + 1] = e
      /\ \A k \in 1..n : o[k] = p.ops[k]
  BY <1>1
<1>4. q = [p EXCEPT !.ops = o]
  OBVIOUS
<1> HIDE DEF o
<1>5. /\ q \in Progresses /\ q.plan = p.plan /\ q.index = p.index /\ q.current = p.current
      /\ q.results = p.results /\ q.ops = o /\ q.program = p.program
  BY <1>3, <1>4 DEF Progresses
<1>6. Segment(q) = Segment(p) /\ Program(q) = text
  BY <1>5 DEF Segment, Program
<1>7. \A k \in 1..n : p.ops # <<>> /\ ~p.ops[k].pending
  <2>1. n > 0 => p.ops # <<>> /\ ~p.ops[n].pending
    BY <1>1 DEF Unresolved, HasOps, Last
  <2>2. n > 0 => OpsFit(p.ops, text)
    BY <1>1, <2>1
  <2> QED
    BY <1>1, <2>1, <2>2 DEF OpsFit, OpFits
<1>8. OpsFit(o, text)
  <2> SUFFICES ASSUME NEW k \in 1..(n + 1)
               PROVE  OpFits(o, text, k) /\ OpsCover(o, k) /\ \A m \in 1..(k - 1) : OpsOrdered(o, m, k)
    BY <1>3 DEF OpsFit
  <2>1. CASE k \in 1..n
    <3>1. p.ops # <<>> /\ OpsFit(p.ops, text)
      BY <1>1, <1>7, <2>1
    <3>2. OpFits(p.ops, text, k) /\ OpsCover(p.ops, k) /\ \A m \in 1..(k - 1) : OpsOrdered(p.ops, m, k)
      BY <2>1, <3>1 DEF OpsFit
    <3>3. o[k] = p.ops[k] /\ (\A m \in 1..k : o[m] = p.ops[m]) /\ ~o[k].pending
      BY <1>1, <1>3, <1>7, <2>1
    <3>4. \A m \in 1..(k - 1) : m \in 1..k
      BY <2>1
    <3> QED
      BY <3>2, <3>3, <3>4 DEF OpFits, OpsCover, OpsOrdered
  <2>2. CASE k = n + 1
    <3>1. o[k] = e /\ (k = 1 <=> n = 0)
      BY <1>1, <1>3, <2>2
    <3>2. OpFits(o, text, k)
      <4>1. "none" \in ResultsOf(e.role)
        BY DEF ResultsOf
      <4> QED
        BY <1>3, <2>2, <3>1, <4>1 DEF Fitting, OpFits
    <3>3. \A m \in 1..(k - 1) : m \in 1..n /\ o[m] = p.ops[m]
      BY <1>1, <1>3, <2>2
    <3>4. \A m \in 1..(k - 1) : OpsOrdered(o, m, k)
      BY <3>1, <3>3 DEF Fitting, OpsOrdered
    <3>5. OpsCover(o, k)
      <4> SUFFICES ASSUME NEW j \in Nat \ {0}, j < e.step \/ (j = e.step /\ e.role \in {"command", "patch"})
                   PROVE  \E m \in 1..k : Starts(o[m]) /\ o[m].step = j
        BY <3>1 DEF OpsCover
      <4>1. CASE j = e.step /\ Starts(e)
        BY <1>1, <2>2, <3>1, <4>1
      <4>2. CASE ~(j = e.step /\ Starts(e))
        <5>1. StartedAt(p, j)
          BY <4>2 DEF Fitting
        <5>2. PICK m \in 1..n : Starts(p.ops[m]) /\ p.ops[m].step = j
          BY <5>1 DEF StartedAt
        <5>3. m \in 1..k /\ o[m] = p.ops[m]
          BY <1>1, <1>3, <2>2
        <5> QED
          BY <5>2, <5>3
      <4> QED
        BY <4>1, <4>2
    <3> QED
      BY <3>2, <3>4, <3>5
  <2> QED
    BY <1>1, <2>1, <2>2
<1>9. WellFormed(q)
  <2>1. PlanOK(q) /\ KindsOK(q)
    BY <1>5 DEF WellFormed, PlanOK, KindsOK
  <2>2. ResultsOK(q)
    BY <1>5 DEF WellFormed, ResultsOK, Progresses
  <2> QED
    BY <1>5, <1>6, <1>8, <2>1, <2>2 DEF WellFormed, OpsOK
<1>10. Worked(p) => Worked(q)
  <2>1. \A k \in 1..Len(o) : o[k].pending \/ (k \in 1..n /\ o[k] = p.ops[k])
    BY <1>1, <1>2, <1>3
  <2> QED
    BY <1>5, <1>6, <2>1 DEF Worked
<1>11. \A k \in 1..n : k \in 1..(n + 1)
  BY <1>1
<1>12. \A k : StartedAt(p, k) => StartedAt(q, k)
  BY <1>3, <1>5, <1>11 DEF StartedAt
<1>13. ASSUME Starts(e) PROVE StartedAt(q, e.step) /\ ~StartedAt(p, e.step)
  <2>1. StartedAt(q, e.step)
    <3>1. n + 1 \in 1..Len(o)
      BY <1>1, <1>3
    <3> QED
      BY <1>3, <1>5, <1>13, <3>1 DEF StartedAt
  <2>2. ~StartedAt(p, e.step)
    BY <1>13 DEF StartedAt, Fitting
  <2> QED
    BY <2>1, <2>2
<1>14. q.ops # <<>> /\ Len(q.ops) = n + 1 /\ q.ops[Len(q.ops)] = e
  BY <1>1, <1>3, <1>5
<1> QED
  BY <1>5, <1>9, <1>10, <1>12, <1>13, <1>14

\* A recorded step is booked once: no earlier segment is the current one.
LEMMA NotBooked ==
  ASSUME NEW p \in Progresses, WellFormed(p), p.index <= Len(p.plan), NEW k, ~StartedAt(p, k)
  PROVE  ~Booked(p, <<Segment(p), k>>)
<1>1. p.plan \in Seq(Segments) /\ p.index \in Nat \ {0}
  BY DEF Progresses
<1>2. \A j \in 1..(p.index - 1) : p.plan[j] # p.plan[p.index]
  BY <1>1 DEF WellFormed, PlanOK
<1> QED
  BY <1>2 DEF Booked, Segment

\* An operation is booked before it starts; a command or a patch that was
\* booked before is not started again.
LEMMA InvokeStep ==
  ASSUME ProgressInv, NEW c \in Carriers, Invoke(c)
  PROVE  ProgressInv'
<1> DEFINE p == Prog(c)
           n == Len(p.ops)
           refresh == carrier[c].refresh
           translated == carrier[c].translated
<1>1. carrier[c].pc = "run" /\ Quiet /\ ~Revalidates(c)
  BY DEF Invoke, At
<1>2. /\ p \in Progresses /\ WellFormed(p) /\ Worked(p) /\ TypeOK
      /\ c \in latest => p = saved
      /\ p.ops \in Seq(Operations) /\ refresh \in BOOLEAN
      /\ p.index <= Len(p.plan) /\ p.current # "none"
      /\ refresh => KindOf(Segment(p)) = "edit" /\ Len(p.ops) <= 1
      /\ p.ops # <<>> /\ p.ops[Len(p.ops)].result = "patch" => refresh \/ translated
  BY <1>1, CarrierFacts DEF ProgressInv, CarrierOK, Prog
<1>3. /\ refresh /\ p.ops # <<>> => Unresolved(p)
      /\ IF Unresolved(p)
         THEN Repeats(Last(p.ops)) /\ Checkpoint(c, p, "execute", refresh)
         ELSE \E e \in NextOp(p) : Checkpoint(c, [p EXCEPT !.ops = Append(@, e)], "execute", refresh)
  BY <1>1 DEF Invoke, Revalidates, HasOps
<1> HIDE DEF p, refresh, translated
<1>4. CASE Unresolved(p)
  <2>1. p.ops # <<>> /\ p.ops[n].pending /\ Repeats(p.ops[n]) /\ Checkpoint(c, p, "execute", refresh)
    BY <1>3, <1>4 DEF Unresolved, HasOps, Last
  <2>2. ~Starts(p.ops[n]) /\ (p.ops[n].role = "patch" => p.ops[n].waits)
    BY <2>1 DEF Repeats, Starts
  <2>3. p.ops[n].role # "patch"
    <3>1. n \in 1..n
      BY <1>2, <2>1
    <3>2. OpFits(p.ops, Program(p), n)
      BY <1>2, <2>1, <3>1 DEF WellFormed, OpsOK, OpsFit
    <3> QED
      BY <2>2, <3>2 DEF OpFits
  <2>4. Fits(p, "execute", refresh, translated)
    BY <1>2, <2>1, <2>3 DEF Fits
  <2>5. ASSUME c \in latest, NEW w \in Works
        PROVE  Bookings(saved, w) + Owing(After(c, p, "execute", refresh), w) <= Bookings(p, w)
    <3>1. Owing(After(c, p, "execute", refresh), w) = 0
      BY <1>2, <2>2, OwesNothing
    <3>2. saved = p /\ Bookings(p, w) \in Nat
      BY <1>2, <2>5 DEF Bookings
    <3> QED
      BY <3>1, <3>2
  <2> QED
    BY <1>1, <1>2, <2>1, <2>4, <2>5, QuietStep DEF translated
<1>5. CASE ~Unresolved(p)
  <2>1. PICK e \in NextOp(p) : Checkpoint(c, [p EXCEPT !.ops = Append(@, e)], "execute", refresh)
    BY <1>3, <1>5
  <2>2. Fitting(p, e)
    BY <1>2, <1>5, <2>1, NextFits
  <2>3. /\ e.pending /\ e.result = "none"
        /\ KindOf(Segment(p)) = "edit" /\ e.role = "patch" => p.ops # <<>> /\ p.ops[n].result = "patch"
    BY <1>2, <2>2, CurrentFacts DEF Fitting, WellFormed
  <2>4. PICK q : q = [p EXCEPT !.ops = Append(@, e)]
    OBVIOUS
  <2>5. /\ q \in Progresses /\ WellFormed(q) /\ Worked(q)
        /\ q.plan = p.plan /\ q.index = p.index /\ q.current = p.current
        /\ q.ops # <<>> /\ Len(q.ops) = n + 1 /\ q.ops[Len(q.ops)] = e
        /\ \A k : StartedAt(p, k) => StartedAt(q, k)
        /\ Starts(e) => StartedAt(q, e.step) /\ ~StartedAt(p, e.step)
    BY <1>2, <1>5, <2>2, <2>4, AppendFacts
  <2>7. Segment(q) = Segment(p)
    BY <2>5 DEF Segment
  <2>8. refresh => p.ops = <<>>
    BY <1>3, <1>5
  <2>9. Fits(q, "execute", refresh, translated)
    <3>1. refresh => Len(q.ops) <= 1
      BY <2>5, <2>8
    <3> QED
      BY <1>2, <2>3, <2>5, <2>7, <2>8, <3>1 DEF Fits
  <2>10. ASSUME c \in latest, NEW w \in Works
         PROVE  Bookings(saved, w) + Owing(After(c, q, "execute", refresh), w) <= Bookings(q, w)
    <3>1. saved = p /\ Bookings(p, w) \in Nat /\ Bookings(q, w) \in Nat
      BY <1>2, <2>10 DEF Bookings
    <3>2. CASE ~(Starts(e) /\ w = <<Segment(p), e.step>>)
      <4>1. Owing(After(c, q, "execute", refresh), w) = 0
        BY <1>2, <2>5, <2>7, <3>2, OwesNothing
      <4>2. Booked(p, w) => Booked(q, w)
        BY <2>5, <2>7 DEF Booked
      <4>3. Bookings(p, w) <= Bookings(q, w)
        BY <4>2 DEF Bookings
      <4> QED
        BY <3>1, <4>1, <4>3
    <3>3. CASE Starts(e) /\ w = <<Segment(p), e.step>>
      <4>1. Bookings(p, w) = 0
        BY <1>2, <2>5, <3>3, NotBooked DEF Bookings
      <4>2. Bookings(q, w) = 1
        BY <1>2, <2>5, <2>7, <3>3 DEF Bookings, Booked
      <4>3. Owing(After(c, q, "execute", refresh), w) \in {0, 1}
        BY DEF Owing
      <4> QED
        BY <3>1, <4>1, <4>2, <4>3
    <3> QED
      BY <3>2, <3>3
  <2> QED
    BY <1>1, <1>2, <2>1, <2>4, <2>5, <2>9, <2>10, QuietStep DEF translated
<1> QED
  BY <1>4, <1>5

-----------------------------------------------------------------------------
(* The other steps of a carrier.                                           *)

\* Giving up on an unresolved operation keeps ProgressInv.
LEMMA UnknownStep ==
  ASSUME ProgressInv, NEW c \in Carriers, Unknown(c)
  PROVE  ProgressInv'
<1> DEFINE y == carrier[c]
           z == [y EXCEPT !.pc = "failed"]
<1>1. /\ y.pc = "run" /\ carrier' = [carrier EXCEPT ![c] = z]
      /\ UNCHANGED <<saved, latest, launched, effects, granted>>
  BY DEF Unknown, At, Quiet, ProgressInv, TypeOK
<1>2. /\ y \in CarrierStates /\ Worked(y.prog) /\ CarrierOK(y)
      /\ c \in latest => y.prog = saved
  BY <1>1, CarrierFacts DEF Prog
<1>3. launched' \in Nat \ {0}
  BY <1>1 DEF ProgressInv, TypeOK
<1>4. /\ z \in CarrierStates
      /\ z.pc = "failed" /\ z.prog = y.prog /\ z.refresh = y.refresh /\ z.inspected = y.inspected
      /\ z.translated = y.translated
  BY <1>2 DEF CarrierStates
<1> HIDE DEF y, z
<1>5. PICK x : x = z
  OBVIOUS
<1>6. CarrierOK(x) /\ (c \in latest => Knows(x, saved))
  BY <1>1, <1>2, <1>4, <1>5 DEF CarrierOK, Knows
<1> QED
  BY <1>1, <1>2, <1>3, <1>4, <1>5, <1>6, LocalStep

\* The first carrier of a script starts from the fresh progress.
LEMMA BeginStep ==
  ASSUME ProgressInv, NEW c \in Carriers, Begin(c)
  PROVE  ProgressInv'
<1> DEFINE z == [Unlaunched EXCEPT !.pc = "claim"]
<1>1. /\ launched = 0 /\ launched' = 1 /\ latest' = {c} /\ UNCHANGED <<saved, effects, granted>>
      /\ carrier' = [carrier EXCEPT ![c].pc = "claim"]
  BY DEF Begin
<1>2. saved = Fresh /\ carrier[c].pc = "none" /\ CarrierOK(carrier[c]) /\ carrier \in [Carriers -> CarrierStates]
  BY <1>1 DEF ProgressInv, TypeOK
<1>3. carrier[c] = Unlaunched
  BY <1>2 DEF CarrierOK, Unlaunched
<1>4. carrier' = [carrier EXCEPT ![c] = z]
  BY <1>1, <1>2, <1>3
<1>5. /\ z \in CarrierStates /\ z.pc = "claim" /\ z.prog = Fresh /\ z.inspected = None /\ ~z.refresh
      /\ ~z.translated
  BY FreshFacts DEF CarrierStates, Unlaunched
<1> HIDE DEF z
<1>6. CarrierOK(z)
  <2>1. WellFormed(Fresh) /\ Fresh.ops = <<>>
    BY FreshFacts DEF Fresh
  <2> QED
    BY <1>5, <2>1 DEF CarrierOK
<1>7. Knows(z, saved) /\ Worked(z.prog)
  BY <1>2, <1>5, FreshFacts DEF Knows, Claims
<1>8. launched' \in Nat \ {0} /\ latest' \subseteq latest \cup {c} /\ z.pc # "execute"
  BY <1>1, <1>5
<1> QED
  BY <1>1, <1>4, <1>5, <1>6, <1>7, <1>8, LocalStep

\* A later carrier of the script keeps ProgressInv by having read nothing yet.
LEMMA ResumeBeginsStep ==
  ASSUME ProgressInv, NEW c \in Carriers, ResumeBegins(c)
  PROVE  ProgressInv'
<1> DEFINE z == [Unlaunched EXCEPT !.pc = "reading"]
<1>1. /\ launched \in 1..(MaxLaunch - 1) /\ launched' = launched + 1 /\ carrier[c].pc = "none"
      /\ UNCHANGED <<saved, latest, effects, granted>>
      /\ carrier' = [carrier EXCEPT ![c].pc = "reading"]
  BY DEF ResumeBegins
<1>2. /\ CarrierOK(carrier[c]) /\ carrier \in [Carriers -> CarrierStates]
      /\ launched \in Nat /\ c \notin latest
  BY <1>1 DEF ProgressInv, TypeOK, Knows
<1>3. carrier[c] = Unlaunched
  BY <1>1, <1>2 DEF CarrierOK, Unlaunched
<1>4. carrier' = [carrier EXCEPT ![c] = z]
  BY <1>1, <1>2, <1>3
<1>5. /\ z \in CarrierStates /\ z.pc = "reading" /\ z.prog = Fresh /\ z.inspected = None /\ ~z.refresh
      /\ ~z.translated
  BY FreshFacts DEF CarrierStates, Unlaunched
<1>6. CarrierOK(z)
  <2>1. WellFormed(Fresh) /\ Fresh.ops = <<>> /\ z = [Unlaunched EXCEPT !.pc = z.pc]
    BY <1>5, FreshFacts DEF Fresh
  <2> HIDE DEF z
  <2> QED
    BY <1>5, <2>1 DEF CarrierOK
<1> HIDE DEF z
<1>7. Worked(z.prog) /\ launched' \in Nat \ {0}
  BY <1>1, <1>2, <1>5, FreshFacts
<1> QED
  BY <1>1, <1>2, <1>4, <1>5, <1>6, <1>7, LocalStep

\* A resumed carrier reads the retained progress, acted upon as it was told.
LEMMA ResumeReadsStep ==
  ASSUME ProgressInv, NEW c \in Carriers, NEW a \in {"plain", "retry", "repair", "accept"}, ResumeReads(c, a)
  PROVE  ProgressInv'
<1> DEFINE p == saved
           refused == ~Available(Handle) \/ Refuses(p, a)
           refresh == a = "plain" /\ p.current # "none" /\ KindOf(Segment(p)) = "edit" /\ ~Applies(p)
           inspected == IF a \in {"retry", "repair"} THEN Segment(p) ELSE None
           z(text) == [pc |-> "claim", translated |-> FALSE, prog |-> Acted(p, a, text),
                       refresh |-> refresh, inspected |-> inspected]
           texts == IF a = "retry" THEN Replaces(p) ELSE {None}
<1>1. /\ carrier[c].pc = "reading" /\ UNCHANGED <<saved, launched, effects, granted>>
      /\ IF refused THEN Ended(c) ELSE \E text \in texts : carrier' = [carrier EXCEPT ![c] = z(text)]
      /\ latest' = IF carrier'[c].pc = "claim" THEN latest \cup {c} ELSE latest
      /\ a = "repair" => Len(p.plan) < Len(Script) + MaxRepairs
  BY DEF ResumeReads
<1>2. /\ c \notin latest /\ launched' \in Nat \ {0} /\ carrier \in [Carriers -> CarrierStates]
      /\ p \in Progresses /\ WellFormed(p) /\ Worked(p) /\ TypeOK
  BY <1>1 DEF ProgressInv, TypeOK, Knows
<1>4. p.current # "none" => p.index <= Len(p.plan)
  BY <1>2 DEF WellFormed, ResultsOK, Progresses
<1>5. p.plan \in Seq(Segments) /\ p.index \in Nat \ {0} /\ p.ops \in Seq(Operations)
  BY <1>2 DEF Progresses
<1>6. p.index <= Len(p.plan) => Segment(p) \in Segments
  BY <1>5 DEF Segment
<1>7. CASE refused
  <2>1. /\ Unlaunched \in CarrierStates /\ CarrierOK(Unlaunched) /\ Worked(Unlaunched.prog)
        /\ Unlaunched.pc = "none"
    BY FreshFacts DEF Unlaunched
  <2>2. carrier' = [carrier EXCEPT ![c] = Unlaunched] /\ latest' = latest
    BY <1>1, <1>2, <1>7, <2>1 DEF Ended
  <2> QED
    BY <1>1, <1>2, <2>1, <2>2, LocalStep
<1>8. CASE ~refused
  <2>1. a # "plain" => p.current \notin {"none", "completed"}
    BY <1>8 DEF Refuses
  <2>0. PICK text \in texts : carrier' = [carrier EXCEPT ![c] = z(text)]
    BY <1>1, <1>8
  <2>2. PICK q : q = Acted(p, a, text)
    OBVIOUS
  <2>3. /\ q \in Progresses /\ WellFormed(q) /\ Worked(q)
        /\ a # "plain" => q.ops = <<>>
        /\ a = "plain" => q = p
        /\ a = "accept" => q = Completed(p, "reconciled")
        /\ a = "retry" => \E r \in Replaces(p) : q = Retried(p, r)
        /\ a = "repair" => q = Repaired(p)
    <3>1. CASE a = "plain"
      BY <1>2, <2>2, <3>1 DEF Acted
    <3>2. CASE a = "accept"
      <4>1. q = Completed(p, "reconciled")
        BY <2>2, <3>2 DEF Acted
      <4> QED
        BY <1>2, <1>4, <2>1, <3>2, <4>1, CompletedFacts
    <3>3. CASE a = "retry"
      <4>1. Reset(p).program = p.program
        BY <1>2, ResetFacts
      <4>2. q = Retried(p, text) /\ text \in Replaces(p)
        BY <2>0, <2>2, <3>3, <4>1 DEF Acted, Retried
      <4> QED
        BY <1>2, <1>4, <2>1, <3>3, <4>2, RetryFacts
    <3>4. CASE a = "repair"
      <4>1. q = Repaired(p)
        <5>1. Reset(p).plan = p.plan
          BY <1>2, ResetFacts
        <5> QED
          BY <2>2, <3>4, <5>1 DEF Acted, Repaired
      <4> QED
        BY <1>1, <1>2, <1>4, <2>1, <3>4, <4>1, RepairFacts
    <3> QED
      BY <3>1, <3>2, <3>3, <3>4
  <2>4. refresh \in BOOLEAN /\ inspected \in Segments \cup {None}
    BY <1>4, <1>6, <2>1
  <2>5. PICK x : x = z(text)
    OBVIOUS
  <2>6. /\ x \in CarrierStates /\ x.pc = "claim" /\ x.prog = q /\ ~x.translated
        /\ x.refresh = refresh /\ x.inspected = inspected
    <3> HIDE DEF refresh, inspected
    <3> QED
      BY <2>2, <2>3, <2>4, <2>5 DEF CarrierStates
  <2>7. /\ p.ops # <<>> => OpsFit(p.ops, Program(p)) /\ p.index <= Len(p.plan)
        /\ p.index <= Len(p.plan) => (Program(p) = Edit <=> KindOf(Segment(p)) = "edit")
    <3>1. p.plan \in Seq(Segments) /\ p.index \in Nat \ {0}
      BY <1>2 DEF Progresses
    <3>2. p.ops # <<>> => p.index <= Len(p.plan)
      BY <1>2, <3>1 DEF WellFormed, ResultsOK
    <3>3. p.ops # <<>> => OpsFit(p.ops, Program(p))
      BY <1>2 DEF WellFormed, OpsOK
    <3>4. p.index <= Len(p.plan) => (Program(p) = Edit <=> KindOf(Segment(p)) = "edit")
      BY <1>2, CurrentFacts DEF WellFormed
    <3> QED
      BY <3>2, <3>3, <3>4
  <2>8. refresh => q.index <= Len(q.plan) /\ KindOf(Segment(q)) = "edit" /\ Len(q.ops) <= 1
    <3> SUFFICES ASSUME refresh PROVE p.index <= Len(p.plan) /\ KindOf(Segment(p)) = "edit" /\ Len(p.ops) <= 1
      BY <2>3
    <3>1. 2 \in 1..Len(p.ops) => p.ops[2].role = "patch"
      <4> SUFFICES ASSUME 2 \in 1..Len(p.ops) PROVE p.ops[2].role = "patch"
        OBVIOUS
      <4>1. p.ops # <<>>
        OBVIOUS
      <4>2. OpFits(p.ops, Program(p), 2) /\ Program(p) = Edit /\ Program(p) \in Texts
        BY <1>2, <2>7, <4>1, CurrentFacts DEF OpsFit
      <4>3. p.ops[2].step \in 1..1 /\ Program(p)[1] = "edit"
        BY <4>2, TextFacts DEF OpFits
      <4>4. p.ops[2].step = 1
        BY <4>3
      <4>5. p.ops[2].role \in {"translate", "patch"} /\ p.ops[2].role # "translate"
        BY <4>2, <4>3, <4>4 DEF OpFits, RolesOf
      <4> QED
        BY <4>5
    <3>2. ~(2 \in 1..Len(p.ops))
      BY <3>1 DEF Applies
    <3> QED
      BY <1>4, <1>5, <3>2
  <2>9. q.ops # <<>> /\ q.ops[Len(q.ops)].result = "patch" => refresh
    <3> SUFFICES ASSUME a = "plain", p.ops # <<>>, p.ops[Len(p.ops)].result = "patch" PROVE refresh
      BY <2>3
    <3>1. Len(p.ops) \in 1..Len(p.ops)
      BY <1>5
    <3> DEFINE o == p.ops[Len(p.ops)]
    <3>0. OpFits(p.ops, Program(p), Len(p.ops)) /\ Program(p) \in Texts
      BY <1>2, <2>7, <3>1, CurrentFacts DEF OpsFit
    <3>2. o.role = "translate"
      <4>1. "patch" \in ResultsOf(o.role)
        BY <3>0 DEF OpFits
      <4> QED
        BY <4>1 DEF ResultsOf
    <3>3. KindOf(Segment(p)) = "edit" /\ Len(p.ops) = 1
      <4>1. o.step \in 1..Len(Program(p)) /\ o.role \in RolesOf(Program(p)[o.step])
        BY <3>0 DEF OpFits
      <4>2. Program(p)[o.step] = "edit"
        BY <3>2, <4>1 DEF RolesOf
      <4>3. Program(p) = Edit
        BY <3>0, <4>1, <4>2, TextFacts
      <4> QED
        BY <2>7, <3>0, <3>2, <4>3 DEF OpFits
    <3>4. ~Applies(p)
      BY <3>2, <3>3 DEF Applies
    <3>5. p.current # "none"
      BY <1>2 DEF WellFormed, ResultsOK
    <3> QED
      BY <3>3, <3>4, <3>5
  <2> HIDE DEF refresh
  <2>10. CarrierOK(x)
    BY <2>3, <2>6, <2>8, <2>9 DEF CarrierOK
  <2>11. Knows(x, saved)
    BY <1>1, <2>1, <2>3, <2>6 DEF Knows, Claims, Repaired
  <2>12. carrier' = [carrier EXCEPT ![c] = x] /\ latest' = latest \cup {c}
    BY <1>1, <1>2, <2>0, <2>5, <2>6
  <2> QED
    BY <1>1, <1>2, <2>3, <2>6, <2>10, <2>11, <2>12, LocalStep
<1> QED
  BY <1>7, <1>8

\* A claim that forgets booked work is granted for its segment.
LEMMA ClaimStep ==
  ASSUME ProgressInv, NEW c \in Carriers, Claim(c)
  PROVE  ProgressInv'
<1> DEFINE q == Prog(c)
           refresh == carrier[c].refresh
           s0 == carrier[c].inspected
           counts == (saved' # saved \/ latest' = {c}) /\ s0 # None
<1>1. /\ carrier[c].pc = "claim" /\ Checkpoint(c, q, "next", refresh)
      /\ granted' = IF counts THEN [granted EXCEPT ![s0] = @ + 1] ELSE granted
      /\ launched' = launched /\ effects' = effects
  BY DEF Claim, At
<1>2. /\ q \in Progresses /\ WellFormed(q) /\ Worked(q) /\ TypeOK /\ CarrierOK(carrier[c])
      /\ refresh \in BOOLEAN /\ saved \in Progresses /\ WellFormed(saved)
      /\ s0 \in Segments \cup {None} /\ granted \in [Segments -> Nat]
  BY CarrierFacts DEF ProgressInv, TypeOK, CarrierStates
<1>3. Fits(q, "next", refresh, carrier[c].translated)
  BY <1>1, <1>2 DEF Fits, CarrierOK, Prog
<1>4. /\ granted' \in [Segments -> Nat] /\ \A s \in Segments : granted'[s] >= granted[s]
      /\ \A s \in Segments : granted'[s] = IF counts /\ s = s0 THEN granted[s] + 1 ELSE granted[s]
  <2> HIDE DEF counts, s0
  <2>1. counts => s0 \in Segments
    BY <1>2 DEF counts, s0
  <2> QED
    BY <1>1, <1>2, <2>1
<1>5. ASSUME c \in latest, saved' = q, NEW w \in Works
      PROVE  granted[w[1]] + Bookings(saved, w) + Owing(After(c, q, "next", refresh), w)
               <= granted'[w[1]] + Bookings(q, w)
  <2>1. Owing(After(c, q, "next", refresh), w) = 0
    BY <1>2, OwesNothing
  <2>2. /\ granted[w[1]] \in Nat /\ granted'[w[1]] \in Nat /\ Bookings(saved, w) \in {0, 1}
        /\ Bookings(q, w) \in {0, 1} /\ granted'[w[1]] >= granted[w[1]] /\ w[1] \in Segments
    BY <1>2, <1>4, WorkFacts DEF Bookings
  <2>3. Claims(carrier[c], saved)
    BY <1>1, <1>5 DEF ProgressInv, Knows
  <2>4. saved.current # "none" => saved.index <= Len(saved.plan)
    BY <1>2 DEF WellFormed, ResultsOK, Progresses
  <2>5. CASE Booked(saved, w) => Booked(q, w)
    <3>1. Bookings(saved, w) <= Bookings(q, w)
      BY <2>5 DEF Bookings
    <3> QED
      BY <2>1, <2>2, <3>1
  <2>6. CASE Booked(saved, w) /\ ~Booked(q, w)
    <3>1. \/ q # saved /\ q # Completed(saved, "reconciled")
          \/ saved.current = "none"
      BY <1>2, <2>4, <2>6, CompletedFacts
    <3>2. /\ saved.current \notin {"none", "completed"} /\ s0 = Segment(saved)
          /\ (\E r \in Replaces(saved) : q = Retried(saved, r))
               \/ (Len(saved.plan) < Len(Script) + MaxRepairs /\ q = Repaired(saved))
      BY <2>3, <2>6, <3>1 DEF Claims, Prog
    <3>3. w[1] = s0 /\ q.current = "none"
      <4>1. CASE \E r \in Replaces(saved) : q = Retried(saved, r)
        BY <1>2, <2>4, <2>6, <3>2, <4>1, RetryFacts
      <4>2. CASE Len(saved.plan) < Len(Script) + MaxRepairs /\ q = Repaired(saved)
        BY <1>2, <2>4, <2>6, <3>2, <4>2, RepairFacts
      <4> QED
        BY <3>2, <4>1, <4>2
    <3>4. counts
      <4>1. s0 # None
        BY <2>2, <3>3, HandleAssumption DEF Segments
      <4> QED
        BY <1>5, <3>2, <3>3, <4>1
    <3>5. granted'[w[1]] = granted[w[1]] + 1
      BY <1>4, <2>2, <3>3, <3>4
    <3> HIDE DEF q
    <3>6. granted[w[1]] + Bookings(saved, w) <= granted'[w[1]]
      BY <2>2, <3>5
    <3>7. Bookings(q, w) >= 0
      BY <2>2
    <3> QED
      BY <2>1, <2>2, <3>6, <3>7
  <2> QED
    BY <2>5, <2>6
<1> QED
  BY <1>1, <1>2, <1>3, <1>4, <1>5, CheckpointStep

\* An operation is started once for its booking; what it returns is recorded
\* by the carrier that started it.
LEMMA ExecuteStep ==
  ASSUME ProgressInv, NEW c \in Carriers, Execute(c)
  PROVE  ProgressInv'
<1>0. PICK y : y = carrier[c]
  OBVIOUS
<1> DEFINE p == y.prog
           n == Len(p.ops)
           b == p.ops[n]
           g == Segment(p)
           text == Program(p)
           work == <<g, b.step>>
           got(r) == [b EXCEPT !.pending = FALSE, !.result = r]
<1>1. /\ y.pc = "execute" /\ UNCHANGED <<saved, launched, granted>>
      /\ effects' = IF Starts(b) THEN [effects EXCEPT ![work] = @ + 1] ELSE effects
      /\ \/ \E r \in Outcomes(b.role, n) :
              carrier' = [carrier EXCEPT ![c].pc = "returned", ![c].translated = (b.role = "translate"),
                                          ![c].prog.ops[n] = got(r)]
         \/ b.role # "translate" /\ carrier' = [carrier EXCEPT ![c].pc = "failed"]
         \/ b.role = "translate" /\ Ended(c)
      /\ latest' = IF carrier'[c].pc = "none" THEN latest \ {c} ELSE latest
  BY <1>0 DEF Execute, At, Prog
<1>2. /\ y \in CarrierStates /\ p \in Progresses /\ WellFormed(p) /\ Worked(p) /\ CarrierOK(y) /\ TypeOK
      /\ c \in latest => p = saved
      /\ p.plan \in Seq(Segments) /\ p.index \in Nat \ {0} /\ p.ops \in Seq(Operations)
      /\ carrier \in [Carriers -> CarrierStates] /\ saved \in Progresses /\ WellFormed(saved) /\ Worked(saved)
      /\ effects \in [Works -> Nat] /\ granted \in [Segments -> Nat]
  BY <1>0, <1>1, CarrierFacts DEF Prog, ProgressInv, TypeOK
<1>3. /\ p.index <= Len(p.plan) /\ p.current # "none" /\ p.ops # <<>> /\ p.ops[n].pending
      /\ y.inspected = None
      /\ y.refresh => KindOf(g) = "edit" /\ n <= 1
      /\ OpsFit(p.ops, text)
  BY <1>1, <1>2 DEF CarrierOK, WellFormed, OpsOK
<1>4. /\ n \in Nat \ {0} /\ n \in 1..n /\ g \in Segments /\ b \in Operations /\ b.role \in Roles
      /\ work \in Works /\ text \in Texts
  <2>1. n \in Nat \ {0} /\ n \in 1..n
    BY <1>2, <1>3
  <2>2. b \in Operations
    BY <1>2, <2>1
  <2>3. b.role \in Roles
    BY <2>2 DEF Operations
  <2>4. g \in Segments /\ text \in Texts
    BY <1>2, <1>3, CurrentFacts
  <2>5. b.step \in Steps
    <3>1. b.step \in 1..Len(text)
      BY <1>3, <2>1 DEF OpsFit, OpFits
    <3> HIDE DEF text, b
    <3> QED
      BY <2>4, <3>1, TextFacts
  <2> QED
    BY <2>1, <2>2, <2>3, <2>4, <2>5, WorkFacts
<1>5. /\ effects' \in [Works -> Nat] /\ \A w \in Works : effects'[w] >= effects[w]
      /\ \A w \in Works : effects'[w] = effects[w] + Owing(y, w)
  <2>1. \A w : Owing(y, w) = IF Starts(b) /\ w = work THEN 1 ELSE 0
    BY <1>1 DEF Owing, Owes
  <2>2. /\ effects' = IF Starts(b) THEN [effects EXCEPT ![work] = @ + 1] ELSE effects
        /\ effects \in [Works -> Nat] /\ work \in Works
    BY <1>1, <1>2, <1>4
  <2> HIDE DEF b, g, work
  <2>3. \A w \in Works : effects'[w] = effects[w] + (IF Starts(b) /\ w = work THEN 1 ELSE 0) /\ effects[w] \in Nat
    BY <2>2
  <2>4. effects' \in [Works -> Nat]
    BY <2>2
  <2> QED
    BY <2>1, <2>3, <2>4
<1>6. launched' \in Nat \ {0}
  BY <1>0, <1>1 DEF ProgressInv, TypeOK
<1>7. Worked(saved)' /\ Worked(p)' /\ Worked(Fresh)'
  <2>1. \A r \in Progresses : WellFormed(r) /\ Worked(r) => Worked(r)'
    BY <1>2, <1>5, WorkedStays
  <2> QED
    BY <1>1, <1>2, <2>1, FreshFacts
<1>8. ASSUME NEW x, \A w : ~Owes(x, w), NEW w \in Works
      PROVE  effects'[w] + Owing(x, w) + granted[w[1]] + Bookings(saved, w)
               <= granted'[w[1]] + Bookings(saved', w) + effects[w] + Owing(carrier[c], w)
  <2>1. /\ effects[w] \in Nat /\ granted[w[1]] \in Nat /\ Bookings(saved, w) \in Nat /\ Owing(y, w) \in Nat
        /\ effects'[w] = effects[w] + Owing(y, w)
    BY <1>2, <1>5, WorkFacts DEF Bookings, Owing
  <2>2. Owing(x, w) = 0
    BY <1>8 DEF Owing
  <2>3. granted'[w[1]] = granted[w[1]] /\ Bookings(saved', w) = Bookings(saved, w) /\ Owing(carrier[c], w) = Owing(y, w)
    BY <1>0, <1>1
  <2> QED
    BY <2>1, <2>2, <2>3
<1>9. ASSUME NEW r \in Outcomes(b.role, n),
             carrier' = [carrier EXCEPT ![c].pc = "returned", ![c].translated = (b.role = "translate"),
                                         ![c].prog.ops[n] = got(r)]
      PROVE  ProgressInv'
  <2> DEFINE o == [p.ops EXCEPT ![n] = got(r)]
             q == [p EXCEPT !.ops = o]
             first == b.role = "translate"
             z == [y EXCEPT !.pc = "returned", !.translated = first, !.prog = q]
  <2>1. r \in ResultsOf(b.role) /\ r \in OpResults /\ r # "none" /\ (r = "patch" => first)
    BY DEF Outcomes, ResultsOf, OpResults
  <2>2. PICK e : e = got(r)
    OBVIOUS
  <2>3. /\ e \in Operations /\ e.step = b.step /\ e.role = b.role /\ e.waits = b.waits
        /\ ~e.pending /\ e.result = r /\ (Starts(e) <=> Starts(b))
    <3> HIDE DEF b
    <3>1. /\ e \in Operations /\ e.step = b.step /\ e.role = b.role /\ e.waits = b.waits
          /\ ~e.pending /\ e.result = r
      BY <1>4, <2>1, <2>2 DEF Operations
    <3> QED
      BY <3>1 DEF Starts
  <2>4. /\ o \in Seq(Operations) /\ Len(o) = n /\ o[n] = e
        /\ \A k \in 1..n : k # n => o[k] = p.ops[k]
    BY <1>2, <1>4, <2>2, <2>3
  <2>5. carrier' = [carrier EXCEPT ![c] = z]
    BY <1>0, <1>2, <1>9 DEF CarrierStates, Progresses
  <2>6. first \in BOOLEAN
    OBVIOUS
  <2> HIDE DEF o, got, first
  <2>7. /\ q \in Progresses /\ q.plan = p.plan /\ q.index = p.index /\ q.current = p.current
        /\ q.results = p.results /\ q.ops = o /\ q.program = p.program
    BY <1>2, <2>4 DEF Progresses
  <2>8. PICK q1 : q1 = q
    OBVIOUS
  <2>9. Segment(q1) = g /\ Program(q1) = text
    BY <2>7, <2>8 DEF Segment, Program
  <2>10. PICK x : x = z
    OBVIOUS
  <2>11. /\ x \in CarrierStates /\ x.pc = "returned" /\ x.translated = first /\ x.prog = q1
         /\ x.refresh = y.refresh /\ x.inspected = None
    <3> HIDE DEF q
    <3> QED
      BY <1>2, <1>3, <2>6, <2>7, <2>8, <2>10 DEF CarrierStates
  <2>12. OpsFit(o, text)
    <3>0. \A k \in 1..n : o[k].step = p.ops[k].step /\ o[k].role = p.ops[k].role /\ o[k].waits = p.ops[k].waits
                          /\ (Starts(o[k]) <=> Starts(p.ops[k]))
      BY <2>3, <2>4
    <3> SUFFICES ASSUME NEW k \in 1..n
                 PROVE  OpFits(o, text, k) /\ OpsCover(o, k) /\ \A i \in 1..(k - 1) : OpsOrdered(o, i, k)
      BY <2>4 DEF OpsFit
    <3>1. OpFits(p.ops, text, k) /\ OpsCover(p.ops, k) /\ \A i \in 1..(k - 1) : OpsOrdered(p.ops, i, k)
      BY <1>3 DEF OpsFit
    <3>2. OpFits(o, text, k)
      <4>1. CASE k # n
        <5>1. o[k] = p.ops[k]
          BY <2>4, <4>1
        <5> QED
          BY <2>4, <3>1, <5>1 DEF OpFits
      <4>2. CASE k = n
        <5>1. o[k] = e /\ ~o[k].pending /\ o[k].result \in ResultsOf(o[k].role)
          <6> HIDE DEF b
          <6> QED
            BY <2>1, <2>3, <2>4, <4>2
        <5> QED
          BY <3>0, <3>1, <5>1 DEF OpFits
      <4> QED
        BY <4>1, <4>2
    <3>3. \A i \in 1..k : i \in 1..n
      BY <1>4
    <3>4. \A i \in 1..(k - 1) : i \in 1..n
      BY <1>4
    <3>5. OpsCover(o, k)
      BY <3>0, <3>1, <3>3 DEF OpsCover
    <3>6. \A i \in 1..(k - 1) : OpsOrdered(o, i, k)
      BY <3>0, <3>1, <3>4 DEF OpsOrdered
    <3> QED
      BY <3>2, <3>5, <3>6
  <2>13. WellFormed(q1)
    <3>1. PlanOK(q1) /\ KindsOK(q1)
      BY <1>2, <2>7, <2>8 DEF WellFormed, PlanOK, KindsOK
    <3>2. ResultsOK(q1)
      BY <1>2, <1>3, <2>7, <2>8 DEF WellFormed, ResultsOK
    <3> QED
      BY <2>7, <2>8, <2>9, <2>12, <3>1, <3>2 DEF WellFormed, OpsOK
  <2>14. ASSUME KindOf(g) = "shell", NEW k \in 1..n, Starts(o[k]), ~o[k].pending
         PROVE  effects'[<<g, o[k].step>>] >= 1
    <3>1. CASE k = n
      <4>1. o[k].step = b.step /\ Starts(b)
        BY <2>3, <2>4, <2>14, <3>1
      <4>2. effects'[work] = effects[work] + 1
        <5> HIDE DEF b, g, work
        <5> QED
          BY <1>1, <1>2, <1>4, <4>1
      <4>3. effects[work] \in Nat
        <5> HIDE DEF work
        <5> QED
          BY <1>2, <1>4
      <4>4. effects'[work] >= 1
        BY <4>2, <4>3
      <4> QED
        BY <4>1, <4>4
    <3>2. CASE k # n
      <4>1. o[k] = p.ops[k] /\ p.index <= Len(p.plan)
        BY <1>3, <2>4, <3>2
      <4> QED
        BY <1>7, <2>14, <4>1 DEF Worked
    <3> QED
      BY <3>1, <3>2
  <2>15. Worked(q1)'
    <3>1. Len(q1.ops) = n /\ q1.ops = o
      BY <2>4, <2>7, <2>8
    <3> HIDE DEF n
    <3> QED
      BY <1>7, <2>7, <2>8, <2>9, <2>14, <3>1 DEF Worked
  <2>16. CarrierOK(x)
    <3>1. q1.ops # <<>> /\ Len(q1.ops) = n /\ q1.ops[Len(q1.ops)] = e
      BY <1>4, <2>4, <2>7, <2>8
    <3> QED
      BY <1>3, <2>1, <2>3, <2>7, <2>8, <2>9, <2>11, <2>13, <3>1 DEF CarrierOK
  <2>17. c \in latest => Knows(x, saved)
    <3> SUFFICES ASSUME c \in latest, p = saved PROVE Knows(x, p)
      BY <1>2
    <3>1. o = [p.ops EXCEPT ![n] = e]
      BY <2>2 DEF o
    <3>2. q1 = [p EXCEPT !.ops = [p.ops EXCEPT ![n] = [p.ops[n] EXCEPT !.pending = FALSE, !.result = r]]]
      BY <2>2, <2>8, <3>1 DEF got
    <3> HIDE DEF q
    <3> QED
      BY <1>3, <2>1, <2>4, <2>7, <2>8, <2>11, <3>2 DEF Knows
  <2>18. carrier' = [carrier EXCEPT ![c] = x] /\ latest' = latest /\ \A w : ~Owes(x, w)
    <3>1. carrier'[c].pc = "returned"
      BY <1>2, <2>5, <2>10, <2>11
    <3> QED
      BY <1>1, <2>5, <2>10, <2>11, <3>1 DEF Owes
  <2>19. \A w \in Works :
           effects'[w] + Owing(x, w) + granted[w[1]] + Bookings(saved, w)
             <= granted'[w[1]] + Bookings(saved', w) + effects[w] + Owing(carrier[c], w)
    BY <1>8, <2>18
  <2>20. Worked(x.prog)'
    BY <2>11, <2>15
  <2> HIDE DEF q, z, p, n, b, g, text, work
  <2> QED
    BY <1>1, <1>2, <1>5, <1>6, <1>7, <2>11, <2>16, <2>17, <2>18, <2>19, <2>20, CarrierStep
<1>10. ASSUME carrier' = [carrier EXCEPT ![c].pc = "failed"] PROVE ProgressInv'
  <2> DEFINE z == [y EXCEPT !.pc = "failed"]
  <2>1. carrier' = [carrier EXCEPT ![c] = z]
    BY <1>0, <1>2, <1>10
  <2>2. PICK x : x = z
    OBVIOUS
  <2>3. /\ x \in CarrierStates /\ x.pc = "failed" /\ x.translated = y.translated /\ x.prog = p
        /\ x.refresh = y.refresh /\ x.inspected = None
    BY <1>2, <1>3, <2>2 DEF CarrierStates
  <2>4. CarrierOK(x) /\ (c \in latest => Knows(x, saved)) /\ \A w : ~Owes(x, w)
    BY <1>1, <1>2, <1>3, <2>3 DEF CarrierOK, Knows, Owes
  <2>5. carrier'[c].pc = "failed"
    BY <1>2, <2>1, <2>2, <2>3
  <2>6. Worked(x.prog)'
    BY <1>7, <2>3 DEF Worked
  <2>7. \A w \in Works :
           effects'[w] + Owing(x, w) + granted[w[1]] + Bookings(saved, w)
             <= granted'[w[1]] + Bookings(saved', w) + effects[w] + Owing(carrier[c], w)
    BY <1>8, <2>4
  <2> HIDE DEF z, p, n, b, g, text, work
  <2> QED
    BY <1>1, <1>2, <1>5, <1>6, <1>7, <2>1, <2>2, <2>3, <2>4, <2>5, <2>6, <2>7, CarrierStep
<1>11. ASSUME Ended(c) PROVE ProgressInv'
  <2>1. carrier' = [carrier EXCEPT ![c] = Unlaunched] /\ carrier'[c].pc = "none"
    BY <1>2, <1>11, FreshFacts DEF Ended
  <2>2. Unlaunched \in CarrierStates /\ CarrierOK(Unlaunched) /\ \A w : ~Owes(Unlaunched, w)
    BY FreshFacts
  <2>3. Worked(Unlaunched.prog)'
    BY <1>7 DEF Unlaunched
  <2>4. \A w \in Works :
           effects'[w] + Owing(Unlaunched, w) + granted[w[1]] + Bookings(saved, w)
             <= granted'[w[1]] + Bookings(saved', w) + effects[w] + Owing(carrier[c], w)
    BY <1>8, <2>2
  <2> HIDE DEF p, n, b, g, text, work
  <2> QED
    BY <1>1, <1>2, <1>5, <1>6, <1>7, <2>1, <2>2, <2>3, <2>4, CarrierStep
<1> QED
  BY <1>1, <1>9, <1>10, <1>11

-----------------------------------------------------------------------------
(* The theorems.                                                           *)

\* The fresh script satisfies ProgressInv.
LEMMA ProgressInit == Init => ProgressInv
<1> SUFFICES ASSUME Init PROVE ProgressInv
  OBVIOUS
<1>1. /\ saved = Fresh /\ latest = {} /\ carrier = [c \in Carriers |-> Unlaunched] /\ launched = 0
      /\ effects = [w \in Works |-> 0] /\ granted = [s \in Segments |-> 0]
  BY DEF Init, Works
<1>2. TypeOK
  BY <1>1, FreshFacts DEF TypeOK
<1>3. \A c \in Carriers : carrier[c] = Unlaunched /\ CarrierOK(carrier[c]) /\ Worked(carrier[c].prog)
                          /\ carrier[c].pc = "none"
  BY <1>1, FreshFacts DEF Unlaunched
<1>4. ASSUME NEW w \in Works PROVE effects[w] + Cardinality(Outstanding(w)) <= granted[w[1]] + Bookings(saved, w)
  <2>1. Outstanding(w) = {}
    BY <1>3, FreshFacts DEF Outstanding
  <2>2. Cardinality(Outstanding(w)) = 0
    BY <2>1, FS_EmptySet
  <2>3. effects[w] = 0 /\ granted[w[1]] = 0 /\ Bookings(saved, w) \in Nat
    BY <1>1, WorkFacts DEF Bookings
  <2> QED
    BY <2>2, <2>3
<1> QED
  BY <1>1, <1>2, <1>3, <1>4, FreshFacts DEF ProgressInv

\* Every step of the continuation keeps ProgressInv.
LEMMA ProgressStep == ProgressInv /\ [Next]_vars => ProgressInv'
<1> SUFFICES ASSUME ProgressInv, [Next]_vars PROVE ProgressInv'
  OBVIOUS
<1>1. ASSUME UNCHANGED <<saved, latest, carrier, launched, effects, granted>> PROVE ProgressInv'
  BY <1>1 DEF ProgressInv, TypeOK, Worked, Ran, Outstanding
<1>2. ASSUME NEW c \in Carriers, Step(c) PROVE ProgressInv'
  <2>1. CASE Done(c)
    BY <2>1, StopsStep DEF Done, At
  <2>2. CASE Cancel(c)
    BY <2>2, StopsStep DEF Cancel
  <2> QED
    BY <1>2, <2>1, <2>2, BeginStep, ResumeBeginsStep, ResumeReadsStep, ClaimStep, SettleStep, StartStep,
       RevalidateStep, InvokeStep, UnknownStep, ExecuteStep, RecordStep, StopStep, CompleteStep, InterruptedStep
    DEF Step
<1> QED
  BY <1>1, <1>2 DEF Next, vars

\* Every reachable state satisfies the inductive invariant of the progress.
THEOREM ProgressIsSound == Spec => []ProgressInv
  BY ProgressInit, ProgressStep, PTL DEF Spec

\* Whatever is cancelled, lost or resumed at the same time, a command or a
\* patch of a step is started once, and once more for each retry or repair
\* claimed for its segment: what is started or about to start was booked in
\* the retained progress, and only a granted claim takes a booking back.
THEOREM EffectsAreSafe == Spec => []EffectsAreAuthorised
<1>1. ProgressInv => EffectsAreAuthorised
  <2> SUFFICES ASSUME ProgressInv, NEW s \in Segments, NEW k \in Steps PROVE effects[<<s, k>>] <= 1 + granted[s]
    BY DEF EffectsAreAuthorised
  <2> DEFINE w == <<s, k>>
  <2>1. /\ effects[w] \in Nat /\ granted[s] \in Nat
        /\ effects[w] + Cardinality(Outstanding(w)) <= granted[s] + Bookings(saved, w)
    <3>1. w \in Works /\ w[1] = s
      BY WorkFacts
    <3> HIDE DEF w
    <3> QED
      BY <3>1 DEF ProgressInv, TypeOK
  <2> HIDE DEF w
  <2>2. IsFiniteSet(Outstanding(w))
    BY HandleAssumption, FS_Subset DEF Outstanding, Carriers
  <2>3. Cardinality(Outstanding(w)) \in Nat /\ Bookings(saved, w) \in Nat /\ Bookings(saved, w) <= 1
    BY <2>2, FS_CardinalityType DEF Bookings
  <2>4. effects[w] <= 1 + granted[s]
    BY <2>1, <2>3
  <2> QED
    BY <2>4 DEF w
<1> QED
  BY <1>1, ProgressIsSound, PTL

\* The patch of an edit is applied by the carrier that translated it, right
\* after that.
THEOREM PatchesAreFresh == Spec => []PatchIsFresh
<1>1. ProgressInv => PatchIsFresh
  <2> SUFFICES ASSUME ProgressInv, NEW c \in Carriers, carrier[c].pc = "execute",
                      KindOf(Segment(Prog(c))) = "edit", Last(Prog(c).ops).role = "patch"
               PROVE  Len(Prog(c).ops) = 2 /\ carrier[c].translated
    BY DEF PatchIsFresh, At
  <2> DEFINE p == Prog(c)
             n == Len(p.ops)
  <2>1. /\ p \in Progresses /\ WellFormed(p) /\ p.index <= Len(p.plan)
        /\ p.ops \in Seq(Operations) /\ p.ops # <<>>
        /\ p.ops[n].role = "patch" /\ carrier[c].translated
    BY CarrierFacts DEF CarrierOK, Last, Prog
  <2>2. KindOf(Segment(p)) = "edit"
    OBVIOUS
  <2> HIDE DEF p
  <2>3. n \in Nat \ {0} /\ n \in 1..n
    BY <2>1
  <2>4. OpFits(p.ops, Program(p), n) /\ Program(p) = Edit
    BY <2>1, <2>2, <2>3, CurrentFacts DEF WellFormed, OpsOK, OpsFit
  <2>5. n # 1 /\ n <= 2
    BY <2>1, <2>4 DEF OpFits
  <2> HIDE DEF n
  <2>6. n = 2
    BY <2>3, <2>5
  <2> QED
    BY <2>1, <2>6 DEF n, p
<1> QED
  BY <1>1, ProgressIsSound, PTL

\* The retained results are those of the segments before the current one,
\* every step of a program among them that is said to have completed did run,
\* and nothing after the current segment has been started without a grant.
THEOREM ResultsAreTrue == Spec => []ResultsAreEarned
<1>1. ProgressInv => ResultsAreEarned
  <2> SUFFICES ASSUME ProgressInv PROVE ResultsAreEarned
    OBVIOUS
  <2> DEFINE p == saved
  <2>1. /\ p \in Progresses /\ PlanOK(p) /\ ResultsOK(p) /\ Worked(p)
        /\ effects \in [Works -> Nat] /\ granted \in [Segments -> Nat]
    BY DEF ProgressInv, TypeOK, WellFormed
  <2>2. p.plan \in Seq(Segments) /\ p.index \in Nat \ {0} /\ Len(p.plan) \in Nat
    BY <2>1 DEF Progresses
  <2>3. ASSUME NEW j \in (p.index + 1)..Len(p.plan), NEW k \in Steps, effects[<<p.plan[j], k>>] > 0
        PROVE  granted[p.plan[j]] > 0
    <3> DEFINE s == p.plan[j]
               w == <<s, k>>
    <3>1. j \in 1..Len(p.plan) /\ s \in Segments /\ j > p.index /\ p.index \in 1..Len(p.plan)
      BY <2>2, <2>3
    <3>2. \A i \in 1..p.index : p.plan[i] # p.plan[j]
      BY <2>1, <2>2, <3>1 DEF PlanOK
    <3>3. ~Booked(p, w)
      BY <2>2, <3>2 DEF Booked, Segment
    <3>4. w \in Works /\ w[1] = s
      BY <3>1, WorkFacts
    <3>5. effects[w] > 0
      BY <2>3
    <3> HIDE DEF s, w
    <3>6. IsFiniteSet(Outstanding(w)) /\ Bookings(p, w) = 0
      BY <3>3, HandleAssumption, FS_Subset DEF Outstanding, Carriers, Bookings
    <3>7. Cardinality(Outstanding(w)) \in Nat /\ effects[w] \in Nat /\ granted[s] \in Nat
      BY <2>1, <3>1, <3>4, <3>6, FS_CardinalityType
    <3>8. effects[w] + Cardinality(Outstanding(w)) <= granted[s] + Bookings(p, w)
      BY <3>4 DEF ProgressInv
    <3>9. granted[s] > 0
      BY <3>5, <3>6, <3>7, <3>8
    <3> QED
      BY <3>9 DEF s
  <2> QED
    BY <2>1, <2>3 DEF ResultsAreEarned, ResultsOK, Worked, Ran
<1> QED
  BY <1>1, ProgressIsSound, PTL
=============================================================================
