-------------------------- MODULE RequestPath_proofs --------------------------
(***************************************************************************)
(* Proofs about the two halves of a request's way through the router: its  *)
(* execution and what requests share (RequestExecution), and what becomes  *)
(* of its tools and its response (ResponseTransform).  Each half has its   *)
(* own specification; nothing here is assumed of the one to prove the      *)
(* other, only the arithmetic of loops and sums is common.                 *)
(*                                                                         *)
(* Execution, for every set of requests and every limit: what a request is *)
(* recorded as is what its client saw, no failure is lost between its      *)
(* recording and its notice, and a total that is shown is whole.  The last *)
(* two are about sums over sets that grow, so the module begins with what  *)
(* Total computes.  The library's induction rules take a predicate as a    *)
(* parameter, which the provers cannot instantiate; its theorem that every *)
(* nonempty set of numbers has a least member does not, and the inductions *)
(* below are about a least counterexample.                                 *)
(*                                                                         *)
(* Transformation, for any calls, inputs, catalogs and bounds: a carrier   *)
(* that Codex sees is on record, a recovery follows what was rejected, the *)
(* answer comes last and whole, the provider is told the truth about its   *)
(* own history, and no catalog keeps a way around the router's tools.      *)
(***************************************************************************)
EXTENDS RequestExecution, ResponseTransform, FiniteSetTheorems,
        WellFoundedInduction, TLAPS

-----------------------------------------------------------------------------
(* Sums over finite sets.                                                  *)

\* A nonempty set of natural numbers has a least member.
LEMMA Least ==
  ASSUME NEW T, T \subseteq Nat, T # {}
  PROVE  \E n \in T : \A m \in T : ~ (m < n)
<1> DEFINE R == OpToRel(<, Nat)
<1>1. IsWellFoundedOn(R, Nat)
  BY NatLessThanWellFounded
<1> HIDE DEF R
<1>2. PICK n \in T : \A m \in T : ~ (<<m, n>> \in R)
  BY <1>1, WFMin
<1> QED
  BY <1>2 DEF R, OpToRel

\* The recursion that Total unfolds to: one member of the set, then the others.
Body(f, g, s) == IF s = {} THEN 0 ELSE f[CHOOSE x \in s : TRUE] + g[s \ {CHOOSE x \in s : TRUE}]
Iter(f, S) == CHOOSE g : g = [s \in SUBSET S |-> Body(f, g, s)]

\* Total is what that recursion gives for the whole set.
LEMMA TotalIs ==
  ASSUME NEW f, NEW S
  PROVE  Total(f, S) = Iter(f, S)[S]
  BY DEF Total, Iter, Body, MapThenSumSet, MapThenFoldSet

\* The recursion equation has a solution on the subsets of a finite set.
LEMMA IterExists ==
  ASSUME NEW f, NEW S, IsFiniteSet(S)
  PROVE  Iter(f, S) = [s \in SUBSET S |-> Body(f, Iter(f, S), s)]
<1> DEFINE Small(n) == {s \in SUBSET S : Cardinality(s) <= n}
           Solved(n) == \E g : g = [s \in Small(n) |-> Body(f, g, s)]
           Bad == {n \in Nat : ~Solved(n)}
<1>1. Bad = {}
  <2>1. SUFFICES ASSUME Bad # {} PROVE FALSE
    OBVIOUS
  <2>2. PICK n \in Bad : \A m \in Bad : ~ (m < n)
    <3> HIDE DEF Bad
    <3>1. Bad \subseteq Nat
      BY DEF Bad
    <3> QED
      BY <2>1, <3>1, Least
  <2>3. n # 0
    <3>1. SUFFICES ASSUME n = 0 PROVE Solved(0)
      BY <2>2
    <3>2. \A s \in Small(0) : s = {}
      BY FS_Subset, FS_EmptySet, FS_CardinalityType
    <3> DEFINE g == [s \in Small(0) |-> 0]
    <3>3. g = [s \in Small(0) |-> Body(f, g, s)]
      BY <3>2 DEF Body
    <3> QED
      BY <3>3
  <2>4. n - 1 \in Nat /\ Solved(n - 1)
    <3>1. n \in Nat /\ n - 1 \in Nat /\ n - 1 < n
      BY <2>2, <2>3
    <3>2. n - 1 \notin Bad
      <4> HIDE DEF Bad
      <4> QED
        BY <2>2, <3>1
    <3> HIDE DEF Solved
    <3> QED
      BY <3>1, <3>2
  <2>5. PICK g : g = [s \in Small(n - 1) |-> Body(f, g, s)]
    BY <2>4
  <2> DEFINE h == [s \in Small(n) |-> Body(f, g, s)]
  <2>6. \A s \in Small(n) : Body(f, h, s) = Body(f, g, s)
    <3> SUFFICES ASSUME NEW s \in Small(n), s # {} PROVE Body(f, h, s) = Body(f, g, s)
      BY DEF Body
    <3> DEFINE x == CHOOSE x \in s : TRUE
    <3>1. x \in s
      OBVIOUS
    <3>2. s \ {x} \in Small(n - 1) /\ s \ {x} \in Small(n)
      <4>1. IsFiniteSet(s) /\ Cardinality(s) \in Nat
        BY FS_Subset, FS_CardinalityType
      <4>2. Cardinality(s \ {x}) = Cardinality(s) - 1
        BY <3>1, <4>1, FS_RemoveElement
      <4> QED
        BY <4>1, <4>2, <2>2
    <3>3. h[s \ {x}] = g[s \ {x}]
      BY <3>2, <2>5
    <3> QED
      BY <3>3 DEF Body
  <2>7. h = [s \in Small(n) |-> Body(f, h, s)]
    BY <2>6
  <2> QED
    BY <2>2, <2>7
<1>2. Cardinality(S) \in Nat /\ Solved(Cardinality(S))
  BY <1>1, FS_CardinalityType
<1>3. Small(Cardinality(S)) = SUBSET S
  BY FS_Subset, FS_CardinalityType
<1>4. \E g : g = [s \in SUBSET S |-> Body(f, g, s)]
  BY <1>2, <1>3
<1> QED
  BY <1>4 DEF Iter

\* The solution on a set is the solution on each of its subsets.
LEMMA IterUnique ==
  ASSUME NEW f, NEW S, IsFiniteSet(S), NEW s \in SUBSET S
  PROVE  Iter(f, S)[s] = Total(f, s)
<1> DEFINE Bad == {n \in Nat : \E t \in SUBSET s : Cardinality(t) = n /\ Iter(f, S)[t] # Iter(f, s)[t]}
<1>1. SUFFICES ASSUME Bad # {} PROVE FALSE
  <2>1. Cardinality(s) \in Nat
    BY FS_Subset, FS_CardinalityType
  <2> QED
    BY <2>1, <1>1, TotalIs
<1>2. PICK n \in Bad : \A m \in Bad : ~ (m < n)
  <2> HIDE DEF Bad
  <2>1. Bad \subseteq Nat
    BY DEF Bad
  <2> QED
    BY <1>1, <2>1, Least
<1>3. PICK t \in SUBSET s : Cardinality(t) = n /\ Iter(f, S)[t] # Iter(f, s)[t]
  BY <1>2
<1>4. IsFiniteSet(s) /\ IsFiniteSet(t) /\ n \in Nat
  BY <1>2, FS_Subset
<1>5. Iter(f, S)[t] = Body(f, Iter(f, S), t) /\ Iter(f, s)[t] = Body(f, Iter(f, s), t)
  <2>1. t \in SUBSET S /\ t \in SUBSET s
    OBVIOUS
  <2>2. Iter(f, S) = [r \in SUBSET S |-> Body(f, Iter(f, S), r)]
    BY IterExists
  <2>3. Iter(f, s) = [r \in SUBSET s |-> Body(f, Iter(f, s), r)]
    BY <1>4, IterExists
  <2> QED
    BY <2>1, <2>2, <2>3
<1>6. t # {}
  BY <1>3, <1>5 DEF Body
<1> DEFINE x == CHOOSE x \in t : TRUE
           u == t \ {x}
<1>7. x \in t
  BY <1>6
<1>8. Cardinality(u) \in Nat /\ Cardinality(u) < n
  <2>1. Cardinality(u) = Cardinality(t) - 1 /\ IsFiniteSet(u)
    BY <1>4, <1>7, FS_RemoveElement
  <2>2. Cardinality(u) \in Nat
    BY <2>1, FS_CardinalityType
  <2> HIDE DEF u
  <2> QED
    BY <1>3, <1>4, <2>1, <2>2
<1>9. Iter(f, S)[u] # Iter(f, s)[u]
  BY <1>3, <1>5, <1>6 DEF Body
<1>10. Cardinality(u) \in Bad
  BY <1>8, <1>9
<1> QED
  <2> HIDE DEF Bad
  <2> QED
    BY <1>2, <1>8, <1>10

\* The sum of a nonempty set is the value of its chosen member and the sum of the others.
LEMMA TotalChoice ==
  ASSUME NEW f, NEW S, IsFiniteSet(S), S # {}
  PROVE  LET x == CHOOSE x \in S : TRUE IN Total(f, S) = f[x] + Total(f, S \ {x})
<1> DEFINE x == CHOOSE x \in S : TRUE
<1>1. x \in S
  OBVIOUS
<1>2. Iter(f, S)[S] = Body(f, Iter(f, S), S)
  <2>1. Iter(f, S) = [r \in SUBSET S |-> Body(f, Iter(f, S), r)]
    BY IterExists
  <2> QED
    BY <2>1
<1>3. Total(f, S) = f[x] + Iter(f, S)[S \ {x}]
  BY <1>2, TotalIs DEF Body
<1>4. Iter(f, S)[S \ {x}] = Total(f, S \ {x})
  BY IterUnique
<1> QED
  BY <1>3, <1>4

\* So it is the value of some member and the sum of the others.
LEMMA TotalStep ==
  ASSUME NEW f, NEW S, IsFiniteSet(S), S # {}
  PROVE  \E x \in S : Total(f, S) = f[x] + Total(f, S \ {x})
  BY TotalChoice

\* The sum of nothing is zero.
LEMMA TotalEmpty == \A f : Total(f, {}) = 0
<1> SUFFICES ASSUME NEW f PROVE Total(f, {}) = 0
  OBVIOUS
<1>1. Iter(f, {}) = [r \in SUBSET {} |-> Body(f, Iter(f, {}), r)]
  BY IterExists, FS_EmptySet
<1>2. Iter(f, {})[{}] = Body(f, Iter(f, {}), {})
  BY <1>1
<1> QED
  BY <1>2, TotalIs DEF Body

\* A sum does not depend on the order of its terms.
LEMMA TotalTake ==
  ASSUME NEW f, NEW S, IsFiniteSet(S), \A y \in S : f[y] \in Nat, NEW x \in S
  PROVE  Total(f, S) \in Nat /\ Total(f, S) = f[x] + Total(f, S \ {x})
<1> DEFINE Fine(t) == Total(f, t) \in Nat /\ \A y \in t : Total(f, t) = f[y] + Total(f, t \ {y})
           Bad == {n \in Nat : \E t \in SUBSET S : Cardinality(t) = n /\ ~Fine(t)}
<1>1. SUFFICES ASSUME Bad # {} PROVE FALSE
  <2>1. Cardinality(S) \in Nat
    BY FS_CardinalityType
  <2>2. SUFFICES ASSUME ~Fine(S) PROVE FALSE
    OBVIOUS
  <2> HIDE DEF Fine
  <2>3. Cardinality(S) \in Bad
    BY <2>1, <2>2
  <2> QED
    BY <1>1, <2>3
<1>2. PICK n \in Bad : \A m \in Bad : ~ (m < n)
  <2> HIDE DEF Bad
  <2>1. Bad \subseteq Nat
    BY DEF Bad
  <2> QED
    BY <1>1, <2>1, Least
<1>3. PICK t \in SUBSET S : Cardinality(t) = n /\ ~Fine(t)
  <2> HIDE DEF Fine
  <2> QED
    BY <1>2
<1>4. IsFiniteSet(t) /\ n \in Nat
  BY <1>2, FS_Subset
<1>5. ASSUME NEW y \in t PROVE Fine(t \ {y})
  <2>1. IsFiniteSet(t \ {y}) /\ Cardinality(t \ {y}) = Cardinality(t) - 1
    BY <1>4, FS_RemoveElement
  <2>2. Cardinality(t \ {y}) \in Nat
    BY <2>1, FS_CardinalityType
  <2> HIDE DEF Fine
  <2>3. Cardinality(t \ {y}) \notin Bad
    <3> HIDE DEF Bad
    <3> QED
      BY <1>2, <1>3, <1>4, <2>1, <2>2
  <2> QED
    BY <2>2, <2>3
<1>6. t # {}
  <2>1. SUFFICES ASSUME t = {} PROVE Fine(t)
    BY <1>3
  <2> QED
    BY <2>1, TotalEmpty
<1>7. PICK y \in t : Total(f, t) = f[y] + Total(f, t \ {y})
  BY <1>4, <1>6, TotalStep
<1>8. Total(f, t \ {y}) \in Nat /\ Total(f, t) \in Nat
  BY <1>5, <1>7
<1>9. ASSUME NEW z \in t PROVE Total(f, t) = f[z] + Total(f, t \ {z})
  <2>1. CASE z = y
    BY <2>1, <1>7
  <2>2. CASE z # y
    <3>1. Total(f, t \ {y}) = f[z] + Total(f, (t \ {y}) \ {z})
      BY <1>5, <2>2
    <3>2. Total(f, t \ {z}) = f[y] + Total(f, (t \ {z}) \ {y})
      BY <1>5, <2>2
    <3>3. (t \ {y}) \ {z} = (t \ {z}) \ {y}
      OBVIOUS
    <3>4. Total(f, (t \ {y}) \ {z}) \in Nat
      <4>1. Fine((t \ {y}) \ {z})
        <5>1. IsFiniteSet((t \ {y}) \ {z}) /\ Cardinality((t \ {y}) \ {z}) = Cardinality(t) - 2
          <6>1. IsFiniteSet(t \ {y}) /\ Cardinality(t \ {y}) = Cardinality(t) - 1
            BY <1>4, FS_RemoveElement
          <6>2. z \in t \ {y}
            BY <2>2
          <6>3. /\ IsFiniteSet((t \ {y}) \ {z})
                /\ Cardinality((t \ {y}) \ {z}) = Cardinality(t \ {y}) - 1
            BY <6>1, <6>2, FS_RemoveElement
          <6>4. Cardinality(t) \in Nat
            BY <1>4, FS_CardinalityType
          <6> QED
            BY <6>1, <6>3, <6>4
        <5>2. Cardinality((t \ {y}) \ {z}) \in Nat
          BY <5>1, FS_CardinalityType
        <5> HIDE DEF Fine
        <5>3. Cardinality((t \ {y}) \ {z}) \notin Bad
          <6> HIDE DEF Bad
          <6> QED
            BY <1>2, <1>3, <1>4, <5>1, <5>2
        <5> QED
          BY <5>2, <5>3
      <4> QED
        BY <4>1
    <3>5. f[y] \in Nat /\ f[z] \in Nat
      OBVIOUS
    <3>6. Total(f, t) = f[y] + (f[z] + Total(f, (t \ {z}) \ {y}))
      BY <1>7, <3>1, <3>3
    <3> HIDE DEF Fine, Bad
    <3> QED
      BY <3>2, <3>3, <3>4, <3>5, <3>6
  <2> QED
    BY <2>1, <2>2
<1> QED
  BY <1>3, <1>8, <1>9

\* A new member adds its value to the sum.
LEMMA TotalAdd ==
  ASSUME NEW f, NEW S, IsFiniteSet(S), NEW x, x \notin S, \A y \in S \cup {x} : f[y] \in Nat
  PROVE  /\ Total(f, S) \in Nat
         /\ Total(f, S \cup {x}) = Total(f, S) + f[x]
<1>1. IsFiniteSet(S \cup {x})
  BY FS_AddElement
<1>2. (S \cup {x}) \ {x} = S
  OBVIOUS
<1>3. Total(f, S \cup {x}) = f[x] + Total(f, S)
  BY <1>1, <1>2, TotalTake
<1>4. Total(f, S) \in Nat
  <2>1. CASE S = {}
    BY <2>1, TotalEmpty
  <2>2. CASE S # {}
    BY <2>2, TotalTake
  <2> QED
    BY <2>1, <2>2
<1> QED
  BY <1>3, <1>4

\* A sum depends on the values of its members only.
LEMMA TotalSame ==
  ASSUME NEW f, NEW g, NEW S, IsFiniteSet(S), \A y \in S : f[y] = g[y]
  PROVE  Total(f, S) = Total(g, S)
<1> DEFINE Bad == {n \in Nat : \E t \in SUBSET S : Cardinality(t) = n /\ Total(f, t) # Total(g, t)}
<1>1. SUFFICES ASSUME Bad # {} PROVE FALSE
  <2>1. Cardinality(S) \in Nat
    BY FS_CardinalityType
  <2> QED
    BY <1>1, <2>1
<1>2. PICK n \in Bad : \A m \in Bad : ~ (m < n)
  <2> HIDE DEF Bad
  <2>1. Bad \subseteq Nat
    BY DEF Bad
  <2> QED
    BY <1>1, <2>1, Least
<1>3. PICK t \in SUBSET S : Cardinality(t) = n /\ Total(f, t) # Total(g, t)
  BY <1>2
<1> DEFINE x == CHOOSE x \in t : TRUE
<1>4. IsFiniteSet(t) /\ n \in Nat /\ t # {}
  BY <1>2, <1>3, FS_Subset, TotalEmpty
<1>5. x \in t
  BY <1>4
<1>6. /\ Total(f, t) = f[x] + Total(f, t \ {x})
      /\ Total(g, t) = g[x] + Total(g, t \ {x})
  BY <1>4, TotalChoice
<1>7. IsFiniteSet(t \ {x}) /\ Cardinality(t \ {x}) = Cardinality(t) - 1
  BY <1>4, <1>5, FS_RemoveElement
<1>8. Cardinality(t \ {x}) \in Nat
  BY <1>7, FS_CardinalityType
<1> HIDE DEF x
<1>9. Cardinality(t \ {x}) \in Bad
  BY <1>3, <1>5, <1>6, <1>8
<1> QED
  <2> HIDE DEF Bad
  <2> QED
    BY <1>2, <1>3, <1>4, <1>7, <1>8, <1>9

-----------------------------------------------------------------------------
(* The state of a request.                                                 *)

Early == {"new", "claim", "shape", "forward", "http", "backoff", "inspect", "sniff", "grok", "json", "whole"}
Running == Early \cup {"stream", "writing"}
Pcs == Running \cup {"last", "unwind", "report", "told", "ended"}
Errors == {"deadline", "start", "canceled", "compat", "other", "transport", "idle", "noterminal", "write",
           "transform"}
Phases == {"none", "prepare", "forward", "inspect", "write", "transform", "idle", "validate"}
Categories == Phases \cup {"compat", "timeout", "upstream_canceled", "upstream_transport"}
Terminals == {"unknown", "pending", "completed", "steered", "failed", "invalid"}
Contexts == {"live", "expired", "canceled", "both"}
Final == {"completed", "failed", "timed_out", "canceled_before", "canceled_after", "idle_timed_out"}

\* The notices a request carries, with the count each had when it was claimed.
Notices == UNION {[S -> Nat] : S \in SUBSET Categories}

Executions ==
  [pc : Pcs, attempt : Nat, status : {None, "ok", "error"}, tr : BOOLEAN, visible : BOOLEAN,
   held : Notices, emitted : BOOLEAN, terminal : Terminals, usage : Nat \cup {None},
   err : SUBSET Errors, phase : Phases, outcome : Final \cup {"unknown"},
   sent : {"none", "upstream"}]

TypeOK == ex \in [Requests -> Executions] /\ ctx \in [Requests -> Contexts]

\* What an error may be, given what was sent, the phase and the contexts: the
\* start timeout is a deadline of a request that got no answer; a deadline after
\* that is a silent socket; a cancellation comes with a cancelled execution, or
\* from an expired start while the request is forwarded.
Fault(err, sent, stage, x) ==
  /\ "start" \in err => "deadline" \in err /\ sent = "none" /\ x \in {"expired", "both"}
  /\ "deadline" \in err => "canceled" \notin err /\ (sent = "none" \/ "idle" \in err \/ x \in {"canceled", "both"})
  /\ "canceled" \in err => \/ x \in {"canceled", "both"}
                           \/ x = "expired" /\ stage = "forward" /\ "idle" \notin err

\* A request whose body has run: it has an error or an outcome, never both, and
\* without an error something was sent.
Concluding(e, x) ==
  /\ e.outcome \in {"unknown", "completed", "failed"}
  /\ e.outcome = "unknown" <=> e.err # {}
  /\ e.err = {} => e.sent = "upstream"
  /\ e.outcome = "completed" => e.status = "ok" /\ e.terminal \in {"completed", "steered"}
  /\ Fault(e.err, e.sent, e.phase, x)

\* A request whose outcome is settled.  It was settled by a context that may have
\* been cancelled since, and only after the start had expired in forwarding.
Settled(e, x) ==
  /\ e.outcome \in Final
  /\ e.err = {} => e.sent = "upstream" /\ e.outcome \in {"completed", "failed"}
  /\ e.outcome = "completed" => e.err = {} /\ e.status = "ok" /\ e.terminal \in {"completed", "steered"}
  /\ Fault(e.err, e.sent, e.phase, x)
  /\ e.outcome = "timed_out" <=> "deadline" \in e.err
  /\ e.outcome \in {"canceled_before", "canceled_after"} =>
       "canceled" \in e.err /\ "deadline" \notin e.err /\ x \in {"canceled", "both"}
  /\ e.outcome = "idle_timed_out" <=> "idle" \in e.err /\ {"deadline", "canceled"} \cap e.err = {}
  /\ "canceled" \in e.err /\ e.outcome \notin {"canceled_before", "canceled_after"} =>
       e.outcome = "failed" /\ x \in {"expired", "both"} /\ e.phase = "forward"

\* A request carries no notices before it claims any or after it settled them.
Unburdened == {"new", "claim", "report", "told", "ended"}

\* Before that it has neither, a document is not sent while it is read, and the
\* last writes of a response are no cancelled start's.
Truthful(e, x) ==
  /\ e.pc \in Running => e.outcome = "unknown" /\ e.err = {} /\ e.usage = None
  /\ e.pc \in Early => e.sent = "none"
  /\ e.pc \in {"stream", "writing", "last"} => e.sent = "upstream"
  /\ e.pc = "last" => e.outcome = "unknown" /\ Fault(e.err, e.sent, "none", x)
  /\ e.pc \in {"unwind", "report"} => Concluding(e, x)
  /\ e.pc = "told" => Settled(e, x)
  /\ e.pc \in Unburdened => DOMAIN e.held = {}

RequestInv == TypeOK /\ \A r \in Requests : Truthful(ex[r], ctx[r])

\* One request moves to a truthful state and the others stay.
Moves(r) ==
  \E e \in Executions, x \in Contexts :
    /\ ex' = [ex EXCEPT ![r] = e] /\ ctx' = [ctx EXCEPT ![r] = x] /\ Truthful(e, x)

\* A step that touches neither the queue, nor the totals, nor what a request has of them.
Apart(r) ==
  /\ ex'[r].held = ex[r].held /\ ex'[r].usage = ex[r].usage
  /\ UNCHANGED <<totals, shared>>

-----------------------------------------------------------------------------
(* Every step of a request is truthful.                                    *)

\* A request that moves keeps the invariant of all requests.
LEMMA MovesKeep ==
  ASSUME RequestInv, NEW r \in Requests, Moves(r)
  PROVE  RequestInv'
<1>1. PICK e \in Executions, x \in Contexts :
        ex' = [ex EXCEPT ![r] = e] /\ ctx' = [ctx EXCEPT ![r] = x] /\ Truthful(e, x)
  BY DEF Moves
<1>2. TypeOK'
  BY <1>1 DEF RequestInv, TypeOK
<1>3. \A s \in Requests : (s = r /\ ex'[s] = e /\ ctx'[s] = x) \/ (ex'[s] = ex[s] /\ ctx'[s] = ctx[s])
  BY <1>1 DEF RequestInv, TypeOK
<1>4. \A s \in Requests : Truthful(ex'[s], ctx'[s])
  BY <1>1, <1>3 DEF RequestInv
<1>5. (\A s \in Requests : Truthful(ex[s], ctx[s]))'
  BY <1>4
<1> QED
  BY <1>2, <1>5 DEF RequestInv

\* A request that takes a truthful state while its contexts stay.
LEMMA MovesBy ==
  ASSUME RequestInv, NEW r \in Requests, NEW e \in Executions, UNCHANGED ctx,
         ex' = [ex EXCEPT ![r] = e], Truthful(e, ctx[r])
  PROVE  Moves(r) /\ ex'[r] = e
<1>1. ctx' = [ctx EXCEPT ![r] = ctx[r]] /\ ctx[r] \in Contexts
  BY DEF RequestInv, TypeOK
<1>2. PICK x \in Contexts : x = ctx[r]
  BY <1>1
<1> QED
  BY <1>1, <1>2 DEF Moves, RequestInv, TypeOK

\* What Failed leaves and what it sets.
LEMMA FailedIs ==
  ASSUME NEW e \in Executions, NEW stage \in Phases, NEW err \in SUBSET Errors
  PROVE  LET f == Failed(e, stage, err) IN
         /\ f \in Executions /\ f.pc = "unwind" /\ f.err = err /\ f.outcome = e.outcome
         /\ f.phase = stage /\ f.sent = e.sent /\ f.usage = e.usage /\ f.held = e.held
  BY DEF Failed, Executions, Pcs, Terminals

\* A body that returns an error is truthful.
LEMMA FailedTruthful ==
  ASSUME NEW e \in Executions, NEW stage \in Phases, NEW err \in SUBSET Errors, NEW x \in Contexts,
         e.outcome = "unknown", err # {}, Fault(err, e.sent, stage, x)
  PROVE  Truthful(Failed(e, stage, err), x)
<1> DEFINE f == Failed(e, stage, err)
<1>1. /\ f.pc = "unwind" /\ f.err = err /\ f.outcome = e.outcome /\ f.sent = e.sent /\ f.phase = stage
  BY FailedIs
<1> HIDE DEF f
<1>2. Truthful(f, x)
  BY <1>1 DEF Truthful, Concluding, Running, Early, Unburdened
<1> QED
  BY <1>2 DEF f

\* What the copy of a response names as the phase of its error.
LEMMA CopyPhaseIs ==
  ASSUME NEW err
  PROVE  CopyPhase(err) \in {"idle", "transform", "write", "inspect"} /\ CopyPhase(err) \in Phases
  BY DEF CopyPhase, Phases

\* An error of a copy is one in every phase, and a failed write adds nothing to it.
LEMMA FaultSpreads ==
  ASSUME NEW err \in SUBSET Errors, NEW x \in Contexts, NEW stage, NEW sent, Fault(err, sent, "none", x)
  PROVE  Fault(err, sent, stage, x) /\ Fault(err \cup {"write"}, sent, stage, x)
  BY DEF Fault

\* A stream that breaks off is truthful while it is flushed.
LEMMA BrokenOffIs ==
  ASSUME NEW e \in Executions, NEW err \in SUBSET Errors, NEW x \in Contexts,
         e.outcome = "unknown", e.sent = "upstream", Fault(err, "upstream", "none", x)
  PROVE  LET f == BrokenOff(e, err) IN
         f \in Executions /\ Truthful(f, x) /\ f.held = e.held /\ f.usage = e.usage
<1>1. PICK stage \in Phases : stage = CopyPhase(err)
  BY CopyPhaseIs
<1>2. PICK g : g = Failed(e, stage, err)
  OBVIOUS
<1>3. /\ g \in Executions /\ g.err = err /\ g.outcome = e.outcome
      /\ g.sent = e.sent /\ g.usage = e.usage /\ g.held = e.held
  BY <1>2, FailedIs
<1>4. PICK f : f = [g EXCEPT !.pc = "last"]
  OBVIOUS
<1>5. f = BrokenOff(e, err)
  BY <1>1, <1>2, <1>4 DEF BrokenOff
<1>6. /\ f \in Executions /\ f.pc = "last" /\ f.err = g.err /\ f.outcome = g.outcome
      /\ f.sent = g.sent /\ f.usage = g.usage /\ f.held = g.held
  BY <1>3, <1>4 DEF Executions, Pcs
<1>7. Truthful(f, x)
  BY <1>3, <1>6 DEF Truthful, Running, Early, Unburdened
<1> QED
  BY <1>3, <1>5, <1>6, <1>7

\* A step that fails a running request.
FailsWith(r, stage, err) ==
  /\ ex[r].pc \in Running /\ stage \in Phases /\ err \in SUBSET Errors /\ err # {}
  /\ Fault(err, ex[r].sent, stage, ctx[r])
  /\ ex' = [ex EXCEPT ![r] = Failed(ex[r], stage, err)]

\* Failing is a move that keeps the notices and the usage.
LEMMA FailStep ==
  ASSUME RequestInv, NEW r \in Requests, NEW stage, NEW err, FailsWith(r, stage, err), UNCHANGED ctx
  PROVE  Moves(r) /\ ex'[r].held = ex[r].held /\ ex'[r].usage = ex[r].usage
<1>1. ex[r] \in Executions /\ ctx[r] \in Contexts /\ Truthful(ex[r], ctx[r])
  BY DEF RequestInv, TypeOK
<1>2. ex[r].outcome = "unknown"
  BY <1>1 DEF FailsWith, Truthful
<1>3. PICK f : f = Failed(ex[r], stage, err)
  OBVIOUS
<1>4. f \in Executions /\ f.held = ex[r].held /\ f.usage = ex[r].usage
  BY <1>1, <1>3, FailedIs DEF FailsWith
<1>5. Truthful(f, ctx[r])
  BY <1>1, <1>2, <1>3, FailedTruthful DEF FailsWith
<1>6. Moves(r) /\ ex'[r] = f
  BY <1>3, <1>4, <1>5, MovesBy DEF FailsWith
<1> QED
  BY <1>4, <1>6

\* A step that takes a running request to another program point, with its
\* outcome, error, usage and notices as they were.
StepsTo(r, e) ==
  /\ ex[r].pc \in Running /\ e.pc \in Running \ Unburdened
  /\ e.outcome = ex[r].outcome /\ e.err = ex[r].err /\ e.usage = ex[r].usage /\ e.held = ex[r].held
  /\ IF e.pc \in Early THEN e.sent = "none" ELSE e.sent = "upstream"

\* Going on is a move that keeps the notices and the usage.
LEMMA OnStep ==
  ASSUME RequestInv, NEW r \in Requests, NEW e \in Executions, StepsTo(r, e), UNCHANGED ctx,
         ex' = [ex EXCEPT ![r] = e]
  PROVE  Moves(r) /\ ex'[r].held = ex[r].held /\ ex'[r].usage = ex[r].usage
<1>1. Truthful(ex[r], ctx[r])
  BY DEF RequestInv
<1>2. Truthful(e, ctx[r])
  BY <1>1 DEF StepsTo, Truthful, Running, Early, Unburdened
<1>3. Moves(r) /\ ex'[r] = e
  BY <1>2, MovesBy
<1> QED
  BY <1>3 DEF StepsTo

\* The start deadline and a cancellation change a context and nothing else.
LEMMA ContextStep ==
  ASSUME RequestInv, NEW r \in Requests, StartTimeout(r) \/ Cancel(r)
  PROVE  Moves(r) /\ Apart(r)
<1>1. ex[r] \in Executions /\ ctx[r] \in Contexts /\ Truthful(ex[r], ctx[r]) /\ ex = [ex EXCEPT ![r] = ex[r]]
  BY DEF RequestInv, TypeOK
<1>2. PICK e \in Executions : e = ex[r]
  BY <1>1
<1>3. ex' = [ex EXCEPT ![r] = e] /\ UNCHANGED <<ex, totals, shared>>
  BY <1>1, <1>2 DEF StartTimeout, Cancel
<1>4. CASE StartTimeout(r)
  <2>1. ctx' = [ctx EXCEPT ![r] = "expired"] /\ "expired" \in Contexts /\ e.pc \in Early
    BY <1>2, <1>4 DEF StartTimeout, Contexts, Starting, Early
  <2>2. Truthful(e, "expired")
    BY <1>1, <1>2, <2>1 DEF Truthful, Running, Early
  <2> QED
    BY <1>3, <2>1, <2>2 DEF Moves, Apart
<1>5. CASE Cancel(r)
  <2>1. PICK x : x = IF ctx[r] = "expired" THEN "both" ELSE "canceled"
    OBVIOUS
  <2>2. ctx' = [ctx EXCEPT ![r] = x] /\ x \in Contexts /\ ctx[r] \in {"live", "expired"}
    BY <1>1, <1>5, <2>1 DEF Cancel, Contexts, ExecDone
  <2>3. Truthful(e, x)
    BY <1>1, <1>2, <2>1, <2>2 DEF Truthful, Concluding, Settled, Fault
  <2> QED
    BY <1>3, <2>2, <2>3 DEF Moves, Apart
<1> QED
  BY <1>4, <1>5

\* What a start context reports when it ended.
LEMMA StartErrIs ==
  ASSUME RequestInv, NEW r \in Requests
  PROVE  /\ StartErr(r) \in {"deadline", "canceled"}
         /\ StartErr(r) = "deadline" <=> ctx[r] \in {"expired", "both"}
         /\ StartDone(r) /\ StartErr(r) = "canceled" => ctx[r] = "canceled"
  BY DEF StartErr, StartDone, RequestInv, TypeOK, Contexts

\* What forwarding reports is an error of a request that got no answer, with or
\* without the start timeout as its cause.
LEMMA StartCause ==
  ASSUME RequestInv, NEW r \in Requests, NEW stage,
         NEW err \in {{"transport"}, {"deadline"}, {"canceled"}},
         "canceled" \in err => StartDone(r) /\ (stage = "forward" \/ StartErr(r) = "canceled")
  PROVE  LET f == WithStartCause(r, err) IN
         f \in SUBSET Errors /\ f # {} /\ Fault(f, "none", stage, ctx[r])
<1>1. ctx[r] \in Contexts
  BY DEF RequestInv, TypeOK
<1>2. "canceled" \in err => ctx[r] \in {"expired", "canceled", "both"} /\ (ctx[r] = "expired" => stage = "forward")
  BY <1>1, StartErrIs DEF StartDone, Contexts
<1>3. PICK f : f = WithStartCause(r, err)
  OBVIOUS
<1>4. f = err \/ (f = {"deadline", "start"} /\ ctx[r] \in {"expired", "both"})
  BY <1>3, StartErrIs DEF WithStartCause
<1>5. f \in SUBSET Errors /\ f # {}
  BY <1>4 DEF Errors
<1>6. Fault(f, "none", stage, ctx[r])
  <2>1. CASE f = err
    <3>1. CASE err = {"transport"}
      BY <2>1, <3>1 DEF Fault
    <3>2. CASE err = {"deadline"}
      BY <2>1, <3>2 DEF Fault
    <3>3. CASE err = {"canceled"}
      BY <1>1, <1>2, <2>1, <3>3 DEF Fault, Contexts
    <3> QED
      BY <3>1, <3>2, <3>3
  <2>2. CASE f = {"deadline", "start"} /\ ctx[r] \in {"expired", "both"}
    BY <2>2 DEF Fault
  <2> QED
    BY <1>4, <2>1, <2>2
<1> QED
  BY <1>3, <1>5, <1>6

\* A request that starts to run, or is refused with its body.
LEMMA ArrivalStep ==
  ASSUME RequestInv, NEW r \in Requests, Arrive(r) \/ RefuseBody(r)
  PROVE  Moves(r) /\ Apart(r)
<1>1. ex[r] \in Executions /\ Truthful(ex[r], ctx[r]) /\ ex[r].pc = "new"
  BY DEF RequestInv, TypeOK, Arrive, RefuseBody
<1>2. PICK pc \in {"claim", "ended"} : ex' = [ex EXCEPT ![r].pc = pc]
  BY DEF Arrive, RefuseBody
<1>3. PICK e : e = [ex[r] EXCEPT !.pc = pc]
  OBVIOUS
<1>4. ex' = [ex EXCEPT ![r] = e]
  BY <1>2, <1>3
<1>5. e \in Executions
  BY <1>1, <1>3 DEF Executions, Pcs, Running, Early
<1>6. e.pc = pc /\ e.outcome = ex[r].outcome /\ e.err = ex[r].err /\ e.usage = ex[r].usage
      /\ e.sent = ex[r].sent /\ e.held = ex[r].held
  BY <1>1, <1>3 DEF Executions
<1>7. Truthful(e, ctx[r])
  BY <1>1, <1>6 DEF Truthful, Running, Early, Unburdened
<1>8. Moves(r) /\ ex'[r] = e
  BY <1>4, <1>5, <1>7, MovesBy DEF Arrive, RefuseBody
<1> QED
  BY <1>6, <1>8 DEF Apart, Arrive, RefuseBody

\* A request that is neither refused nor answered: it goes on to another point.
GoesOn(r) == \E e \in Executions : StepsTo(r, e) /\ ex' = [ex EXCEPT ![r] = e]
Breaks(r) == \E stage, err : FailsWith(r, stage, err)

\* Going on and failing touch nothing but the request itself.
LEMMA OnOrBroken ==
  ASSUME RequestInv, NEW r \in Requests, GoesOn(r) \/ Breaks(r), UNCHANGED <<ctx, totals, shared>>
  PROVE  Moves(r) /\ Apart(r)
<1>1. CASE GoesOn(r)
  <2>1. PICK e \in Executions : StepsTo(r, e) /\ ex' = [ex EXCEPT ![r] = e]
    BY <1>1 DEF GoesOn
  <2> QED
    BY <2>1, OnStep DEF Apart
<1>2. CASE Breaks(r)
  <2>1. PICK stage, err : FailsWith(r, stage, err)
    BY <1>2 DEF Breaks
  <2> QED
    BY <2>1, FailStep DEF Apart
<1> QED
  BY <1>1, <1>2

\* Forwarding fails: refused, broken, too late, or cut off with its start.
LEMMA ForwardFails ==
  ASSUME RequestInv, NEW r \in Requests, ex[r].pc \in Early, NEW err \in Broken(r),
         ex' = [ex EXCEPT ![r] = ForwardFailed(r, err)]
  PROVE  Breaks(r)
<1>1. err \in {{"transport"}, {"deadline"}, {"canceled"}} /\ ("canceled" \in err => StartDone(r))
  BY StartErrIs DEF Broken
<1>2. PICK f : f = WithStartCause(r, err)
  OBVIOUS
<1>3. f \in SUBSET Errors /\ f # {} /\ Fault(f, "none", "forward", ctx[r])
  BY <1>1, <1>2, StartCause
<1>4. ex[r].sent = "none"
  BY DEF RequestInv, Truthful
<1>5. FailsWith(r, "forward", f)
  BY <1>2, <1>3, <1>4 DEF FailsWith, ForwardFailed, Running, Phases
<1> QED
  BY <1>5 DEF Breaks

\* The error of an expired or cancelled start.
LEMMA CutOff ==
  ASSUME RequestInv, NEW r \in Requests, ex[r].pc \in Early, StartDone(r),
         ex' = [ex EXCEPT ![r] = ForwardFailed(r, {StartErr(r)})]
  PROVE  Breaks(r)
<1>1. {StartErr(r)} \in Broken(r)
  BY DEF Broken
<1> QED
  BY <1>1, ForwardFails

\* Refusals before the provider answered.
LEMMA RefusalStep ==
  ASSUME RequestInv, NEW r \in Requests, ShapeFails(r) \/ ForwardRefused(r) \/ AttemptBroken(r)
  PROVE  Moves(r) /\ Apart(r)
<1>1. UNCHANGED <<ctx, totals, shared>>
  BY DEF ShapeFails, ForwardRefused, AttemptBroken
<1>2. CASE ShapeFails(r)
  <2>1. CASE \E e \in {"compat", "other"} : ex' = [ex EXCEPT ![r] = Failed(ex[r], "prepare", {e})]
    <3>1. PICK e \in {"compat", "other"} : ex' = [ex EXCEPT ![r] = Failed(ex[r], "prepare", {e})]
      BY <2>1
    <3>2. FailsWith(r, "prepare", {e})
      BY <1>2, <3>1 DEF ShapeFails, FailsWith, Fault, Running, Early, Phases, Errors
    <3> QED
      BY <1>1, <3>2, OnOrBroken DEF Breaks
  <2>2. CASE StartDone(r) /\ ex' = [ex EXCEPT ![r] = Failed(ex[r], "prepare", {StartErr(r)})]
    <3>1. PICK e : e = StartErr(r)
      OBVIOUS
    <3>2. /\ e \in {"deadline", "canceled"} /\ (e = "canceled" => ctx[r] = "canceled")
          /\ ex[r].sent = "none" /\ ex[r].pc = "shape"
      BY <1>2, <2>2, <3>1, StartErrIs DEF ShapeFails, RequestInv, Truthful, Early
    <3>3. FailsWith(r, "prepare", {e})
      BY <2>2, <3>1, <3>2 DEF FailsWith, Fault, Running, Early, Phases, Errors
    <3> QED
      BY <1>1, <3>3, OnOrBroken DEF Breaks
  <2> QED
    BY <1>2, <2>1, <2>2 DEF ShapeFails
<1>3. CASE ForwardRefused(r)
  <2>1. {"transport"} \in Broken(r) /\ ex[r].pc \in Early
    BY <1>3 DEF Broken, ForwardRefused, Early
  <2>2. Breaks(r)
    BY <1>3, <2>1, ForwardFails DEF ForwardRefused
  <2> QED
    BY <1>1, <2>2, OnOrBroken
<1>4. CASE AttemptBroken(r)
  <2>1. PICK err \in Broken(r) : ex' = [ex EXCEPT ![r] = ForwardFailed(r, err)]
    BY <1>4 DEF AttemptBroken
  <2>2. Breaks(r)
    BY <1>4, <2>1, ForwardFails DEF AttemptBroken, Early
  <2> QED
    BY <1>1, <2>2, OnOrBroken
<1> QED
  BY <1>2, <1>3, <1>4

\* The body of a response, where a read of it failed.
ReadFails(r, err) ==
  /\ ex[r].pc \in Reading \cup {"whole"} /\ err \in SUBSET Errors /\ err # {}
  /\ Fault(err, "upstream", "none", ctx[r])
  /\ ex' = [ex EXCEPT ![r] = ReadFailed(ex[r], err)]

\* A read that failed is a move, wherever it was noticed.
LEMMA ReadFailStep ==
  ASSUME RequestInv, NEW r \in Requests, NEW err, ReadFails(r, err), UNCHANGED <<ctx, totals, shared>>
  PROVE  Moves(r) /\ Apart(r)
<1>1. ex[r] \in Executions /\ ctx[r] \in Contexts /\ Truthful(ex[r], ctx[r])
  BY DEF RequestInv, TypeOK
<1>2. CASE ex[r].pc = "stream"
  <2>1. PICK f : f = BrokenOff(ex[r], err)
    OBVIOUS
  <2>2. ex[r].outcome = "unknown" /\ ex[r].sent = "upstream"
    BY <1>1, <1>2 DEF Truthful, Running
  <2>3. f \in Executions /\ Truthful(f, ctx[r]) /\ f.held = ex[r].held /\ f.usage = ex[r].usage
    BY <1>1, <2>1, <2>2, BrokenOffIs DEF ReadFails
  <2>4. ex' = [ex EXCEPT ![r] = f]
    BY <1>2, <2>1 DEF ReadFails, ReadFailed
  <2>5. Moves(r) /\ ex'[r] = f
    BY <2>3, <2>4, MovesBy
  <2> QED
    BY <2>3, <2>5 DEF Apart
<1>3. CASE ex[r].pc # "stream"
  <2>1. PICK stage \in Phases :
          stage = IF ex[r].pc = "grok" THEN "forward" ELSE IF ex[r].pc = "sniff" THEN "inspect" ELSE CopyPhase(err)
    BY CopyPhaseIs DEF Phases
  <2>2. ex[r].pc \in Early /\ ex[r].sent = "none"
    BY <1>1, <1>3 DEF ReadFails, Reading, Early, Truthful
  <2>3. Fault(err, "none", stage, ctx[r])
    BY DEF ReadFails, Fault
  <2>4. ex' = [ex EXCEPT ![r] = Failed(ex[r], stage, err)]
    BY <1>3, <2>1 DEF ReadFails, ReadFailed
  <2>5. FailsWith(r, stage, err)
    BY <2>2, <2>3, <2>4 DEF FailsWith, ReadFails, Running
  <2> QED
    BY <2>5, OnOrBroken DEF Breaks
<1> QED
  BY <1>2, <1>3

\* A provider that falls silent, or whose body cannot be read on.
LEMMA SilenceStep ==
  ASSUME RequestInv, NEW r \in Requests, IdleTimeout(r) \/ ReadBroken(r)
  PROVE  Moves(r) /\ Apart(r)
<1>1. UNCHANGED <<ctx, totals, shared>> /\ ex[r].pc \in Reading \cup {"whole"}
  BY DEF IdleTimeout, ReadBroken
<1>2. \E err : ReadFails(r, err)
  <2>1. CASE IdleTimeout(r)
    <3>1. PICK http : http = {"idle"} \cup (IF ExecDone(r) THEN {"canceled"} ELSE {})
      OBVIOUS
    <3>2. PICK socket : socket = {"deadline"} \cup (IF ExecDone(r) THEN {} ELSE {"idle"})
      OBVIOUS
    <3>3. PICK err \in {http, socket} : ex' = [ex EXCEPT ![r] = ReadFailed(ex[r], err)]
      BY <2>1, <3>1, <3>2 DEF IdleTimeout
    <3>4. /\ http \in SUBSET Errors /\ http # {} /\ socket \in SUBSET Errors /\ socket # {}
      BY <3>1, <3>2 DEF Errors
    <3>5. Fault(http, "upstream", "none", ctx[r])
      BY <3>1 DEF Fault, ExecDone
    <3>6. Fault(socket, "upstream", "none", ctx[r])
      BY <3>2 DEF Fault, ExecDone
    <3>7. ReadFails(r, err)
      BY <1>1, <3>3, <3>4, <3>5, <3>6 DEF ReadFails
    <3> QED
      BY <3>7
  <2>2. CASE ReadBroken(r)
    <3>1. PICK err : /\ err = {"transport"} \/ (err = {"canceled"} /\ ExecDone(r))
                     /\ ex' = [ex EXCEPT ![r] = ReadFailed(ex[r], err)]
      BY <2>2 DEF ReadBroken
    <3>2. err \in SUBSET Errors /\ err # {} /\ Fault(err, "upstream", "none", ctx[r])
      BY <3>1 DEF Errors, Fault, ExecDone
    <3>3. ReadFails(r, err)
      BY <1>1, <3>1, <3>2 DEF ReadFails
    <3> QED
      BY <3>3
  <2> QED
    BY <2>1, <2>2
<1>3. PICK err : ReadFails(r, err)
  BY <1>2
<1> QED
  BY <1>1, <1>3, ReadFailStep

\* The pool and Grok answer, fall back, refuse or are cut off.
LEMMA ForwardStep ==
  ASSUME RequestInv, NEW r \in Requests, ForwardWebSocket(r) \/ ForwardGrok(r)
  PROVE  Moves(r) /\ Apart(r)
<1>1. /\ UNCHANGED <<ctx, totals, shared>> /\ ex[r].pc = "forward"
      /\ ex[r] \in Executions /\ Truthful(ex[r], ctx[r])
  BY DEF ForwardWebSocket, ForwardGrok, RequestInv, TypeOK
<1>2. \/ ex' = [ex EXCEPT ![r].pc = "http"]
      \/ \E pc \in {"inspect", "grok"}, s \in {"ok", "error"} :
           ex' = [ex EXCEPT ![r].pc = pc, ![r].status = s]
      \/ \E err \in Broken(r) : ex' = [ex EXCEPT ![r] = ForwardFailed(r, err)]
  BY DEF ForwardWebSocket, ForwardGrok
<1>3. CASE ex' = [ex EXCEPT ![r].pc = "http"]
  <2>1. PICK e : e = [ex[r] EXCEPT !.pc = "http"]
    OBVIOUS
  <2>2. e \in Executions /\ StepsTo(r, e)
    BY <1>1, <2>1 DEF Executions, StepsTo, Truthful, Running, Pcs, Early, Unburdened
  <2>3. ex' = [ex EXCEPT ![r] = e]
    BY <1>3, <2>1
  <2> QED
    BY <1>1, <2>2, <2>3, OnOrBroken DEF GoesOn
<1>4. CASE \E pc \in {"inspect", "grok"}, s \in {"ok", "error"} :
             ex' = [ex EXCEPT ![r].pc = pc, ![r].status = s]
  <2>1. PICK pc \in {"inspect", "grok"}, s \in {"ok", "error"} :
          ex' = [ex EXCEPT ![r].pc = pc, ![r].status = s]
    BY <1>4
  <2>2. PICK e : e = [ex[r] EXCEPT !.pc = pc, !.status = s]
    OBVIOUS
  <2>3. e \in Executions /\ StepsTo(r, e)
    BY <1>1, <2>2 DEF Executions, StepsTo, Truthful, Running, Pcs, Early, Unburdened
  <2>4. ex' = [ex EXCEPT ![r] = e]
    BY <1>1, <2>1, <2>2 DEF RequestInv, TypeOK
  <2> QED
    BY <1>1, <2>3, <2>4, OnOrBroken DEF GoesOn
<1>5. CASE \E err \in Broken(r) : ex' = [ex EXCEPT ![r] = ForwardFailed(r, err)]
  <2>1. PICK err \in Broken(r) : ex' = [ex EXCEPT ![r] = ForwardFailed(r, err)]
    BY <1>5
  <2>2. Breaks(r)
    BY <1>1, <2>1, ForwardFails DEF Early
  <2> QED
    BY <1>1, <2>2, OnOrBroken
<1> QED
  BY <1>2, <1>3, <1>4, <1>5

\* An HTTP attempt is answered, retried after its backoff, or cut off.
LEMMA AttemptStep ==
  ASSUME RequestInv, NEW r \in Requests,
         (\E a \in {"ok", "capacity", "error"} : AttemptAnswered(r, a)) \/ Backoff(r)
  PROVE  Moves(r) /\ Apart(r)
<1>1. /\ UNCHANGED <<ctx, totals, shared>> /\ ex[r].pc \in {"http", "backoff"}
      /\ ex[r] \in Executions /\ Truthful(ex[r], ctx[r]) /\ ex \in [Requests -> Executions]
  BY DEF AttemptAnswered, Backoff, RequestInv, TypeOK
<1>2. ASSUME NEW e, ex' = [ex EXCEPT ![r] = e], e \in Executions, StepsTo(r, e)
      PROVE  GoesOn(r)
  BY <1>2 DEF GoesOn
<1>3. CASE \E a \in {"ok", "capacity", "error"} : AttemptAnswered(r, a)
  <2>1. PICK a \in {"ok", "capacity", "error"} : AttemptAnswered(r, a)
    BY <1>3
  <2>2. CASE StartDone(r)
    <3>1. Breaks(r)
      BY <1>1, <2>1, <2>2, CutOff DEF AttemptAnswered, Early
    <3> QED
      BY <1>1, <3>1, OnOrBroken
  <2>3. CASE ~StartDone(r) /\ RetryAgain(r, a)
    <3>1. PICK e : e = [ex[r] EXCEPT !.pc = "backoff"]
      OBVIOUS
    <3>2. e \in Executions /\ StepsTo(r, e)
      BY <1>1, <3>1 DEF Executions, StepsTo, Truthful, Running, Pcs, Early, Unburdened
    <3>3. ex' = [ex EXCEPT ![r] = e]
      BY <2>1, <2>3, <3>1 DEF AttemptAnswered
    <3> QED
      BY <1>1, <1>2, <3>2, <3>3, OnOrBroken
  <2>4. CASE ~StartDone(r) /\ ~RetryAgain(r, a)
    <3>1. PICK e : e = [ex[r] EXCEPT !.pc = "inspect", !.attempt = 0,
                                     !.status = IF a = "capacity" THEN "error" ELSE a]
      OBVIOUS
    <3>2. e \in Executions /\ StepsTo(r, e)
      BY <1>1, <3>1 DEF Executions, StepsTo, Truthful, Running, Pcs, Early, Unburdened
    <3>3. ex' = [ex EXCEPT ![r] = e]
      BY <2>1, <2>4, <3>1 DEF AttemptAnswered
    <3> QED
      BY <1>1, <1>2, <3>2, <3>3, OnOrBroken
  <2> QED
    BY <2>2, <2>3, <2>4
<1>4. CASE Backoff(r)
  <2>1. CASE ex' = [ex EXCEPT ![r].pc = "http", ![r].attempt = ex[r].attempt + 1]
    <3>1. PICK n : n = ex[r].attempt + 1
      OBVIOUS
    <3>2. n \in Nat
      BY <1>1, <3>1 DEF Executions
    <3>3. PICK e : e = [ex[r] EXCEPT !.pc = "http", !.attempt = n]
      OBVIOUS
    <3>4. e \in Executions /\ StepsTo(r, e)
      BY <1>1, <3>2, <3>3 DEF Executions, StepsTo, Truthful, Running, Pcs, Early, Unburdened
    <3>5. ex' = [ex EXCEPT ![r] = e]
      BY <1>1, <2>1, <3>1, <3>3
    <3> QED
      BY <1>1, <1>2, <3>4, <3>5, OnOrBroken
  <2>2. CASE StartDone(r) /\ ex' = [ex EXCEPT ![r] = ForwardFailed(r, {StartErr(r)})]
    <3>1. Breaks(r)
      BY <1>1, <2>2, CutOff DEF Early
    <3> QED
      BY <1>1, <3>1, OnOrBroken
  <2> QED
    BY <1>4, <2>1, <2>2 DEF Backoff
<1> QED
  BY <1>3, <1>4

\* Shaping the request.
LEMMA ShapeStep ==
  ASSUME RequestInv, NEW r \in Requests, \E tr, rec \in BOOLEAN : Shape(r, tr, rec)
  PROVE  Moves(r) /\ Apart(r)
<1>1. /\ UNCHANGED <<ctx, totals, shared>>
      /\ ex[r] \in Executions /\ Truthful(ex[r], ctx[r]) /\ ex \in [Requests -> Executions]
  BY DEF Shape, RequestInv, TypeOK
<1>2. PICK tr \in BOOLEAN, rec \in BOOLEAN : Shape(r, tr, rec)
  OBVIOUS
<1>3. PICK v \in BOOLEAN : v = Retained(r, rec)
  BY DEF Retained
<1>4. PICK e : e = [ex[r] EXCEPT !.pc = "forward", !.phase = "forward", !.tr = tr, !.visible = v]
  OBVIOUS
<1>5. e \in Executions
  BY <1>1, <1>4 DEF Executions, Pcs, Running, Early, Phases
<1>6. StepsTo(r, e)
  BY <1>1, <1>2, <1>4 DEF Executions, StepsTo, Truthful, Running, Early, Unburdened, Shape
<1>7. ex' = [ex EXCEPT ![r] = e]
  BY <1>1, <1>2, <1>3, <1>4 DEF Shape
<1> QED
  BY <1>1, <1>5, <1>6, <1>7, OnOrBroken DEF GoesOn

\* Looking at the response: a stream, a document, or more reading.
LEMMA InspectStep ==
  ASSUME RequestInv, NEW r \in Requests, Inspect(r) \/ Sniff(r) \/ GrokRead(r)
  PROVE  Moves(r) /\ Apart(r)
<1>1. /\ UNCHANGED <<ctx, totals, shared>> /\ ex[r].pc \in {"inspect", "sniff", "grok"}
      /\ ex[r] \in Executions /\ Truthful(ex[r], ctx[r]) /\ ex \in [Requests -> Executions]
  BY DEF Inspect, Sniff, GrokRead, Classified, RequestInv, TypeOK
<1>2. ASSUME NEW pc \in {"sniff", "json", "whole"}, NEW tr \in BOOLEAN,
             ex' = [ex EXCEPT ![r] = [ex[r] EXCEPT !.pc = pc, !.tr = tr]]
      PROVE  Moves(r) /\ Apart(r)
  <2>1. PICK e : e = [ex[r] EXCEPT !.pc = pc, !.tr = tr]
    OBVIOUS
  <2>2. e \in Executions /\ StepsTo(r, e)
    BY <1>1, <2>1 DEF Executions, StepsTo, Truthful, Running, Pcs, Early, Unburdened
  <2> QED
    BY <1>1, <1>2, <2>1, <2>2, OnOrBroken DEF GoesOn
<1>3. PICK sent \in Executions :
        /\ sent = Committed(ex[r]) /\ sent.sent = "upstream"
        /\ sent = [ex[r] EXCEPT !.sent = "upstream"]
  <2>1. PICK sent : sent = Committed(ex[r])
    OBVIOUS
  <2>2. ex[r].sent = "none"
    BY <1>1 DEF Truthful, Early
  <2>3. sent = [ex[r] EXCEPT !.sent = "upstream"]
    BY <2>1, <2>2 DEF Committed
  <2> QED
    BY <1>1, <2>1, <2>3 DEF Executions
<1>4. CASE ex' = [ex EXCEPT ![r].pc = "sniff"]
  <2>1. PICK tr \in BOOLEAN : tr = ex[r].tr
    BY <1>1 DEF Executions
  <2>2. [ex[r] EXCEPT !.pc = "sniff"] = [ex[r] EXCEPT !.pc = "sniff", !.tr = tr]
    BY <1>1, <2>1 DEF Executions
  <2>3. ex' = [ex EXCEPT ![r] = [ex[r] EXCEPT !.pc = "sniff", !.tr = tr]]
    BY <1>4, <2>2
  <2> QED
    BY <1>2, <2>3
<1>5. CASE ex' = [ex EXCEPT ![r].pc = "json", ![r].tr = FALSE]
  <2>1. ex' = [ex EXCEPT ![r] = [ex[r] EXCEPT !.pc = "json", !.tr = FALSE]]
    BY <1>1, <1>5
  <2> QED
    BY <1>2, <2>1
<1>6. CASE ex' = [ex EXCEPT ![r].pc = "whole", ![r].tr = FALSE]
  <2>1. ex' = [ex EXCEPT ![r] = [ex[r] EXCEPT !.pc = "whole", !.tr = FALSE]]
    BY <1>1, <1>6
  <2> QED
    BY <1>2, <2>1
<1>7. CASE ex' = [ex EXCEPT ![r] = [Committed(ex[r]) EXCEPT !.pc = "stream", !.tr = FALSE]]
  <2>1. PICK e : e = [sent EXCEPT !.pc = "stream", !.tr = FALSE]
    OBVIOUS
  <2>2. e \in Executions
    BY <1>3, <2>1 DEF Executions, Pcs, Running
  <2>3. StepsTo(r, e)
    BY <1>1, <1>3, <2>1 DEF Executions, StepsTo, Truthful, Running, Early, Unburdened
  <2>4. ex' = [ex EXCEPT ![r] = e]
    BY <1>3, <1>7, <2>1
  <2> QED
    BY <1>1, <2>2, <2>3, <2>4, OnOrBroken DEF GoesOn
<1>8. CASE ex' = [ex EXCEPT ![r] = Failed(Committed(ex[r]), "write", {"other"})]
  <2>1. PICK stage \in Phases, err \in SUBSET Errors : stage = "write" /\ err = {"other"}
    BY DEF Phases, Errors
  <2>2. PICK f : f = Failed(sent, stage, err)
    OBVIOUS
  <2>3. f \in Executions /\ f.held = sent.held /\ f.usage = sent.usage
    BY <2>2, FailedIs
  <2>4. sent.outcome = "unknown" /\ sent.held = ex[r].held /\ sent.usage = ex[r].usage
    BY <1>1, <1>3 DEF Executions, Truthful, Running, Early
  <2>5. err # {} /\ Fault(err, sent.sent, stage, ctx[r]) /\ ctx[r] \in Contexts
    BY <2>1 DEF Fault, RequestInv, TypeOK
  <2>6. Truthful(f, ctx[r])
    BY <2>2, <2>4, <2>5, FailedTruthful
  <2>7. ex' = [ex EXCEPT ![r] = f]
    BY <1>3, <1>8, <2>1, <2>2
  <2>8. Moves(r) /\ ex'[r] = f
    BY <1>1, <2>3, <2>6, <2>7, MovesBy
  <2> QED
    BY <1>1, <2>3, <2>4, <2>8 DEF Apart
<1>9. CASE ex' = [ex EXCEPT ![r] = Failed(ex[r], "transform", {"other"})]
  <2>1. FailsWith(r, "transform", {"other"})
    BY <1>1, <1>9 DEF FailsWith, Fault, Running, Early, Phases, Errors
  <2> QED
    BY <1>1, <2>1, OnOrBroken DEF Breaks
<1> QED
  BY <1>4, <1>5, <1>6, <1>7, <1>8, <1>9 DEF Inspect, Sniff, GrokRead, Classified

\* What an event leaves of a response.
LEMMA SeenIs ==
  ASSUME NEW e \in Executions, NEW t \in Terminals
  PROVE  LET f == Seen(Carrying(e), t) IN
         /\ f \in Executions /\ f.pc = e.pc /\ f.held = e.held /\ f.usage = e.usage /\ f.status = e.status
         /\ f.outcome = e.outcome /\ f.err = e.err /\ f.sent = e.sent
<1>1. PICK b \in BOOLEAN : b = (e.emitted \/ (e.status = "ok" /\ e.visible))
  BY DEF Executions
<1>2. PICK c : c = [e EXCEPT !.emitted = b]
  OBVIOUS
<1>3. /\ c = Carrying(e) /\ c \in Executions /\ c.pc = e.pc /\ c.held = e.held /\ c.usage = e.usage
      /\ c.status = e.status /\ c.outcome = e.outcome /\ c.err = e.err /\ c.sent = e.sent
  BY <1>1, <1>2 DEF Carrying, Executions
<1>4. PICK m \in Terminals : m = IF c.status = "ok" THEN Merge(c.terminal, t) ELSE c.terminal
  BY <1>3 DEF Merge, Executions, Terminals
<1>5. PICK f : f = [c EXCEPT !.terminal = m]
  OBVIOUS
<1>6. f = Seen(Carrying(e), t)
  BY <1>3, <1>4, <1>5 DEF Seen
<1>7. /\ f \in Executions /\ f.pc = c.pc /\ f.held = c.held /\ f.usage = c.usage /\ f.status = c.status
      /\ f.outcome = c.outcome /\ f.err = c.err /\ f.sent = c.sent
  BY <1>3, <1>5 DEF Executions
<1> QED
  BY <1>3, <1>6, <1>7

\* An event that ends nothing goes to the client.
LEMMA EventStep ==
  ASSUME RequestInv, NEW r \in Requests, Created(r) \/ InvalidEvent(r)
  PROVE  Moves(r) /\ Apart(r)
<1>1. /\ UNCHANGED <<ctx, totals, shared>> /\ ex[r].pc = "stream"
      /\ ex[r] \in Executions /\ Truthful(ex[r], ctx[r]) /\ ex \in [Requests -> Executions]
  BY DEF Created, InvalidEvent, RequestInv, TypeOK
<1>2. ASSUME NEW g \in Executions, ex' = [ex EXCEPT ![r] = [g EXCEPT !.pc = "writing"]],
             /\ g.held = ex[r].held /\ g.usage = ex[r].usage
             /\ g.outcome = ex[r].outcome /\ g.err = ex[r].err /\ g.sent = ex[r].sent
      PROVE  Moves(r) /\ Apart(r)
  <2>1. PICK e : e = [g EXCEPT !.pc = "writing"]
    OBVIOUS
  <2>2. e \in Executions /\ e.pc = "writing" /\ e.held = ex[r].held /\ e.usage = ex[r].usage
        /\ e.outcome = ex[r].outcome /\ e.err = ex[r].err /\ e.sent = ex[r].sent
    BY <1>2, <2>1 DEF Executions, Pcs, Running
  <2>3. StepsTo(r, e)
    BY <1>1, <2>2 DEF StepsTo, Truthful, Running, Early, Unburdened
  <2> QED
    BY <1>1, <1>2, <2>1, <2>2, <2>3, OnOrBroken DEF GoesOn
<1>3. CASE Created(r)
  <2>1. PICK g : g = Seen(Carrying(ex[r]), "pending")
    OBVIOUS
  <2>2. /\ g \in Executions /\ g.held = ex[r].held /\ g.usage = ex[r].usage
        /\ g.outcome = ex[r].outcome /\ g.err = ex[r].err /\ g.sent = ex[r].sent
    BY <1>1, <2>1, SeenIs DEF Terminals
  <2> QED
    BY <1>2, <1>3, <2>1, <2>2 DEF Created
<1>4. CASE InvalidEvent(r)
  <2>1. PICK m \in Terminals : m = IF ex[r].status = "ok" THEN Merge(ex[r].terminal, "invalid") ELSE ex[r].terminal
    BY <1>1 DEF Merge, Executions, Terminals
  <2>2. PICK g : g = [ex[r] EXCEPT !.terminal = m]
    OBVIOUS
  <2>3. /\ g \in Executions /\ g.held = ex[r].held /\ g.usage = ex[r].usage
        /\ g.outcome = ex[r].outcome /\ g.err = ex[r].err /\ g.sent = ex[r].sent
    BY <1>1, <2>2 DEF Executions
  <2>4. ex' = [ex EXCEPT ![r] = [g EXCEPT !.pc = "writing"]]
    BY <1>4, <2>1, <2>2 DEF InvalidEvent, Seen
  <2> QED
    BY <1>2, <2>3, <2>4
<1> QED
  BY <1>3, <1>4

\* The end of the body: an accepted response, an answered error or neither.
LEMMA ConcludedIs ==
  ASSUME NEW e \in Executions, NEW x \in Contexts,
         e.outcome = "unknown", e.err = {},
         (e.status = "ok" /\ e.terminal \notin Accepted) \/ e.sent = "upstream"
  PROVE  LET f == Concluded(e) IN
         /\ f \in Executions /\ Truthful(f, x)
         /\ f.pc = "unwind" /\ f.held = e.held /\ f.usage = e.usage
<1> DEFINE f == Concluded(e)
<1>1. CASE e.status = "ok" /\ e.terminal \notin Accepted
  <2>1. f = Failed(e, "validate", {"noterminal"})
    BY <1>1 DEF Concluded
  <2>2. "validate" \in Phases /\ {"noterminal"} \in SUBSET Errors /\ Fault({"noterminal"}, e.sent, "validate", x)
    BY DEF Phases, Errors, Fault
  <2> HIDE DEF f
  <2>3. Truthful(f, x)
    BY <2>1, <2>2, FailedTruthful
  <2>4. f \in Executions /\ f.pc = "unwind" /\ f.held = e.held /\ f.usage = e.usage
    BY <2>1, <2>2, FailedIs
  <2> QED
    BY <2>3, <2>4 DEF f
<1>2. CASE e.status = "ok" /\ e.terminal \in Accepted /\ e.terminal # "failed"
  <2>1. f = [e EXCEPT !.pc = "unwind", !.outcome = "completed", !.phase = "none", !.visible = FALSE]
    BY <1>2 DEF Concluded
  <2> HIDE DEF f
  <2>2. f \in Executions
    BY <2>1 DEF Executions, Pcs, Phases, Final
  <2>3. /\ f.pc = "unwind" /\ f.outcome = "completed" /\ f.held = e.held /\ f.usage = e.usage
        /\ f.err = e.err /\ f.sent = e.sent /\ f.status = e.status /\ f.terminal = e.terminal
    BY <2>1 DEF Executions
  <2>4. Truthful(f, x)
    BY <1>2, <2>3 DEF Truthful, Concluding, Fault, Running, Early, Accepted, Unburdened
  <2> QED
    BY <2>2, <2>3, <2>4 DEF f
<1>3. CASE ~(e.status = "ok" /\ e.terminal \notin Accepted) /\ ~(e.status = "ok" /\ e.terminal # "failed")
  <2>1. f = [e EXCEPT !.pc = "unwind", !.outcome = "failed", !.phase = "validate", !.visible = FALSE,
                      !.status = None, !.terminal = "unknown"]
    BY <1>3 DEF Concluded
  <2> HIDE DEF f
  <2>2. f \in Executions
    BY <2>1 DEF Executions, Pcs, Phases, Final, Terminals
  <2>3. /\ f.pc = "unwind" /\ f.outcome = "failed" /\ f.held = e.held /\ f.usage = e.usage
        /\ f.err = e.err /\ f.sent = e.sent
    BY <2>1 DEF Executions
  <2>4. Truthful(f, x)
    BY <1>3, <2>3 DEF Truthful, Concluding, Fault, Running, Early, Unburdened
  <2> QED
    BY <2>2, <2>3, <2>4 DEF f
<1> QED
  BY <1>1, <1>2, <1>3

\* A response of which only the last writes are left.
LEMMA LastIs ==
  ASSUME NEW e \in Executions, NEW x \in Contexts, e.outcome = "unknown", e.err = {}, e.sent = "upstream"
  PROVE  LET f == [e EXCEPT !.pc = "last"] IN
         f \in Executions /\ Truthful(f, x) /\ f.held = e.held /\ f.usage = e.usage
<1>1. PICK f : f = [e EXCEPT !.pc = "last"]
  OBVIOUS
<1>2. /\ f \in Executions /\ f.pc = "last" /\ f.held = e.held /\ f.usage = e.usage
      /\ f.outcome = e.outcome /\ f.err = e.err /\ f.sent = e.sent
  BY <1>1 DEF Executions, Pcs
<1>3. Truthful(f, x)
  BY <1>2 DEF Truthful, Fault, Running, Early, Unburdened
<1> QED
  BY <1>1, <1>2, <1>3

\* A failed transform is an error of the copy.
LEMMA TransformFault ==
  ASSUME NEW x
  PROVE  {"transform"} \in SUBSET Errors /\ Fault({"transform"}, "upstream", "none", x)
  BY DEF Errors, Fault

\* A stream that ends without a terminal event.
LEMMA StreamEndStep ==
  ASSUME RequestInv, NEW r \in Requests, StreamEnds(r)
  PROVE  Moves(r) /\ Apart(r)
<1>1. /\ UNCHANGED <<ctx, totals, shared>> /\ ex[r].pc = "stream"
      /\ ex[r] \in Executions /\ ctx[r] \in Contexts /\ Truthful(ex[r], ctx[r])
  BY DEF StreamEnds, RequestInv, TypeOK
<1>2. ex[r].outcome = "unknown" /\ ex[r].err = {} /\ ex[r].sent = "upstream"
  BY <1>1 DEF Truthful, Running
<1>3. PICK f : /\ ex' = [ex EXCEPT ![r] = f]
               /\ f = [ex[r] EXCEPT !.pc = "last"] \/ f = BrokenOff(ex[r], {"transform"})
  BY DEF StreamEnds
<1>4. f \in Executions /\ Truthful(f, ctx[r]) /\ f.held = ex[r].held /\ f.usage = ex[r].usage
  BY <1>1, <1>2, <1>3, LastIs, BrokenOffIs, TransformFault
<1>5. Moves(r) /\ ex'[r] = f
  BY <1>1, <1>3, <1>4, MovesBy
<1> QED
  BY <1>1, <1>4, <1>5 DEF Apart

\* The copy of a response returns: it is concluded, or its error ends the body.
LEMMA WriteStep ==
  ASSUME RequestInv, NEW r \in Requests, Written(r) \/ WriteBroken(r)
  PROVE  Moves(r) /\ Apart(r)
<1>1. /\ UNCHANGED <<ctx, totals, shared>> /\ ex[r].pc \in {"writing", "last"}
      /\ ex[r] \in Executions /\ ctx[r] \in Contexts /\ Truthful(ex[r], ctx[r])
  BY DEF Written, WriteBroken, Writing, RequestInv, TypeOK
<1>2. /\ ex[r].outcome = "unknown" /\ ex[r].sent = "upstream"
      /\ ex[r].err \in SUBSET Errors /\ Fault(ex[r].err, "upstream", "none", ctx[r])
      /\ ex[r].pc = "writing" => ex[r].err = {} /\ ex[r].usage = None
  BY <1>1 DEF Truthful, Running, Executions, Fault
<1>3. CASE Written(r) /\ ex[r].pc = "writing"
  <2>1. PICK e : e = [ex[r] EXCEPT !.pc = "stream"]
    OBVIOUS
  <2>2. e \in Executions /\ StepsTo(r, e)
    BY <1>1, <1>2, <1>3, <2>1 DEF Executions, StepsTo, Running, Pcs, Early, Unburdened
  <2>3. ex' = [ex EXCEPT ![r] = e]
    BY <1>3, <2>1 DEF Written
  <2> QED
    BY <1>1, <2>2, <2>3, OnOrBroken DEF GoesOn
<1>4. CASE ~(Written(r) /\ ex[r].pc = "writing")
  <2>1. PICK err \in {ex[r].err, ex[r].err \cup {"write"}} : ex' = [ex EXCEPT ![r] = Copied(ex[r], err)]
    BY <1>1, <1>4 DEF Written, WriteBroken
  <2>2. PICK f : f = Copied(ex[r], err)
    OBVIOUS
  <2>3. f \in Executions /\ Truthful(f, ctx[r]) /\ f.held = ex[r].held /\ f.usage = ex[r].usage
    <3>1. CASE err = {}
      <4>1. ex[r].err = {} /\ f = Concluded(ex[r])
        BY <2>1, <2>2, <3>1 DEF Copied
      <4> QED
        BY <1>1, <1>2, <4>1, ConcludedIs
    <3>2. CASE err # {}
      <4>1. PICK stage \in Phases : stage = CopyPhase(err)
        BY CopyPhaseIs
      <4>2. f = Failed(ex[r], stage, err)
        BY <2>2, <3>2, <4>1 DEF Copied
      <4>3. err \in SUBSET Errors
        BY <1>2, <2>1 DEF Errors
      <4>4. Fault(err, "upstream", stage, ctx[r])
        <5>1. PICK old \in SUBSET Errors : old = ex[r].err
          BY <1>2
        <5>2. Fault(old, "upstream", stage, ctx[r]) /\ Fault(old \cup {"write"}, "upstream", stage, ctx[r])
          BY <1>1, <1>2, <5>1, FaultSpreads
        <5> QED
          BY <2>1, <5>1, <5>2
      <4>5. Truthful(f, ctx[r])
        BY <1>1, <1>2, <3>2, <4>2, <4>3, <4>4, FailedTruthful
      <4>6. f \in Executions /\ f.held = ex[r].held /\ f.usage = ex[r].usage
        BY <1>1, <4>2, <4>3, FailedIs
      <4> QED
        BY <4>5, <4>6
    <3> QED
      BY <3>1, <3>2
  <2>4. Moves(r) /\ ex'[r] = f
    BY <1>1, <2>1, <2>2, <2>3, MovesBy
  <2> QED
    BY <1>1, <2>3, <2>4 DEF Apart
<1> QED
  BY <1>3, <1>4

\* A response that ends: its usage is counted and its notices stay with it.
Ends(r) == \E tokens \in Usages :
  /\ ex[r].usage = None /\ ex'[r].usage = tokens /\ ex'[r].held = ex[r].held
  /\ Observed(r, tokens) /\ UNCHANGED shared

\* What a response may report.
LEMMA UsagesAre ==
  ASSUME NEW tokens \in Usages
  PROVE  tokens \in Nat \cup {None}
  BY ExecutionAssumption DEF Usages

\* The terminal event of a stream.
LEMMA TerminalStep ==
  ASSUME RequestInv, NEW r \in Requests, NEW t \in Accepted, NEW tokens \in Usages,
         NEW d \in {"ok", "transform"}, TerminalEvent(r, t, tokens, d)
  PROVE  Moves(r) /\ Ends(r)
<1>1. /\ UNCHANGED <<ctx, shared>> /\ Observed(r, tokens) /\ ex[r].pc = "stream"
      /\ ex[r] \in Executions /\ ctx[r] \in Contexts /\ Truthful(ex[r], ctx[r])
  BY DEF TerminalEvent, RequestInv, TypeOK
<1>2. ex[r].usage = None /\ ex[r].sent = "upstream" /\ ex[r].outcome = "unknown" /\ ex[r].err = {}
  BY <1>1 DEF Truthful, Running
<1>3. PICK g : g = Seen(Carrying(ex[r]), t)
  OBVIOUS
<1>4. /\ g \in Executions /\ g.held = ex[r].held
      /\ g.outcome = "unknown" /\ g.err = {} /\ g.sent = "upstream"
  BY <1>1, <1>2, <1>3, SeenIs DEF Accepted, Terminals
<1>5. PICK e : e = [g EXCEPT !.pc = "last", !.usage = tokens]
  OBVIOUS
<1>6. /\ e \in Executions /\ e.usage = tokens /\ e.held = ex[r].held /\ e.pc = "last"
      /\ e.outcome = "unknown" /\ e.err = {} /\ e.sent = "upstream"
  BY <1>4, <1>5, UsagesAre DEF Executions, Pcs
<1>7. PICK f : f = IF d = "ok" THEN e ELSE BrokenOff(e, {"transform"})
  OBVIOUS
<1>8. ex' = [ex EXCEPT ![r] = f]
  BY <1>3, <1>5, <1>7 DEF TerminalEvent
<1>9. f \in Executions /\ Truthful(f, ctx[r]) /\ f.held = e.held /\ f.usage = e.usage
  <2>1. CASE d = "ok"
    <3>1. Truthful(e, ctx[r])
      BY <1>6 DEF Truthful, Fault, Running, Early, Unburdened
    <3> QED
      BY <1>6, <1>7, <2>1, <3>1
  <2>2. CASE d # "ok"
    BY <1>1, <1>6, <1>7, <2>2, BrokenOffIs, TransformFault
  <2> QED
    BY <2>1, <2>2
<1>10. Moves(r) /\ ex'[r] = f
  BY <1>1, <1>8, <1>9, MovesBy
<1> QED
  BY <1>1, <1>2, <1>6, <1>9, <1>10 DEF Ends

\* The document of a response, read and about to be written, or refused.
LEMMA DocumentStep ==
  ASSUME RequestInv, NEW r \in Requests, Documents(r)
  PROVE  Moves(r) /\ Ends(r)
<1>1. PICK t \in {"completed", "failed", "pending", "unknown"}, tokens \in Usages, d \in {"ok", "transform"} :
        ReadJSON(r, t, tokens, d)
  BY DEF Documents
<1>2. /\ UNCHANGED <<ctx, shared>> /\ Observed(r, tokens) /\ ex[r].pc \in {"json", "whole"}
      /\ ex[r] \in Executions /\ ctx[r] \in Contexts /\ Truthful(ex[r], ctx[r])
  BY <1>1 DEF ReadJSON, RequestInv, TypeOK
<1>3. ex[r].usage = None /\ ex[r].sent = "none" /\ ex[r].outcome = "unknown" /\ ex[r].err = {}
  BY <1>2 DEF Truthful, Running, Early
<1>4. PICK b \in BOOLEAN : b = (ex[r].emitted \/ (ex[r].status = "ok" /\ ex[r].visible))
  BY <1>2 DEF Executions
<1>5. PICK c : c = [ex[r] EXCEPT !.emitted = b]
  OBVIOUS
<1>6. /\ c = Carrying(ex[r]) /\ c \in Executions /\ c.held = ex[r].held /\ c.status = ex[r].status
      /\ c.outcome = "unknown" /\ c.err = {} /\ c.sent = "none"
  BY <1>2, <1>3, <1>4, <1>5 DEF Carrying, Executions
<1>7. PICK e : e = [c EXCEPT !.usage = tokens, !.terminal = t]
  OBVIOUS
<1>8. /\ e \in Executions /\ e.usage = tokens /\ e.held = ex[r].held /\ e.terminal = t
      /\ e.status = ex[r].status /\ e.outcome = "unknown" /\ e.err = {} /\ e.sent = "none"
  BY <1>6, <1>7, UsagesAre DEF Executions, Terminals
<1>9. ASSUME NEW f \in Executions, ex' = [ex EXCEPT ![r] = f], Truthful(f, ctx[r]),
             f.held = e.held, f.usage = e.usage
      PROVE  Moves(r) /\ Ends(r)
  <2>1. Moves(r) /\ ex'[r] = f
    BY <1>2, <1>9, MovesBy
  <2> QED
    BY <1>2, <1>3, <1>8, <1>9, <2>1 DEF Ends
<1>10. CASE d = "transform"
  <2>1. PICK stage \in Phases, err \in SUBSET Errors : stage = "transform" /\ err = {"transform"}
    BY DEF Phases, Errors
  <2>2. PICK f : f = Failed(e, stage, err)
    OBVIOUS
  <2>3. f \in Executions /\ f.held = e.held /\ f.usage = e.usage /\ f.err # {}
    BY <1>8, <2>1, <2>2, FailedIs
  <2>4. err # {} /\ Fault(err, e.sent, stage, ctx[r])
    BY <2>1 DEF Fault
  <2>5. Truthful(f, ctx[r])
    BY <1>2, <1>8, <2>2, <2>4, FailedTruthful
  <2>6. CopiedJSON(ex[r], t, tokens, d) = f
    BY <1>6, <1>7, <1>10, <2>1, <2>2 DEF CopiedJSON
  <2>7. ex' = [ex EXCEPT ![r] = f]
    BY <1>1, <2>3, <2>6 DEF ReadJSON
  <2> QED
    BY <1>9, <2>3, <2>5, <2>7
<1>11. CASE d = "ok"
  <2>1. CopiedJSON(ex[r], t, tokens, d) = e /\ (Ok(r) <=> e.status = "ok")
    BY <1>6, <1>7, <1>8, <1>11 DEF CopiedJSON, Ok
  <2>2. CASE Ok(r) /\ t \notin Accepted
    <3>1. PICK f : f = Concluded(e)
      OBVIOUS
    <3>2. f \in Executions /\ Truthful(f, ctx[r]) /\ f.held = e.held /\ f.usage = e.usage
      BY <1>2, <1>8, <2>1, <2>2, <3>1, ConcludedIs
    <3>3. ex' = [ex EXCEPT ![r] = f]
      BY <1>1, <1>8, <2>1, <2>2, <3>1 DEF ReadJSON
    <3> QED
      BY <1>9, <3>2, <3>3
  <2>3. CASE ~(Ok(r) /\ t \notin Accepted)
    <3>1. PICK sent : sent = [e EXCEPT !.sent = "upstream"]
      OBVIOUS
    <3>2. /\ sent = Committed(e) /\ sent \in Executions /\ sent.usage = e.usage /\ sent.held = e.held
          /\ sent.outcome = "unknown" /\ sent.err = {} /\ sent.sent = "upstream"
      BY <1>8, <3>1 DEF Committed, Executions
    <3>3. PICK f : f = [sent EXCEPT !.pc = "last"]
      OBVIOUS
    <3>4. f \in Executions /\ Truthful(f, ctx[r]) /\ f.held = e.held /\ f.usage = e.usage
      BY <1>2, <3>2, <3>3, LastIs
    <3>5. ex' = [ex EXCEPT ![r] = f]
      BY <1>1, <1>8, <2>1, <2>3, <3>2, <3>3 DEF ReadJSON
    <3> QED
      BY <1>9, <3>4, <3>5
  <2> QED
    BY <2>2, <2>3
<1> QED
  BY <1>10, <1>11

-----------------------------------------------------------------------------
(* The queue of notices and the totals.                                    *)

Entries == [count : Nat \ {0}, delivered : Nat, inFlight : BOOLEAN]
Counts == [c \in DOMAIN entries |-> entries[c].count]

\* The queue accounts for every failure.
QueueInv ==
  /\ IsFiniteSet(DOMAIN entries) /\ DOMAIN entries \subseteq Categories
  /\ entries \in [DOMAIN entries -> Entries]
  /\ overflow \in Nat /\ failures \in Nat
  /\ Total(Counts, DOMAIN entries) + overflow = failures

\* A notice is carried by one request at most, and is in flight while it is.
CarryInv ==
  /\ \A r \in Requests : DOMAIN ex[r].held \subseteq DOMAIN entries
  /\ \A r, s \in Requests : DOMAIN ex[r].held \cap DOMAIN ex[s].held # {} => r = s
  /\ \A c \in DOMAIN entries : entries[c].inFlight <=> \E r \in Requests : c \in DOMAIN ex[r].held
  /\ \A c \in DOMAIN entries : entries[c].delivered > 0 => c \in carried

\* The requests of a thread whose response reported its usage.
Reporting(th) == {r \in Requests : ThreadOf[r] = th /\ ex[r].usage # None}
Usage == [r \in Requests |-> ex[r].usage]

\* A thread that is not tracked had no usage, or found the table full.
UsageInv ==
  /\ IsFiniteSet(DOMAIN totals) /\ totals \in [DOMAIN totals -> [sum : Nat, complete : BOOLEAN]]
  /\ ~Mekugi => DOMAIN totals = {}
  /\ \A th : IsFiniteSet(Reporting(th))
  /\ \A th \in DOMAIN totals : totals[th].complete => totals[th].sum = Total(Usage, Reporting(th))
  /\ Mekugi => \A r \in Requests : ex[r].usage # None /\ ThreadOf[r] \notin DOMAIN totals =>
                 Cardinality(DOMAIN totals) >= ThreadLimit

ExecutionInv == RequestInv /\ QueueInv /\ CarryInv /\ UsageInv

\* What a request may carry.
LEMMA NoticesIs ==
  /\ \A h \in Notices : DOMAIN h \subseteq Categories /\ \A c \in DOMAIN h : h[c] \in Nat
  /\ \A S \in SUBSET Categories : \A h \in [S -> Nat] : h \in Notices
  /\ NoNotices \in Notices /\ DOMAIN NoNotices = {}
<1>1. \A h \in Notices : DOMAIN h \subseteq Categories /\ \A c \in DOMAIN h : h[c] \in Nat
  BY DEF Notices
<1>2. \A S \in SUBSET Categories : \A h \in [S -> Nat] : h \in Notices
  BY DEF Notices
<1>3. NoNotices \in [{} -> Nat] /\ DOMAIN NoNotices = {}
  BY DEF NoNotices
<1> QED
  BY <1>1, <1>2, <1>3

\* A step that leaves the queue alone, and every request with the notices it had.
LEMMA QueueApart ==
  ASSUME QueueInv, CarryInv, UNCHANGED shared,
         \A s \in Requests : DOMAIN ex'[s].held = DOMAIN ex[s].held
  PROVE  QueueInv' /\ CarryInv'
<1>1. entries' = entries /\ overflow' = overflow /\ failures' = failures /\ carried' = carried
  BY DEF shared
<1>2. Counts' = Counts
  BY <1>1 DEF Counts
<1>3. QueueInv'
  BY <1>1, <1>2 DEF QueueInv
<1>4. CarryInv'
  BY <1>1 DEF CarryInv
<1> QED
  BY <1>3, <1>4

\* A step that leaves the totals and the usage of every request alone.
LEMMA UsageApart ==
  ASSUME UsageInv, UNCHANGED totals, \A s \in Requests : ex'[s].usage = ex[s].usage
  PROVE  UsageInv'
<1>1. Usage' = Usage
  BY DEF Usage
<1>2. \A th : Reporting(th)' = Reporting(th)
  BY DEF Reporting
<1> QED
  BY <1>1, <1>2 DEF UsageInv

\* The others stay.
LEMMA MovesAlone ==
  ASSUME RequestInv, NEW r \in Requests, Moves(r)
  PROVE  \A s \in Requests \ {r} : ex'[s] = ex[s]
  BY DEF Moves, RequestInv, TypeOK

\* A step apart keeps everything.
LEMMA ApartStep ==
  ASSUME ExecutionInv, NEW r \in Requests, Moves(r), Apart(r)
  PROVE  ExecutionInv'
<1>1. \A s \in Requests : ex'[s].held = ex[s].held /\ ex'[s].usage = ex[s].usage
  BY MovesAlone DEF Apart, ExecutionInv
<1>2. QueueInv' /\ CarryInv'
  BY <1>1, QueueApart DEF Apart, ExecutionInv
<1>3. UsageInv'
  BY <1>1, UsageApart DEF Apart, ExecutionInv
<1>4. RequestInv'
  BY MovesKeep DEF ExecutionInv
<1> QED
  BY <1>2, <1>3, <1>4 DEF ExecutionInv

\* Entries that keep their counts keep the account.
LEMMA SameCounts ==
  ASSUME QueueInv, DOMAIN entries' = DOMAIN entries, entries' \in [DOMAIN entries -> Entries],
         \A c \in DOMAIN entries : entries'[c].count = entries[c].count, UNCHANGED <<overflow, failures>>
  PROVE  QueueInv'
<1>1. Counts' = Counts
  BY DEF Counts
<1> QED
  BY <1>1 DEF QueueInv

\* The claim of CriticalErrors.transform: what is carried is in flight, for one request.
LEMMA ClaimStep ==
  ASSUME ExecutionInv, NEW r \in Requests, Claim(r)
  PROVE  ExecutionInv'
<1>1. /\ ex[r].pc = "claim" /\ ex[r] \in Executions /\ ctx[r] \in Contexts /\ Truthful(ex[r], ctx[r])
      /\ ex \in [Requests -> Executions] /\ DOMAIN ex[r].held = {} /\ RequestInv
      /\ UNCHANGED <<ctx, totals, overflow, failures, carried>>
  BY DEF Claim, ExecutionInv, RequestInv, TypeOK, Truthful, Unburdened
<1>2. CASE StartDone(r)
  <2>1. PICK err \in {{"deadline"}, {"canceled"}} : err = {StartErr(r)}
    BY <1>1, StartErrIs
  <2>2. FailsWith(r, "prepare", WithStartCause(r, err))
    <3>1. PICK f : f = WithStartCause(r, err)
      OBVIOUS
    <3>2. f \in SUBSET Errors /\ f # {} /\ Fault(f, "none", "prepare", ctx[r])
      BY <1>1, <1>2, <2>1, <3>1, StartCause
    <3>3. ex' = [ex EXCEPT ![r] = Failed(ex[r], "prepare", f)] /\ ex[r].sent = "none"
      BY <1>1, <1>2, <2>1, <3>1 DEF Claim, Truthful, Early
    <3> QED
      BY <1>1, <3>1, <3>2, <3>3 DEF FailsWith, Running, Early, Phases
  <2>3. UNCHANGED <<ctx, totals, shared>>
    BY <1>1, <1>2 DEF Claim, shared
  <2>4. Moves(r) /\ Apart(r)
    BY <1>1, <2>2, <2>3, OnOrBroken DEF Breaks
  <2> QED
    BY <2>4, ApartStep
<1>3. CASE ~StartDone(r)
  <2>1. PICK h : h = [c \in Claimable |-> NoticeText(c)]
    OBVIOUS
  <2>2. PICK new : new = [c \in DOMAIN entries |->
               IF c \in Claimable THEN [entries[c] EXCEPT !.inFlight = TRUE] ELSE entries[c]]
    OBVIOUS
  <2>3. ex' = [ex EXCEPT ![r].pc = "shape", ![r].held = h] /\ entries' = new
    BY <1>3, <2>1, <2>2 DEF Claim
  <2>4. PICK D : D = Claimable
    OBVIOUS
  <2>5. /\ D \subseteq DOMAIN entries /\ \A c \in D : entries[c].delivered = 0 /\ ~entries[c].inFlight
    BY <2>4 DEF Claimable
  <2>6. h \in Notices /\ DOMAIN h = D
    <3>1. h = [c \in D |-> entries[c].count]
      BY <2>1, <2>4 DEF NoticeText
    <3>2. D \in SUBSET Categories /\ h \in [D -> Nat]
      BY <2>5, <3>1 DEF ExecutionInv, QueueInv, Entries
    <3> QED
      BY <3>1, <3>2, NoticesIs
  <2>7. PICK e : e = [ex[r] EXCEPT !.pc = "shape", !.held = h]
    OBVIOUS
  <2>8. e \in Executions
    BY <1>1, <2>6, <2>7 DEF Executions, Pcs, Running, Early
  <2>9. /\ e.pc = "shape" /\ e.held = h /\ e.usage = ex[r].usage /\ e.sent = ex[r].sent
        /\ e.outcome = ex[r].outcome /\ e.err = ex[r].err
    BY <1>1, <2>7 DEF Executions
  <2>10. Truthful(e, ctx[r])
    BY <1>1, <2>9 DEF Truthful, Running, Early, Unburdened
  <2>11. ex' = [ex EXCEPT ![r] = e]
    BY <1>1, <2>3, <2>7
  <2>12. Moves(r) /\ ex'[r] = e
    BY <1>1, <2>8, <2>10, <2>11, MovesBy
  <2>13. RequestInv' /\ \A s \in Requests \ {r} : ex'[s] = ex[s]
    BY <1>1, <2>12, MovesKeep, MovesAlone
  <2>14. /\ DOMAIN new = DOMAIN entries /\ new \in [DOMAIN entries -> Entries]
         /\ \A c \in DOMAIN entries :
              /\ new[c].count = entries[c].count /\ new[c].delivered = entries[c].delivered
              /\ new[c].inFlight <=> entries[c].inFlight \/ c \in D
    BY <2>2, <2>4 DEF ExecutionInv, QueueInv, Entries
  <2>15. QueueInv'
    BY <1>1, <2>3, <2>14, SameCounts DEF ExecutionInv
  <2>16. \A s \in Requests : DOMAIN ex'[s].held = IF s = r THEN D ELSE DOMAIN ex[s].held
    BY <2>6, <2>9, <2>12, <2>13
  <2>17. \A s \in Requests : DOMAIN ex[s].held \cap D = {}
    BY <2>5 DEF ExecutionInv, CarryInv
  <2>18. CarryInv'
    <3>1. \A s \in Requests : DOMAIN ex'[s].held \subseteq DOMAIN entries'
      <4>1. DOMAIN entries' = DOMAIN entries
        BY <2>3, <2>14
      <4>2. \A s \in Requests : DOMAIN ex[s].held \subseteq DOMAIN entries
        BY DEF ExecutionInv, CarryInv
      <4> QED
        BY <2>5, <2>16, <4>1, <4>2
    <3>2. \A s, u \in Requests : DOMAIN ex'[s].held \cap DOMAIN ex'[u].held # {} => s = u
      BY <2>16, <2>17 DEF ExecutionInv, CarryInv
    <3>3. \A c \in DOMAIN entries' : entries'[c].inFlight <=> \E s \in Requests : c \in DOMAIN ex'[s].held
      <4> SUFFICES ASSUME NEW c \in DOMAIN entries
                   PROVE  new[c].inFlight <=> \E s \in Requests : c \in DOMAIN ex'[s].held
        BY <2>3, <2>14
      <4>1. new[c].inFlight <=> (\E s \in Requests : c \in DOMAIN ex[s].held) \/ c \in D
        BY <2>14 DEF ExecutionInv, CarryInv
      <4> QED
        BY <1>1, <2>16, <4>1
    <3>4. \A c \in DOMAIN entries' : entries'[c].delivered > 0 => c \in carried'
      BY <1>1, <2>3, <2>14 DEF ExecutionInv, CarryInv
    <3> QED
      BY <3>1, <3>2, <3>3, <3>4 DEF CarryInv
  <2>19. UsageInv'
    <3>1. \A s \in Requests : ex'[s].usage = ex[s].usage
      BY <2>9, <2>12, <2>13
    <3> QED
      BY <1>1, <3>1, UsageApart DEF ExecutionInv
  <2> QED
    BY <2>13, <2>15, <2>18, <2>19 DEF ExecutionInv
<1> QED
  BY <1>2, <1>3

\* criticalErrorTransform.finish: the claim ends, and what a response carried is delivered.
LEMMA SettleStep ==
  ASSUME ExecutionInv, NEW r \in Requests, SettleNotices(r)
  PROVE  ExecutionInv'
<1>1. /\ ex[r].pc = "unwind" /\ ex[r] \in Executions /\ ctx[r] \in Contexts /\ Truthful(ex[r], ctx[r])
      /\ ex \in [Requests -> Executions] /\ RequestInv
      /\ UNCHANGED <<ctx, totals, overflow, failures>>
  BY DEF SettleNotices, ExecutionInv, RequestInv, TypeOK
<1>2. PICK h : h = ex[r].held
  OBVIOUS
<1>3. h \in Notices /\ DOMAIN h \subseteq DOMAIN entries /\ \A c \in DOMAIN h : h[c] \in Nat
  BY <1>1, <1>2, NoticesIs DEF Executions, ExecutionInv, CarryInv
<1>4. PICK new : new = [c \in DOMAIN entries |->
       IF c \notin DOMAIN h THEN entries[c]
       ELSE [entries[c] EXCEPT !.inFlight = FALSE, !.delivered = IF Delivered(r) THEN h[c] ELSE @]]
  OBVIOUS
<1>5. entries' = new /\ carried' = (IF Delivered(r) THEN carried \cup DOMAIN h ELSE carried)
  BY <1>2, <1>4 DEF SettleNotices
<1>6. /\ DOMAIN new = DOMAIN entries /\ new \in [DOMAIN entries -> Entries]
      /\ \A c \in DOMAIN entries :
           /\ new[c].count = entries[c].count
           /\ new[c].inFlight <=> entries[c].inFlight /\ c \notin DOMAIN h
           /\ new[c].delivered = entries[c].delivered \/ (Delivered(r) /\ c \in DOMAIN h)
  <2>1. \A c \in DOMAIN entries : entries[c] \in Entries
    BY DEF ExecutionInv, QueueInv
  <2>2. ASSUME NEW c \in DOMAIN entries, c \in DOMAIN h
        PROVE  /\ new[c] \in Entries /\ new[c].count = entries[c].count /\ ~new[c].inFlight
               /\ new[c].delivered = entries[c].delivered \/ Delivered(r)
    <3>1. PICK d \in Nat : d = IF Delivered(r) THEN h[c] ELSE entries[c].delivered
      BY <1>3, <2>1, <2>2 DEF Entries
    <3>2. new[c] = [entries[c] EXCEPT !.inFlight = FALSE, !.delivered = d]
      BY <1>4, <2>1, <2>2, <3>1 DEF Entries
    <3> QED
      BY <2>1, <3>1, <3>2 DEF Entries
  <2>3. ASSUME NEW c \in DOMAIN entries, c \notin DOMAIN h PROVE new[c] = entries[c]
    BY <1>4, <2>3
  <2>4. DOMAIN new = DOMAIN entries /\ new = [c \in DOMAIN entries |-> new[c]]
    BY <1>4
  <2> QED
    BY <2>1, <2>2, <2>3, <2>4
<1>7. QueueInv'
  BY <1>1, <1>5, <1>6, SameCounts DEF ExecutionInv
<1>8. PICK e : e = [ex[r] EXCEPT !.pc = "report", !.held = NoNotices, !.emitted = FALSE,
                                 !.visible = FALSE, !.tr = FALSE]
  OBVIOUS
<1>9. ex' = [ex EXCEPT ![r] = e]
  BY <1>1, <1>8 DEF SettleNotices
<1>10. e \in Executions
  BY <1>1, <1>8, NoticesIs DEF Executions, Pcs
<1>11. /\ e.pc = "report" /\ DOMAIN e.held = {} /\ e.usage = ex[r].usage /\ e.sent = ex[r].sent
       /\ e.outcome = ex[r].outcome /\ e.err = ex[r].err /\ e.status = ex[r].status
       /\ e.terminal = ex[r].terminal /\ e.phase = ex[r].phase
  BY <1>1, <1>8, NoticesIs DEF Executions
<1>12. Truthful(e, ctx[r])
  <2>1. Concluding(e, ctx[r])
    BY <1>1, <1>11 DEF Truthful, Concluding
  <2> QED
    BY <1>11, <2>1 DEF Truthful, Running, Early
<1>13. Moves(r) /\ ex'[r] = e
  BY <1>1, <1>9, <1>10, <1>12, MovesBy
<1>14. RequestInv' /\ \A s \in Requests \ {r} : ex'[s] = ex[s]
  BY <1>1, <1>13, MovesKeep, MovesAlone
<1>15. \A s \in Requests : DOMAIN ex'[s].held = IF s = r THEN {} ELSE DOMAIN ex[s].held
  BY <1>11, <1>13, <1>14
<1>16. CarryInv'
  <2>1. \A s \in Requests : DOMAIN ex'[s].held \subseteq DOMAIN entries'
    <3>1. DOMAIN entries' = DOMAIN entries
      BY <1>5, <1>6
    <3>2. \A s \in Requests : DOMAIN ex[s].held \subseteq DOMAIN entries
      BY DEF ExecutionInv, CarryInv
    <3> QED
      BY <1>15, <3>1, <3>2
  <2>2. \A s, u \in Requests : DOMAIN ex'[s].held \cap DOMAIN ex'[u].held # {} => s = u
    BY <1>15 DEF ExecutionInv, CarryInv
  <2>3. \A c \in DOMAIN entries' : entries'[c].inFlight <=> \E s \in Requests : c \in DOMAIN ex'[s].held
    <3> SUFFICES ASSUME NEW c \in DOMAIN entries
                 PROVE  new[c].inFlight <=> \E s \in Requests : c \in DOMAIN ex'[s].held
      BY <1>5, <1>6
    <3>1. new[c].inFlight <=> (\E s \in Requests : c \in DOMAIN ex[s].held) /\ c \notin DOMAIN h
      BY <1>6 DEF ExecutionInv, CarryInv
    <3>2. c \in DOMAIN h => \A s \in Requests \ {r} : c \notin DOMAIN ex[s].held
      BY <1>2 DEF ExecutionInv, CarryInv
    <3> QED
      BY <1>2, <1>15, <3>1, <3>2
  <2>4. \A c \in DOMAIN entries' : entries'[c].delivered > 0 => c \in carried'
    BY <1>5, <1>6 DEF ExecutionInv, CarryInv
  <2> QED
    BY <2>1, <2>2, <2>3, <2>4 DEF CarryInv
<1>17. UsageInv'
  <2>1. \A s \in Requests : ex'[s].usage = ex[s].usage
    BY <1>11, <1>13, <1>14
  <2> QED
    BY <1>1, <2>1, UsageApart DEF ExecutionInv
<1> QED
  BY <1>7, <1>14, <1>16, <1>17 DEF ExecutionInv

\* CriticalErrors.record: one more failure, in an entry, a new entry or the overflow.
LEMMA RecordStep ==
  ASSUME QueueInv, CarryInv, NEW c \in Categories, RecordFailure(c), failures' = failures + 1,
         UNCHANGED carried, \A s \in Requests : DOMAIN ex'[s].held = DOMAIN ex[s].held
  PROVE  QueueInv' /\ CarryInv'
<1> DEFINE D == DOMAIN entries
<1>1. /\ IsFiniteSet(D) /\ D \subseteq Categories /\ entries \in [D -> Entries]
      /\ overflow \in Nat /\ failures \in Nat /\ Total(Counts, D) + overflow = failures
      /\ \A d \in D : Counts[d] = entries[d].count /\ Counts[d] \in Nat
  BY DEF QueueInv, Counts, Entries
<1>2. Total(Counts, D) \in Nat
  <2>1. CASE D = {}
    BY <2>1, TotalEmpty
  <2>2. CASE D # {}
    BY <1>1, <2>2, TotalTake
  <2> QED
    BY <2>1, <2>2
<1>3. CASE c \in D
  <2>1. entries' = [entries EXCEPT ![c].count = @ + 1] /\ overflow' = overflow
    BY <1>3 DEF RecordFailure
  <2>2. /\ DOMAIN entries' = D /\ entries' \in [D -> Entries]
        /\ entries'[c].count = entries[c].count + 1
        /\ entries'[c].inFlight = entries[c].inFlight /\ entries'[c].delivered = entries[c].delivered
        /\ \A d \in D \ {c} : entries'[d] = entries[d]
    BY <1>1, <1>3, <2>1 DEF Entries
  <2>3. PICK f : f = Counts
    OBVIOUS
  <2>4. PICK g : g = [d \in D |-> entries'[d].count]
    OBVIOUS
  <2>5. Counts' = g
    BY <2>2, <2>4 DEF Counts
  <2>6. /\ \A d \in D : f[d] \in Nat /\ g[d] \in Nat
        /\ g[c] = f[c] + 1 /\ \A d \in D \ {c} : g[d] = f[d]
    BY <1>1, <1>3, <2>2, <2>3, <2>4 DEF Entries
  <2>7. IsFiniteSet(D \ {c})
    BY <1>1, FS_Subset
  <2>8. Total(g, D) = g[c] + Total(g, D \ {c}) /\ Total(f, D) = f[c] + Total(f, D \ {c})
    BY <1>1, <1>3, <2>6, TotalTake
  <2>9. Total(g, D \ {c}) = Total(f, D \ {c})
    BY <2>6, <2>7, TotalSame
  <2>10. Total(f, D \ {c}) \in Nat
    <3>1. CASE D \ {c} = {}
      BY <3>1, TotalEmpty
    <3>2. CASE D \ {c} # {}
      BY <2>6, <2>7, <3>2, TotalTake
    <3> QED
      BY <3>1, <3>2
  <2>11. Total(g, D) = Total(f, D) + 1
    BY <1>3, <2>6, <2>8, <2>9, <2>10
  <2>12. QueueInv'
    <3>1. Total(g, D) + overflow' = failures'
      BY <1>1, <1>2, <2>1, <2>3, <2>11
    <3> QED
      BY <1>1, <2>1, <2>2, <2>5, <3>1 DEF QueueInv
  <2>13. CarryInv'
    BY <1>3, <2>2 DEF CarryInv
  <2> QED
    BY <2>12, <2>13
<1>4. CASE c \notin D /\ overflow' = overflow + 1 /\ UNCHANGED entries
  <2>1. Counts' = Counts
    BY <1>4 DEF Counts
  <2>2. QueueInv'
    BY <1>1, <1>2, <1>4, <2>1 DEF QueueInv
  <2>3. CarryInv'
    BY <1>4 DEF CarryInv
  <2> QED
    BY <2>2, <2>3
<1>5. CASE /\ c \notin D /\ UNCHANGED overflow
           /\ entries' = Put(entries, c, [count |-> 1, delivered |-> 0, inFlight |-> FALSE])
  <2>1. PICK n : n = [count |-> 1, delivered |-> 0, inFlight |-> FALSE]
    OBVIOUS
  <2>2. n \in Entries /\ n.count = 1 /\ n.delivered = 0 /\ ~n.inFlight
    BY <2>1 DEF Entries
  <2>3. entries' = [d \in D \cup {c} |-> IF d = c THEN n ELSE entries[d]]
    BY <1>5, <2>1 DEF Put
  <2>4. /\ DOMAIN entries' = D \cup {c} /\ entries' \in [D \cup {c} -> Entries]
        /\ entries'[c] = n /\ \A d \in D : entries'[d] = entries[d]
    BY <1>1, <1>5, <2>2, <2>3
  <2>5. PICK f : f = Counts
    OBVIOUS
  <2>6. PICK g : g = [d \in D \cup {c} |-> entries'[d].count]
    OBVIOUS
  <2>7. Counts' = g
    BY <2>4, <2>6 DEF Counts
  <2>8. /\ \A d \in D \cup {c} : g[d] \in Nat
        /\ g[c] = 1 /\ \A d \in D : g[d] = f[d]
    BY <1>1, <2>2, <2>4, <2>5, <2>6
  <2>9. Total(g, D \cup {c}) = Total(g, D) + g[c]
    BY <1>1, <1>5, <2>8, TotalAdd
  <2>10. Total(g, D) = Total(f, D)
    BY <1>1, <2>8, TotalSame
  <2>11. QueueInv'
    <3>1. Total(g, D \cup {c}) + overflow' = failures'
      BY <1>1, <1>2, <1>5, <2>5, <2>8, <2>9, <2>10
    <3>2. IsFiniteSet(D \cup {c}) /\ D \cup {c} \subseteq Categories
      BY <1>1, FS_AddElement
    <3> QED
      BY <1>1, <1>5, <2>4, <2>7, <3>1, <3>2 DEF QueueInv
  <2>12. CarryInv'
    <3>1. \A s \in Requests : DOMAIN ex[s].held \subseteq D /\ c \notin DOMAIN ex[s].held
      BY <1>5 DEF CarryInv
    <3> QED
      BY <1>5, <2>2, <2>4, <3>1 DEF CarryInv
  <2> QED
    BY <2>11, <2>12
<1> QED
  BY <1>3, <1>4, <1>5 DEF RecordFailure

\* A failure that is reported has a category of the queue.
LEMMA CategoryIs ==
  ASSUME RequestInv, NEW r \in Requests
  PROVE  Category(r) \in Categories
<1>1. ex[r].phase \in Phases
  BY DEF RequestInv, TypeOK, Executions
<1> QED
  BY <1>1 DEF Category, ForwardDiagnosis, Categories

\* What finish makes of an error and of the contexts it finds.
LEMMA FinalIs ==
  ASSUME RequestInv, NEW r \in Requests, Concluding(ex[r], ctx[r])
  PROVE  LET e == [ex[r] EXCEPT !.pc = "told", !.outcome = FinalOutcome(r)] IN
         /\ e \in Executions /\ Settled(e, ctx[r]) /\ e.pc = "told" /\ e.held = ex[r].held
         /\ e.usage = ex[r].usage
<1>1. ex[r] \in Executions /\ ctx[r] \in Contexts
  BY DEF RequestInv, TypeOK
<1>2. PICK o : o = FinalOutcome(r)
  OBVIOUS
<1>3. PICK err : err = ex[r].err
  OBVIOUS
<1>4. /\ o \in Final
      /\ err = {} => o = ex[r].outcome /\ o \in {"completed", "failed"}
      /\ err # {} => /\ o # "completed"
                     /\ o = "timed_out" <=> "deadline" \in err
                     /\ o \in {"canceled_before", "canceled_after"} <=>
                          "canceled" \in err /\ "deadline" \notin err /\ ExecDone(r)
                     /\ o = "idle_timed_out" <=>
                          "idle" \in err /\ "deadline" \notin err /\ ~("canceled" \in err /\ ExecDone(r))
                     /\ o \in {"timed_out", "canceled_before", "canceled_after", "idle_timed_out", "failed"}
  BY <1>2, <1>3 DEF FinalOutcome, ErrorOutcome, Concluding, Final
<1>5. PICK e : e = [ex[r] EXCEPT !.pc = "told", !.outcome = o]
  OBVIOUS
<1>6. /\ e \in Executions /\ e.pc = "told" /\ e.outcome = o /\ e.err = err /\ e.held = ex[r].held
      /\ e.usage = ex[r].usage /\ e.sent = ex[r].sent /\ e.status = ex[r].status
      /\ e.terminal = ex[r].terminal /\ e.phase = ex[r].phase
  BY <1>1, <1>3, <1>4, <1>5 DEF Executions, Pcs
<1>7. ExecDone(r) <=> ctx[r] \in {"canceled", "both"}
  BY DEF ExecDone
<1>8. Fault(err, ex[r].sent, ex[r].phase, ctx[r])
  BY <1>3 DEF Concluding
<1>9. ASSUME err = {} PROVE Settled(e, ctx[r])
  <2>1. /\ e.outcome \in {"completed", "failed"} /\ e.err = {} /\ e.sent = "upstream" /\ e.outcome = ex[r].outcome
        /\ e.outcome = "completed" => e.status = "ok" /\ e.terminal \in {"completed", "steered"}
    BY <1>3, <1>4, <1>6, <1>9 DEF Concluding
  <2>2. Fault(e.err, e.sent, e.phase, ctx[r])
    BY <1>6, <1>8
  <2>3. /\ e.outcome \in Final /\ "deadline" \notin e.err /\ "canceled" \notin e.err /\ "idle" \notin e.err
        /\ e.outcome \notin {"timed_out", "canceled_before", "canceled_after", "idle_timed_out"}
    BY <2>1 DEF Final
  <2> QED
    BY <2>1, <2>2, <2>3 DEF Settled
<1>10. ASSUME err # {} PROVE Settled(e, ctx[r])
  <2>1. "canceled" \in err /\ o \notin {"canceled_before", "canceled_after"} /\ "deadline" \notin err =>
          ctx[r] = "expired" /\ ex[r].phase = "forward" /\ "idle" \notin err
    BY <1>4, <1>7, <1>8, <1>10 DEF Fault
  <2>2. "deadline" \in err => "canceled" \notin err
    BY <1>8 DEF Fault
  <2>3. Fault(e.err, e.sent, e.phase, ctx[r])
    BY <1>6, <1>8
  <2>4. e.outcome = "idle_timed_out" <=> "idle" \in e.err /\ {"deadline", "canceled"} \cap e.err = {}
    BY <1>4, <1>6, <1>10, <2>1
  <2>5. "canceled" \in e.err /\ e.outcome \notin {"canceled_before", "canceled_after"} =>
          e.outcome = "failed" /\ ctx[r] \in {"expired", "both"} /\ e.phase = "forward"
    BY <1>4, <1>6, <1>10, <2>1, <2>2
  <2>6. /\ e.outcome \in Final /\ e.err # {} /\ e.outcome # "completed"
        /\ e.outcome = "timed_out" <=> "deadline" \in e.err
        /\ e.outcome \in {"canceled_before", "canceled_after"} =>
             "canceled" \in e.err /\ "deadline" \notin e.err /\ ctx[r] \in {"canceled", "both"}
    BY <1>4, <1>6, <1>7, <1>10
  <2> QED
    BY <2>3, <2>4, <2>5, <2>6 DEF Settled
<1> QED
  BY <1>2, <1>5, <1>6, <1>9, <1>10

\* The end of a request: the failure it may leave.
LEMMA FinishStep ==
  ASSUME ExecutionInv, NEW r \in Requests, Finish(r)
  PROVE  ExecutionInv'
<1>1. /\ ex[r].pc = "report" /\ ex[r] \in Executions /\ Truthful(ex[r], ctx[r]) /\ RequestInv
      /\ DOMAIN ex[r].held = {} /\ UNCHANGED <<ctx, totals, carried>> /\ ex \in [Requests -> Executions]
  BY DEF Finish, ExecutionInv, RequestInv, TypeOK, Truthful, Unburdened
<1>2. PICK e : e = [ex[r] EXCEPT !.pc = "told", !.outcome = FinalOutcome(r)]
  OBVIOUS
<1>3. e \in Executions /\ Settled(e, ctx[r]) /\ e.pc = "told" /\ e.held = ex[r].held /\ e.usage = ex[r].usage
  BY <1>1, <1>2, FinalIs DEF Truthful
<1>4. Truthful(e, ctx[r])
  BY <1>1, <1>3 DEF Truthful, Running, Early
<1>5. ex' = [ex EXCEPT ![r] = e]
  BY <1>1, <1>2 DEF Finish
<1>6. Moves(r) /\ ex'[r] = e
  BY <1>1, <1>3, <1>4, <1>5, MovesBy
<1>7. RequestInv' /\ \A s \in Requests \ {r} : ex'[s] = ex[s]
  BY <1>1, <1>6, MovesKeep, MovesAlone
<1>8. \A s \in Requests : DOMAIN ex'[s].held = DOMAIN ex[s].held /\ ex'[s].usage = ex[s].usage
  BY <1>3, <1>6, <1>7
<1>9. QueueInv' /\ CarryInv'
  <2>1. CASE FinalOutcome(r) \in Unreported
    <3>1. UNCHANGED shared
      BY <1>1, <2>1 DEF Finish, shared
    <3> QED
      BY <1>8, <3>1, QueueApart DEF ExecutionInv
  <2>2. CASE FinalOutcome(r) \notin Unreported
    <3>1. PICK c : c = Category(r)
      OBVIOUS
    <3>2. c \in Categories
      BY <1>1, <3>1, CategoryIs
    <3>3. RecordFailure(c) /\ failures' = failures + 1
      BY <2>2, <3>1 DEF Finish
    <3> QED
      BY <1>1, <1>8, <3>2, <3>3, RecordStep DEF ExecutionInv
  <2> QED
    BY <2>1, <2>2
<1>10. UsageInv'
  BY <1>1, <1>8, UsageApart DEF ExecutionInv
<1> QED
  BY <1>7, <1>9, <1>10 DEF ExecutionInv

\* The debug record and the handler's answer.
LEMMA TellStep ==
  ASSUME ExecutionInv, NEW r \in Requests, Tell(r)
  PROVE  ExecutionInv'
<1>1. /\ ex[r].pc = "told" /\ ex[r] \in Executions /\ Truthful(ex[r], ctx[r]) /\ RequestInv
      /\ DOMAIN ex[r].held = {} /\ UNCHANGED <<totals, shared>>
  BY DEF Tell, ExecutionInv, RequestInv, TypeOK, Truthful, Unburdened
<1>2. PICK u \in Nat \cup {None} : u = ex[r].usage
  BY <1>1 DEF Executions
<1>3. PICK e : e = [Waiting EXCEPT !.pc = "ended", !.usage = u]
  OBVIOUS
<1>4. e \in Executions /\ e.pc = "ended" /\ e.held = NoNotices /\ e.usage = u
  BY <1>3, NoticesIs DEF Waiting, Executions, Pcs, Terminals, Phases
<1>5. Truthful(e, "live") /\ "live" \in Contexts
  BY <1>4, NoticesIs DEF Truthful, Running, Early, Contexts
<1>6. ex' = [ex EXCEPT ![r] = e] /\ ctx' = [ctx EXCEPT ![r] = "live"]
  BY <1>2, <1>3 DEF Tell
<1>7. Moves(r) /\ ex'[r] = e
  BY <1>1, <1>4, <1>5, <1>6 DEF Moves, RequestInv, TypeOK
<1>8. RequestInv' /\ \A s \in Requests \ {r} : ex'[s] = ex[s]
  BY <1>1, <1>7, MovesKeep, MovesAlone
<1>9. \A s \in Requests : DOMAIN ex'[s].held = DOMAIN ex[s].held /\ ex'[s].usage = ex[s].usage
  BY <1>1, <1>2, <1>4, <1>7, <1>8, NoticesIs
<1>10. QueueInv' /\ CarryInv' /\ UsageInv'
  BY <1>1, <1>9, QueueApart, UsageApart DEF ExecutionInv
<1> QED
  BY <1>8, <1>10 DEF ExecutionInv

\* A failed GET /v1/models leaves a failure and no request changes.
LEMMA ModelsStep ==
  ASSUME ExecutionInv, ModelsFailure
  PROVE  ExecutionInv'
<1>1. UNCHANGED <<ex, ctx, totals, carried>> /\ RecordFailure("forward") /\ failures' = failures + 1
  BY DEF ModelsFailure
<1>2. PICK c \in Categories : c = "forward"
  BY DEF Categories, Phases
<1>3. QueueInv' /\ CarryInv'
  BY <1>1, <1>2, RecordStep DEF ExecutionInv
<1>4. UsageInv'
  BY <1>1, UsageApart DEF ExecutionInv
<1>5. RequestInv'
  BY <1>1 DEF ExecutionInv, RequestInv, TypeOK
<1> QED
  BY <1>3, <1>4, <1>5 DEF ExecutionInv

\* threadUsage.add: the total of the thread grows by what the response reported,
\* is given up for good, or was never tracked.
LEMMA AddUsageIs ==
  ASSUME UsageInv, NEW th, NEW tokens \in Nat, NEW conflicted \in BOOLEAN,
         totals' = AddUsage(th, tokens, conflicted)
  PROVE  \/ /\ th \notin DOMAIN totals /\ totals' = totals /\ Cardinality(DOMAIN totals) >= ThreadLimit
         \/ \E t \in [sum : Nat, complete : BOOLEAN] :
              /\ totals' = Put(totals, th, t)
              /\ t.complete => /\ th \in DOMAIN totals => totals[th].complete /\ t.sum = totals[th].sum + tokens
                               /\ th \notin DOMAIN totals => t.sum = tokens
              /\ th \notin DOMAIN totals => ~(Cardinality(DOMAIN totals) >= ThreadLimit)
<1>1. PICK known : known = IF th \in DOMAIN totals THEN totals[th] ELSE [sum |-> 0, complete |-> TRUE]
  OBVIOUS
<1>2. known \in [sum : Nat, complete : BOOLEAN]
  BY <1>1 DEF UsageInv
<1>3. CASE th \notin DOMAIN totals /\ Cardinality(DOMAIN totals) >= ThreadLimit
  BY <1>3 DEF AddUsage
<1>4. CASE /\ ~(th \notin DOMAIN totals /\ Cardinality(DOMAIN totals) >= ThreadLimit)
           /\ known.complete /\ ~conflicted /\ known.sum + tokens <= MaxTotal
  <2>1. PICK n \in Nat : n = known.sum + tokens
    BY <1>2
  <2>2. PICK t : t = [known EXCEPT !.sum = n]
    OBVIOUS
  <2>3. t \in [sum : Nat, complete : BOOLEAN] /\ t.sum = n /\ t.complete = known.complete
    BY <1>2, <2>1, <2>2
  <2>4. totals' = Put(totals, th, t)
    BY <1>1, <1>2, <1>4, <2>1, <2>2 DEF AddUsage
  <2>5. th \notin DOMAIN totals => known.sum = 0
    BY <1>1
  <2>6. t.complete => /\ th \in DOMAIN totals => totals[th].complete /\ t.sum = totals[th].sum + tokens
                      /\ th \notin DOMAIN totals => t.sum = tokens
    BY <1>1, <1>4, <2>1, <2>3, <2>5
  <2> QED
    BY <1>4, <2>3, <2>4, <2>6
<1>5. CASE /\ ~(th \notin DOMAIN totals /\ Cardinality(DOMAIN totals) >= ThreadLimit)
           /\ ~(known.complete /\ ~conflicted /\ known.sum + tokens <= MaxTotal)
  <2>1. PICK t : t = [known EXCEPT !.complete = FALSE]
    OBVIOUS
  <2>2. t \in [sum : Nat, complete : BOOLEAN] /\ ~t.complete
    BY <1>2, <2>1
  <2>3. totals' = Put(totals, th, t)
    BY <1>1, <1>5, <2>1 DEF AddUsage
  <2> QED
    BY <1>5, <2>2, <2>3
<1> QED
  BY <1>3, <1>4, <1>5

\* A response that reports its usage adds it to what its thread used, and to no other thread's.
LEMMA UsageGrows ==
  ASSUME RequestInv, UsageInv, NEW r \in Requests, Moves(r), NEW tokens \in Nat,
         ex[r].usage = None, ex'[r].usage = tokens
  PROVE  /\ \A th : IsFiniteSet(Reporting(th)')
         /\ \A th : th # ThreadOf[r] => /\ Reporting(th)' = Reporting(th)
                                        /\ Total(Usage', Reporting(th)') = Total(Usage, Reporting(th))
         /\ Reporting(ThreadOf[r])' = Reporting(ThreadOf[r]) \cup {r}
         /\ Total(Usage, Reporting(ThreadOf[r])) \in Nat
         /\ Total(Usage', Reporting(ThreadOf[r])') = Total(Usage, Reporting(ThreadOf[r])) + tokens
<1>1. \A s \in Requests \ {r} : ex'[s] = ex[s]
  BY MovesAlone
<1>2. tokens # None
  BY ExecutionAssumption
<1>3. PICK f, g : f = Usage /\ g = [s \in Requests |-> ex'[s].usage]
  OBVIOUS
<1>4. Usage' = g
  BY <1>3 DEF Usage
<1>5. /\ \A s \in Requests \ {r} : g[s] = f[s]
      /\ g[r] = tokens
  BY <1>1, <1>3 DEF Usage
<1>6. \A th : \A s \in Reporting(th) : s # r /\ s \in Requests /\ f[s] \in Nat /\ g[s] = f[s]
  <2>1. \A s \in Requests : ex[s].usage \in Nat \cup {None}
    BY DEF RequestInv, TypeOK, Executions
  <2> QED
    BY <1>3, <1>5, <2>1 DEF Reporting, Usage
<1>7. ASSUME NEW th, th # ThreadOf[r]
      PROVE  Reporting(th)' = Reporting(th) /\ Total(g, Reporting(th)) = Total(f, Reporting(th))
  <2>1. Reporting(th)' = Reporting(th)
    BY <1>1, <1>7 DEF Reporting
  <2>2. PICK S : S = Reporting(th)
    OBVIOUS
  <2>3. IsFiniteSet(S) /\ \A s \in S : f[s] = g[s]
    BY <1>6, <2>2 DEF UsageInv
  <2> QED
    BY <2>1, <2>2, <2>3, TotalSame
<1>8. PICK S : S = Reporting(ThreadOf[r])
  OBVIOUS
<1>9. /\ IsFiniteSet(S) /\ r \notin S /\ \A s \in S : f[s] = g[s] /\ f[s] \in Nat
  BY <1>6, <1>8 DEF UsageInv
<1>10. Reporting(ThreadOf[r])' = S \cup {r}
  BY <1>1, <1>2, <1>8 DEF Reporting
<1>11. Total(g, S) = Total(f, S)
  BY <1>9, TotalSame
<1>12. Total(g, S) \in Nat /\ Total(g, S \cup {r}) = Total(g, S) + g[r]
  BY <1>5, <1>9, TotalAdd
<1>13. IsFiniteSet(S \cup {r})
  BY <1>9, FS_AddElement
<1>14. \A th : IsFiniteSet(Reporting(th)')
  <2> SUFFICES ASSUME NEW th PROVE IsFiniteSet(Reporting(th)')
    OBVIOUS
  <2>1. CASE th = ThreadOf[r]
    BY <2>1, <1>10, <1>13
  <2>2. CASE th # ThreadOf[r]
    BY <2>2, <1>7 DEF UsageInv
  <2> QED
    BY <2>1, <2>2
<1>15. Total(Usage', Reporting(ThreadOf[r])') = Total(Usage, Reporting(ThreadOf[r])) + tokens
  <2>1. Total(Usage', Reporting(ThreadOf[r])') = Total(g, S \cup {r})
    BY <1>4, <1>10
  <2>2. Total(Usage, Reporting(ThreadOf[r])) = Total(f, S)
    BY <1>3, <1>8
  <2> QED
    BY <1>5, <1>11, <1>12, <2>1, <2>2
<1>16. ASSUME NEW th, th # ThreadOf[r]
       PROVE  Total(Usage', Reporting(th)') = Total(Usage, Reporting(th))
  <2>1. Total(Usage', Reporting(th)') = Total(g, Reporting(th))
    BY <1>4, <1>7, <1>16
  <2>2. Total(Usage, Reporting(th)) = Total(f, Reporting(th))
    BY <1>3
  <2> QED
    BY <1>7, <1>16, <2>1, <2>2
<1>17. Total(Usage, Reporting(ThreadOf[r])) \in Nat
  BY <1>3, <1>8, <1>11, <1>12
<1> QED
  BY <1>7, <1>8, <1>10, <1>14, <1>15, <1>16, <1>17

\* The usage of a response that ends reaches the total of its thread.
LEMMA EndsStep ==
  ASSUME ExecutionInv, NEW r \in Requests, Moves(r), Ends(r)
  PROVE  ExecutionInv'
<1>1. PICK tokens \in Usages :
        /\ ex[r].usage = None /\ ex'[r].usage = tokens /\ ex'[r].held = ex[r].held
        /\ Observed(r, tokens) /\ UNCHANGED shared
  BY DEF Ends
<1>2. RequestInv' /\ RequestInv /\ UsageInv /\ \A s \in Requests \ {r} : ex'[s] = ex[s]
  BY MovesKeep, MovesAlone DEF ExecutionInv
<1>3. QueueInv' /\ CarryInv'
  BY <1>1, <1>2, QueueApart DEF ExecutionInv
<1>4. CASE tokens = None
  <2>1. UNCHANGED totals /\ \A s \in Requests : ex'[s].usage = ex[s].usage
    BY <1>1, <1>2, <1>4 DEF Observed
  <2> QED
    BY <1>2, <1>3, <2>1, UsageApart DEF ExecutionInv
<1>5. CASE tokens # None
  <2>1. tokens \in Nat
    BY <1>5, ExecutionAssumption DEF Usages
  <2>2. PICK th : th = ThreadOf[r]
    OBVIOUS
  <2>3. /\ \A x : IsFiniteSet(Reporting(x)')
        /\ \A x : x # th => /\ Reporting(x)' = Reporting(x)
                            /\ Total(Usage', Reporting(x)') = Total(Usage, Reporting(x))
        /\ Reporting(th)' = Reporting(th) \cup {r}
        /\ Total(Usage, Reporting(th)) \in Nat
        /\ Total(Usage', Reporting(th)') = Total(Usage, Reporting(th)) + tokens
    BY <1>1, <1>2, <2>1, <2>2, UsageGrows
  <2>4. CASE ~Mekugi
    <3>1. UNCHANGED totals /\ DOMAIN totals = {}
      BY <1>1, <1>2, <2>4 DEF Observed, UsageInv
    <3>2. UsageInv'
      BY <1>2, <2>3, <2>4, <3>1 DEF UsageInv
    <3> QED
      BY <1>2, <1>3, <3>2 DEF ExecutionInv
  <2>5. CASE Mekugi
    <3>1. PICK conflicted \in BOOLEAN : totals' = AddUsage(th, tokens, conflicted)
      BY <1>1, <1>5, <2>2, <2>5 DEF Observed, Conflicts
    <3>2. \A s \in Requests : s # r => ex'[s].usage = ex[s].usage
      BY <1>2
    <3>3. CASE th \notin DOMAIN totals /\ totals' = totals /\ Cardinality(DOMAIN totals) >= ThreadLimit
      <4>1. \A x \in DOMAIN totals : totals[x].complete => totals[x].sum = Total(Usage', Reporting(x)')
        BY <1>2, <2>3, <3>3 DEF UsageInv
      <4>2. \A s \in Requests : ex'[s].usage # None /\ ThreadOf[s] \notin DOMAIN totals' =>
              Cardinality(DOMAIN totals') >= ThreadLimit
        BY <3>3
      <4>3. UsageInv'
        BY <1>2, <2>3, <2>5, <3>3, <4>1, <4>2 DEF UsageInv
      <4> QED
        BY <1>2, <1>3, <4>3 DEF ExecutionInv
    <3>4. CASE \E t \in [sum : Nat, complete : BOOLEAN] :
              /\ totals' = Put(totals, th, t)
              /\ t.complete => /\ th \in DOMAIN totals => totals[th].complete /\ t.sum = totals[th].sum + tokens
                               /\ th \notin DOMAIN totals => t.sum = tokens
              /\ th \notin DOMAIN totals => ~(Cardinality(DOMAIN totals) >= ThreadLimit)
      <4>1. PICK t \in [sum : Nat, complete : BOOLEAN] :
              /\ totals' = Put(totals, th, t)
              /\ t.complete => /\ th \in DOMAIN totals => totals[th].complete /\ t.sum = totals[th].sum + tokens
                               /\ th \notin DOMAIN totals => t.sum = tokens
              /\ th \notin DOMAIN totals => ~(Cardinality(DOMAIN totals) >= ThreadLimit)
        BY <3>4
      <4>2. /\ DOMAIN totals' = DOMAIN totals \cup {th}
            /\ totals' \in [DOMAIN totals' -> [sum : Nat, complete : BOOLEAN]]
            /\ totals'[th] = t /\ \A x \in DOMAIN totals \ {th} : totals'[x] = totals[x]
        BY <1>2, <4>1 DEF Put, UsageInv
      <4>3. /\ IsFiniteSet(DOMAIN totals') /\ Cardinality(DOMAIN totals') \in Nat
            /\ Cardinality(DOMAIN totals) \in Nat /\ Cardinality(DOMAIN totals) <= Cardinality(DOMAIN totals')
        <5>1. IsFiniteSet(DOMAIN totals)
          BY <1>2 DEF UsageInv
        <5>2. IsFiniteSet(DOMAIN totals')
          BY <4>2, <5>1, FS_AddElement
        <5>3. DOMAIN totals \subseteq DOMAIN totals'
          BY <4>2
        <5> QED
          BY <5>1, <5>2, <5>3, FS_CardinalityType, FS_Subset
      <4>4. th \notin DOMAIN totals => Reporting(th) = {}
        <5> SUFFICES ASSUME th \notin DOMAIN totals, NEW s \in Reporting(th) PROVE FALSE
          OBVIOUS
        <5>1. s \in Requests /\ ex[s].usage # None /\ ThreadOf[s] \notin DOMAIN totals
          BY DEF Reporting
        <5> QED
          BY <1>2, <2>5, <4>1, <5>1 DEF UsageInv
      <4>5. t.complete => t.sum = Total(Usage', Reporting(th)')
        <5>1. CASE th \in DOMAIN totals
          BY <1>2, <2>3, <4>1, <5>1 DEF UsageInv
        <5>2. CASE th \notin DOMAIN totals
          <6>1. Total(Usage, Reporting(th)) = 0
            BY <4>4, <5>2, TotalEmpty
          <6> QED
            BY <2>1, <2>3, <4>1, <5>2, <6>1
        <5> QED
          BY <5>1, <5>2
      <4>6. \A x \in DOMAIN totals' : totals'[x].complete => totals'[x].sum = Total(Usage', Reporting(x)')
        BY <1>2, <2>3, <4>2, <4>5 DEF UsageInv
      <4>7. \A s \in Requests : ex'[s].usage # None /\ ThreadOf[s] \notin DOMAIN totals' =>
              Cardinality(DOMAIN totals') >= ThreadLimit
        <5> SUFFICES ASSUME NEW s \in Requests, ex'[s].usage # None, ThreadOf[s] \notin DOMAIN totals'
                     PROVE  Cardinality(DOMAIN totals') >= ThreadLimit
          OBVIOUS
        <5>1. s # r /\ ThreadOf[s] \notin DOMAIN totals /\ ex[s].usage # None
          BY <2>2, <3>2, <4>2
        <5>2. Cardinality(DOMAIN totals) >= ThreadLimit
          BY <1>2, <2>5, <5>1 DEF UsageInv
        <5> QED
          BY <4>3, <5>2, ExecutionAssumption
      <4>8. UsageInv'
        BY <2>3, <2>5, <4>2, <4>3, <4>6, <4>7 DEF UsageInv
      <4> QED
        BY <1>2, <1>3, <4>8 DEF ExecutionInv
    <3> QED
      BY <1>2, <2>1, <3>1, <3>3, <3>4, AddUsageIs
  <2> QED
    BY <2>4, <2>5
<1> QED
  BY <1>4, <1>5

-----------------------------------------------------------------------------
(* The theorems.                                                           *)

\* Nothing has failed, nothing is carried and nothing was used yet.
LEMMA ExecutionInit == Init => ExecutionInv
<1> SUFFICES ASSUME Init PROVE ExecutionInv
  OBVIOUS
<1>1. /\ ex = [r \in Requests |-> Waiting] /\ ctx = [r \in Requests |-> "live"]
      /\ DOMAIN entries = {} /\ overflow = 0 /\ failures = 0 /\ DOMAIN totals = {}
      /\ entries \in [{} -> Entries] /\ totals \in [{} -> [sum : Nat, complete : BOOLEAN]]
  BY DEF Init
<1>2. Waiting \in Executions
  BY NoticesIs DEF Waiting, Executions, Pcs, Running, Early, Terminals, Phases
<1>3. /\ Waiting.pc = "new" /\ Waiting.outcome = "unknown" /\ Waiting.err = {} /\ Waiting.usage = None
      /\ Waiting.sent = "none" /\ DOMAIN Waiting.held = {}
  BY NoticesIs DEF Waiting
<1>4. Truthful(Waiting, "live")
  BY <1>3 DEF Truthful
<1>5. RequestInv
  BY <1>1, <1>2, <1>4 DEF RequestInv, TypeOK, Contexts
<1>6. IsFiniteSet(DOMAIN entries) /\ IsFiniteSet(DOMAIN totals)
  BY <1>1, FS_EmptySet
<1>7. Total(Counts, DOMAIN entries) = 0
  BY <1>1, TotalEmpty
<1>8. QueueInv
  BY <1>1, <1>6, <1>7 DEF QueueInv
<1>9. CarryInv
  BY <1>1, <1>3 DEF CarryInv
<1>10. \A th : Reporting(th) = {}
  BY <1>1, <1>3 DEF Reporting
<1>11. UsageInv
  BY <1>1, <1>3, <1>6, <1>10, FS_EmptySet DEF UsageInv
<1> QED
  BY <1>5, <1>8, <1>9, <1>11 DEF ExecutionInv

\* Every step keeps the invariant.
LEMMA ExecutionStep == ExecutionInv /\ [Next]_vars => ExecutionInv'
<1> SUFFICES ASSUME ExecutionInv, [Next]_vars PROVE ExecutionInv'
  OBVIOUS
<1>1. CASE UNCHANGED vars
  <2>1. UNCHANGED <<ex, ctx, totals>> /\ UNCHANGED shared
    BY <1>1 DEF vars, shared
  <2>2. QueueInv' /\ CarryInv'
    BY <2>1, QueueApart DEF ExecutionInv
  <2>3. UsageInv'
    BY <2>1, UsageApart DEF ExecutionInv
  <2>4. RequestInv'
    BY <2>1 DEF ExecutionInv, RequestInv, TypeOK
  <2> QED
    BY <2>2, <2>3, <2>4 DEF ExecutionInv
<1>2. CASE ModelsFailure
  BY <1>2, ModelsStep
<1>3. ASSUME NEW r \in Requests, Work(r) PROVE ExecutionInv'
  <2>1. CASE Claim(r)
    BY <2>1, ClaimStep
  <2>2. CASE (\E tr, rec \in BOOLEAN : Shape(r, tr, rec)) \/ Inspect(r)
    <3>1. Moves(r) /\ Apart(r)
      BY <2>2, ShapeStep, InspectStep DEF ExecutionInv
    <3> QED
      BY <3>1, ApartStep
  <2>3. CASE SettleNotices(r)
    BY <2>3, SettleStep
  <2>4. CASE Finish(r)
    BY <2>4, FinishStep
  <2>5. CASE Tell(r)
    BY <2>5, TellStep
  <2>6. CASE Documents(r)
    BY <2>6, DocumentStep, EndsStep DEF ExecutionInv
  <2> QED
    BY <1>3, <2>1, <2>2, <2>3, <2>4, <2>5, <2>6 DEF Work
<1>4. ASSUME NEW r \in Requests, Environment(r) PROVE ExecutionInv'
  <2>1. CASE Arrive(r) \/ RefuseBody(r)
    <3>1. Moves(r) /\ Apart(r)
      BY <2>1, ArrivalStep DEF ExecutionInv
    <3> QED
      BY <3>1, ApartStep
  <2>2. CASE StartTimeout(r) \/ Cancel(r)
    <3>1. Moves(r) /\ Apart(r)
      BY <2>2, ContextStep DEF ExecutionInv
    <3> QED
      BY <3>1, ApartStep
  <2>3. CASE ShapeFails(r) \/ ForwardRefused(r) \/ AttemptBroken(r) \/ IdleTimeout(r) \/ ReadBroken(r)
    <3>1. Moves(r) /\ Apart(r)
      BY <2>3, RefusalStep, SilenceStep DEF ExecutionInv
    <3> QED
      BY <3>1, ApartStep
  <2>4. CASE ForwardWebSocket(r) \/ ForwardGrok(r)
    <3>1. Moves(r) /\ Apart(r)
      BY <2>4, ForwardStep DEF ExecutionInv
    <3> QED
      BY <3>1, ApartStep
  <2>5. CASE (\E a \in {"ok", "capacity", "error"} : AttemptAnswered(r, a)) \/ Backoff(r)
    <3>1. Moves(r) /\ Apart(r)
      BY <2>5, AttemptStep DEF ExecutionInv
    <3> QED
      BY <3>1, ApartStep
  <2>6. CASE Created(r) \/ InvalidEvent(r) \/ Sniff(r) \/ GrokRead(r) \/ Written(r) \/ WriteBroken(r)
    <3>1. Moves(r) /\ Apart(r)
      BY <2>6, EventStep, InspectStep, WriteStep DEF ExecutionInv
    <3> QED
      BY <3>1, ApartStep
  <2>7. CASE StreamEnds(r)
    <3>1. Moves(r) /\ Apart(r)
      BY <2>7, StreamEndStep DEF ExecutionInv
    <3> QED
      BY <3>1, ApartStep
  <2>8. CASE LastEvents(r)
    <3>1. PICK t \in Accepted, tokens \in Usages, d \in {"ok", "transform"} : TerminalEvent(r, t, tokens, d)
      BY <2>8 DEF LastEvents
    <3>2. Moves(r) /\ Ends(r)
      BY <3>1, TerminalStep DEF ExecutionInv
    <3> QED
      BY <3>2, EndsStep
  <2>9. CASE Documents(r)
    BY <2>9, DocumentStep, EndsStep DEF ExecutionInv
  <2> QED
    BY <1>4, <2>1, <2>2, <2>3, <2>4, <2>5, <2>6, <2>7, <2>8, <2>9 DEF Environment
<1> QED
  BY <1>1, <1>2, <1>3, <1>4 DEF Next

\* Every reachable state of the requests, the notice queue and the thread totals is
\* sound (executeRequest, CriticalErrors, threadUsage).
THEOREM ExecutionIsSound == Spec => []ExecutionInv
  BY ExecutionInit, ExecutionStep, PTL DEF Spec

\* What executeRequest's deferred call records about a request is what its client saw:
\* the outcome that finish settled, the cause that is read a moment later and the
\* answer agree, whatever the start timer, a dial, a silent provider and a
\* cancellation did.
THEOREM OutcomesAreTruthful == Spec => []OutcomeIsTruthful
<1>1. ExecutionInv => OutcomeIsTruthful
  <2> SUFFICES ASSUME ExecutionInv PROVE OutcomeIsTruthful
    OBVIOUS
  <2>1. ASSUME NEW r \in Requests, ex[r].pc = "told"
        PROVE  LET outcome == ex[r].outcome
                   cause == CancellationCause(r)
                   canceled == outcome \in {"canceled_before", "canceled_after"}
               IN
               /\ Answer(r) # "none"
               /\ outcome = "completed" =>
                    /\ Ok(r) /\ ex[r].sent = "upstream" /\ ex[r].err = {}
                    /\ ex[r].terminal \in {"completed", "steered"}
               /\ outcome = "timed_out" => ex[r].sent = "none" \/ "idle" \in ex[r].err \/ ExecDone(r)
               /\ cause = "response_start_timeout" =>
                    outcome = "timed_out" /\ ex[r].sent = "none" /\ ctx[r] \in {"expired", "both"}
               /\ canceled => cause = "downstream_context_canceled"
               /\ cause = "downstream_context_canceled" =>
                    canceled \/ (outcome = "failed" /\ ctx[r] = "both" /\ ex[r].phase = "forward")
               /\ outcome = "idle_timed_out" => cause = "upstream_idle_timeout"
               /\ cause = "upstream_idle_timeout" => outcome \in {"idle_timed_out", "timed_out"}
    <3>1. Settled(ex[r], ctx[r]) /\ ex[r].sent \in {"none", "upstream"}
      BY <2>1 DEF ExecutionInv, RequestInv, TypeOK, Executions, Truthful
    <3>2. PICK err, o, c : err = ex[r].err /\ o = ex[r].outcome /\ c = CancellationCause(r)
      OBVIOUS
    <3>3. /\ c = "response_start_timeout" <=> {"deadline", "start"} \subseteq err
          /\ c = "downstream_context_canceled" <=>
               ~({"deadline", "start"} \subseteq err) /\ "canceled" \in err /\ ExecDone(r)
          /\ c = "upstream_idle_timeout" <=>
               ~({"deadline", "start"} \subseteq err) /\ ~("canceled" \in err /\ ExecDone(r)) /\ "idle" \in err
      BY <3>2 DEF CancellationCause
    <3>4. ExecDone(r) <=> ctx[r] \in {"canceled", "both"}
      BY DEF ExecDone
    <3>5. Answer(r) # "none"
      BY <3>1 DEF Answer, Settled
    <3>6. o = "completed" => /\ Ok(r) /\ ex[r].sent = "upstream" /\ err = {}
                             /\ ex[r].terminal \in {"completed", "steered"}
      BY <3>1, <3>2 DEF Settled, Ok
    <3>7. o = "timed_out" => ex[r].sent = "none" \/ "idle" \in err \/ ExecDone(r)
      BY <3>1, <3>2, <3>4 DEF Settled, Fault
    <3>8. c = "response_start_timeout" => o = "timed_out" /\ ex[r].sent = "none" /\ ctx[r] \in {"expired", "both"}
      BY <3>1, <3>2, <3>3 DEF Settled, Fault
    <3>9. o \in {"canceled_before", "canceled_after"} => c = "downstream_context_canceled"
      BY <3>1, <3>2, <3>3, <3>4 DEF Settled
    <3>10. c = "downstream_context_canceled" =>
             \/ o \in {"canceled_before", "canceled_after"}
             \/ o = "failed" /\ ctx[r] = "both" /\ ex[r].phase = "forward"
      BY <3>1, <3>2, <3>3, <3>4 DEF Settled
    <3>11. o = "idle_timed_out" => c = "upstream_idle_timeout"
      BY <3>1, <3>2, <3>3 DEF Settled
    <3>12. c = "upstream_idle_timeout" => o \in {"idle_timed_out", "timed_out"}
      <4>1. c = "upstream_idle_timeout" /\ "canceled" \in err => "deadline" \in err
        BY <3>1, <3>2, <3>3, <3>4 DEF Settled, Fault
      <4> QED
        BY <3>1, <3>2, <3>3, <4>1 DEF Settled
    <3> QED
      BY <3>2, <3>5, <3>6, <3>7, <3>8, <3>9, <3>10, <3>11, <3>12
  <2> QED
    BY <2>1 DEF OutcomeIsTruthful
<1> QED
  BY <1>1, ExecutionIsSound, PTL

\* CriticalErrors loses no failure: the entries and the overflow count every one that
\* was recorded, a notice is in flight exactly while one request carries it, and a
\* notice leaves Pending only with a response that carried it.
THEOREM NoFailureIsLost == Spec => []NoticesAccountedFor
<1>1. ExecutionInv => NoticesAccountedFor
  <2> SUFFICES ASSUME ExecutionInv PROVE NoticesAccountedFor
    OBVIOUS
  <2>1. Total([c \in DOMAIN entries |-> entries[c].count], DOMAIN entries) + overflow = failures
    BY DEF ExecutionInv, QueueInv, Counts
  <2>2. ASSUME NEW c \in DOMAIN entries
        PROVE  Cardinality({r \in Requests : c \in DOMAIN ex[r].held}) = IF entries[c].inFlight THEN 1 ELSE 0
    <3>1. PICK S : S = {r \in Requests : c \in DOMAIN ex[r].held}
      OBVIOUS
    <3>2. \A r, s \in S : r = s
      BY <3>1 DEF ExecutionInv, CarryInv
    <3>3. CASE entries[c].inFlight
      <4>1. PICK r \in Requests : c \in DOMAIN ex[r].held
        BY <3>3 DEF ExecutionInv, CarryInv
      <4>2. S = {r}
        BY <3>1, <3>2, <4>1
      <4>3. Cardinality(S) = 1
        BY <4>2, FS_Singleton
      <4> QED
        BY <3>1, <3>3, <4>3
    <3>4. CASE ~entries[c].inFlight
      <4>1. S = {}
        BY <3>1, <3>4 DEF ExecutionInv, CarryInv
      <4>2. Cardinality(S) = 0
        BY <4>1, FS_EmptySet
      <4> QED
        BY <3>1, <3>4, <4>2
    <3> QED
      BY <3>3, <3>4
  <2>3. ASSUME NEW c \in DOMAIN entries
        PROVE  (entries[c].delivered > 0 => c \in carried) /\ (c \notin Pending => c \in carried)
    <3>1. /\ entries[c].count \in Nat \ {0} /\ entries[c].delivered \in Nat
          /\ entries[c].delivered > 0 => c \in carried
      BY DEF ExecutionInv, QueueInv, CarryInv, Entries
    <3>2. c \notin Pending => ~(entries[c].count > entries[c].delivered)
      BY DEF Pending
    <3> QED
      BY <3>1, <3>2
  <2> QED
    BY <2>1, <2>2, <2>3 DEF NoticesAccountedFor
<1> QED
  BY <1>1, ExecutionIsSound, PTL

\* A thread total that threadUsage.snapshot shows is the sum of what every response of
\* the thread reported: none is missing and none is counted twice.
THEOREM TotalsAreWhole == Spec => []UsageIsWhole
<1>1. ExecutionInv => UsageIsWhole
  <2> SUFFICES ASSUME ExecutionInv, NEW th \in DOMAIN totals, Snapshot(th) # None
               PROVE  Snapshot(th) = Total([r \in Requests |-> ex[r].usage],
                                           {r \in Requests : ThreadOf[r] = th /\ ex[r].usage # None})
    BY DEF UsageIsWhole
  <2>1. totals[th].complete /\ Snapshot(th) = totals[th].sum
    BY DEF Snapshot
  <2>2. totals[th].sum = Total(Usage, Reporting(th))
    BY <2>1 DEF ExecutionInv, UsageInv
  <2> QED
    BY <2>1, <2>2 DEF Usage, Reporting
<1> QED
  BY <1>1, ExecutionIsSound, PTL


-----------------------------------------------------------------------------
(* The inductive invariant.                                                *)

\* What Codex may see of a call.
SeenItems ==
  [call : Calls, input : Inputs \cup {Null},
   result : {"ok", "rejected", "unevaluated", "client", "partial"}, payload : Payloads]

\* A translation is of the tool that its call names, and is replayed only as the
\* program that the provider wrote.
Fits(c, h) == h.tool = Called[c] /\ (h.replay => h.payload = "program")

\* Translations of some calls, finitely many.
Translated(m) ==
  /\ IsFiniteSet(DOMAIN m) /\ DOMAIN m \subseteq Calls /\ m \in [DOMAIN m -> Histories]
  /\ \A c \in DOMAIN m : Fits(c, m[c])
  /\ \E bound \in Nat : \A c \in DOMAIN m : m[c].seq <= bound /\ m[c].attempt <= bound

PhaseInv ==
  /\ phase \in {"asked", "refused", "accepted", "streaming", "ended", "failed"}
  /\ phase \in {"streaming", "ended", "failed"} => offer.verdict \in {"code", "native"}
  /\ phase = "asked" =>
       /\ DOMAIN local = {} /\ DOMAIN visible = {} /\ DOMAIN store = {}
       /\ announced = {} /\ DOMAIN upstream = {} /\ transcript = <<>>

\* A call that this response has not translated was never evaluated or shown;
\* what was shown is what the store and this response hold.
DeliveryInv ==
  /\ shown \in [Calls -> SUBSET SeenItems] /\ evals \in [Calls -> {0, 1}]
  /\ announced \subseteq Calls
  /\ Translated(local) /\ Translated(visible) /\ Translated(store)
  /\ DOMAIN visible \subseteq DOMAIN store
  /\ DOMAIN visible \cap (announced \cup DOMAIN local) = {}
  /\ \A c \in announced \ DOMAIN local : evals[c] = 0 /\ Carriers(c) = {}
  /\ \A c \in DOMAIN store : Carriers(c) # {}
  /\ \A c \in Calls : \A p \in Carriers(c) : c \in DOMAIN store /\ p = Carrier(c, store[c])
  /\ \A c \in DOMAIN local : \A p \in Carriers(c) : p = Carrier(c, local[c])

\* The calls of this response are numbered in the order of their translation.
RecoveryInv ==
  /\ \A c \in DOMAIN local : local[c].seq <= Cardinality(DOMAIN local)
  /\ RecoveryFollowsRejection

-----------------------------------------------------------------------------
(* Delivery: how a translation is recorded, stored and shown.              *)

\* What a step does to the calls: at most one is translated, the published
\* ones are stored and shown, and only calls that are new are announced.
Translating(c, i, r) ==
  /\ c \in Calls /\ i \in Inputs /\ r \in Results(c)
  /\ c \notin DOMAIN local /\ (New(c) \/ c \in announced)
  /\ local' = Over(local, Entry(c, Translation(c, i, r)))
  /\ evals' = [evals EXCEPT ![c] = @ + 1]

Publishing(D) ==
  /\ D \subseteq DOMAIN local'
  /\ store' = Over([d \in D |-> local'[d]], store)
  /\ shown' \in [Calls -> SUBSET SeenItems]
  /\ \A c \in Calls : Carriers(c)' = Carriers(c) \cup (IF c \in D THEN {Carrier(c, local'[c])} ELSE {})

Delivers ==
  /\ UNCHANGED <<offer, visible>>
  /\ (local' = local /\ evals' = evals) \/ \E c, i, r : Translating(c, i, r)
  /\ \E D : Publishing(D)
  /\ announced' \subseteq announced \cup {c \in Calls : New(c)}

\* What a translation may come to.
LEMMA ResultsAre ==
  ASSUME NEW c
  PROVE  Results(c) \subseteq {"ok", "rejected", "unevaluated"}
  BY DEF Results

\* The number of a translation is above those before it.
LEMMA NextNumber ==
  ASSUME NEW m, Translated(m), NEW c \in Calls, c \notin DOMAIN m
  PROVE  /\ Cardinality(DOMAIN m) \in Nat
         /\ IsFiniteSet(DOMAIN m \cup {c})
         /\ Cardinality(DOMAIN m \cup {c}) = Cardinality(DOMAIN m) + 1
  BY FS_AddElement, FS_CardinalityType DEF Translated

\* A set of numbers with a bound has a greatest one.
LEMMA GreatestExists ==
  ASSUME NEW S \in SUBSET Nat, S # {}, NEW bound \in Nat, \A x \in S : x <= bound
  PROVE  \E x \in S : \A y \in S : y <= x
<1> DEFINE Lower == {ss \in Nat \X Nat : ss[1] < ss[2]}
           U == {u \in Nat : \A x \in S : x <= u}
<1>1. IsWellFoundedOn(Lower, Nat)
  BY NatLessThanWellFounded, Zenon DEF OpToRel
<1>2. U \subseteq Nat /\ bound \in U
  OBVIOUS
<1>3. \E u \in U : \A v \in U : <<v, u>> \notin Lower
  BY <1>1, <1>2, WFMin
<1>4. PICK u \in U : \A v \in U : <<v, u>> \notin Lower
  BY <1>3
<1>5. u \in Nat /\ \A x \in S : x <= u
  OBVIOUS
<1>6. CASE u \in S
  BY <1>5, <1>6
<1>7. CASE u \notin S
  <2>1. PICK x \in S : TRUE
    OBVIOUS
  <2>2. x \in Nat /\ x <= u /\ x # u
    BY <1>5, <1>7
  <2>3. u - 1 \in Nat
    BY <1>5, <2>2
  <2>4. u - 1 \in U
    BY <1>5, <1>7, <2>3
  <2>5. <<u - 1, u>> \in Lower
    BY <1>5, <2>3
  <2> QED
    BY <1>4, <2>4, <2>5
<1> QED
  BY <1>6, <1>7

\* The newest evaluated call of a map is one of its last.
LEMMA NewestOf ==
  ASSUME NEW m, Translated(m), Evaluated(m) # {}
  PROVE  LET c == CHOOSE c \in Evaluated(m) : \A d \in Evaluated(m) : m[d].seq <= m[c].seq
         IN  c \in Evaluated(m) /\ \A d \in Evaluated(m) : m[d].seq <= m[c].seq
<1> DEFINE S == {m[c].seq : c \in Evaluated(m)}
<1>1. PICK bound \in Nat : \A c \in DOMAIN m : m[c].seq <= bound
  BY DEF Translated
<1>2. \A c \in Evaluated(m) : c \in DOMAIN m /\ m[c].seq \in Nat
  BY DEF Evaluated, Translated, Histories
<1>3. S \in SUBSET Nat /\ S # {} /\ \A x \in S : x <= bound
  BY <1>1, <1>2
<1>4. \E x \in S : \A y \in S : y <= x
  BY <1>3, GreatestExists
<1>5. \E c \in Evaluated(m) : \A d \in Evaluated(m) : m[d].seq <= m[c].seq
  BY <1>4
<1> QED
  BY <1>5

\* Where the newest evaluated call is found: in this response, or else in the
\* ancestry.
LEMMA NewestIs ==
  ASSUME Translated(local), Translated(visible), Newest # Null
  PROVE  \/ /\ Evaluated(local) # {}
            /\ \E c \in Evaluated(local) :
                 Newest = local[c] /\ \A d \in Evaluated(local) : local[d].seq <= local[c].seq
         \/ /\ Evaluated(local) = {}
            /\ \E c \in Evaluated(visible) :
                 Newest = visible[c] /\ \A d \in Evaluated(visible) : visible[d].seq <= visible[c].seq
  BY NewestOf DEF Newest

\* The newest call is a translation.
LEMMA NewestType ==
  ASSUME Translated(local), Translated(visible), Newest # Null
  PROVE  /\ Newest \in Histories /\ Newest.attempt \in Nat /\ Newest.corr \in Calls
         /\ \E bound \in Nat : Newest.attempt <= bound
<1>1. Newest \in Histories
  BY NewestIs DEF Evaluated, Translated
<1> QED
  BY <1>1 DEF Histories

\* The attempts of a map do not grow without bound.
LEMMA AttemptBound ==
  ASSUME NEW m, Translated(m), NEW k
  PROVE  LET S == {m[c].attempt : c \in {d \in DOMAIN m : m[d].tool \in Edits /\ m[d].corr = k}}
         IN  S \subseteq Nat /\ \E bound \in Nat : \A x \in S : x <= bound
  BY DEF Translated, Histories

\* The attempt of a recovery is above the one it recovers.
LEMMA NextAttemptIs ==
  ASSUME Translated(local), Translated(visible), Newest # Null, NEW k
  PROVE  NextAttempt(k) \in Nat /\ NextAttempt(k) > Newest.attempt
<1> DEFINE seen(hist) == {hist[c].attempt : c \in {d \in DOMAIN hist : hist[d].tool \in Edits /\ hist[d].corr = k}}
           S == {1, Newest.attempt} \cup seen(visible) \cup seen(local)
<1>1. PICK b1 \in Nat : \A x \in seen(visible) : x \in Nat /\ x <= b1
  BY AttemptBound
<1>2. PICK b2 \in Nat : \A x \in seen(local) : x \in Nat /\ x <= b2
  BY AttemptBound
<1>3. Newest.attempt \in Nat
  BY NewestType
<1> HIDE DEF seen
<1>4. S \in SUBSET Nat /\ S # {}
  BY <1>1, <1>2, <1>3
<1>5. b1 + b2 + 1 + Newest.attempt \in Nat /\ \A x \in S : x <= b1 + b2 + 1 + Newest.attempt
  BY <1>1, <1>2, <1>3
<1>6. Newest.attempt \in S
  OBVIOUS
<1> HIDE DEF S
<1>7. \E x \in S : \A y \in S : y <= x
  BY <1>4, <1>5, GreatestExists
<1>8. \E x \in S : \A y \in S : x >= y
  BY <1>4, <1>7
<1>9. Max(S) \in S /\ \A y \in S : Max(S) >= y
  BY <1>8 DEF Max
<1>10. Max(S) \in Nat /\ Max(S) >= Newest.attempt
  BY <1>4, <1>6, <1>9
<1>11. NextAttempt(k) = Max(S) + 1
  BY DEF NextAttempt, S, seen
<1> QED
  BY <1>3, <1>10, <1>11

\* A translation is one of the call it was made for.
LEMMA TranslationIs ==
  ASSUME Translated(local), Translated(visible), offer.verdict \in {"code", "native"},
         NEW c \in Calls, NEW i \in Inputs, NEW r \in {"ok", "rejected", "unevaluated"}
  PROVE  LET h == Translation(c, i, r) IN
         /\ h \in Histories /\ h.tool = Called[c] /\ Fits(c, h) /\ h.input = i /\ h.result = r
         /\ h.seq = Cardinality(DOMAIN local) + 1
<1>1. Called[c] \in Tools
  BY CallsAssumption DEF Called
<1>2. Cardinality(DOMAIN local) + 1 \in Nat
  BY FS_CardinalityType DEF Translated
<1> DEFINE chained == Called[c] = "hpatch_recover" /\ Newest # Null
           k == IF chained THEN Newest.corr ELSE c
           a == IF chained THEN NextAttempt(Newest.corr) ELSE 1
<1>3. k \in Calls /\ a \in Nat
  BY NewestType, NextAttemptIs
<1> HIDE DEF k, a
<1>4. Translation(c, i, r) = [tool |-> Called[c], input |-> i, result |-> r,
                              seq |-> Cardinality(DOMAIN local) + 1, corr |-> k, attempt |-> a,
                              payload |-> Payload(c, i), replay |-> Replays(c, i)]
  BY DEF Translation, History, k, a
<1>5. Payload(c, i) \in Payloads /\ Replays(c, i) \in BOOLEAN /\ (Replays(c, i) => Payload(c, i) = "program")
  BY DEF Payload, Replays, Recovered, Payloads
<1> QED
  BY <1>1, <1>2, <1>3, <1>4, <1>5 DEF Histories, Fits

\* A map of translations with one more.
LEMMA OneMore ==
  ASSUME NEW m, Translated(m), NEW c \in Calls, c \notin DOMAIN m, NEW h \in Histories, Fits(c, h)
  PROVE  /\ Translated(Over(m, Entry(c, h))) /\ DOMAIN Over(m, Entry(c, h)) = DOMAIN m \cup {c}
         /\ Over(m, Entry(c, h))[c] = h
         /\ \A d \in DOMAIN m : Over(m, Entry(c, h))[d] = m[d]
<1> DEFINE n == Over(m, Entry(c, h))
<1>1. DOMAIN n = DOMAIN m \cup {c} /\ n = [d \in DOMAIN m \cup {c} |-> IF d \in DOMAIN m THEN m[d] ELSE h]
  BY DEF Over, Entry
<1> HIDE DEF n
<1>2. n[c] = h /\ \A d \in DOMAIN m : n[d] = m[d]
  BY <1>1
<1>3. IsFiniteSet(DOMAIN n)
  BY <1>1, NextNumber
<1>4. n \in [DOMAIN n -> Histories] /\ DOMAIN n \subseteq Calls
  BY <1>1 DEF Translated
<1>5. PICK bound \in Nat : \A d \in DOMAIN m : m[d].seq <= bound /\ m[d].attempt <= bound
  BY DEF Translated
<1>6. bound + h.seq + h.attempt \in Nat /\ h.seq \in Nat /\ h.attempt \in Nat
  BY DEF Histories
<1>7. \A d \in DOMAIN n : n[d].seq <= bound + h.seq + h.attempt /\ n[d].attempt <= bound + h.seq + h.attempt
  <2> SUFFICES ASSUME NEW d \in DOMAIN n
               PROVE  n[d].seq <= bound + h.seq + h.attempt /\ n[d].attempt <= bound + h.seq + h.attempt
    OBVIOUS
  <2>1. n[d].seq \in Nat /\ n[d].attempt \in Nat
    BY <1>4 DEF Histories
  <2>2. CASE d \in DOMAIN m
    BY <1>2, <1>5, <1>6, <2>1, <2>2
  <2>3. CASE d = c
    BY <1>2, <1>6, <2>1, <2>3
  <2> QED
    BY <1>1, <2>2, <2>3
<1>8. \A d \in DOMAIN n : Fits(d, n[d])
  BY <1>1, <1>2 DEF Translated
<1>9. Translated(n)
  BY <1>3, <1>4, <1>6, <1>7, <1>8 DEF Translated
<1> QED
  BY <1>1, <1>2, <1>9 DEF n

\* The translations of two maps, the one before the other.
LEMMA OverIs ==
  ASSUME NEW m, NEW n, Translated(m), Translated(n), NEW D \in SUBSET DOMAIN n
  PROVE  LET o == Over([d \in D |-> n[d]], m) IN
         /\ Translated(o) /\ DOMAIN o = DOMAIN m \cup D
         /\ \A d \in D : o[d] = n[d]
         /\ \A d \in DOMAIN m \ D : o[d] = m[d]
<1> DEFINE o == Over([d \in D |-> n[d]], m)
<1>1. o = [d \in D \cup DOMAIN m |-> IF d \in D THEN n[d] ELSE m[d]]
  BY DEF Over
<1> HIDE DEF o
<1>2. DOMAIN o = DOMAIN m \cup D /\ (\A d \in D : o[d] = n[d]) /\ (\A d \in DOMAIN m \ D : o[d] = m[d])
  BY <1>1
<1>3. IsFiniteSet(DOMAIN o)
  <2>1. IsFiniteSet(D) /\ IsFiniteSet(DOMAIN m)
    BY FS_Subset DEF Translated
  <2> QED
    BY <1>2, <2>1, FS_Union
<1>4. o \in [DOMAIN o -> Histories] /\ DOMAIN o \subseteq Calls
  BY <1>1 DEF Translated
<1>5. PICK b1 \in Nat : \A d \in DOMAIN m : m[d].seq <= b1 /\ m[d].attempt <= b1
  BY DEF Translated
<1>6. PICK b2 \in Nat : \A d \in DOMAIN n : n[d].seq <= b2 /\ n[d].attempt <= b2
  BY DEF Translated
<1>7. \A d \in DOMAIN o : o[d].seq <= b1 + b2 /\ o[d].attempt <= b1 + b2
  <2> SUFFICES ASSUME NEW d \in DOMAIN o
               PROVE  o[d].seq <= b1 + b2 /\ o[d].attempt <= b1 + b2
    OBVIOUS
  <2>1. o[d].seq \in Nat /\ o[d].attempt \in Nat
    BY <1>4 DEF Histories
  <2> QED
    BY <1>2, <1>5, <1>6, <2>1
<1>8. \A d \in DOMAIN o : Fits(d, o[d])
  BY <1>2 DEF Translated
<1>9. Translated(o)
  <2>1. b1 + b2 \in Nat
    BY <1>5, <1>6
  <2> QED
    BY <1>3, <1>4, <1>7, <1>8, <2>1 DEF Translated
<1> QED
  BY <1>2, <1>9 DEF o

\* A call that is new is in no map.
LEMMA NewIsUnknown ==
  ASSUME DeliveryInv, NEW c \in Calls, New(c)
  PROVE  c \notin DOMAIN store /\ c \notin DOMAIN visible /\ Carriers(c) = {} /\ evals[c] = 0
  BY DEF DeliveryInv, New, Carriers

\* What is known of this response's calls after a step.
LEMMA LocalStep ==
  ASSUME DeliveryInv, offer.verdict \in {"code", "native"}, offer' = offer,
         (local' = local /\ evals' = evals) \/ \E c, i, r : Translating(c, i, r)
  PROVE  /\ Translated(local') /\ DOMAIN local \subseteq DOMAIN local'
         /\ \A c \in DOMAIN local : local'[c] = local[c]
         /\ evals' \in [Calls -> {0, 1}]
         /\ \A c \in Calls \ DOMAIN local' : evals'[c] = evals[c]
         /\ \A c \in DOMAIN local' \ DOMAIN local : New(c) \/ c \in announced
<1>1. CASE local' = local /\ evals' = evals
  BY <1>1 DEF DeliveryInv
<1>2. CASE \E c, i, r : Translating(c, i, r)
  <2>1. PICK c, i, r : Translating(c, i, r)
    BY <1>2
  <2> DEFINE h == Translation(c, i, r)
  <2>2. h \in Histories /\ Fits(c, h)
    BY <2>1, TranslationIs, ResultsAre DEF Translating, DeliveryInv
  <2> HIDE DEF h
  <2>3. /\ c \in Calls /\ c \notin DOMAIN local /\ (New(c) \/ c \in announced)
        /\ local' = Over(local, Entry(c, h)) /\ evals' = [evals EXCEPT ![c] = @ + 1]
    BY <2>1 DEF Translating, h
  <2>4. /\ Translated(local') /\ DOMAIN local' = DOMAIN local \cup {c}
        /\ \A d \in DOMAIN local : local'[d] = local[d]
    <3>1. Translated(local)
      BY DEF DeliveryInv
    <3>2. /\ Translated(Over(local, Entry(c, h))) /\ DOMAIN Over(local, Entry(c, h)) = DOMAIN local \cup {c}
          /\ \A d \in DOMAIN local : Over(local, Entry(c, h))[d] = local[d]
      BY ONLY <2>2, <2>3, <3>1, OneMore
    <3> QED
      BY <2>3, <3>2
  <2>5. evals[c] = 0
    BY <2>3, NewIsUnknown DEF DeliveryInv
  <2>6. evals' \in [Calls -> {0, 1}] /\ \A d \in Calls : d # c => evals'[d] = evals[d]
    BY <2>3, <2>5 DEF DeliveryInv
  <2> QED
    BY <2>3, <2>4, <2>6
<1> QED
  BY <1>1, <1>2

\* Translations are stored before they are shown, and once.
LEMMA DeliveryStep ==
  ASSUME DeliveryInv, offer.verdict \in {"code", "native"}, Delivers
  PROVE  DeliveryInv'
<1> PICK D : Publishing(D)
  BY DEF Delivers
<1>0. /\ offer' = offer /\ visible' = visible
      /\ (local' = local /\ evals' = evals) \/ \E c, i, r : Translating(c, i, r)
      /\ announced' \subseteq announced \cup {c \in Calls : New(c)}
  BY DEF Delivers
<1>1. /\ Translated(local') /\ DOMAIN local \subseteq DOMAIN local'
      /\ \A c \in DOMAIN local : local'[c] = local[c]
      /\ evals' \in [Calls -> {0, 1}]
      /\ \A c \in Calls \ DOMAIN local' : evals'[c] = evals[c]
      /\ \A c \in DOMAIN local' \ DOMAIN local : New(c) \/ c \in announced
  BY <1>0, LocalStep
<1>2. D \subseteq DOMAIN local' /\ DOMAIN local' \subseteq Calls
  BY <1>1 DEF Publishing, Translated
<1>3. /\ Translated(store') /\ DOMAIN store' = DOMAIN store \cup D
      /\ \A d \in D : store'[d] = local'[d]
      /\ \A d \in DOMAIN store \ D : store'[d] = store[d]
  <2>1. Translated(store)
    BY DEF DeliveryInv
  <2>2. store' = Over([d \in D |-> local'[d]], store)
    BY DEF Publishing
  <2>3. D \in SUBSET DOMAIN local'
    BY <1>2
  <2> DEFINE o == Over([d \in D |-> local'[d]], store)
  <2>4. /\ Translated(o) /\ DOMAIN o = DOMAIN store \cup D
        /\ \A d \in D : o[d] = local'[d]
        /\ \A d \in DOMAIN store \ D : o[d] = store[d]
    BY <1>1, <2>1, <2>3, OverIs
  <2> QED
    BY <2>2, <2>4
<1>5. shown' \in [Calls -> SUBSET SeenItems]
  BY DEF Publishing
<1>6. \A c \in Calls : Carriers(c)' = Carriers(c) \cup (IF c \in D THEN {Carrier(c, local'[c])} ELSE {})
  BY DEF Publishing
<1>7. \A c \in announced' : c \in Calls /\ (c \in announced \/ (Carriers(c) = {} /\ evals[c] = 0 /\ c \notin DOMAIN visible))
  BY <1>0, NewIsUnknown DEF DeliveryInv
<1>8. \A c \in DOMAIN local' \ DOMAIN local : Carriers(c) = {} /\ c \notin DOMAIN visible
  BY <1>1, <1>2, NewIsUnknown DEF DeliveryInv
<1>9. Called' = Called
  BY <1>0 DEF Called
<1>10. Translated(local)' /\ Translated(visible)' /\ Translated(store)'
  BY <1>0, <1>1, <1>3, <1>9 DEF DeliveryInv, Translated, Fits
<1>11. (DOMAIN visible \subseteq DOMAIN store)'
  BY <1>0, <1>3 DEF DeliveryInv
<1>12. (DOMAIN visible \cap (announced \cup DOMAIN local) = {})'
  BY <1>0, <1>7, <1>8 DEF DeliveryInv
<1>13. (\A c \in announced \ DOMAIN local : evals[c] = 0 /\ Carriers(c) = {})'
  <2> SUFFICES ASSUME NEW c \in announced', c \notin DOMAIN local'
               PROVE  evals'[c] = 0 /\ Carriers(c)' = {}
    OBVIOUS
  <2>1. c \in Calls /\ evals[c] = 0 /\ Carriers(c) = {}
    BY <1>1, <1>7 DEF DeliveryInv
  <2>2. c \notin D
    BY <1>2
  <2> QED
    BY <1>1, <1>6, <2>1, <2>2
<1>14. (\A c \in DOMAIN store : Carriers(c) # {})'
  <2> SUFFICES ASSUME NEW c \in DOMAIN store' PROVE Carriers(c)' # {}
    OBVIOUS
  <2>1. c \in Calls
    BY <1>3 DEF Translated
  <2> QED
    BY <1>3, <1>6, <2>1 DEF DeliveryInv
<1>15. (\A c \in DOMAIN local : \A p \in Carriers(c) : p = Carrier(c, local[c]))'
  <2> SUFFICES ASSUME NEW c \in DOMAIN local', NEW p \in Carriers(c)'
               PROVE  p = Carrier(c, local'[c])
    BY DEF Carrier
  <2>1. c \in Calls
    BY <1>2
  <2>2. CASE c \in DOMAIN local
    BY <1>1, <1>6, <2>1, <2>2 DEF DeliveryInv
  <2>3. CASE c \notin DOMAIN local
    BY <1>6, <1>8, <2>1, <2>3
  <2> QED
    BY <2>2, <2>3
<1>16. (\A c \in Calls : \A p \in Carriers(c) : c \in DOMAIN store /\ p = Carrier(c, store[c]))'
  <2> SUFFICES ASSUME NEW c \in Calls, NEW p \in Carriers(c)'
               PROVE  c \in DOMAIN store' /\ p = Carrier(c, store'[c])
    BY DEF Carrier
  <2>1. CASE c \in D
    <3>1. p = Carrier(c, local'[c])
      BY <1>2, <1>15, <2>1 DEF Carrier
    <3> QED
      BY <1>3, <2>1, <3>1
  <2>2. CASE c \notin D
    BY <1>3, <1>6, <2>2 DEF DeliveryInv
  <2> QED
    BY <2>1, <2>2
<1> QED
  BY <1>1, <1>5, <1>7, <1>10, <1>11, <1>12, <1>13, <1>14, <1>15, <1>16 DEF DeliveryInv

-----------------------------------------------------------------------------
(* Every action of a response delivers in this way.                        *)

\* Nothing is published.
LEMMA NothingPublished ==
  ASSUME DeliveryInv, store' = store, shown' = shown
  PROVE  Publishing({})
<1>1. store = Over([d \in {} |-> local'[d]], store)
  <2>1. store = [c \in DOMAIN store |-> store[c]]
    BY DEF DeliveryInv, Translated
  <2> QED
    BY <2>1 DEF Over
<1> QED
  BY <1>1 DEF Publishing, DeliveryInv, Carriers

LEMMA NothingDelivered ==
  ASSUME DeliveryInv, UNCHANGED <<offer, visible, local, evals, store, shown>>,
         announced' \subseteq announced \cup {c \in Calls : New(c)}
  PROVE  Delivers
  BY NothingPublished DEF Delivers

\* A response that is aborted publishes nothing.
LEMMA AbortDelivers ==
  ASSUME DeliveryInv, UNCHANGED <<offer, visible, local, evals>>, Abort
  PROVE  Delivers
  BY NothingDelivered DEF Abort, Dropped

\* A carrier can be executed.
LEMMA CarrierIs ==
  ASSUME NEW c \in Calls, NEW h \in Histories
  PROVE  Carrier(c, h) \in SeenItems /\ Carrier(c, h).input # Null
  BY CallsAssumption DEF Carrier, Histories, SeenItems

\* The calls of this response after a translation.
LEMMA RecordIs ==
  ASSUME DeliveryInv, offer.verdict \in {"code", "native"}, NEW c \in Calls, New(c) \/ c \in announced,
         NEW i \in Inputs, NEW r, Known(c) \/ r \in Results(c), offer' = offer,
         local' = RecordLocal(c, i, r), evals' = Count(c)
  PROVE  /\ (local' = local /\ evals' = evals) \/ Translating(c, i, r)
         /\ Translated(local') /\ c \in DOMAIN local' /\ DOMAIN local' \subseteq Calls
         /\ \A d \in DOMAIN local' : local'[d] \in Histories
<1>1. (local' = local /\ evals' = evals /\ Known(c)) \/ Translating(c, i, r)
  BY DEF RecordLocal, Count, Known, Translating
<1>2. Translated(local')
  <2>1. (local' = local /\ evals' = evals) \/ \E d, j, s : Translating(d, j, s)
    BY <1>1
  <2> QED
    BY <2>1, LocalStep
<1>3. c \in DOMAIN local'
  BY <1>1 DEF Known, Translating, Over, Entry
<1> QED
  BY <1>1, <1>2, <1>3 DEF Translated

LEMMA ReleaseDelivers ==
  ASSUME DeliveryInv, offer.verdict \in {"code", "native"}, NEW c \in Calls, New(c) \/ c \in announced,
         NEW i \in Inputs, NEW held, NEW ans, Release(c, i, held, ans), UNCHANGED <<offer, visible>>
  PROVE  Delivers
<1>1. CASE Abort /\ UNCHANGED <<local, evals>>
  BY <1>1, AbortDelivers
<1>2. CASE ~(Abort /\ UNCHANGED <<local, evals>>)
  <2>1. PICK r \in IF Known(c) THEN {local[c].result} ELSE Results(c) :
           /\ local' = RecordLocal(c, i, r) /\ evals' = Count(c)
           /\ \/ /\ store' = Over(Entry(c, local'[c]), store)
                 /\ shown' = [shown EXCEPT ![c] = @ \cup {Carrier(c, local'[c])}]
                 /\ announced' = announced \cup {c}
              \/ Abort
    BY <1>2 DEF Release
  <2>2. Known(c) \/ r \in Results(c)
    BY <2>1
  <2>3. /\ (local' = local /\ evals' = evals) \/ Translating(c, i, r)
        /\ c \in DOMAIN local' /\ local'[c] \in Histories
    BY <2>1, <2>2, RecordIs
  <2>4. CASE Abort
    BY <2>3, <2>4, NothingPublished DEF Delivers, Abort, Dropped
  <2>5. CASE ~Abort
    <3>1. /\ store' = Over(Entry(c, local'[c]), store)
          /\ shown' = [shown EXCEPT ![c] = @ \cup {Carrier(c, local'[c])}]
          /\ announced' = announced \cup {c}
      BY <2>1, <2>5
    <3>2. Carrier(c, local'[c]) \in SeenItems /\ Carrier(c, local'[c]).input # Null
      BY <2>3, CarrierIs
    <3>3. Publishing({c})
      <4>1. store' = Over([d \in {c} |-> local'[d]], store)
        <5>1. [d \in {c} |-> local'[d]] = Entry(c, local'[c])
          BY DEF Entry
        <5> QED
          BY <3>1, <5>1
      <4>2. shown' \in [Calls -> SUBSET SeenItems]
        BY <3>1, <3>2 DEF DeliveryInv
      <4>3. \A d \in Calls : Carriers(d)' = Carriers(d) \cup (IF d \in {c} THEN {Carrier(d, local'[d])} ELSE {})
        BY <3>1, <3>2 DEF DeliveryInv, Carriers
      <4> QED
        BY <2>3, <4>1, <4>2, <4>3 DEF Publishing
    <3> QED
      BY <2>3, <3>1, <3>3 DEF Delivers
  <2> QED
    BY <2>4, <2>5
<1> QED
  BY <1>1, <1>2

LEMMA ItemDelivers ==
  ASSUME DeliveryInv, offer.verdict \in {"code", "native"}, NEW c \in Calls, NEW i \in Inputs,
         NEW complete \in BOOLEAN, ItemDone(c, i, complete)
  PROVE  Delivers
<1>1. (New(c) \/ c \in announced) /\ UNCHANGED <<offer, visible>>
  BY DEF ItemDone, Streaming
<1> DEFINE raw == Raw(c, IF complete THEN "client" ELSE "partial")
<1>2. CASE /\ shown' = [shown EXCEPT ![c] = @ \cup {raw}]
           /\ announced' = announced \cup {c} /\ UNCHANGED <<local, evals, store>>
  <2>1. raw \in SeenItems /\ raw.input = Null
    BY DEF Raw, SeenItems, Payloads
  <2> HIDE DEF raw
  <2>2. shown' \in [Calls -> SUBSET SeenItems] /\ \A d \in Calls : Carriers(d)' = Carriers(d)
    BY <1>2, <2>1 DEF DeliveryInv, Carriers
  <2>3. store' = Over([d \in {} |-> local'[d]], store)
    <3>1. store = [d \in DOMAIN store |-> store[d]]
      BY DEF DeliveryInv, Translated
    <3> QED
      BY <1>2, <3>1 DEF Over
  <2>4. Publishing({})
    BY <2>2, <2>3 DEF Publishing
  <2> QED
    BY <1>1, <1>2, <2>4 DEF Delivers
<1>3. CASE Abort /\ UNCHANGED <<local, evals>>
  BY <1>1, <1>3, AbortDelivers
<1>4. CASE Release(c, i, Restrict(pending, DOMAIN pending \ {c}), Blocked)
  BY <1>1, <1>4, ReleaseDelivers
<1> QED
  BY <1>2, <1>3, <1>4 DEF ItemDone

\* The snapshot of a response publishes every call of it.
LEMMA ConcludeDelivers ==
  ASSUME DeliveryInv, offer.verdict \in {"code", "native"}, NEW fresh \in {Null} \cup Unseen, NEW i,
         fresh # Null => i \in Inputs, NEW usage, NEW rest, Conclude(fresh, i, usage, rest),
         UNCHANGED <<offer, visible>>
  PROVE  Delivers
<1>1. PICK r \in IF fresh = Null THEN {Null} ELSE Results(fresh) :
        /\ local' = IF fresh = Null THEN local ELSE RecordLocal(fresh, i, r)
        /\ evals' = IF fresh = Null THEN evals ELSE Count(fresh)
        /\ \/ /\ store' = Over(local', store)
              /\ shown' = [c \in Calls |-> shown[c] \cup
                             (IF c \in DOMAIN local' THEN {Carrier(c, local'[c])} ELSE {})]
              /\ announced' = {}
           \/ Abort
  BY DEF Conclude, Dropped
<1>2. /\ (local' = local /\ evals' = evals) \/ \E c, j, s : Translating(c, j, s)
      /\ Translated(local')
  <2>1. CASE fresh = Null
    BY <1>1, <2>1 DEF DeliveryInv
  <2>2. CASE fresh # Null
    <3>1. fresh \in Calls /\ (New(fresh) \/ fresh \in announced) /\ i \in Inputs /\ r \in Results(fresh)
      BY <1>1, <2>2 DEF Unseen
    <3>2. local' = RecordLocal(fresh, i, r) /\ evals' = Count(fresh)
      BY <1>1, <2>2
    <3> QED
      BY <3>1, <3>2, RecordIs
  <2> QED
    BY <2>1, <2>2
<1>3. CASE Abort
  BY <1>2, <1>3, NothingPublished DEF Delivers, Abort, Dropped
<1>4. CASE ~Abort
  <2>1. /\ store' = Over(local', store) /\ announced' = {}
        /\ shown' = [c \in Calls |-> shown[c] \cup
                       (IF c \in DOMAIN local' THEN {Carrier(c, local'[c])} ELSE {})]
    BY <1>1, <1>4
  <2>2. \A c \in DOMAIN local' : c \in Calls /\ Carrier(c, local'[c]) \in SeenItems /\ Carrier(c, local'[c]).input # Null
    BY <1>2, CarrierIs DEF Translated
  <2>3. Publishing(DOMAIN local')
    <3>1. [d \in DOMAIN local' |-> local'[d]] = local'
      BY <1>2 DEF Translated
    <3>2. shown' \in [Calls -> SUBSET SeenItems]
      BY <2>1, <2>2 DEF DeliveryInv
    <3>3. \A c \in Calls : Carriers(c)' = Carriers(c) \cup (IF c \in DOMAIN local' THEN {Carrier(c, local'[c])} ELSE {})
      BY <2>1, <2>2 DEF Carriers
    <3> QED
      BY <2>1, <3>1, <3>2, <3>3 DEF Publishing
  <2> QED
    BY <1>2, <2>1, <2>3 DEF Delivers
<1> QED
  BY <1>3, <1>4

\* The steps of a response.
Responds ==
  \/ \E c \in Calls : Added(c) \/ ArgumentsDone(c)
  \/ \E c \in Calls, i \in Inputs : InputDone(c, i) \/ ItemDone(c, i, TRUE) \/ ItemDone(c, i, FALSE)
  \/ Unsupported \/ AnswerEvent(TRUE) \/ AnswerEvent(FALSE) \/ ErrorEvent \/ EndOfStream
  \/ TerminalRefused
  \/ phase = "streaming" /\ \E k \in {"completed", "failed"}, usage \in BOOLEAN :
       \E f \in {Null} \cup Unseen : \E i \in IF f = Null THEN {Null} ELSE Inputs :
         Terminal(k, f, i, usage) \/ TransformJSON(k, f, i, usage)

\* The steps that send a request.
Asks ==
  \/ \E o \in Orders : \E c \in Range(o), x \in Courses : NextRequest(o, [Plainly EXCEPT ![c] = x], Null)
  \/ \E o \in Orders : \E c \in Range(o) : NextRequest(o, Plainly, c)
  \/ NextRequest(<<>>, Plainly, Null)

LEMMA NextCases == TransformNext => PrepareRequest \/ PassThrough \/ Responds \/ Asks
  BY DEF TransformNext, Responds, Asks

LEMMA RespondsDelivers ==
  ASSUME DeliveryInv, PhaseInv, Responds
  PROVE  /\ Delivers /\ phase = "streaming" /\ phase' \in {"streaming", "ended", "failed"}
         /\ DOMAIN upstream' = {} /\ transcript' = <<>>
<1> USE DEF NoCalls
<1>1. ASSUME NEW c \in Calls, Added(c)
      PROVE  /\ Delivers /\ phase = "streaming" /\ phase' \in {"streaming", "ended", "failed"}
             /\ DOMAIN upstream' = {} /\ transcript' = <<>>
  <2>1. CASE Abort
    BY <1>1, <2>1, AbortDelivers DEF Added, Streaming, Sent, Abort
  <2>2. CASE ~Abort
    BY <1>1, <2>2, NothingDelivered DEF Added, Streaming, Sent
  <2> QED
    BY <2>1, <2>2
<1>2. ASSUME NEW c \in Calls, ArgumentsDone(c)
      PROVE  /\ Delivers /\ phase = "streaming" /\ phase' \in {"streaming", "ended", "failed"}
             /\ DOMAIN upstream' = {} /\ transcript' = <<>>
  <2>1. CASE Abort
    BY <1>2, <2>1, AbortDelivers DEF ArgumentsDone, Streaming, Sent, Abort
  <2>2. CASE ~Abort
    BY <1>2, <2>2, NothingDelivered DEF ArgumentsDone, Streaming, Sent
  <2> QED
    BY <2>1, <2>2
<1>3. ASSUME NEW c \in Calls, NEW i \in Inputs, InputDone(c, i)
      PROVE  /\ Delivers /\ phase = "streaming" /\ phase' \in {"streaming", "ended", "failed"}
             /\ DOMAIN upstream' = {} /\ transcript' = <<>>
  <2>1. Delivers
    BY <1>3, ReleaseDelivers DEF InputDone, Streaming, PhaseInv
  <2> QED
    BY <1>3, <2>1 DEF InputDone, Streaming, Sent, Release, Abort
<1>4. ASSUME NEW c \in Calls, NEW i \in Inputs, NEW complete \in BOOLEAN, ItemDone(c, i, complete)
      PROVE  /\ Delivers /\ phase = "streaming" /\ phase' \in {"streaming", "ended", "failed"}
             /\ DOMAIN upstream' = {} /\ transcript' = <<>>
  <2>1. Delivers
    BY <1>4, ItemDelivers DEF ItemDone, Streaming, PhaseInv
  <2> QED
    BY <1>4, <2>1 DEF ItemDone, Streaming, Sent, Release, Abort
<1>5. ASSUME Unsupported \/ TerminalRefused \/ EndOfStream
      PROVE  /\ Delivers /\ phase = "streaming" /\ phase' \in {"streaming", "ended", "failed"}
             /\ DOMAIN upstream' = {} /\ transcript' = <<>>
  <2>1. Streaming /\ Abort /\ UNCHANGED <<local, evals>>
    BY <1>5 DEF Unsupported, TerminalRefused, EndOfStream
  <2> QED
    BY <2>1, AbortDelivers DEF Streaming, Sent, Abort
<1>6. ASSUME NEW done \in BOOLEAN, AnswerEvent(done)
      PROVE  /\ Delivers /\ phase = "streaming" /\ phase' \in {"streaming", "ended", "failed"}
             /\ DOMAIN upstream' = {} /\ transcript' = <<>>
  <2>1. /\ UNCHANGED <<offer, visible, local, evals, store, shown, announced, phase>> /\ phase = "streaming" /\ Sent
    BY <1>6 DEF AnswerEvent
  <2> QED
    BY <2>1, NothingDelivered DEF Sent
<1>7. ASSUME ErrorEvent
      PROVE  /\ Delivers /\ phase = "streaming" /\ phase' \in {"streaming", "ended", "failed"}
             /\ DOMAIN upstream' = {} /\ transcript' = <<>>
  BY <1>7, NothingDelivered DEF ErrorEvent, Streaming, Sent
<1>8. ASSUME NEW k, NEW usage, NEW f \in {Null} \cup Unseen, NEW i \in IF f = Null THEN {Null} ELSE Inputs,
             Terminal(k, f, i, usage) \/ TransformJSON(k, f, i, usage)
      PROVE  /\ Delivers /\ phase = "streaming" /\ phase' \in {"streaming", "ended", "failed"}
             /\ DOMAIN upstream' = {} /\ transcript' = <<>>
  <2>1. /\ \E rest : Conclude(f, i, usage, rest)
        /\ phase = "streaming" /\ Sent /\ UNCHANGED <<offer, visible>>
    BY <1>8 DEF Terminal, TransformJSON, Streaming
  <2>2. PICK rest : Conclude(f, i, usage, rest)
    BY <2>1
  <2>3. Delivers
    BY <2>1, <2>2, ConcludeDelivers DEF PhaseInv
  <2>4. phase' \in {"ended", "failed"}
    BY <2>2 DEF Conclude, Abort
  <2> QED
    BY <2>1, <2>3, <2>4 DEF Sent
<1> QED
  BY <1>1, <1>2, <1>3, <1>4, <1>5, <1>6, <1>7, <1>8 DEF Responds

\* The ancestry of a request is what the store holds, in the request's order.
LEMMA AncestryIs ==
  ASSUME Translated(store), NEW items
  PROVE  Translated(Ancestry(items)) /\ DOMAIN Ancestry(items) \subseteq DOMAIN store
<1> DEFINE known == Replayed(items) \cap DOMAIN store
           first(c) == Min({n \in 1..Len(items) : items[n].call = c})
           rank(c) == Cardinality({d \in known : first(d) <= first(c)})
<1>1. IsFiniteSet(known) /\ Cardinality(known) \in Nat
  BY FS_Subset, FS_CardinalityType DEF Translated
<1>2. \A c : rank(c) \in Nat /\ rank(c) <= Cardinality(known)
  <2> SUFFICES ASSUME NEW c PROVE rank(c) \in Nat /\ rank(c) <= Cardinality(known)
    OBVIOUS
  <2>1. {d \in known : first(d) <= first(c)} \in SUBSET known
    OBVIOUS
  <2> HIDE DEF known, first
  <2> QED
    BY <1>1, <2>1, FS_Subset, FS_CardinalityType
<1> HIDE DEF rank
<1>3. Ancestry(items) = [c \in known |-> [store[c] EXCEPT !.seq = rank(c)]]
  BY DEF Ancestry, rank
<1>4. PICK bound \in Nat : \A c \in DOMAIN store : store[c].seq <= bound /\ store[c].attempt <= bound
  BY DEF Translated
<1>5. ASSUME NEW c \in known
      PROVE  /\ Ancestry(items)[c] \in Histories /\ Fits(c, Ancestry(items)[c])
             /\ Ancestry(items)[c].seq <= bound + Cardinality(known)
             /\ Ancestry(items)[c].attempt <= bound + Cardinality(known)
  <2>1. c \in DOMAIN store /\ store[c] \in Histories /\ Fits(c, store[c])
    BY DEF Translated
  <2>2. Ancestry(items)[c] = [store[c] EXCEPT !.seq = rank(c)]
    BY <1>3
  <2>3. store[c].attempt \in Nat /\ store[c].attempt <= bound /\ rank(c) \in Nat /\ rank(c) <= Cardinality(known)
    BY <1>2, <1>4, <2>1 DEF Histories
  <2> HIDE DEF known
  <2>4. Ancestry(items)[c] \in Histories /\ Fits(c, Ancestry(items)[c])
    BY <2>1, <2>2, <2>3 DEF Histories, Fits
  <2>5. Ancestry(items)[c].seq = rank(c) /\ Ancestry(items)[c].attempt = store[c].attempt
    BY <2>1, <2>2 DEF Histories
  <2> QED
    BY <1>1, <2>3, <2>4, <2>5
<1>6. DOMAIN Ancestry(items) = known /\ known \subseteq DOMAIN store
  BY <1>3
<1>7. Ancestry(items) \in [known -> Histories]
  BY <1>3, <1>5
<1>8. bound + Cardinality(known) \in Nat /\ known \subseteq Calls
  BY <1>1, <1>6 DEF Translated
<1> HIDE DEF known
<1> QED
  BY <1>1, <1>5, <1>6, <1>7, <1>8 DEF Translated

\* A request begins a transform of its own.
LEMMA AskIs ==
  ASSUME Asks
  PROVE  /\ phase \in {"ended", "failed"} /\ phase' \in {"streaming", "refused"}
         /\ UNCHANGED <<offer, store, shown, evals>>
         /\ DOMAIN local' = {} /\ announced' = {}
         /\ visible' = visible \/ \E items : visible' = Ancestry(items)
<1>1. \E order, course, fault : NextRequest(order, course, fault)
  BY DEF Asks
<1>2. PICK order, course, fault : NextRequest(order, course, fault)
  BY <1>1
<1> QED
  BY <1>2 DEF NextRequest, NewTransform, NoCalls

LEMMA AskDelivers ==
  ASSUME DeliveryInv, Asks
  PROVE  DeliveryInv'
<1>1. /\ UNCHANGED <<offer, store, shown, evals>> /\ DOMAIN local' = {} /\ announced' = {}
      /\ visible' = visible \/ \E items : visible' = Ancestry(items)
  BY AskIs
<1>2. Translated(visible') /\ DOMAIN visible' \subseteq DOMAIN store
  BY <1>1, AncestryIs DEF DeliveryInv
<1>3. Called' = Called /\ \A c : Carriers(c)' = Carriers(c)
  BY <1>1 DEF Called, Carriers
<1>4. Translated(local)' /\ Translated(visible)' /\ Translated(store)'
  <2>1. IsFiniteSet(DOMAIN local')
    BY <1>1, FS_EmptySet
  <2>2. Translated(local)'
    <3>1. local' \in [DOMAIN local' -> Histories]
      <4>1. \E order, course, fault : NextRequest(order, course, fault)
        BY DEF Asks
      <4>2. local' = NoCalls
        BY <4>1 DEF NextRequest, NewTransform
      <4> QED
        BY <4>2 DEF NoCalls
    <3>2. 0 \in Nat
      OBVIOUS
    <3> QED
      BY <1>1, <2>1, <3>1, <3>2 DEF Translated
  <2> QED
    BY <1>1, <1>2, <1>3, <2>2 DEF DeliveryInv, Translated, Fits
<1> QED
  BY <1>1, <1>2, <1>3, <1>4 DEF DeliveryInv

\* The verdicts on a catalog.
LEMMA VerdictIs ==
  ASSUME NEW cat, NEW choice
  PROVE  Replace(cat, choice).verdict \in {"refused", "code", "native"}
  BY DEF Replace, ReplaceCodeModeTools, ReplaceNativeTools, Exposed, Refused, Unmatched

\* The first request decides which tools there are, before any call.
LEMMA PrepareDelivers ==
  ASSUME DeliveryInv, PhaseInv, PrepareRequest \/ PassThrough
  PROVE  /\ DeliveryInv'
         /\ phase' \in {"refused", "accepted", "streaming"}
         /\ phase' = "streaming" => offer'.verdict \in {"code", "native"}
         /\ DOMAIN local' = {} /\ DOMAIN upstream' = {} /\ transcript' = <<>>
<1>1. /\ phase = "asked"
      /\ UNCHANGED <<local, visible, store, shown, evals, announced, upstream, transcript>>
  BY DEF PrepareRequest, PassThrough, stream
<1>2. /\ DOMAIN local = {} /\ DOMAIN visible = {} /\ DOMAIN store = {} /\ announced = {}
      /\ DOMAIN upstream = {} /\ transcript = <<>>
  BY <1>1 DEF PhaseInv
<1>3. \A c : Carriers(c)' = Carriers(c)
  BY <1>1 DEF Carriers
<1>4. Translated(local)' /\ Translated(visible)' /\ Translated(store)'
  BY <1>1, <1>2 DEF DeliveryInv, Translated
<1>5. DeliveryInv'
  BY <1>1, <1>2, <1>3, <1>4 DEF DeliveryInv
<1>6. /\ phase' \in {"refused", "accepted", "streaming"}
      /\ phase' = "streaming" => offer'.verdict \in {"code", "native"}
  BY VerdictIs DEF PrepareRequest, PassThrough
<1> QED
  BY <1>1, <1>2, <1>5, <1>6

LEMMA DeliveryInit == TransformInit => DeliveryInv /\ PhaseInv
<1> SUFFICES ASSUME TransformInit PROVE DeliveryInv /\ PhaseInv
  OBVIOUS
<1>1. DOMAIN NoCalls = {} /\ \A S : NoCalls \in [DOMAIN NoCalls -> S]
  BY DEF NoCalls
<1>2. Translated(NoCalls)
  <2>1. IsFiniteSet(DOMAIN NoCalls)
    BY <1>1, FS_EmptySet
  <2>2. 0 \in Nat
    OBVIOUS
  <2> QED
    BY <1>1, <2>1, <2>2 DEF Translated
<1>3. \A c \in Calls : Carriers(c) = {}
  BY DEF TransformInit, Carriers
<1> QED
  BY <1>1, <1>2, <1>3 DEF TransformInit, DeliveryInv, PhaseInv

LEMMA DeliveryNext ==
  DeliveryInv /\ PhaseInv /\ [TransformNext]_transformVars => DeliveryInv' /\ PhaseInv'
<1> SUFFICES ASSUME DeliveryInv, PhaseInv, [TransformNext]_transformVars PROVE DeliveryInv' /\ PhaseInv'
  OBVIOUS
<1>1. CASE Responds
  <2>1. /\ Delivers /\ phase = "streaming" /\ phase' \in {"streaming", "ended", "failed"}
    BY <1>1, RespondsDelivers
  <2>2. offer.verdict \in {"code", "native"} /\ offer' = offer
    BY <2>1 DEF PhaseInv, Delivers
  <2>3. DeliveryInv'
    BY <2>1, <2>2, DeliveryStep
  <2> QED
    BY <2>1, <2>2, <2>3 DEF PhaseInv
<1>2. CASE Asks
  BY <1>2, AskIs, AskDelivers DEF PhaseInv
<1>3. CASE PrepareRequest \/ PassThrough
  BY <1>3, PrepareDelivers DEF PhaseInv
<1>4. CASE UNCHANGED transformVars
  <2>1. UNCHANGED <<offer, local, visible, store, shown, evals, announced, phase, upstream, transcript>>
    BY <1>4 DEF transformVars, stream
  <2>2. \A c : Carriers(c)' = Carriers(c)
    BY <2>1 DEF Carriers
  <2>3. Translated(local)' /\ Translated(visible)' /\ Translated(store)'
    BY <2>1 DEF DeliveryInv, Translated, Called, Fits
  <2> QED
    BY <2>1, <2>2, <2>3 DEF DeliveryInv, PhaseInv
<1> QED
  BY <1>1, <1>2, <1>3, <1>4, NextCases

LEMMA DeliveryAlways == TransformSpec => [](DeliveryInv /\ PhaseInv)
  BY DeliveryInit, DeliveryNext, PTL DEF TransformSpec

\* Whenever Codex can execute a carrier, the store holds the translation that it
\* came from; no call is evaluated twice and Codex never sees two different
\* carriers for one call, in a conversation of any length.
THEOREM DurableBeforeVisible == TransformSpec => []CarriersAreRecorded
<1>1. DeliveryInv => CarriersAreRecorded
  <2> SUFFICES ASSUME DeliveryInv, NEW c \in Calls
               PROVE  /\ evals[c] <= 1
                      /\ \A p \in Carriers(c) : c \in DOMAIN store /\ p = Carrier(c, store[c])
    BY DEF CarriersAreRecorded
  <2>1. evals[c] \in {0, 1}
    BY DEF DeliveryInv
  <2> QED
    BY <2>1 DEF DeliveryInv
<1> QED
  BY <1>1, DeliveryAlways, PTL

-----------------------------------------------------------------------------
(* Recovery.                                                               *)

\* A translation is the last of its response and, when it recovers, follows the
\* newest evaluated call.
LEMMA RecoveryStep ==
  ASSUME DeliveryInv, DeliveryInv', RecoveryInv, offer.verdict \in {"code", "native"},
         offer' = offer, visible' = visible, NEW c, NEW i, NEW r, Translating(c, i, r)
  PROVE  RecoveryInv'
<1> DEFINE h == Translation(c, i, r)
           N == Cardinality(DOMAIN local)
<1>1. /\ c \in Calls /\ i \in Inputs /\ r \in Results(c) /\ c \notin DOMAIN local
      /\ local' = Over(local, Entry(c, h)) /\ r \in {"ok", "rejected", "unevaluated"}
  BY ResultsAre DEF Translating
<1>2. Translated(local) /\ Translated(visible)
  BY DEF DeliveryInv
<1>3. h \in Histories /\ h.tool = Called[c] /\ h.result = r /\ h.seq = N + 1
  BY <1>1, <1>2, TranslationIs
<1>4. DOMAIN local' = DOMAIN local \cup {c} /\ local'[c] = h /\ \A d \in DOMAIN local : local'[d] = local[d]
  BY <1>1 DEF Over, Entry
<1>5. N \in Nat /\ Cardinality(DOMAIN local') = N + 1
  BY <1>1, <1>2, <1>4, NextNumber
<1>6. /\ \A d \in DOMAIN local : local[d].seq \in Nat /\ local[d].seq <= N
      /\ \A d \in DOMAIN local : local[d].tool = Called[d]
      /\ \A d \in DOMAIN visible : d \notin DOMAIN local'
  BY <1>2 DEF RecoveryInv, Translated, Fits, Histories, DeliveryInv
<1>7. Called' = Called
  BY DEF Called
<1> HIDE DEF h, N
<1>8. (\A d \in DOMAIN local : local[d].seq <= Cardinality(DOMAIN local))'
  BY <1>3, <1>4, <1>5, <1>6
<1>9. /\ Evaluated(visible)' = Evaluated(visible)
      /\ Evaluated(local)' = Evaluated(local) \cup (IF h.tool \in Edits /\ r # "unevaluated" THEN {c} ELSE {})
  BY <1>3, <1>4 DEF Evaluated
<1>10. \A x \in Chain : x # c /\ x \in Chain' /\ (x \in DOMAIN local \/ x \in DOMAIN visible)
  BY <1>1, <1>4, <1>6, <1>9 DEF Chain, Evaluated
<1>11. \A x \in Chain' : x \in Chain \/ x = c
  BY <1>9 DEF Chain
<1>12. \A x \in Chain : Remembered(x)' = Remembered(x)
  BY <1>4, <1>6, <1>10 DEF Remembered
<1>13. \A x, y \in Chain : Precedes(x, y)' <=> Precedes(x, y)
  BY <1>4, <1>6, <1>10 DEF Precedes
<1>14. \A x \in Chain : ~Precedes(c, x)' /\ Precedes(x, c)'
  BY <1>3, <1>4, <1>5, <1>6, <1>10 DEF Precedes
<1>15. ~Precedes(c, c)'
  BY <1>3, <1>4, <1>5 DEF Precedes
<1>16. ASSUME NEW d \in Evaluated(local), Called[d] = "hpatch_recover"
       PROVE  \E x \in Chain' :
                /\ Precedes(x, d)' /\ ~\E e \in Chain' : Precedes(x, e)' /\ Precedes(e, d)'
                /\ Remembered(x)'.result = "rejected" /\ Remembered(x)'.corr = Remembered(d)'.corr
                /\ Remembered(x)'.attempt < Remembered(d)'.attempt
  <2>1. PICK x \in Chain :
           /\ Precedes(x, d) /\ ~\E e \in Chain : Precedes(x, e) /\ Precedes(e, d)
           /\ Remembered(x).result = "rejected" /\ Remembered(x).corr = Remembered(d).corr
           /\ Remembered(x).attempt < Remembered(d).attempt
    BY <1>16 DEF RecoveryInv, RecoveryFollowsRejection
  <2>2. d \in Chain
    BY DEF Chain
  <2>3. ~\E e \in Chain' : Precedes(x, e)' /\ Precedes(e, d)'
    BY <1>11, <1>13, <1>14, <2>1, <2>2
  <2>4. Precedes(x, d)' /\ Remembered(x)' = Remembered(x) /\ Remembered(d)' = Remembered(d) /\ x \in Chain'
    BY <1>10, <1>12, <1>13, <2>1, <2>2
  <2> QED
    BY <2>1, <2>3, <2>4
<1>17. ASSUME Called[c] = "hpatch_recover", r # "unevaluated"
       PROVE  \E x \in Chain' :
                /\ Precedes(x, c)' /\ ~\E e \in Chain' : Precedes(x, e)' /\ Precedes(e, c)'
                /\ Remembered(x)'.result = "rejected" /\ Remembered(x)'.corr = Remembered(c)'.corr
                /\ Remembered(x)'.attempt < Remembered(c)'.attempt
  <2>1. Newest # Null /\ Newest.result = "rejected"
    BY <1>1, <1>17 DEF Results, Recoverable
  <2>2. h.corr = Newest.corr /\ h.attempt = NextAttempt(Newest.corr)
    BY <1>17, <2>1 DEF h, Translation, History
  <2>3. Newest.attempt \in Nat /\ h.attempt \in Nat /\ Newest.attempt < h.attempt
    BY <1>2, <2>1, <2>2, NewestType, NextAttemptIs
  <2>4. PICK x \in Chain : /\ Remembered(x) = Newest
                           /\ ~\E e \in Chain : Precedes(x, e)
    <3>1. CASE /\ Evaluated(local) # {}
               /\ \E x \in Evaluated(local) :
                    Newest = local[x] /\ \A d \in Evaluated(local) : local[d].seq <= local[x].seq
      <4>1. PICK x \in Evaluated(local) :
                    Newest = local[x] /\ \A d \in Evaluated(local) : local[d].seq <= local[x].seq
        BY <3>1
      <4>2. x \in DOMAIN local /\ x \in Chain /\ Remembered(x) = Newest
        BY <4>1 DEF Evaluated, Chain, Remembered
      <4>3. ASSUME NEW e \in Chain, Precedes(x, e) PROVE FALSE
        <5>1. e \in DOMAIN local /\ local[x].seq < local[e].seq
          BY <4>2, <4>3 DEF Precedes
        <5>2. e \in Evaluated(local)
          BY <1>4, <1>6, <5>1 DEF Chain, Evaluated
        <5> QED
          BY <1>6, <4>1, <4>2, <5>1, <5>2
      <4> QED
        BY <4>2, <4>3
    <3>2. CASE /\ Evaluated(local) = {}
               /\ \E x \in Evaluated(visible) :
                    Newest = visible[x] /\ \A d \in Evaluated(visible) : visible[d].seq <= visible[x].seq
      <4>1. PICK x \in Evaluated(visible) :
                    Newest = visible[x] /\ \A d \in Evaluated(visible) : visible[d].seq <= visible[x].seq
        BY <3>2
      <4>2. x \in DOMAIN visible /\ x \notin DOMAIN local /\ x \in Chain /\ Remembered(x) = Newest
        BY <1>4, <1>6, <4>1 DEF Evaluated, Chain, Remembered
      <4>3. ASSUME NEW e \in Chain, Precedes(x, e) PROVE FALSE
        <5>1. e \in Evaluated(visible)
          BY <3>2 DEF Chain
        <5>2. e \in DOMAIN visible /\ e \notin DOMAIN local
          BY <1>4, <1>6, <5>1 DEF Evaluated
        <5>3. visible[x].seq < visible[e].seq
          BY <4>2, <4>3, <5>2 DEF Precedes
        <5>4. visible[x].seq \in Nat /\ visible[e].seq \in Nat
          BY <1>2, <4>2, <5>2 DEF Translated, Histories
        <5> QED
          BY <4>1, <5>1, <5>3, <5>4
      <4> QED
        BY <4>2, <4>3
    <3> QED
      BY <1>2, <2>1, <3>1, <3>2, NewestIs
  <2>5. x \in Chain' /\ Precedes(x, c)' /\ Remembered(x)' = Newest /\ Remembered(c)' = h
    BY <1>4, <1>10, <1>12, <1>14, <2>4 DEF Remembered
  <2>6. ~\E e \in Chain' : Precedes(x, e)' /\ Precedes(e, c)'
    BY <1>11, <1>13, <1>15, <2>4
  <2> QED
    BY <2>1, <2>2, <2>3, <2>5, <2>6
<1>18. RecoveryFollowsRejection'
  <2> SUFFICES ASSUME NEW d \in Evaluated(local)', Called'[d] = "hpatch_recover"
      PROVE  \E x \in Chain' :
                /\ Precedes(x, d)' /\ ~\E e \in Chain' : Precedes(x, e)' /\ Precedes(e, d)'
                /\ Remembered(x)'.result = "rejected" /\ Remembered(x)'.corr = Remembered(d)'.corr
                /\ Remembered(x)'.attempt < Remembered(d)'.attempt
    BY DEF RecoveryFollowsRejection
  <2>1. CASE d \in Evaluated(local)
    BY <1>7, <1>16, <2>1
  <2>2. CASE d = c /\ r # "unevaluated"
    BY <1>7, <1>17, <2>2
  <2> QED
    BY <1>9, <2>1, <2>2
<1> QED
  BY <1>8, <1>18 DEF RecoveryInv

LEMMA RecoverySame ==
  ASSUME RecoveryInv, UNCHANGED <<offer, local, visible>>
  PROVE  RecoveryInv'
  BY DEF RecoveryInv, RecoveryFollowsRejection, Evaluated, Chain, Precedes, Remembered, Called

LEMMA RecoveryNone ==
  ASSUME DOMAIN local' = {}
  PROVE  RecoveryInv'
  BY DEF RecoveryInv, RecoveryFollowsRejection, Evaluated

LEMMA RecoveryNext ==
  DeliveryInv /\ PhaseInv /\ RecoveryInv /\ [TransformNext]_transformVars => RecoveryInv'
<1> SUFFICES ASSUME DeliveryInv, PhaseInv, RecoveryInv, [TransformNext]_transformVars PROVE RecoveryInv'
  OBVIOUS
<1>1. CASE Responds
  <2>1. Delivers /\ phase = "streaming"
    BY <1>1, RespondsDelivers
  <2>2. offer.verdict \in {"code", "native"} /\ offer' = offer /\ visible' = visible
    BY <2>1 DEF PhaseInv, Delivers
  <2>3. DeliveryInv'
    BY DeliveryNext
  <2>4. local' = local \/ \E c, i, r : Translating(c, i, r)
    BY <2>1 DEF Delivers
  <2> QED
    BY <2>2, <2>3, <2>4, RecoveryStep, RecoverySame
<1>2. CASE Asks
  BY <1>2, AskIs, RecoveryNone
<1>3. CASE PrepareRequest \/ PassThrough
  BY <1>3, PrepareDelivers, RecoveryNone
<1>4. CASE UNCHANGED transformVars
  BY <1>4, RecoverySame DEF transformVars, stream
<1> QED
  BY <1>1, <1>2, <1>3, <1>4, NextCases

\* However long the chain of recoveries and whatever Codex replays, a recovery that
\* is evaluated edits the call directly before it, which was rejected, and its
\* attempt is above that one's.
THEOREM RecoveriesFollowRejections == TransformSpec => []RecoveryFollowsRejection
<1>1. TransformInit => RecoveryInv
  BY DEF TransformInit, RecoveryInv, RecoveryFollowsRejection, Evaluated, NoCalls
<1>2. RecoveryInv => RecoveryFollowsRejection
  BY DEF RecoveryInv
<1> QED
  BY <1>1, <1>2, RecoveryNext, DeliveryAlways, PTL DEF TransformSpec

-----------------------------------------------------------------------------
(* The answer.                                                             *)

LineMarks == {"usage", "terminal", "failure", "error"}
LineEntries == ({"answer"} \cup LineMarks) \X Nat

\* The first k answer events are on the line, each once and in order.
InOrder(s, k) ==
  /\ s \in Seq(LineEntries)
  /\ \A m, n \in 1..Len(s) : s[m][1] = "answer" /\ s[n][1] = "answer" /\ m < n => s[m][2] < s[n][2]
  /\ \A n \in 1..Len(s) : s[n][1] = "answer" => s[n][2] \in 1..k
  /\ \A j \in 1..k : \E n \in 1..Len(s) : s[n] = <<"answer", j>>

\* The usage report comes before the answer.
UsageFirst(s) == \A u, n \in 1..Len(s) : s[u][1] = "usage" /\ s[n][1] = "answer" => u < n
Without(s, what) == \A n \in 1..Len(s) : s[n][1] # what

\* The events held back are the ones that the line has not got.
LineInv ==
  /\ answers \in Nat
  /\ answer \in [held : Seq(LineEntries), off : BOOLEAN, substantive : BOOLEAN, blocked : BOOLEAN]
  /\ Len(answer.held) <= answers
  /\ \A j \in 1..Len(answer.held) : answer.held[j] = <<"answer", answers - Len(answer.held) + j>>
  /\ InOrder(line, answers - Len(answer.held)) /\ UsageFirst(line)
  /\ phase \in {"asked", "streaming"} => Without(line, "usage") /\ (~answer.off => Without(line, "answer"))
  /\ phase # "streaming" \/ answer.off => answer.held = <<>>

LEMMA AnswersFollow ==
  ASSUME NEW s, NEW k \in Nat, InOrder(s, k), NEW t \in Seq(LineEntries),
         \A j \in 1..Len(t) : t[j] = <<"answer", k + j>>
  PROVE  InOrder(s \o t, k + Len(t))
<1>1. s \in Seq(LineEntries) /\ s \o t \in Seq(LineEntries) /\ Len(s) \in Nat /\ Len(t) \in Nat
  BY DEF InOrder
<1>2. Len(s \o t) = Len(s) + Len(t)
  BY <1>1
<1>3. \A n \in 1..Len(s) : (s \o t)[n] = s[n]
  BY <1>1
<1>4. \A n \in 1..Len(t) : (s \o t)[Len(s) + n] = <<"answer", k + n>>
  BY <1>1
<1>5. \A n \in 1..Len(s \o t) : n \in 1..Len(s) \/ \E j \in 1..Len(t) : n = Len(s) + j
  <2> SUFFICES ASSUME NEW n \in 1..Len(s \o t), n \notin 1..Len(s) PROVE \E j \in 1..Len(t) : n = Len(s) + j
    OBVIOUS
  <2>1. n - Len(s) \in 1..Len(t) /\ n = Len(s) + (n - Len(s))
    BY <1>1, <1>2
  <2> QED
    BY <2>1
<1> DEFINE q == s \o t
<1>6. ASSUME NEW n \in 1..Len(q), q[n][1] = "answer" PROVE q[n][2] \in 1..(k + Len(t))
  <2>1. CASE n \in 1..Len(s)
    BY <1>1, <1>3, <1>6, <2>1 DEF InOrder
  <2>2. CASE \E j \in 1..Len(t) : n = Len(s) + j
    <3>1. PICK j \in 1..Len(t) : n = Len(s) + j
      BY <2>2
    <3>2. q[n] = <<"answer", k + j>>
      BY <1>4, <3>1
    <3> HIDE DEF q
    <3> QED
      BY <1>1, <3>2
  <2> QED
    BY <1>5, <2>1, <2>2
<1>7. ASSUME NEW m \in 1..Len(q), NEW n \in 1..Len(q), q[m][1] = "answer", q[n][1] = "answer", m < n
      PROVE  q[m][2] < q[n][2]
  <2>1. CASE m \in 1..Len(s) /\ n \in 1..Len(s)
    BY <1>3, <1>7, <2>1 DEF InOrder
  <2>2. ASSUME m \in 1..Len(s), NEW j \in 1..Len(t), n = Len(s) + j
        PROVE  q[m][2] < q[n][2]
    <3>1. q[n] = <<"answer", k + j>>
      BY <1>4, <2>2
    <3>2. q[m][2] \in 1..k
      BY <1>3, <1>7, <2>2 DEF InOrder
    <3> HIDE DEF q
    <3> QED
      BY <1>1, <3>1, <3>2
  <2>3. ASSUME NEW i \in 1..Len(t), NEW j \in 1..Len(t), m = Len(s) + i, n = Len(s) + j
        PROVE  q[m][2] < q[n][2]
    <3>1. q[n] = <<"answer", k + j>> /\ q[m] = <<"answer", k + i>>
      BY <1>4, <2>3
    <3>2. i < j
      BY <1>1, <1>7, <2>3
    <3> HIDE DEF q
    <3> QED
      BY <1>1, <3>1, <3>2
  <2>4. ~(n \in 1..Len(s) /\ m \notin 1..Len(s))
    BY <1>1, <1>7
  <2> QED
    BY <1>5, <2>1, <2>2, <2>3, <2>4
<1>8. ASSUME NEW j \in 1..(k + Len(t)) PROVE \E n \in 1..Len(q) : q[n] = <<"answer", j>>
  <2>1. CASE j \in 1..k
    <3>1. PICK n \in 1..Len(s) : s[n] = <<"answer", j>>
      BY <2>1 DEF InOrder
    <3>2. n \in 1..Len(q) /\ q[n] = <<"answer", j>>
      BY <1>1, <1>2, <1>3, <3>1
    <3> QED
      BY <3>2
  <2>2. CASE j \notin 1..k
    <3>1. j - k \in 1..Len(t) /\ k + (j - k) = j
      BY <1>1, <2>2
    <3>2. q[Len(s) + (j - k)] = <<"answer", k + (j - k)>>
      BY <1>4, <3>1
    <3>3. Len(s) + (j - k) \in 1..Len(q)
      BY <1>1, <1>2, <3>1
    <3> HIDE DEF q
    <3> QED
      BY <3>1, <3>2, <3>3
  <2> QED
    BY <2>1, <2>2
<1> QED
  BY <1>1, <1>6, <1>7, <1>8 DEF InOrder

\* What a mark adds to a line.
LEMMA MarkFollows ==
  ASSUME NEW s, s \in Seq(LineEntries), NEW what \in LineMarks
  PROVE  /\ s \o Mark(what) \in Seq(LineEntries) /\ Len(s \o Mark(what)) = Len(s) + 1 /\ Len(s) \in Nat
         /\ \A n \in 1..Len(s) : (s \o Mark(what))[n] = s[n]
         /\ (s \o Mark(what))[Len(s) + 1] = <<what, 0>>
         /\ Mark(what) \in Seq(LineEntries)
<1>1. <<what, 0>> \in LineEntries
  BY DEF LineEntries
<1>2. Mark(what) = <<<<what, 0>>>>
  BY DEF Mark
<1> DEFINE t == Mark(what)
<1>3. t \in Seq(LineEntries) /\ Len(t) = 1 /\ t[1] = <<what, 0>>
  BY <1>1, <1>2
<1> HIDE DEF t
<1>4. Len(s) \in Nat /\ s \o t \in Seq(LineEntries) /\ Len(s \o t) = Len(s) + 1
  <2>1. Len(s) \in Nat
    OBVIOUS
  <2>2. s \o t \in Seq(LineEntries)
    BY <1>3
  <2>3. Len(s \o t) = Len(s) + Len(t)
    <3>1. s \in Seq(LineEntries) /\ t \in Seq(LineEntries)
      BY <1>3
    <3> QED
      BY ONLY <3>1
  <2> QED
    BY <1>3, <2>1, <2>2, <2>3
<1>5. \A n \in 1..Len(s) : (s \o t)[n] = s[n]
  BY <1>3, <1>4
<1>6. (s \o t)[Len(s) + 1] = t[1]
  BY <1>3, <1>4
<1> QED
  BY <1>3, <1>4, <1>5, <1>6 DEF t

LEMMA MarkInOrder ==
  ASSUME NEW s, NEW k \in Nat, InOrder(s, k), NEW what \in LineMarks
  PROVE  InOrder(s \o Mark(what), k)
<1> DEFINE q == s \o Mark(what)
<1>1. s \in Seq(LineEntries)
  BY DEF InOrder
<1>2. /\ q \in Seq(LineEntries) /\ Len(q) = Len(s) + 1 /\ Len(s) \in Nat
      /\ \A n \in 1..Len(s) : q[n] = s[n]
      /\ q[Len(s) + 1] = <<what, 0>>
  BY <1>1, MarkFollows
<1> HIDE DEF q
<1>3. q[Len(s) + 1][1] # "answer"
  BY <1>2 DEF LineMarks
<1>4. \A n \in 1..Len(q) : q[n][1] = "answer" => n \in 1..Len(s) /\ q[n] = s[n]
  BY <1>2, <1>3
<1>5. \A j \in 1..k : \E n \in 1..Len(q) : q[n] = <<"answer", j>>
  <2> SUFFICES ASSUME NEW j \in 1..k PROVE \E n \in 1..Len(q) : q[n] = <<"answer", j>>
    OBVIOUS
  <2>1. PICK n \in 1..Len(s) : s[n] = <<"answer", j>>
    BY DEF InOrder
  <2>2. n \in 1..Len(q) /\ q[n] = s[n]
    BY <1>2
  <2> QED
    BY <2>1, <2>2
<1>6. \A m, n \in 1..Len(q) : q[m][1] = "answer" /\ q[n][1] = "answer" /\ m < n => q[m][2] < q[n][2]
  BY <1>4 DEF InOrder
<1>7. \A n \in 1..Len(q) : q[n][1] = "answer" => q[n][2] \in 1..k
  BY <1>4 DEF InOrder
<1> QED
  BY <1>2, <1>5, <1>6, <1>7 DEF InOrder, q

LEMMA ConcatIs ==
  ASSUME NEW s \in Seq(LineEntries), NEW t \in Seq(LineEntries)
  PROVE  /\ s \o t \in Seq(LineEntries) /\ Len(s) \in Nat /\ Len(t) \in Nat
         /\ \A n \in 1..Len(s \o t) :
              \/ n \in 1..Len(s) /\ (s \o t)[n] = s[n]
              \/ n > Len(s) /\ \E j \in 1..Len(t) : (s \o t)[n] = t[j]
<1>1. s \o t \in Seq(LineEntries) /\ Len(s) \in Nat /\ Len(t) \in Nat /\ Len(s \o t) = Len(s) + Len(t)
  OBVIOUS
<1>2. \A n \in 1..Len(s) : (s \o t)[n] = s[n]
  BY <1>1
<1>3. \A n \in 1..Len(t) : (s \o t)[Len(s) + n] = t[n]
  BY <1>1
<1>4. ASSUME NEW n \in 1..Len(s \o t), n \notin 1..Len(s)
      PROVE  n > Len(s) /\ \E j \in 1..Len(t) : (s \o t)[n] = t[j]
  <2>1. n - Len(s) \in 1..Len(t) /\ n = Len(s) + (n - Len(s)) /\ n > Len(s)
    BY <1>1, <1>4
  <2> QED
    BY <1>3, <2>1
<1> QED
  BY <1>1, <1>2, <1>4

LEMMA WithoutConcat ==
  ASSUME NEW s \in Seq(LineEntries), NEW t \in Seq(LineEntries), NEW what, Without(s, what), Without(t, what)
  PROVE  Without(s \o t, what)
<1> SUFFICES ASSUME NEW n \in 1..Len(s \o t) PROVE (s \o t)[n][1] # what
  BY DEF Without
<1> QED
  BY ConcatIs DEF Without

LEMMA UsageConcat ==
  ASSUME NEW s \in Seq(LineEntries), NEW t \in Seq(LineEntries), UsageFirst(s), Without(t, "usage")
  PROVE  UsageFirst(s \o t)
<1> DEFINE q == s \o t
<1> SUFFICES ASSUME NEW u \in 1..Len(q), NEW n \in 1..Len(q), q[u][1] = "usage", q[n][1] = "answer"
             PROVE  u < n
  BY DEF UsageFirst
<1>1. u \in 1..Len(s) /\ q[u] = s[u]
  BY ConcatIs DEF Without
<1>2. Len(s) \in Nat /\ Len(q) \in Nat
  BY ConcatIs
<1>3. CASE n \in 1..Len(s) /\ q[n] = s[n]
  BY <1>1, <1>3 DEF UsageFirst
<1>4. CASE n > Len(s)
  BY <1>1, <1>2, <1>4
<1> QED
  BY <1>3, <1>4, ConcatIs

\* A line that breaks off with an answer and a mark.
LEMMA MarkIs ==
  ASSUME NEW what \in LineMarks, NEW other, other # what
  PROVE  Mark(what) \in Seq(LineEntries) /\ Without(Mark(what), other)
<1>1. <<what, 0>> \in LineEntries /\ Mark(what) = <<<<what, 0>>>>
  BY DEF LineEntries, Mark
<1> QED
  BY <1>1 DEF Without

LEMMA LineReleased ==
  ASSUME LineInv, phase = "streaming"
  PROVE  /\ line \in Seq(LineEntries) /\ answer.held \in Seq(LineEntries)
         /\ answers \in Nat
         /\ InOrder(line \o answer.held, answers)
         /\ Without(line \o answer.held, "usage") /\ Without(answer.held, "usage")
<1>1. line \in Seq(LineEntries) /\ answer.held \in Seq(LineEntries) /\ answers \in Nat
  BY DEF LineInv, InOrder
<1>2. Len(answer.held) \in Nat /\ answers - Len(answer.held) \in Nat
  BY <1>1 DEF LineInv
<1>3. InOrder(line \o answer.held, (answers - Len(answer.held)) + Len(answer.held))
  BY <1>1, <1>2, AnswersFollow DEF LineInv
<1>4. (answers - Len(answer.held)) + Len(answer.held) = answers
  BY <1>1, <1>2
<1>5. Without(answer.held, "usage")
  <2> SUFFICES ASSUME NEW n \in 1..Len(answer.held) PROVE answer.held[n][1] # "usage"
    BY DEF Without
  <2>1. answer.held[n] = <<"answer", answers - Len(answer.held) + n>>
    BY DEF LineInv
  <2> QED
    BY <2>1
<1>6. Without(line, "usage")
  BY DEF LineInv
<1> QED
  BY <1>1, <1>3, <1>4, <1>5, <1>6, WithoutConcat

\* A line that ends with everything received: nothing is held.
LEMMA LineEnds ==
  ASSUME answers' \in Nat, answer' = NoAnswer, phase' \in {"ended", "failed"},
         InOrder(line', answers'), UsageFirst(line')
  PROVE  LineInv'
<1>1. answer' = [held |-> <<>>, off |-> FALSE, substantive |-> FALSE, blocked |-> FALSE]
  BY DEF NoAnswer
<1>2. answer'.held = <<>> /\ Len(answer'.held) = 0 /\ answer'.off = FALSE
  BY <1>1
<1>3. answers' - Len(answer'.held) = answers'
  <2>1. Len(answer'.held) = 0
    BY <1>2
  <2>2. \A a \in Nat : a - 0 = a
    OBVIOUS
  <2> QED
    BY <2>1, <2>2, Zenon
<1>4. answer' \in [held : Seq(LineEntries), off : BOOLEAN, substantive : BOOLEAN, blocked : BOOLEAN]
  BY <1>1
<1>5. Len(answer'.held) <= answers'
  BY <1>2
<1>6. \A j \in 1..Len(answer'.held) : answer'.held[j] = <<"answer", answers' - Len(answer'.held) + j>>
  BY <1>2
<1>7. InOrder(line', answers' - Len(answer'.held))
  BY <1>3
<1>8. InOrder(line, answers - Len(answer.held))'
  BY <1>7 DEF InOrder
<1>9. UsageFirst(line)'
  BY DEF UsageFirst
<1> QED
  BY <1>2, <1>4, <1>5, <1>6, <1>8, <1>9 DEF LineInv

LEMMA LineAbort ==
  ASSUME LineInv, phase = "streaming", Abort, answers' = answers
  PROVE  LineInv'
<1>1. /\ line' = line \o answer.held \o Mark("failure") /\ phase' = "failed" /\ answer' = NoAnswer
  BY DEF Abort, Dropped
<1> DEFINE s == line \o answer.held
<1>2. InOrder(s, answers) /\ Without(s, "usage") /\ answers \in Nat
  BY LineReleased
<1>3. s \in Seq(LineEntries) /\ UsageFirst(s)
  BY <1>2 DEF InOrder, Without, UsageFirst
<1> HIDE DEF s
<1>4. InOrder(s \o Mark("failure"), answers)
  BY <1>2, MarkInOrder DEF LineMarks
<1>5. UsageFirst(s \o Mark("failure"))
  BY <1>3, UsageConcat, MarkIs DEF LineMarks
<1> QED
  BY <1>1, <1>2, <1>4, <1>5, LineEnds DEF s

\* The snapshot of a response with what it releases.
LEMMA LineConclude ==
  ASSUME phase' = "ended", answer' = NoAnswer, answers' \in Nat, NEW rest \in Seq(LineEntries),
         NEW usage \in BOOLEAN, line \in Seq(LineEntries),
         line' = line \o (IF usage THEN Mark("usage") ELSE <<>>) \o rest \o Mark("terminal"),
         Without(line, "usage"), Without(rest, "usage"), usage => Without(line, "answer"),
         InOrder(line \o rest, answers'), usage => InOrder(rest, answers')
  PROVE  LineInv'
<1> DEFINE k == answers'
<1>1. CASE ~usage
  <2>1. line' = line \o rest \o Mark("terminal")
    <3>1. line \o <<>> = line
      OBVIOUS
    <3> QED
      BY <1>1, <3>1
  <2> DEFINE s == line \o rest
  <2>2. s \in Seq(LineEntries) /\ InOrder(s, answers') /\ Without(s, "usage")
    BY WithoutConcat DEF InOrder
  <2>3. UsageFirst(s)
    BY <2>2 DEF Without, UsageFirst
  <2> HIDE DEF s
  <2>4. InOrder(s \o Mark("terminal"), answers')
    BY <2>2, MarkInOrder DEF LineMarks
  <2>5. UsageFirst(s \o Mark("terminal"))
    BY <2>2, <2>3, UsageConcat, MarkIs DEF LineMarks
  <2> QED
    BY <2>1, <2>4, <2>5, LineEnds DEF s
<1>2. CASE usage
  <2>1. line' = line \o Mark("usage") \o rest \o Mark("terminal")
    BY <1>2
  <2> DEFINE s == line \o Mark("usage")
             q == s \o rest
  <2>2. /\ Mark("usage") \in Seq(LineEntries) /\ Without(Mark("usage"), "answer")
        /\ Mark("terminal") \in Seq(LineEntries) /\ Without(Mark("terminal"), "usage")
    BY MarkIs DEF LineMarks
  <2>3. s \in Seq(LineEntries) /\ Without(s, "answer")
    <3>1. s \in Seq(LineEntries)
      BY <2>2
    <3> QED
      BY <1>2, <2>2, <3>1, WithoutConcat
  <2> HIDE DEF s
  <2>4. UsageFirst(s)
    BY <2>3 DEF UsageFirst, Without
  <2>5. UsageFirst(q) /\ q \in Seq(LineEntries)
    BY <2>3, <2>4, UsageConcat
  <2>6. InOrder(q, answers')
    <3>1. InOrder(rest, answers')
      BY <1>2
    <3>2. \A n \in 1..Len(q) : q[n][1] = "answer" => n > Len(s)
      BY <2>3, ConcatIs DEF Without
    <3>3. Len(s) \in Nat /\ Len(rest) \in Nat /\ Len(q) = Len(s) + Len(rest)
      BY <2>3
    <3>4. \A n \in 1..Len(rest) : q[Len(s) + n] = rest[n]
      BY <2>3, <3>3
    <3> HIDE DEF q
    <3>5. ASSUME NEW n \in 1..Len(q), n > Len(s)
          PROVE  n - Len(s) \in 1..Len(rest) /\ q[n] = rest[n - Len(s)]
      <4>1. n - Len(s) \in 1..Len(rest) /\ n = Len(s) + (n - Len(s))
        BY <3>3, <3>5
      <4> QED
        BY <3>4, <4>1
    <3>6. ASSUME NEW m \in 1..Len(q), NEW n \in 1..Len(q), q[m][1] = "answer", q[n][1] = "answer", m < n
          PROVE  q[m][2] < q[n][2]
      <4>1. m - Len(s) \in 1..Len(rest) /\ q[m] = rest[m - Len(s)] /\ n - Len(s) \in 1..Len(rest) /\ q[n] = rest[n - Len(s)]
        BY <3>2, <3>5, <3>6
      <4>2. m - Len(s) < n - Len(s)
        BY <3>3, <3>6
      <4> QED
        BY <3>1, <3>6, <4>1, <4>2 DEF InOrder
    <3>7. ASSUME NEW n \in 1..Len(q), q[n][1] = "answer" PROVE q[n][2] \in 1..answers'
      BY <3>1, <3>2, <3>5, <3>7 DEF InOrder
    <3>8. ASSUME NEW j \in 1..answers' PROVE \E n \in 1..Len(q) : q[n] = <<"answer", j>>
      <4>1. PICK n \in 1..Len(rest) : rest[n] = <<"answer", j>>
        BY <3>1 DEF InOrder
      <4>2. Len(s) + n \in 1..Len(q) /\ q[Len(s) + n] = rest[n]
        BY <3>3, <3>4
      <4> QED
        BY <4>1, <4>2
    <3> QED
      BY <2>5, <3>6, <3>7, <3>8 DEF InOrder
  <2> HIDE DEF q
  <2>7. InOrder(q \o Mark("terminal"), answers')
    BY <2>6, MarkInOrder DEF LineMarks
  <2>8. UsageFirst(q \o Mark("terminal"))
    BY <2>2, <2>5, UsageConcat
  <2> QED
    BY <2>1, <2>7, <2>8, LineEnds DEF q, s
<1> QED
  BY <1>1, <1>2

LEMMA LineSame ==
  ASSUME LineInv, phase = "streaming", UNCHANGED <<phase, line, answers>>, answer' \in {answer, Blocked}
  PROVE  LineInv'
<1>1. /\ answer' \in [held : Seq(LineEntries), off : BOOLEAN, substantive : BOOLEAN, blocked : BOOLEAN]
      /\ answer'.held = answer.held /\ answer'.off = answer.off
  BY DEF LineInv, Blocked
<1> QED
  BY <1>1 DEF LineInv, InOrder, UsageFirst, Without

LEMMA LineRelease ==
  ASSUME LineInv, phase = "streaming", NEW c, NEW i, NEW held, NEW ans \in {answer, Blocked},
         Release(c, i, held, ans), answers' = answers
  PROVE  LineInv'
<1>1. CASE Abort
  BY <1>1, LineAbort
<1>2. CASE ~Abort
  BY <1>2, LineSame DEF Release
<1> QED
  BY <1>1, <1>2

\* What an update does to the holding.
LEMMA HoldingIs ==
  ASSUME NEW a \in [held : Seq(LineEntries), off : BOOLEAN, substantive : BOOLEAN, blocked : BOOLEAN],
         NEW h \in Seq(LineEntries), NEW f \in BOOLEAN, NEW b \in BOOLEAN
  PROVE  /\ [a EXCEPT !.held = h, !.off = f] \in
              [held : Seq(LineEntries), off : BOOLEAN, substantive : BOOLEAN, blocked : BOOLEAN]
         /\ [a EXCEPT !.held = h, !.off = f].held = h /\ [a EXCEPT !.held = h, !.off = f].off = f
         /\ [a EXCEPT !.held = h] \in
              [held : Seq(LineEntries), off : BOOLEAN, substantive : BOOLEAN, blocked : BOOLEAN]
         /\ [a EXCEPT !.held = h].held = h /\ [a EXCEPT !.held = h].off = a.off
         /\ [a EXCEPT !.substantive = b] \in
              [held : Seq(LineEntries), off : BOOLEAN, substantive : BOOLEAN, blocked : BOOLEAN]
         /\ [a EXCEPT !.substantive = b].held = a.held /\ [a EXCEPT !.substantive = b].off = a.off
<1>1. a = [held |-> a.held, off |-> a.off, substantive |-> a.substantive, blocked |-> a.blocked]
  OBVIOUS
<1>2. a.held \in Seq(LineEntries) /\ a.off \in BOOLEAN /\ a.substantive \in BOOLEAN /\ a.blocked \in BOOLEAN
  OBVIOUS
<1>3. [a EXCEPT !.held = h, !.off = f] = [held |-> h, off |-> f, substantive |-> a.substantive, blocked |-> a.blocked]
  <2> DEFINE m == [a EXCEPT !.held = h]
  <2>1. m = [held |-> h, off |-> a.off, substantive |-> a.substantive, blocked |-> a.blocked]
    BY <1>1
  <2>2. [a EXCEPT !.held = h, !.off = f] = [m EXCEPT !.off = f]
    OBVIOUS
  <2>4. m \in [held : Seq(LineEntries), off : BOOLEAN, substantive : BOOLEAN, blocked : BOOLEAN]
    BY <1>2, <2>1
  <2> HIDE DEF m
  <2>3. [m EXCEPT !.off = f] = [held |-> h, off |-> f, substantive |-> a.substantive, blocked |-> a.blocked]
    BY <1>2, <2>1, <2>4
  <2> QED
    BY <2>2, <2>3
<1>4. [a EXCEPT !.held = h] = [held |-> h, off |-> a.off, substantive |-> a.substantive, blocked |-> a.blocked]
  BY <1>1
<1>5. [a EXCEPT !.substantive = b] = [held |-> a.held, off |-> a.off, substantive |-> b, blocked |-> a.blocked]
  BY <1>1
<1> QED
  BY <1>2, <1>3, <1>4, <1>5

LEMMA LineError ==
  ASSUME LineInv, ErrorEvent
  PROVE  LineInv'
<1>1. /\ phase = "streaming" /\ phase' = phase /\ answers' = answers
      /\ answer' = [answer EXCEPT !.held = <<>>, !.off = TRUE]
      /\ line' = line \o answer.held \o Mark("error")
  BY DEF ErrorEvent, Streaming, Flushed
<1> DEFINE s == line \o answer.held
<1>2. InOrder(s, answers) /\ Without(s, "usage") /\ answers \in Nat
  BY <1>1, LineReleased
<1> HIDE DEF s
<1>3. s \in Seq(LineEntries)
  BY <1>2 DEF InOrder
<1>4. Mark("error") \in Seq(LineEntries) /\ Without(Mark("error"), "usage")
  BY MarkIs DEF LineMarks
<1>5. InOrder(s \o Mark("error"), answers)
  BY <1>2, MarkInOrder DEF LineMarks
<1>6. Without(s \o Mark("error"), "usage")
  BY <1>2, <1>3, <1>4, WithoutConcat
<1>7. InOrder(line', answers) /\ Without(line', "usage")
  BY <1>1, <1>5, <1>6 DEF s
<1>8. /\ answer' \in [held : Seq(LineEntries), off : BOOLEAN, substantive : BOOLEAN, blocked : BOOLEAN]
      /\ answer'.held = <<>> /\ answer'.off = TRUE
  <2>1. answer \in [held : Seq(LineEntries), off : BOOLEAN, substantive : BOOLEAN, blocked : BOOLEAN]
    BY DEF LineInv
  <2>2. <<>> \in Seq(LineEntries) /\ TRUE \in BOOLEAN
    OBVIOUS
  <2> QED
    BY <1>1, <2>1, <2>2, HoldingIs
<1>9. Len(answer'.held) = 0
  BY <1>8
<1>10. answers - Len(answer'.held) = answers
  <2>1. \A a \in Nat : a - 0 = a
    OBVIOUS
  <2> QED
    BY <1>2, <1>9, <2>1, Zenon
<1>11. InOrder(line, answers - Len(answer.held))' /\ Without(line, "usage")'
  BY <1>1, <1>7, <1>10 DEF InOrder, Without
<1>12. UsageFirst(line)'
  BY <1>11 DEF UsageFirst, Without
<1>13. \A j \in 1..Len(answer'.held) : answer'.held[j] = <<"answer", answers' - Len(answer'.held) + j>>
  BY <1>9
<1>14. Len(answer'.held) <= answers' /\ answers' \in Nat
  BY <1>1, <1>2, <1>9
<1> QED
  BY <1>1, <1>8, <1>11, <1>12, <1>13, <1>14 DEF LineInv

LEMMA LineAnswer ==
  ASSUME LineInv, NEW done \in BOOLEAN, AnswerEvent(done)
  PROVE  LineInv'
<1> DEFINE seen == [answer EXCEPT !.substantive = @ \/ (done /\ ~answer.off)]
           k == answers - Len(answer.held)
<1>1. /\ phase = "streaming" /\ phase' = phase /\ answers' = answers + 1 /\ answers \in Nat
      /\ \/ /\ line' = line \o answer.held \o Piece(answers')
            /\ answer' = [seen EXCEPT !.held = <<>>, !.off = TRUE]
         \/ /\ line' = line /\ ~answer.off
            /\ answer' = [seen EXCEPT !.held = @ \o Piece(answers')]
  BY DEF AnswerEvent, LineInv
<1>0. /\ seen \in [held : Seq(LineEntries), off : BOOLEAN, substantive : BOOLEAN, blocked : BOOLEAN]
      /\ seen.held = answer.held /\ seen.off = answer.off
  <2>1. answer \in [held : Seq(LineEntries), off : BOOLEAN, substantive : BOOLEAN, blocked : BOOLEAN]
    BY DEF LineInv
  <2>2. (answer.substantive \/ (done /\ ~answer.off)) \in BOOLEAN /\ <<>> \in Seq(LineEntries) /\ TRUE \in BOOLEAN
    OBVIOUS
  <2> QED
    BY <2>1, <2>2, HoldingIs
<1> HIDE DEF seen
<1>2. answer.held \in Seq(LineEntries) /\ Len(answer.held) \in Nat /\ k \in Nat /\ answers = k + Len(answer.held)
  BY <1>1 DEF LineInv
<1> DEFINE one == Piece(answers + 1)
<1>3. one \in Seq(LineEntries) /\ Len(one) = 1 /\ one[1] = <<"answer", answers + 1>>
  <2>1. <<"answer", answers + 1>> \in LineEntries
    BY <1>1 DEF LineEntries
  <2> QED
    BY <2>1 DEF Piece
<1>4. \A j \in 1..Len(one) : one[j] = <<"answer", answers + j>>
  BY <1>3
<1>5. Without(one, "usage")
  BY <1>3 DEF Without
<1> HIDE DEF one
<1>6. CASE /\ line' = line \o answer.held \o one
           /\ answer' = [seen EXCEPT !.held = <<>>, !.off = TRUE]
  <2> DEFINE s == line \o answer.held
  <2>1. InOrder(s, answers) /\ Without(s, "usage")
    BY <1>1, LineReleased
  <2> HIDE DEF s
  <2>2. InOrder(s \o one, answers + Len(one)) /\ s \in Seq(LineEntries)
    <3>1. InOrder(s, answers) /\ answers \in Nat /\ one \in Seq(LineEntries)
      BY <1>1, <1>3, <2>1
    <3>2. InOrder(s \o one, answers + Len(one))
      BY ONLY <3>1, <1>4, AnswersFollow
    <3> QED
      BY <3>1, <3>2 DEF InOrder
  <2>3. Without(s \o one, "usage")
    BY <1>3, <1>5, <2>1, <2>2, WithoutConcat
  <2>4. InOrder(line', answers') /\ Without(line', "usage")
    BY <1>1, <1>3, <1>6, <2>2, <2>3 DEF s
  <2>5. /\ answer' \in [held : Seq(LineEntries), off : BOOLEAN, substantive : BOOLEAN, blocked : BOOLEAN]
        /\ answer'.held = <<>> /\ answer'.off = TRUE
    <3>1. <<>> \in Seq(LineEntries) /\ TRUE \in BOOLEAN
      OBVIOUS
    <3> QED
      BY <1>0, <1>6, <3>1, HoldingIs
  <2>6. Len(answer'.held) = 0 /\ answers' \in Nat
    BY <1>1, <2>5
  <2>7. answers' - Len(answer'.held) = answers'
    <3>1. \A a \in Nat : a - 0 = a
      OBVIOUS
    <3> QED
      BY <2>6, <3>1, Zenon
  <2>8. InOrder(line, answers - Len(answer.held))' /\ Without(line, "usage")'
    BY <2>4, <2>7 DEF InOrder, Without
  <2>9. UsageFirst(line)'
    BY <2>8 DEF UsageFirst, Without
  <2>10. \A j \in 1..Len(answer'.held) : answer'.held[j] = <<"answer", answers' - Len(answer'.held) + j>>
    BY <2>6
  <2>11. Len(answer'.held) <= answers'
    BY <2>6
  <2> QED
    BY <1>1, <2>5, <2>6, <2>8, <2>9, <2>10, <2>11 DEF LineInv
<1>7. CASE /\ line' = line /\ ~answer.off
           /\ answer' = [seen EXCEPT !.held = @ \o one]
  <2>1. /\ answer' \in [held : Seq(LineEntries), off : BOOLEAN, substantive : BOOLEAN, blocked : BOOLEAN]
        /\ answer'.held = answer.held \o one /\ answer'.off = answer.off
    <3>1. answer.held \o one \in Seq(LineEntries)
      BY <1>2, <1>3
    <3>2. answer' = [seen EXCEPT !.held = answer.held \o one]
      BY <1>0, <1>7
    <3> QED
      BY <1>0, <3>1, <3>2, HoldingIs
  <2>2. Len(answer'.held) = Len(answer.held) + 1
    <3>1. \A s, t \in Seq(LineEntries) : Len(s \o t) = Len(s) + Len(t)
      OBVIOUS
    <3> QED
      BY <1>2, <1>3, <2>1, <3>1, Zenon
  <2>3. answers' \in Nat /\ answers' - Len(answer'.held) = k /\ Len(answer'.held) <= answers'
    <3>1. answers' - (Len(answer.held) + 1) = k
      BY <1>1, <1>2
    <3>2. answers' \in Nat /\ Len(answer.held) + 1 <= answers'
      BY <1>1, <1>2
    <3> HIDE DEF k
    <3> QED
      BY <2>2, <3>1, <3>2, Zenon
  <2>4. ASSUME NEW j \in 1..Len(answer'.held)
        PROVE  answer'.held[j] = <<"answer", k + j>>
    <3>1. CASE j \in 1..Len(answer.held)
      <4>1. answer'.held[j] = answer.held[j]
        BY <1>2, <1>3, <2>1, <3>1
      <4> QED
        BY <3>1, <4>1 DEF LineInv
    <3>2. CASE j = Len(answer.held) + 1
      <4>1. answer'.held[j] = one[1]
        BY <1>2, <1>3, <2>1, <3>2
      <4>2. answers + 1 = k + j
        BY <1>2, <3>2
      <4> QED
        BY <1>3, <4>1, <4>2
    <3> QED
      BY <1>2, <2>2, <3>1, <3>2
  <2>5. InOrder(line, answers - Len(answer.held))' /\ UsageFirst(line)'
    BY <1>7, <2>3 DEF LineInv, InOrder, UsageFirst
  <2>6. Without(line, "usage")' /\ Without(line, "answer")'
    BY <1>1, <1>7 DEF LineInv, Without
  <2>7. \A j \in 1..Len(answer'.held) : answer'.held[j] = <<"answer", answers' - Len(answer'.held) + j>>
    BY <2>3, <2>4
  <2> QED
    BY <1>1, <1>7, <2>1, <2>3, <2>5, <2>6, <2>7 DEF LineInv
<1> QED
  BY <1>1, <1>6, <1>7 DEF one

\* The answer on its own.
LEMMA AnswerAlone ==
  ASSUME NEW t \in Seq(LineEntries), \A j \in 1..Len(t) : t[j] = <<"answer", j>>
  PROVE  InOrder(t, Len(t)) /\ Without(t, "usage")
<1>1. InOrder(<<>>, 0)
  <2>1. <<>> \in Seq(LineEntries) /\ Len(<<>>) = 0
    OBVIOUS
  <2> QED
    BY <2>1 DEF InOrder
<1>2. Len(t) \in Nat
  OBVIOUS
<1>3. \A j \in 1..Len(t) : t[j] = <<"answer", 0 + j>>
  BY <1>2
<1>4. InOrder(<<>> \o t, 0 + Len(t))
  <2>1. 0 \in Nat
    OBVIOUS
  <2> QED
    BY ONLY <1>1, <1>3, <2>1, AnswersFollow, t \in Seq(LineEntries)
<1>5. <<>> \o t = t /\ 0 + Len(t) = Len(t)
  BY <1>2
<1>6. Without(t, "usage")
  BY DEF Without
<1> QED
  BY <1>4, <1>5, <1>6

LEMMA LineTerminal ==
  ASSUME LineInv, NEW k, NEW f, NEW i, NEW usage \in BOOLEAN, Terminal(k, f, i, usage)
  PROVE  LineInv'
<1>1. /\ phase = "streaming" /\ answers' = answers /\ Conclude(f, i, usage, answer.held)
      /\ usage => ~answer.off
  BY DEF Terminal, Streaming
<1>2. CASE Abort
  BY <1>1, <1>2, LineAbort
<1>3. CASE ~Abort
  <2>1. /\ phase' = "ended" /\ answer' = NoAnswer
        /\ line' = line \o (IF usage THEN Mark("usage") ELSE <<>>) \o answer.held \o Mark("terminal")
    BY <1>1, <1>3 DEF Conclude, Dropped
  <2>2. /\ line \in Seq(LineEntries) /\ answer.held \in Seq(LineEntries) /\ answers \in Nat
        /\ InOrder(line \o answer.held, answers) /\ Without(answer.held, "usage")
    BY <1>1, LineReleased
  <2>3. Without(line, "usage") /\ (usage => Without(line, "answer"))
    BY <1>1 DEF LineInv
  <2>4. ASSUME usage PROVE InOrder(answer.held, answers)
    <3> DEFINE n == answers - Len(answer.held)
    <3>1. n \in Nat /\ Len(answer.held) \in Nat /\ InOrder(line, n)
      BY <2>2 DEF LineInv
    <3>2. n = 0
      <4>1. ASSUME n # 0 PROVE FALSE
        <5>1. 1 \in 1..n
          BY <3>1, <4>1
        <5>2. PICK m \in 1..Len(line) : line[m] = <<"answer", 1>>
          BY <3>1, <5>1 DEF InOrder
        <5> QED
          BY <2>3, <2>4, <5>2 DEF Without
      <4> QED
        BY <4>1
    <3>3. answers = Len(answer.held)
      BY <2>2, <3>1, <3>2
    <3>4. \A j \in 1..Len(answer.held) : answer.held[j] = <<"answer", j>>
      <4>1. \A j \in 1..Len(answer.held) : answer.held[j] = <<"answer", n + j>>
        BY DEF LineInv
      <4>2. \A j \in 1..Len(answer.held) : n + j = j
        BY <3>1, <3>2
      <4> HIDE DEF n
      <4> QED
        BY <4>1, <4>2
    <3> QED
      BY <2>2, <3>3, <3>4, AnswerAlone
  <2> QED
    BY <1>1, <2>1, <2>2, <2>3, <2>4, LineConclude
<1> QED
  BY <1>2, <1>3

LEMMA LineJSON ==
  ASSUME LineInv, NEW k, NEW f, NEW i, NEW usage \in BOOLEAN, TransformJSON(k, f, i, usage)
  PROVE  LineInv'
<1> DEFINE rest == IF f = Null THEN Piece(1) ELSE <<>>
<1>1. /\ phase = "streaming" /\ line = <<>> /\ answers = 0 /\ Conclude(f, i, usage, rest)
      /\ usage => f = Null
      /\ answers' = IF f = Null /\ phase' = "ended" THEN 1 ELSE 0
  BY DEF TransformJSON
<1>2. CASE Abort
  <2>1. phase' = "failed"
    BY <1>2 DEF Abort
  <2>2. answers' = answers
    BY <1>1, <2>1
  <2> QED
    BY <1>1, <1>2, <2>2, LineAbort
<1>3. CASE ~Abort
  <2>1. /\ phase' = "ended" /\ answer' = NoAnswer
        /\ line' = line \o (IF usage THEN Mark("usage") ELSE <<>>) \o rest \o Mark("terminal")
    BY <1>1, <1>3 DEF Conclude, Dropped
  <2>2. rest \in Seq(LineEntries) /\ answers' = Len(rest) /\ answers' \in Nat
        /\ \A j \in 1..Len(rest) : rest[j] = <<"answer", j>>
    <3>1. CASE f = Null
      <4>1. <<"answer", 1>> \in LineEntries
        BY DEF LineEntries
      <4>2. rest = <<<<"answer", 1>>>> /\ answers' = 1
        BY <1>1, <2>1, <3>1 DEF Piece
      <4> DEFINE t == <<<<"answer", 1>>>>
      <4>3. t \in Seq(LineEntries) /\ Len(t) = 1 /\ t[1] = <<"answer", 1>>
        BY <4>1
      <4>4. rest = t
        BY <4>2
      <4> HIDE DEF rest, t
      <4>5. rest \in Seq(LineEntries) /\ Len(rest) = 1 /\ rest[1] = <<"answer", 1>>
        BY <4>3, <4>4
      <4> QED
        BY <4>2, <4>5
    <3>2. CASE f # Null
      <4>1. rest = <<>> /\ answers' = 0
        BY <1>1, <3>2
      <4>2. <<>> \in Seq(LineEntries) /\ Len(<<>>) = 0
        OBVIOUS
      <4> HIDE DEF rest
      <4>3. rest \in Seq(LineEntries) /\ Len(rest) = 0
        BY <4>1, <4>2
      <4>4. answers' = Len(rest) /\ answers' \in Nat /\ 1..Len(rest) = {}
        BY <4>1, <4>3
      <4> QED
        BY <4>3, <4>4
    <3> QED
      BY <3>1, <3>2
  <2> HIDE DEF rest
  <2>3. InOrder(rest, answers') /\ Without(rest, "usage")
    BY <2>2, AnswerAlone
  <2>4. /\ line \in Seq(LineEntries) /\ line \o rest = rest
        /\ Without(line, "usage") /\ Without(line, "answer")
    <3>1. <<>> \in Seq(LineEntries) /\ Len(<<>>) = 0 /\ <<>> \o rest = rest
      BY <2>2
    <3> QED
      BY <1>1, <3>1 DEF Without
  <2> QED
    BY <2>1, <2>2, <2>3, <2>4, LineConclude
<1> QED
  BY <1>2, <1>3

\* A line without anything.
LEMMA LineEmpty ==
  answers = 0 /\ answer = NoAnswer /\ line = <<>> => LineInv
<1> SUFFICES ASSUME answers = 0, answer = NoAnswer, line = <<>> PROVE LineInv
  OBVIOUS
<1>1. answer = [held |-> <<>>, off |-> FALSE, substantive |-> FALSE, blocked |-> FALSE]
  BY DEF NoAnswer
<1>2. <<>> \in Seq(LineEntries) /\ Len(<<>>) = 0 /\ 0 - 0 = 0
  OBVIOUS
<1>3. answer.held = <<>> /\ Len(answer.held) = 0 /\ answers - Len(answer.held) = 0
  <2>1. answer.held = <<>>
    BY <1>1
  <2> QED
    BY <1>2, <2>1, Zenon
<1>4. answer \in [held : Seq(LineEntries), off : BOOLEAN, substantive : BOOLEAN, blocked : BOOLEAN]
  BY <1>1, <1>2
<1>5. InOrder(<<>>, 0) /\ UsageFirst(<<>>) /\ Without(<<>>, "usage") /\ Without(<<>>, "answer")
  BY <1>2 DEF InOrder, UsageFirst, Without
<1> QED
  BY <1>3, <1>4, <1>5 DEF LineInv

LEMMA LineResponds ==
  ASSUME LineInv, Responds
  PROVE  LineInv'
<1>1. ASSUME NEW c \in Calls, Added(c) \/ ArgumentsDone(c) PROVE LineInv'
  <2>1. phase = "streaming" /\ answers' = answers
    BY <1>1 DEF Added, ArgumentsDone, Streaming
  <2>2. CASE Abort
    BY <2>1, <2>2, LineAbort
  <2>3. CASE ~Abort
    <3>1. UNCHANGED <<phase, answer, line>>
      BY <1>1, <2>3 DEF Added, ArgumentsDone
    <3> QED
      BY <2>1, <3>1, LineSame
  <2> QED
    BY <2>2, <2>3
<1>2. ASSUME NEW c \in Calls, NEW i \in Inputs, InputDone(c, i) PROVE LineInv'
  <2>1. phase = "streaming" /\ answers' = answers /\ Release(c, i, pending, answer)
    BY <1>2 DEF InputDone, Streaming
  <2> QED
    BY <2>1, LineRelease
<1>3. ASSUME NEW c \in Calls, NEW i \in Inputs, NEW complete \in BOOLEAN, ItemDone(c, i, complete) PROVE LineInv'
  <2>1. phase = "streaming" /\ answers' = answers
    BY <1>3 DEF ItemDone, Streaming
  <2>2. \/ answer' = Blocked /\ UNCHANGED <<phase, line>>
        \/ Abort
        \/ \E held : Release(c, i, held, Blocked)
    BY <1>3 DEF ItemDone
  <2>3. CASE \E held : Release(c, i, held, Blocked)
    BY <2>1, <2>3, LineRelease
  <2> QED
    BY <2>1, <2>2, <2>3, LineAbort, LineSame
<1>4. ASSUME Unsupported \/ TerminalRefused \/ EndOfStream PROVE LineInv'
  <2>1. Streaming /\ Abort
    BY <1>4 DEF Unsupported, TerminalRefused, EndOfStream
  <2> QED
    BY <2>1, LineAbort DEF Streaming
<1>5. ASSUME NEW k, NEW usage \in BOOLEAN, NEW f, NEW i,
             Terminal(k, f, i, usage) \/ TransformJSON(k, f, i, usage)
      PROVE  LineInv'
  BY <1>5, LineTerminal, LineJSON
<1>6. ASSUME NEW done \in BOOLEAN, AnswerEvent(done) PROVE LineInv'
  BY <1>6, LineAnswer
<1> QED
  BY <1>1, <1>2, <1>3, <1>4, <1>5, <1>6, LineError DEF Responds

LEMMA LineNext ==
  LineInv /\ PhaseInv /\ [TransformNext]_transformVars => LineInv'
<1> SUFFICES ASSUME LineInv, PhaseInv, [TransformNext]_transformVars PROVE LineInv'
  OBVIOUS
<1>1. CASE Responds
  BY <1>1, LineResponds
<1>2. CASE Asks
  <2>1. \E order, course, fault : NextRequest(order, course, fault)
    BY <1>2 DEF Asks
  <2>2. (answers = 0)' /\ (answer = NoAnswer)' /\ (line = <<>>)'
    BY <2>1 DEF NextRequest, NewTransform, NoAnswer
  <2>3. LineInv'
    BY <2>2, LineEmpty, PTL
  <2> QED
    BY <2>3
<1>3. CASE PrepareRequest \/ PassThrough
  <2>1. UNCHANGED <<answers, answer, line>> /\ phase = "asked"
    BY <1>3 DEF PrepareRequest, PassThrough, stream
  <2> QED
    BY <2>1 DEF LineInv, InOrder, UsageFirst, Without
<1>4. CASE UNCHANGED transformVars
  <2>1. UNCHANGED <<answers, answer, line, phase>>
    BY <1>4 DEF transformVars, stream
  <2> QED
    BY <2>1 DEF LineInv, InOrder, UsageFirst, Without
<1> QED
  BY <1>1, <1>2, <1>3, <1>4, NextCases

\* The usage report precedes every event of the final answer, the events keep
\* their order, and none is lost however the response ends, with any number of
\* events and any size of the buffer that holds them back.
THEOREM AnswersComeLast == TransformSpec => []AnswerStaysLast
<1>1. TransformInit => LineInv
  BY LineEmpty DEF TransformInit
<1>2. LineInv => AnswerStaysLast
  <2> SUFFICES ASSUME LineInv PROVE AnswerStaysLast
    OBVIOUS
  <2> DEFINE k == answers - Len(answer.held)
             seen == {n \in 1..Len(line) : line[n][1] = "answer"}
  <2>1. /\ answers \in Nat /\ InOrder(line, k) /\ UsageFirst(line)
        /\ answer.held \in Seq(LineEntries) /\ Len(answer.held) <= answers
    BY DEF LineInv
  <2>2. k \in 0..answers
    BY <2>1
  <2>3. ASSUME phase \in {"ended", "failed"} PROVE k = answers
    <3>1. answer.held = <<>>
      BY <2>3 DEF LineInv
    <3>2. Len(answer.held) = 0
      BY <3>1
    <3> QED
      BY <2>1, <3>2
  <2> HIDE DEF k
  <2>4. {line[n][2] : n \in seen} = 1..k
    <3>1. \A n \in seen : line[n][2] \in 1..k
      BY <2>1 DEF InOrder
    <3>2. \A j \in 1..k : \E n \in seen : line[n][2] = j
      <4> SUFFICES ASSUME NEW j \in 1..k PROVE \E n \in seen : line[n][2] = j
        OBVIOUS
      <4>1. PICK n \in 1..Len(line) : line[n] = <<"answer", j>>
        BY <2>1 DEF InOrder
      <4> QED
        BY <4>1
    <3> QED
      BY <3>1, <3>2
  <2>5. \A m, n \in seen : m < n => line[m][2] < line[n][2]
    BY <2>1 DEF InOrder
  <2>6. \A u \in 1..Len(line), n \in seen : line[u][1] = "usage" => u < n
    BY <2>1 DEF UsageFirst
  <2> HIDE DEF seen
  <2>7. \E j \in 0..answers : {line[n][2] : n \in seen} = 1..j /\ (phase \in {"ended", "failed"} => j = answers)
    BY <2>2, <2>3, <2>4
  <2> QED
    BY <2>5, <2>6, <2>7 DEF AnswerStaysLast, seen
<1> QED
  BY <1>1, <1>2, LineNext, DeliveryAlways, PTL DEF TransformSpec

-----------------------------------------------------------------------------
(* Loops.                                                                  *)

\* What holds before the first round and survives every round holds to the end.
LEMMA Climb ==
  ASSUME NEW G, NEW l \in Nat, 0 \in G, \A k \in 1..l : k - 1 \in G => k \in G
  PROVE  \A k \in 0..l : k \in G
<1> DEFINE Bad == (0..l) \ G
<1>1. SUFFICES ASSUME Bad # {} PROVE FALSE
  OBVIOUS
<1>2. Bad \subseteq Nat
  OBVIOUS
<1> HIDE DEF Bad
<1>3. PICK k \in Bad : \A m \in Bad : ~ (m < k)
  BY <1>1, <1>2, Least
<1>4. k \in 1..l /\ k - 1 \in 0..l /\ k - 1 < k
  BY <1>3 DEF Bad
<1>5. k - 1 \in G
  BY <1>3, <1>4 DEF Bad
<1> QED
  BY <1>3, <1>4, <1>5 DEF Bad

\* Every loop has a run.
LEMMA LoopExists ==
  ASSUME NEW V, NEW v \in V, NEW l \in Nat, NEW step \in [1..l -> [V -> V]]
  PROVE  \E f \in [0..l -> V] : f[0] = v /\ \A k \in 1..l : f[k] = step[k][f[k - 1]]
<1> DEFINE Run(m, f) == f[0] = v /\ \A k \in 1..m : f[k] = step[k][f[k - 1]]
           G == {m \in 0..l : \E f \in [0..m -> V] : Run(m, f)}
<1>1. 0 \in G
  <2> DEFINE f == [k \in 0..0 |-> v]
  <2>1. f \in [0..0 -> V] /\ Run(0, f)
    OBVIOUS
  <2>2. 0 \in 0..l
    OBVIOUS
  <2> HIDE DEF f, Run
  <2> QED
    BY <2>1, <2>2
<1>2. ASSUME NEW m \in 1..l, m - 1 \in G PROVE m \in G
  <2>1. PICK f \in [0..m - 1 -> V] : Run(m - 1, f)
    BY <1>2
  <2> DEFINE g == [k \in 0..m |-> IF k = m THEN step[m][f[m - 1]] ELSE f[k]]
  <2>2. f[m - 1] \in V /\ step[m] \in [V -> V]
    OBVIOUS
  <2>3. g \in [0..m -> V] /\ g[0] = v /\ g[m] = step[m][f[m - 1]] /\ \A k \in 0..m - 1 : g[k] = f[k]
    BY <2>1, <2>2
  <2> HIDE DEF g
  <2>4. ASSUME NEW k \in 1..m PROVE g[k] = step[k][g[k - 1]]
    <3>1. CASE k = m
      BY <2>3, <3>1
    <3>2. CASE k # m
      BY <2>1, <2>3, <3>2
    <3> QED
      BY <3>1, <3>2
  <2>5. Run(m, g) /\ m \in 0..l
    BY <2>3, <2>4
  <2> HIDE DEF Run
  <2> QED
    BY <2>3, <2>5
<1> HIDE DEF G, Run
<1>3. \A m \in 0..l : m \in G
  BY <1>1, <1>2, Climb
<1>4. l \in G
  BY <1>3
<1> QED
  BY <1>4 DEF G, Run

-----------------------------------------------------------------------------
(* What the provider is told.                                              *)

\* FlattenSeq appends one sequence after the other.
LEMMA FlattenRounds ==
  ASSUME NEW S, NEW seqs \in Seq(Seq(S))
  PROVE  \E f \in [0..Len(seqs) -> Seq(S)] :
           /\ FlattenSeq(seqs) = f[Len(seqs)] /\ f[0] = << >>
           /\ \A k \in 1..Len(seqs) : f[k] = f[k - 1] \o seqs[k]
<1> DEFINE len == Len(seqs)
           Vals == Seq(S)
           round == [k \in 1..len |-> [s \in Vals |-> s \o seqs[k]]]
           Solves(g) == g = [i \in 1..len |-> IF i = 1 THEN seqs[i] ELSE g[i - 1] \o seqs[i]]
           h == CHOOSE g : Solves(g)
<1>1. len \in Nat /\ << >> \in Vals
  OBVIOUS
<1>2. ASSUME NEW k \in 1..len PROVE seqs[k] \in Vals
  OBVIOUS
<1>3. ASSUME NEW k \in 1..len, NEW s \in Vals PROVE s \o seqs[k] \in Vals
  BY <1>2
<1>4. round \in [1..len -> [Vals -> Vals]]
  BY <1>3
<1>5. PICK n \in [0..len -> Vals] : n[0] = << >> /\ \A k \in 1..len : n[k] = round[k][n[k - 1]]
  <2> DEFINE first == << >>
  <2>1. first \in Vals /\ len \in Nat
    BY <1>1
  <2> HIDE DEF round, Vals, len, first, Solves, h
  <2>3. round \in [1..len -> [Vals -> Vals]]
    BY <1>4
  <2>2. \E n \in [0..len -> Vals] : n[0] = first /\ \A k \in 1..len : n[k] = round[k][n[k - 1]]
    <3>1. PICK VV, ll, vv, st : VV = Vals /\ ll = len /\ vv = first /\ st = round
      OBVIOUS
    <3>2. vv \in VV /\ ll \in Nat /\ st \in [1..ll -> [VV -> VV]]
      BY <2>1, <2>3, <3>1
    <3>3. \E n \in [0..ll -> VV] : n[0] = vv /\ \A k \in 1..ll : n[k] = st[k][n[k - 1]]
      BY ONLY <3>2, LoopExists
    <3> QED
      BY <3>1, <3>3
  <2> QED
    BY <2>2 DEF first
<1>6. ASSUME NEW k \in 1..len PROVE n[k] = n[k - 1] \o seqs[k]
  <2> HIDE DEF Vals
  <2>1. k - 1 \in 0..len
    BY <1>1
  <2>2. n[k - 1] \in Vals /\ round[k] = [s \in Vals |-> s \o seqs[k]]
    BY <1>5, <2>1
  <2> QED
    BY <1>5, <2>2
<1>7. CASE len = 0
  <2>1. FlattenSeq(seqs) = seqs /\ seqs = << >>
    BY <1>7 DEF FlattenSeq
  <2> QED
    BY <1>5, <1>7, <2>1
<1>8. CASE len # 0
  <2> DEFINE g == [i \in 1..len |-> n[i]]
  <2>1. n[1] = seqs[1]
    <3>1. 1 \in 1..len /\ 1 - 1 = 0
      BY <1>1, <1>8
    <3>2. n[1] = n[0] \o seqs[1]
      BY <1>6, <3>1
    <3>3. \A s \in Vals : << >> \o s = s
      OBVIOUS
    <3> QED
      BY <1>2, <1>5, <3>1, <3>2, <3>3
  <2>2. ASSUME NEW i \in 1..len PROVE g[i] = IF i = 1 THEN seqs[i] ELSE g[i - 1] \o seqs[i]
    <3>1. CASE i = 1
      BY <2>1, <3>1
    <3>2. CASE i # 1
      <4>1. i - 1 \in 1..len
        BY <1>1, <3>2
      <4>2. g[i] = n[i] /\ g[i - 1] = n[i - 1]
        BY <4>1
      <4> QED
        BY <1>6, <3>2, <4>2
    <3> QED
      BY <3>1, <3>2
  <2>3. Solves(g)
    <3>1. g = [i \in 1..len |-> g[i]]
      OBVIOUS
    <3> HIDE DEF Vals, g
    <3> QED
      BY <2>2, <3>1
  <2>4. Solves(h)
    <3> HIDE DEF Solves
    <3> QED
      BY <2>3
  <2>5. FlattenSeq(seqs) = h[len]
    BY <1>8 DEF FlattenSeq
  <2> HIDE DEF h
  <2>6. \A i \in 1..len : h[i] = IF i = 1 THEN seqs[i] ELSE h[i - 1] \o seqs[i]
    BY <2>4, Zenon
  <2> DEFINE G == {k \in 0..len : k = 0 \/ h[k] = n[k]}
  <2>7. 0 \in G
    BY <1>1
  <2>8. ASSUME NEW k \in 1..len, k - 1 \in G PROVE k \in G
    <3>1. CASE k = 1
      BY <2>1, <2>6, <3>1
    <3>2. CASE k # 1
      <4>1. h[k - 1] = n[k - 1]
        BY <2>8, <3>2
      <4>2. h[k] = h[k - 1] \o seqs[k]
        BY <2>6, <3>2
      <4>3. h[k] = n[k]
        BY <1>6, <4>1, <4>2
      <4>4. k \in 0..len
        BY <1>1
      <4> QED
        BY <4>3, <4>4
    <3> QED
      BY <3>1, <3>2
  <2> HIDE DEF G
  <2>9. len \in G
    <3>1. \A k \in 0..len : k \in G
      BY <1>1, <2>7, <2>8, Climb
    <3> QED
      BY <1>1, <3>1
  <2>10. h[len] = n[len]
    BY <1>8, <2>9 DEF G
  <2> QED
    BY <1>5, <1>6, <2>5, <2>10
<1> QED
  BY <1>7, <1>8

\* Every element of the result comes from one of the sequences, with what follows it there.
LEMMA FlattenIs ==
  ASSUME NEW S, NEW seqs \in Seq(Seq(S))
  PROVE  /\ FlattenSeq(seqs) \in Seq(S)
         /\ \A n \in 1..Len(FlattenSeq(seqs)) : \E k \in 1..Len(seqs) : \E j \in 1..Len(seqs[k]) :
              /\ FlattenSeq(seqs)[n] = seqs[k][j]
              /\ j < Len(seqs[k]) =>
                   n + 1 \in 1..Len(FlattenSeq(seqs)) /\ FlattenSeq(seqs)[n + 1] = seqs[k][j + 1]
<1> DEFINE l == Len(seqs)
           Traced(s) == \A n \in 1..Len(s) : \E k \in 1..Len(seqs) : \E j \in 1..Len(seqs[k]) :
              s[n] = seqs[k][j] /\ (j < Len(seqs[k]) => n + 1 \in 1..Len(s) /\ s[n + 1] = seqs[k][j + 1])
<1>1. PICK f \in [0..l -> Seq(S)] :
           /\ FlattenSeq(seqs) = f[l] /\ f[0] = << >>
           /\ \A k \in 1..l : f[k] = f[k - 1] \o seqs[k]
  BY FlattenRounds
<1> DEFINE G == {k \in 0..l : Traced(f[k])}
<1>2. 0 \in G
  <2>1. Len(f[0]) = 0 /\ 0 \in 0..l
    BY <1>1
  <2> QED
    BY <2>1
<1>3. ASSUME NEW k \in 1..l, k - 1 \in G PROVE k \in G
  <2> DEFINE s == f[k - 1]
             t == seqs[k]
  <2>1. s \in Seq(S) /\ t \in Seq(S) /\ f[k] = s \o t /\ Traced(s)
    <3>1. k - 1 \in 0..l
      BY <1>3
    <3>2. Traced(s)
      <4> HIDE DEF Traced
      <4> QED
        BY <1>3
    <3>3. t \in Seq(S)
      OBVIOUS
    <3> QED
      BY <1>1, <3>1, <3>2, <3>3
  <2> HIDE DEF s, G
  <2>2. Traced(s \o t)
    <3>1. Len(s) \in Nat /\ Len(t) \in Nat /\ Len(s \o t) = Len(s) + Len(t)
      BY <2>1
    <3>2. \A n \in 1..Len(s) : (s \o t)[n] = s[n]
      BY <2>1
    <3>3. \A n \in 1..Len(t) : (s \o t)[Len(s) + n] = t[n]
      BY <2>1
    <3> SUFFICES ASSUME NEW n \in 1..Len(s \o t)
                 PROVE  \E m \in 1..Len(seqs) : \E j \in 1..Len(seqs[m]) :
                          /\ (s \o t)[n] = seqs[m][j]
                          /\ j < Len(seqs[m]) => n + 1 \in 1..Len(s \o t) /\ (s \o t)[n + 1] = seqs[m][j + 1]
      OBVIOUS
    <3> DEFINE q == s \o t
    <3>4. CASE n \in 1..Len(s)
      <4>1. PICK m \in 1..Len(seqs) : \E j \in 1..Len(seqs[m]) :
                /\ s[n] = seqs[m][j]
                /\ j < Len(seqs[m]) => n + 1 \in 1..Len(s) /\ s[n + 1] = seqs[m][j + 1]
        BY <2>1, <3>4
      <4>2. PICK j \in 1..Len(seqs[m]) :
                /\ s[n] = seqs[m][j]
                /\ j < Len(seqs[m]) => n + 1 \in 1..Len(s) /\ s[n + 1] = seqs[m][j + 1]
        BY <4>1
      <4>3. \A i \in 1..Len(s) : i \in 1..Len(q)
        BY <3>1
      <4> HIDE DEF q, t, l
      <4>4. q[n] = seqs[m][j]
        BY <3>2, <3>4, <4>2 DEF q
      <4>5. j < Len(seqs[m]) => n + 1 \in 1..Len(q) /\ q[n + 1] = seqs[m][j + 1]
        BY <3>2, <4>2, <4>3 DEF q
      <4> QED
        BY <4>4, <4>5 DEF q
    <3>5. CASE n \notin 1..Len(s)
      <4> DEFINE j == n - Len(s)
      <4>1. j \in 1..Len(t) /\ n = Len(s) + j
        BY <3>1, <3>5
      <4>2. q[n] = t[j]
        BY <3>3, <4>1
      <4>3. ASSUME j < Len(t) PROVE n + 1 \in 1..Len(q) /\ q[n + 1] = t[j + 1]
        <5>1. j + 1 \in 1..Len(t) /\ n + 1 = Len(s) + (j + 1) /\ n + 1 \in 1..Len(q)
          BY <3>1, <4>1, <4>3
        <5> QED
          BY <3>3, <5>1
      <4> HIDE DEF j, q
      <4> QED
        BY <4>1, <4>2, <4>3 DEF q
    <3> QED
      BY <3>4, <3>5
  <2>3. k \in 0..l
    OBVIOUS
  <2> HIDE DEF Traced
  <2> QED
    BY <2>1, <2>2, <2>3 DEF G
<1> HIDE DEF G
<1>4. l \in G
  <2>1. l \in Nat
    OBVIOUS
  <2>2. \A k \in 0..l : k \in G
    <3> HIDE DEF l
    <3> QED
      BY <1>2, <1>3, <2>1, Climb
  <2> QED
    BY <2>1, <2>2
<1>5. Traced(f[l]) /\ f[l] \in Seq(S)
  BY <1>4 DEF G
<1> QED
  BY <1>1, <1>5

\* What Codex's history may hold of a call.
Parts(c, p) ==
  {Item("call", c, p), Item("wait", c, Null)}
  \cup {Item("output", c, o) : o \in {"report", "other", "running"}}

\* A call whose work runs on is not reported on before somebody waits for it.
LEMMA BlockIs ==
  ASSUME NEW c, NEW p, NEW x \in CourseKinds
  PROVE  /\ Items(c, p, x) \in Seq(Parts(c, p))
         /\ \/ \A j \in 1..Len(Items(c, p, x)) : ~Runs(Items(c, p, x)[j])
            \/ \A j \in 1..Len(Items(c, p, x)) :
                 Items(c, p, x)[j].type = "output" => Runs(Items(c, p, x)[j])
            \/ \A j \in 1..Len(Items(c, p, x)) : Runs(Items(c, p, x)[j]) =>
                 j < Len(Items(c, p, x)) /\ Items(c, p, x)[j + 1].type = "wait"
<1> DEFINE call == Item("call", c, p)
           wait == Item("wait", c, Null)
           out(o) == Item("output", c, o)
           b == Items(c, p, x)
<1>1. /\ call \in Parts(c, p) /\ wait \in Parts(c, p)
      /\ out("report") \in Parts(c, p) /\ out("other") \in Parts(c, p) /\ out("running") \in Parts(c, p)
  BY DEF Parts
<1>2. /\ call.type = "call" /\ wait.type = "wait" /\ \A o : out(o).type = "output"
      /\ ~Runs(call) /\ ~Runs(wait) /\ Runs(out("running")) /\ ~Runs(out("report")) /\ ~Runs(out("other"))
  BY DEF Item, Runs
<1>3. CASE x = "report"
  <2>1. b = <<call, out("report")>>
    BY <1>3 DEF Items
  <2> HIDE DEF b, call, wait, out
  <2> QED
    BY <1>1, <1>2, <2>1 DEF b
<1>4. CASE x = "other"
  <2>1. b = <<call, out("other")>>
    BY <1>4 DEF Items
  <2> HIDE DEF b, call, wait, out
  <2> QED
    BY <1>1, <1>2, <2>1 DEF b
<1>5. CASE x = "running"
  <2>1. b = <<call, out("running")>>
    BY <1>5 DEF Items
  <2> HIDE DEF b, call, wait, out
  <2> QED
    BY <1>1, <1>2, <2>1 DEF b
<1>6. CASE x = "waiting"
  <2>1. b = <<call, out("running"), wait>>
    BY <1>6 DEF Items
  <2> HIDE DEF b, call, wait, out
  <2> QED
    BY <1>1, <1>2, <2>1 DEF b
<1>7. CASE x = "yielded"
  <2>1. b = <<call, out("running"), wait, out("running")>>
    BY <1>7 DEF Items
  <2> HIDE DEF b, call, wait, out
  <2> QED
    BY <1>1, <1>2, <2>1 DEF b
<1>8. CASE x = "finished"
  <2>1. b = <<call, out("running"), wait, out("other")>>
    BY <1>8 DEF Items
  <2> HIDE DEF b, call, wait, out
  <2> QED
    BY <1>1, <1>2, <2>1 DEF b
<1>9. CASE x = "orphan"
  <2>1. b = <<out("running")>>
    BY <1>9 DEF Items
  <2> HIDE DEF b, call, wait, out
  <2> QED
    BY <1>1, <1>2, <2>1 DEF b
<1> QED
  BY <1>3, <1>4, <1>5, <1>6, <1>7, <1>8, <1>9 DEF CourseKinds

\* A transcript of calls in which work that runs is waited for before it is reported on.
Attended(items) ==
  /\ Len(items) \in Nat
  /\ \A n \in 1..Len(items) : items[n].call \in Calls /\ items[n].type \in {"call", "output", "wait"}
  /\ \A n, m \in 1..Len(items) :
       n < m /\ Runs(items[n]) /\ items[m].type = "output" /\ ~Runs(items[m]) /\ items[m].call = items[n].call
       => /\ n + 1 \in 1..Len(items)
          /\ items[n + 1].type = "wait" /\ items[n + 1].call = items[n].call

\* The items of a request, one block for each call.
LEMMA TranscriptIs ==
  ASSUME NEW order, NEW l \in Nat, order \in [1..l -> Executed], NEW course \in [Executed -> CourseKinds],
         NEW body, NEW items,
         items = FlattenSeq([n \in 1..Len(order) |-> Items(order[n], body[order[n]], course[order[n]])])
  PROVE  /\ Attended(items)
         /\ \A n \in 1..Len(items) : items[n].call \in Executed
<1> DEFINE block(c) == Items(c, body[c], course[c])
           blocks == [n \in 1..Len(order) |-> block(order[n])]
           S == UNION {Parts(c, body[c]) : c \in Executed}
<1>1. Len(order) = l /\ Executed \subseteq Calls
  BY DEF Executed
<1>2. ASSUME NEW c \in Executed
      PROVE  /\ block(c) \in Seq(Parts(c, body[c])) /\ block(c) \in Seq(S)
             /\ \A j \in 1..Len(block(c)) :
                  block(c)[j].call = c /\ block(c)[j].type \in {"call", "output", "wait"}
             /\ \/ \A j \in 1..Len(block(c)) : ~Runs(block(c)[j])
                \/ \A j \in 1..Len(block(c)) : block(c)[j].type = "output" => Runs(block(c)[j])
                \/ \A j \in 1..Len(block(c)) :
                     Runs(block(c)[j]) => j < Len(block(c)) /\ block(c)[j + 1].type = "wait"
  <2>1. course[c] \in CourseKinds
    OBVIOUS
  <2>2. PICK x : x = course[c] /\ x \in CourseKinds
    BY <2>1
  <2>3. PICK p : p = body[c]
    OBVIOUS
  <2>4. block(c) = Items(c, p, x)
    BY <2>2, <2>3
  <2>5. \A t \in Parts(c, p) : t.call = c /\ t.type \in {"call", "output", "wait"}
    BY DEF Parts, Item
  <2>6. Parts(c, p) \subseteq S
    BY <2>3
  <2>7. Items(c, p, x) \in Seq(Parts(c, p))
    BY <2>2, BlockIs
  <2>8. Items(c, p, x) \in Seq(S)
    <3> HIDE DEF S
    <3> QED
      BY <2>6, <2>7
  <2>9. \A j \in 1..Len(Items(c, p, x)) :
          Items(c, p, x)[j].call = c /\ Items(c, p, x)[j].type \in {"call", "output", "wait"}
    BY <2>5, <2>7
  <2> HIDE DEF block, S
  <2> QED
    BY <2>2, <2>3, <2>4, <2>7, <2>8, <2>9, BlockIs
<1> HIDE DEF block, S
<1>3. blocks \in Seq(Seq(S)) /\ Len(blocks) = l /\ \A n \in 1..l : blocks[n] = block(order[n])
  BY <1>1, <1>2
<1>4. items = FlattenSeq(blocks)
  BY DEF block
<1> HIDE DEF blocks
<1>5. items \in Seq(S)
  BY <1>3, <1>4, FlattenIs
<1>6. ASSUME NEW n \in 1..Len(items)
      PROVE  \E c \in Executed : \E j \in 1..Len(block(c)) :
               /\ items[n] = block(c)[j] /\ items[n].call = c
               /\ j < Len(block(c)) => n + 1 \in 1..Len(items) /\ items[n + 1] = block(c)[j + 1]
  <2>1. PICK k \in 1..l : \E j \in 1..Len(blocks[k]) :
              /\ items[n] = blocks[k][j]
              /\ j < Len(blocks[k]) => n + 1 \in 1..Len(items) /\ items[n + 1] = blocks[k][j + 1]
    <3>1. blocks \in Seq(Seq(S))
      BY <1>3
    <3>2. \A i \in 1..Len(FlattenSeq(blocks)) : \E k \in 1..Len(blocks) : \E j \in 1..Len(blocks[k]) :
              /\ FlattenSeq(blocks)[i] = blocks[k][j]
              /\ j < Len(blocks[k]) =>
                   i + 1 \in 1..Len(FlattenSeq(blocks)) /\ FlattenSeq(blocks)[i + 1] = blocks[k][j + 1]
      BY ONLY <3>1, FlattenIs
    <3>3. Len(blocks) = l
      BY <1>3
    <3> QED
      BY ONLY <1>4, <3>2, <3>3, n \in 1..Len(items)
  <2>2. order[k] \in Executed /\ blocks[k] = block(order[k])
    BY <1>3
  <2>3. PICK c \in Executed : blocks[k] = block(c)
    BY <2>2
  <2>4. PICK j \in 1..Len(block(c)) :
              /\ items[n] = block(c)[j]
              /\ j < Len(block(c)) => n + 1 \in 1..Len(items) /\ items[n + 1] = block(c)[j + 1]
    BY <2>1, <2>3
  <2>5. items[n].call = c
    BY <1>2, <2>4
  <2> QED
    BY <2>4, <2>5
<1>7. ASSUME NEW n \in 1..Len(items), NEW m \in 1..Len(items),
             n < m, Runs(items[n]), items[m].type = "output", ~Runs(items[m]), items[m].call = items[n].call
      PROVE  n + 1 \in 1..Len(items) /\ items[n + 1].type = "wait" /\ items[n + 1].call = items[n].call
  <2>1. PICK c \in Executed : \E j \in 1..Len(block(c)) :
               /\ items[n] = block(c)[j] /\ items[n].call = c
               /\ j < Len(block(c)) => n + 1 \in 1..Len(items) /\ items[n + 1] = block(c)[j + 1]
    BY <1>6
  <2>2. PICK j \in 1..Len(block(c)) :
               /\ items[n] = block(c)[j] /\ items[n].call = c
               /\ j < Len(block(c)) => n + 1 \in 1..Len(items) /\ items[n + 1] = block(c)[j + 1]
    BY <2>1
  <2>3. PICK d \in Executed : \E i \in 1..Len(block(d)) : items[m] = block(d)[i] /\ items[m].call = d
    BY <1>6
  <2>4. d = c
    BY <1>7, <2>2, <2>3
  <2>5. PICK i \in 1..Len(block(c)) : items[m] = block(c)[i]
    BY <2>3, <2>4
  <2>6. j < Len(block(c)) /\ block(c)[j + 1].type = "wait"
    BY <1>2, <1>7, <2>2, <2>5
  <2>7. Len(block(c)) \in Nat
    BY <1>2
  <2>8. j + 1 \in 1..Len(block(c))
    BY <2>6, <2>7
  <2>9. block(c)[j + 1].call = c
    BY <1>2, <2>8
  <2> QED
    BY <2>2, <2>6, <2>9
<1>8. Len(items) \in Nat
  BY <1>5
<1>9. \A n \in 1..Len(items) : items[n].call \in Executed /\ items[n].type \in {"call", "output", "wait"}
  <2> SUFFICES ASSUME NEW n \in 1..Len(items)
               PROVE  items[n].call \in Executed /\ items[n].type \in {"call", "output", "wait"}
    OBVIOUS
  <2>1. PICK c \in Executed : \E j \in 1..Len(block(c)) : items[n] = block(c)[j]
    BY <1>6
  <2>2. PICK j \in 1..Len(block(c)) : items[n] = block(c)[j]
    BY <2>1
  <2>3. block(c)[j].call = c /\ block(c)[j].type \in {"call", "output", "wait"}
    BY <1>2
  <2> QED
    BY <2>2, <2>3
<1> QED
  BY <1>1, <1>7, <1>8, <1>9 DEF Attended

\* What is left after the first k items: the latest word on work that nobody waits for.
Left(k) ==
  {m \in 1..k : Runs(transcript[m]) /\ \A j \in (m + 1)..k :
     transcript[j].call = transcript[m].call => transcript[j].type # "wait" /\ ~Runs(transcript[j])}

LEMMA LeftStep ==
  ASSUME NEW k \in Nat \ {0}
  PROVE  Left(k) = NoticesLeft(Left(k - 1), k)
<1>1. k - 1 \in Nat /\ 1..k = 1..(k - 1) \cup {k} /\ k \notin 1..(k - 1)
  OBVIOUS
<1>2. \A m \in 1..(k - 1) : (m + 1)..k = (m + 1)..(k - 1) \cup {k}
  OBVIOUS
<1>3. (k + 1)..k = {}
  OBVIOUS
<1> DEFINE Quiet(m, j) == transcript[j].call = transcript[m].call => transcript[j].type # "wait" /\ ~Runs(transcript[j])
<1>4. \A m \in 1..(k - 1) : m \in Left(k) <=> m \in Left(k - 1) /\ Quiet(m, k)
  <2> SUFFICES ASSUME NEW m \in 1..(k - 1) PROVE m \in Left(k) <=> m \in Left(k - 1) /\ Quiet(m, k)
    OBVIOUS
  <2>1. m \in 1..k
    BY <1>1
  <2>2. m \in Left(k) <=> Runs(transcript[m]) /\ \A j \in (m + 1)..k : Quiet(m, j)
    BY <2>1 DEF Left
  <2>3. m \in Left(k - 1) <=> Runs(transcript[m]) /\ \A j \in (m + 1)..(k - 1) : Quiet(m, j)
    BY DEF Left
  <2>4. (\A j \in (m + 1)..k : Quiet(m, j)) <=> (\A j \in (m + 1)..(k - 1) : Quiet(m, j)) /\ Quiet(m, k)
    <3> HIDE DEF Quiet
    <3> QED
      BY <1>2
  <2> QED
    BY <2>2, <2>3, <2>4
<1>5. k \in Left(k) <=> Runs(transcript[k])
  BY <1>1, <1>3 DEF Left
<1>6. Left(k - 1) \subseteq 1..(k - 1) /\ Left(k) \subseteq 1..k
  BY DEF Left
<1>7. \A m \in Left(k - 1) : m \in Consumed(Left(k - 1), k) <=> transcript[k].call = transcript[m].call
  BY DEF Consumed, SameHandle
<1>8. \A m : (m \in Left(k)) <=> ((m \in Left(k - 1) /\ Quiet(m, k)) \/ (m = k /\ Runs(transcript[k])))
  <2> HIDE DEF Quiet
  <2> SUFFICES ASSUME NEW m
               PROVE  m \in Left(k) <=> (m \in Left(k - 1) /\ Quiet(m, k)) \/ (m = k /\ Runs(transcript[k]))
    OBVIOUS
  <2>1. CASE m \in 1..(k - 1)
    <3>1. m # k
      BY <1>1, <2>1
    <3> QED
      BY <1>4, <2>1, <3>1
  <2>2. CASE m = k
    <3>1. m \notin Left(k - 1)
      BY <1>1, <1>6, <2>2
    <3> QED
      BY <1>5, <2>2, <3>1
  <2>3. CASE m \notin 1..k
    BY <1>1, <1>6, <2>3
  <2> QED
    BY <1>1, <2>1, <2>2, <2>3
<1>9. Runs(transcript[k]) => transcript[k].type # "wait"
  BY DEF Runs
<1>10. Consumed(Left(k - 1), k) \subseteq Left(k - 1)
  BY DEF Consumed
<1>11. CASE transcript[k].type = "wait"
  <2>1. NoticesLeft(Left(k - 1), k) = Left(k - 1) \ Consumed(Left(k - 1), k)
    BY <1>9, <1>11 DEF NoticesLeft
  <2>2. \A m : m \in Left(k) <=> m \in Left(k - 1) /\ m \notin Consumed(Left(k - 1), k)
    <3>1. ~Runs(transcript[k])
      BY <1>9, <1>11
    <3>2. \A m \in Left(k - 1) : Quiet(m, k) <=> m \notin Consumed(Left(k - 1), k)
      BY <1>7, <1>11
    <3> HIDE DEF Quiet
    <3> QED
      BY <1>8, <3>1, <3>2
  <2> QED
    BY <2>1, <2>2
<1>12. CASE Runs(transcript[k])
  <2>1. NoticesLeft(Left(k - 1), k) = (Left(k - 1) \ Consumed(Left(k - 1), k)) \cup {k}
    BY <1>9, <1>12 DEF NoticesLeft
  <2>2. \A m : m \in Left(k) <=> (m \in Left(k - 1) /\ m \notin Consumed(Left(k - 1), k)) \/ m = k
    BY <1>7, <1>8, <1>12
  <2> QED
    BY <2>1, <2>2
<1>13. CASE transcript[k].type # "wait" /\ ~Runs(transcript[k])
  <2>1. NoticesLeft(Left(k - 1), k) = Left(k - 1)
    BY <1>13 DEF NoticesLeft
  <2>2. \A m : m \in Left(k) <=> m \in Left(k - 1)
    <3>1. \A m : Quiet(m, k)
      BY <1>13
    <3> HIDE DEF Quiet
    <3> QED
      BY <1>8, <1>13, <3>1
  <2> QED
    BY <2>1, <2>2
<1> QED
  BY <1>11, <1>12, <1>13

\* The notices that the loop over the input leaves.
LEMMA AdvertisedIs ==
  ASSUME Len(transcript) \in Nat
  PROVE  Advertised = Left(Len(transcript))
<1> DEFINE len == Len(transcript)
           Solves(g) == g = [n \in 0..len |-> IF n = 0 THEN {} ELSE NoticesLeft(g[n - 1], n)]
           h == CHOOSE g : Solves(g)
           f == [n \in 0..len |-> Left(n)]
<1>1. Left(0) = {}
  BY DEF Left
<1>2. ASSUME NEW n \in 0..len PROVE f[n] = IF n = 0 THEN {} ELSE NoticesLeft(f[n - 1], n)
  <2>1. CASE n = 0
    BY <1>1, <2>1
  <2>2. CASE n # 0
    <3>1. n \in Nat \ {0} /\ n - 1 \in 0..len
      BY <2>2
    <3>2. f[n] = Left(n) /\ f[n - 1] = Left(n - 1)
      BY <3>1
    <3> QED
      BY <2>2, <3>1, <3>2, LeftStep
  <2> QED
    BY <2>1, <2>2
<1>3. Solves(f)
  <2>1. f = [n \in 0..len |-> f[n]]
    OBVIOUS
  <2> HIDE DEF f
  <2> QED
    BY <1>2, <2>1
<1>4. Solves(h)
  <2> HIDE DEF Solves, f
  <2> QED
    BY <1>3
<1>5. Advertised = h[len]
  BY DEF Advertised
<1> HIDE DEF h
<1>6. \A n \in 0..len : h[n] = IF n = 0 THEN {} ELSE NoticesLeft(h[n - 1], n)
  BY <1>4, Zenon
<1> DEFINE G == {n \in 0..len : h[n] = Left(n)}
<1>7. 0 \in G
  <2>1. 0 \in 0..len
    OBVIOUS
  <2>2. h[0] = {}
    BY <1>6, <2>1, Zenon
  <2> QED
    BY <1>1, <2>1, <2>2
<1>8. ASSUME NEW n \in 1..len, n - 1 \in G PROVE n \in G
  <2>1. n \in 0..len /\ n # 0 /\ n \in Nat \ {0}
    OBVIOUS
  <2>2. h[n] = NoticesLeft(h[n - 1], n) /\ h[n - 1] = Left(n - 1)
    BY <1>6, <1>8, <2>1
  <2>3. h[n] = Left(n)
    BY <2>1, <2>2, LeftStep
  <2> QED
    BY <2>1, <2>3
<1> HIDE DEF G
<1>9. len \in G
  <2>1. PICK l \in Nat : l = len
    OBVIOUS
  <2>2. \A k \in 0..l : k \in G
    <3> HIDE DEF len
    <3>1. \A k \in 1..l : k - 1 \in G => k \in G
      BY <1>8, <2>1
    <3> QED
      BY ONLY <1>7, <3>1, l \in Nat, Climb
  <2> QED
    BY <2>1, <2>2
<1> QED
  BY <1>5, <1>9 DEF G

\* Work that runs unattended is what is advertised.
LEMMA AttendedWork ==
  ASSUME Attended(transcript)
  PROVE  RunningWorkIsAdvertised
<1> DEFINE len == Len(transcript)
           Latest(c) == \E n \in 1..len :
             /\ transcript[n].type = "output" /\ transcript[n].body = "running" /\ transcript[n].call = c
             /\ \A m \in (n + 1)..len : transcript[m].call # c \/ transcript[m].type = "call"
<1>1. len \in Nat /\ Advertised = Left(len)
  BY AdvertisedIs DEF Attended
<1>2. ASSUME NEW n \in Left(len) PROVE transcript[n].call \in Calls /\ Latest(transcript[n].call)
  <2>1. n \in 1..len /\ Runs(transcript[n]) /\ transcript[n].call \in Calls
    BY <1>2 DEF Left, Attended
  <2>2. ASSUME NEW m \in (n + 1)..len, transcript[m].call = transcript[n].call
        PROVE  transcript[m].type = "call"
    <3>1. m \in 1..len /\ n < m
      BY <1>1, <2>1
    <3>2. transcript[m].type # "wait" /\ ~Runs(transcript[m])
      BY <1>2, <2>2 DEF Left
    <3>3. transcript[m].type # "output"
      <4> SUFFICES ASSUME transcript[m].type = "output" PROVE FALSE
        OBVIOUS
      <4>1. n + 1 \in 1..len /\ transcript[n + 1].type = "wait" /\ transcript[n + 1].call = transcript[n].call
        BY <2>1, <2>2, <3>1, <3>2 DEF Attended
      <4>2. n + 1 \in (n + 1)..len
        BY <2>1, <4>1
      <4> QED
        BY <1>2, <4>1, <4>2 DEF Left
    <3> QED
      BY <3>1, <3>2, <3>3 DEF Attended
  <2> QED
    BY <2>1, <2>2 DEF Runs
<1>3. ASSUME NEW c \in Calls, Latest(c) PROVE \E n \in Left(len) : transcript[n].call = c
  <2>1. PICK n \in 1..len :
             /\ transcript[n].type = "output" /\ transcript[n].body = "running" /\ transcript[n].call = c
             /\ \A m \in (n + 1)..len : transcript[m].call # c \/ transcript[m].type = "call"
    BY <1>3
  <2>2. Runs(transcript[n])
    BY <2>1 DEF Runs
  <2>3. n \in Left(len)
    BY <2>1, <2>2 DEF Left, Runs
  <2> QED
    BY <2>1, <2>3
<1> QED
  BY <1>1, <1>2, <1>3 DEF RunningWorkIsAdvertised

TruthInv == ProviderHearsItself /\ Attended(transcript)

\* A request replays calls that Codex executed, each in one of the courses.
LEMMA AskOrders ==
  ASSUME Asks
  PROVE  \E order, fault : \E l \in Nat, course \in [Executed -> CourseKinds] :
           order \in [1..l -> Executed] /\ NextRequest(order, course, fault)
<1>1. Plainly \in [Executed -> CourseKinds]
  BY DEF Plainly, CourseKinds
<1>2. ASSUME NEW o \in Orders PROVE \E l \in Nat : o \in [1..l -> Executed]
  BY CallsAssumption DEF Orders, SeqOf
<1>3. ASSUME NEW o \in Orders, NEW c \in Range(o) PROVE c \in Executed
  BY <1>2 DEF Range
<1>4. CASE \E o \in Orders : \E c \in Range(o), x \in Courses : NextRequest(o, [Plainly EXCEPT ![c] = x], Null)
  <2>1. PICK o \in Orders : \E c \in Range(o), x \in Courses : NextRequest(o, [Plainly EXCEPT ![c] = x], Null)
    BY <1>4
  <2>2. PICK c \in Range(o), x \in Courses : NextRequest(o, [Plainly EXCEPT ![c] = x], Null)
    BY <2>1
  <2> DEFINE course == [Plainly EXCEPT ![c] = x]
  <2>3. course \in [Executed -> CourseKinds]
    BY <1>1, <2>2, CallsAssumption
  <2>4. NextRequest(o, course, Null)
    BY <2>2
  <2> HIDE DEF course
  <2> QED
    BY <1>2, <2>3, <2>4
<1>5. CASE \E o \in Orders : \E c \in Range(o) : NextRequest(o, Plainly, c)
  BY <1>1, <1>2, <1>5
<1>6. CASE NextRequest(<<>>, Plainly, Null)
  <2>1. 0 \in Nat /\ <<>> \in [1..0 -> Executed]
    OBVIOUS
  <2> QED
    BY <1>1, <1>6, <2>1
<1> QED
  BY <1>4, <1>5, <1>6 DEF Asks

\* What the provider is told about a replayed call.
LEMMA AskTells ==
  ASSUME DeliveryInv, TruthInv, Asks
  PROVE  TruthInv'
<1>1. PICK order, fault : \E l \in Nat, course \in [Executed -> CourseKinds] :
           order \in [1..l -> Executed] /\ NextRequest(order, course, fault)
  BY AskOrders
<1>2. PICK l \in Nat, course \in [Executed -> CourseKinds] :
           order \in [1..l -> Executed] /\ NextRequest(order, course, fault)
  BY <1>1
<1> DEFINE body(c) == CHOOSE p \in Carriers(c) : TRUE
           alter(c, p) == IF fault = c THEN [p EXCEPT !.result = "altered"] ELSE p
           sent == [c \in Executed |-> alter(c, body(c))]
           items == FlattenSeq([n \in 1..Len(order) |->
                      Items(order[n], alter(order[n], body(order[n])), course[order[n]])])
           told == {items[n].call : n \in {k \in 1..Len(items) : items[k].type = "call"}}
           said == [c \in told |-> Restore(items[CHOOSE n \in 1..Len(items) : items[n].type = "call" /\ items[n].call = c])]
<1>3. /\ transcript' = items
      /\ upstream' = upstream \/ (upstream' = said /\ Reconciles(items))
      /\ UNCHANGED <<offer, store, shown>>
  BY <1>2 DEF NextRequest
<1>4. items = FlattenSeq([n \in 1..Len(order) |-> Items(order[n], sent[order[n]], course[order[n]])])
  <2> HIDE DEF alter, body
  <2>1. Len(order) = l
    BY <1>2
  <2>2. \A n \in 1..Len(order) : sent[order[n]] = alter(order[n], body(order[n]))
    BY <1>2, <2>1
  <2> HIDE DEF sent
  <2>3. [n \in 1..Len(order) |-> Items(order[n], alter(order[n], body(order[n])), course[order[n]])]
        = [n \in 1..Len(order) |-> Items(order[n], sent[order[n]], course[order[n]])]
    BY <2>2
  <2> QED
    BY <2>3
<1> HIDE DEF items, sent
<1>5. Attended(items) /\ \A n \in 1..Len(items) : items[n].call \in Executed
  BY <1>2, <1>4, TranscriptIs
<1>6. Called' = Called /\ \A c : Carriers(c)' = Carriers(c)
  BY <1>3 DEF Called, Carriers
<1>7. ASSUME NEW c \in DOMAIN said, Reconciles(items)
      PROVE  \E p \in Carriers(c) : said[c] = Said(c, p.input) \/ (said[c] = p /\ p.payload = "program")
  <2>1. PICK m \in 1..Len(items) : items[m].type = "call" /\ items[m].call = c
    BY <1>7
  <2> DEFINE item == items[CHOOSE n \in 1..Len(items) : items[n].type = "call" /\ items[n].call = c]
  <2>2. item.call = c /\ item.type = "call" /\ said[c] = Restore(item)
    BY <1>7, <2>1
  <2>3. c \in Executed
    BY <1>5, <2>1
  <2>4. PICK p \in Carriers(c) : TRUE
    BY <2>3 DEF Executed
  <2>5. c \in DOMAIN store /\ p = Carrier(c, store[c]) /\ Fits(c, store[c])
    BY <2>3, <2>4 DEF DeliveryInv, Executed, Translated
  <2>6. p.input = store[c].input /\ p.payload = store[c].payload
    BY <2>5 DEF Carrier
  <2>7. item.body = p
    BY <1>7, <2>1, <2>2, <2>5 DEF Reconciles
  <2> HIDE DEF said, item
  <2>8. CASE store[c].replay
    <3>1. said[c] = p
      BY <2>2, <2>5, <2>7, <2>8 DEF Restore
    <3> QED
      BY <2>4, <2>5, <2>6, <2>8, <3>1 DEF Fits
  <2>9. CASE ~store[c].replay
    <3>1. said[c] = Said(c, p.input)
      BY <2>2, <2>5, <2>6, <2>9 DEF Restore
    <3> QED
      BY <2>4, <3>1
  <2> QED
    BY <2>8, <2>9
<1> HIDE DEF said
<1>8. ProviderHearsItself'
  <2>1. CASE upstream' = upstream
    BY <1>6, <2>1 DEF TruthInv, ProviderHearsItself
  <2>2. CASE upstream' = said /\ Reconciles(items)
    BY <1>6, <1>7, <2>2 DEF ProviderHearsItself
  <2> QED
    BY <1>3, <2>1, <2>2
<1>9. Attended(transcript)'
  BY <1>3, <1>5 DEF Attended, Runs
<1> QED
  BY <1>8, <1>9 DEF TruthInv

LEMMA TruthNone ==
  ASSUME DOMAIN upstream' = {}, transcript' = <<>>
  PROVE  TruthInv'
<1>1. ProviderHearsItself'
  BY DEF ProviderHearsItself
<1>2. Len(transcript') = 0
  OBVIOUS
<1>3. Attended(transcript)'
  BY <1>2 DEF Attended
<1> QED
  BY <1>1, <1>3 DEF TruthInv

LEMMA TruthNext ==
  DeliveryInv /\ PhaseInv /\ TruthInv /\ [TransformNext]_transformVars => TruthInv'
<1> SUFFICES ASSUME DeliveryInv, PhaseInv, TruthInv, [TransformNext]_transformVars PROVE TruthInv'
  OBVIOUS
<1>1. CASE Responds
  BY <1>1, RespondsDelivers, TruthNone
<1>2. CASE Asks
  BY <1>2, AskTells
<1>3. CASE PrepareRequest \/ PassThrough
  BY <1>3, PrepareDelivers, TruthNone
<1>4. CASE UNCHANGED transformVars
  BY <1>4 DEF transformVars, stream, TruthInv, ProviderHearsItself, Attended, Called, Carriers, Runs
<1> QED
  BY <1>1, <1>2, <1>3, <1>4, NextCases

\* Whatever Codex replays, in whichever order and however often, the provider is
\* told its own words, or the very program it wrote, about every call, and
\* exactly the work that runs unattended is advertised.
THEOREM ToldTheTruth == TransformSpec => []ProviderHearsTheTruth
<1>1. TransformInit => TruthInv
  <2> SUFFICES ASSUME TransformInit PROVE TruthInv
    OBVIOUS
  <2>1. DOMAIN upstream = {} /\ transcript = <<>> /\ Len(transcript) = 0
    BY DEF TransformInit, NoCalls
  <2> QED
    BY <2>1 DEF TruthInv, ProviderHearsItself, Attended
<1>2. TruthInv => ProviderHearsTheTruth
  BY AttendedWork DEF TruthInv, ProviderHearsTheTruth
<1> QED
  BY <1>1, <1>2, TruthNext, DeliveryAlways, PTL DEF TransformSpec

-----------------------------------------------------------------------------
(* The catalog.                                                            *)

\* The shape of a tool.
Shaped(t) ==
  /\ t = [name |-> t.name, type |-> t.type, sections |-> t.sections, nested |-> t.nested]
  /\ t.nested \in Seq(Plain)

LEMMA PlainIs ==
  ASSUME NEW t \in Plain
  PROVE  Shaped(t) /\ t.type \in {"custom", "function"}
<1>1. \E n, y, s : t = Tool(n, y, s) /\ y \in {"custom", "function"}
  BY DEF Plain
<1>2. PICK n, y, s : t = Tool(n, y, s) /\ y \in {"custom", "function"}
  BY <1>1
<1>3. t = [name |-> n, type |-> y, sections |-> s, nested |-> <<>>]
  BY <1>2 DEF Tool
<1>4. <<>> \in Seq(Plain)
  OBVIOUS
<1>5. t.name = n /\ t.type = y /\ t.sections = s /\ t.nested = <<>>
  BY <1>3
<1> QED
  BY <1>2, <1>3, <1>4, <1>5 DEF Shaped

LEMMA NamespaceIs ==
  ASSUME NEW t \in Namespaces
  PROVE  Shaped(t) /\ t.type = "namespace"
<1>1. PICK n \in {"functions", "exec", "mcp"}, p \in Nestable : t = [Tool(n, "namespace", {}) EXCEPT !.nested = <<p>>]
  BY DEF Namespaces
<1>2. t = [name |-> n, type |-> "namespace", sections |-> {}, nested |-> <<p>>]
  BY <1>1 DEF Tool
<1>3. p \in Plain
  BY DEF Plain, Nestable
<1>5. <<p>> \in Seq(Plain)
  BY <1>3
<1>4. t.name = n /\ t.type = "namespace" /\ t.sections = {} /\ t.nested = <<p>>
  BY <1>2
<1> QED
  BY <1>2, <1>4, <1>5 DEF Shaped

\* A tool of the rewritten additional item, and the tools nested in it.
InFunctions(t) == t.type = "namespace" /\ t.name = "functions"
Bare(t) == IF InFunctions(t) THEN [t EXCEPT !.nested = StripFlat(@)] ELSE Stripped(t)

LEMMA StrippedIs ==
  ASSUME NEW t, Shaped(t)
  PROVE  /\ Stripped(t).name = t.name /\ Stripped(t).type = t.type /\ Stripped(t).nested = t.nested
         /\ ~OwnsEditing(Stripped(t))
         /\ Stripped(t) = [name |-> t.name, type |-> t.type,
                           sections |-> IF OwnsEditing(t) THEN {} ELSE t.sections, nested |-> t.nested]
<1>1. t = [name |-> t.name, type |-> t.type, sections |-> t.sections, nested |-> t.nested]
  BY DEF Shaped
<1>2. Stripped(t) = [name |-> t.name, type |-> t.type,
                     sections |-> IF OwnsEditing(t) THEN {} ELSE t.sections, nested |-> t.nested]
  <2>1. CASE OwnsEditing(t)
    BY <1>1, <2>1 DEF Stripped
  <2>2. CASE ~OwnsEditing(t)
    BY <1>1, <2>2 DEF Stripped
  <2> QED
    BY <2>1, <2>2
<1> DEFINE s == Stripped(t)
<1>3. s.name = t.name /\ s.type = t.type /\ s.nested = t.nested /\ s.sections = IF OwnsEditing(t) THEN {} ELSE t.sections
  BY <1>2
<1> HIDE DEF s
<1>4. ~OwnsEditing(s)
  BY <1>3 DEF OwnsEditing
<1> QED
  BY <1>2, <1>3, <1>4 DEF s

LEMMA BareIs ==
  ASSUME NEW t, Shaped(t)
  PROVE  /\ Bare(t).name = t.name /\ Bare(t).type = t.type /\ ~OwnsEditing(Bare(t))
         /\ ~InFunctions(t) => Bare(t).nested = t.nested
         /\ InFunctions(t) => Bare(t).nested = [m \in 1..Len(t.nested) |-> Stripped(t.nested[m])]
<1>1. CASE InFunctions(t)
  <2> DEFINE inner == StripFlat(t.nested)
  <2>1. t = [name |-> t.name, type |-> t.type, sections |-> t.sections, nested |-> t.nested]
    BY DEF Shaped
  <2>2. Bare(t) = [t EXCEPT !.nested = inner]
    BY <1>1 DEF Bare
  <2> HIDE DEF inner
  <2>3. Bare(t) = [name |-> t.name, type |-> t.type, sections |-> t.sections, nested |-> inner]
    BY <2>1, <2>2
  <2>4. Bare(t).name = t.name /\ Bare(t).type = t.type /\ Bare(t).nested = inner
    BY <2>3
  <2>5. ~OwnsEditing(Bare(t))
    BY <1>1, <2>4 DEF OwnsEditing, InFunctions
  <2> QED
    BY <1>1, <2>4, <2>5 DEF inner, StripFlat
<1>2. CASE ~InFunctions(t)
  <2>1. Bare(t) = Stripped(t)
    BY <1>2 DEF Bare
  <2> QED
    BY <1>2, <2>1, StrippedIs
<1> QED
  BY <1>1, <1>2

\* The router's tools in a sequence, each once.
LEMMA OwnIs ==
  \E k \in Nat :
    /\ SetToSeq(RouterTools) \in [1..k -> RouterTools]
    /\ \A i, j \in 1..k : SetToSeq(RouterTools)[i] = SetToSeq(RouterTools)[j] => i = j
    /\ \A t \in RouterTools : \E i \in 1..k : SetToSeq(RouterTools)[i] = t
<1> DEFINE f == [n \in Installed |-> Tool(n, "custom", {})]
           k == Cardinality(RouterTools)
           own == SetToSeq(RouterTools)
<1>1. f \in Surjection(Installed, RouterTools)
  BY DEF Surjection, RouterTools
<1>2. IsFiniteSet(RouterTools)
  BY <1>1, InstalledAssumption, FS_Surjection
<1>3. k \in Nat /\ ExistsBijection(1..k, RouterTools)
  BY <1>2, FS_CardinalityType
<1> HIDE DEF k
<1>4. PICK b : b \in Bijection(1..k, RouterTools)
  BY <1>3 DEF ExistsBijection
<1>5. b \in [1..k -> RouterTools] /\ \A i, j \in 1..k : b[i] = b[j] => i = j
  BY <1>4 DEF Bijection, Injection, IsInjective
<1>6. b \in [1..k -> RouterTools] /\ IsInjective(b)
  BY <1>5 DEF IsInjective
<1>7. own \in [1..k -> RouterTools] /\ IsInjective(own)
  BY <1>6 DEF SetToSeq, k
<1> HIDE DEF own
<1>8. \A i, j \in 1..k : own[i] = own[j] => i = j
  BY <1>7 DEF IsInjective
<1>9. own \in Injection(1..k, RouterTools)
  BY <1>7, <1>8 DEF Injection
<1>10. Cardinality(1..k) = k
  BY <1>3, FS_Interval
<1>11. own \in Surjection(1..k, RouterTools)
  BY <1>2, <1>9, <1>10, FS_Injection DEF k
<1>12. \A t \in RouterTools : \E i \in 1..k : own[i] = t
  BY <1>11 DEF Surjection
<1> QED
  BY <1>3, <1>7, <1>8, <1>12 DEF own

\* The tools before the appended ones stay as they are.
LEMMA AppendIs ==
  ASSUME NEW X, NEW s \in Seq(X)
  PROVE  /\ Len(s) \in Nat /\ DOMAIN AppendTop(s) = 1..Len(AppendTop(s))
         /\ \A n \in 1..Len(s) : n \in 1..Len(AppendTop(s)) /\ AppendTop(s)[n] = s[n]
         /\ \A n \in 1..Len(AppendTop(s)) : n \notin 1..Len(s) => AppendTop(s)[n] \in RouterTools
         /\ \A t \in RouterTools : \E n \in 1..Len(AppendTop(s)) :
              AppendTop(s)[n] = t /\ \A m \in 1..Len(AppendTop(s)) : AppendTop(s)[m] = t /\ m \notin 1..Len(s) => m = n
         /\ \A t \in RouterTools : \E n \in 1..Len(AppendTop(s)) : n \notin 1..Len(s) /\ AppendTop(s)[n] = t
<1> DEFINE own == SetToSeq(RouterTools)
           q == s \o own
<1>1. PICK k \in Nat :
           /\ own \in [1..k -> RouterTools]
           /\ \A i, j \in 1..k : own[i] = own[j] => i = j
           /\ \A t \in RouterTools : \E i \in 1..k : own[i] = t
  BY OwnIs
<1> HIDE DEF own
<1>2. own \in Seq(RouterTools) /\ Len(own) = k
  BY <1>1
<1> DEFINE Y == X \cup RouterTools
<1>3. s \in Seq(Y) /\ own \in Seq(Y)
  BY <1>2
<1> HIDE DEF Y
<1>4. q \in Seq(Y) /\ Len(s) \in Nat /\ Len(q) = Len(s) + k
  BY <1>2, <1>3
<1>5. \A n \in 1..Len(s) : q[n] = s[n]
  BY <1>2, <1>3, <1>4
<1>6. \A n \in 1..k : q[Len(s) + n] = own[n]
  BY <1>2, <1>3, <1>4
<1>7. DOMAIN q = 1..Len(q)
  BY <1>4
<1> HIDE DEF q
<1>8. ASSUME NEW n \in 1..Len(q), n \notin 1..Len(s)
      PROVE  n - Len(s) \in 1..k /\ q[n] = own[n - Len(s)]
  <2>1. n - Len(s) \in 1..k /\ Len(s) + (n - Len(s)) = n
    BY <1>4, <1>8
  <2> QED
    BY <1>6, <2>1
<1>9. ASSUME NEW t \in RouterTools
      PROVE  \E n \in 1..Len(q) : /\ n \notin 1..Len(s) /\ q[n] = t
                                  /\ \A m \in 1..Len(q) : q[m] = t /\ m \notin 1..Len(s) => m = n
  <2>1. PICK i \in 1..k : own[i] = t
    BY <1>1
  <2>2. Len(s) + i \in 1..Len(q) /\ Len(s) + i \notin 1..Len(s) /\ q[Len(s) + i] = t
    BY <1>4, <1>6, <2>1
  <2>3. ASSUME NEW m \in 1..Len(q), q[m] = t, m \notin 1..Len(s) PROVE m = Len(s) + i
    <3>1. m - Len(s) \in 1..k /\ own[m - Len(s)] = own[i]
      BY <1>8, <2>1, <2>3
    <3>2. m - Len(s) = i
      BY <1>1, <3>1
    <3> QED
      BY <1>4, <3>2
  <2> QED
    BY <2>2, <2>3
<1>10. \A n \in 1..Len(s) : n \in 1..Len(q)
  BY <1>4
<1>11. \A n \in 1..Len(q) : n \notin 1..Len(s) => q[n] \in RouterTools
  BY <1>1, <1>8
<1>12. q = AppendTop(s)
  BY DEF q, own, AppendTop
<1> QED
  BY <1>4, <1>5, <1>7, <1>9, <1>10, <1>11, <1>12

\* A section of no tool of the name does not define it.
LEMMA PlacesAre ==
  ASSUME NEW section, NEW name,
         \A n \in 1..Len(section) : ~Defines(section[n], name),
         \A n \in 1..Len(section) : section[n].type = "namespace" =>
           \A m \in 1..Len(section[n].nested) : ~Defines(section[n].nested[m], name)
  PROVE  Cardinality(Direct(section, name)) = 0 /\ Cardinality(Inner(section, name)) = 0
<1>1. Direct(section, name) = {}
  BY DEF Direct
<1>2. \A n \in {k \in 1..Len(section) : section[k].type = "namespace"} : Direct(section[n].nested, name) = {}
  BY DEF Direct
<1>3. Inner(section, name) = {}
  BY <1>2 DEF Inner
<1> QED
  BY <1>1, <1>3, FS_EmptySet

\* A router tool that the client does not define is defined once.
LEMMA TimesOnce ==
  ASSUME NEW X, NEW s \in Seq(X), NEW name \in Installed,
         \A n \in 1..Len(s) : ~Defines(s[n], name)
  PROVE  Cardinality(Direct(AppendTop(s), name)) = 1
<1> DEFINE q == AppendTop(s)
           t == Tool(name, "custom", {})
<1>1. t \in RouterTools
  BY DEF RouterTools
<1>2. \A u \in RouterTools : u.type = "custom" /\ (u.name = name => u = t) /\ t.name = name
  BY DEF RouterTools, Tool
<1> HIDE DEF q, t
<1>3. PICK n \in 1..Len(q) : n \notin 1..Len(s) /\ q[n] = t
  BY <1>1, AppendIs DEF q
<1>4. \A m \in 1..Len(q) : Defines(q[m], name) => q[m] = t /\ m \notin 1..Len(s)
  <2> SUFFICES ASSUME NEW m \in 1..Len(q), Defines(q[m], name) PROVE q[m] = t /\ m \notin 1..Len(s)
    OBVIOUS
  <2>1. m \notin 1..Len(s)
    BY AppendIs DEF q
  <2>2. q[m] \in RouterTools
    BY <2>1, AppendIs DEF q
  <2> QED
    BY <1>2, <2>1, <2>2 DEF Defines
<1>5. \A m \in 1..Len(q) : Defines(q[m], name) => m = n
  BY <1>1, <1>3, <1>4, AppendIs DEF q
<1>6. Defines(q[n], name)
  BY <1>1, <1>2, <1>3 DEF Defines
<1>7. Direct(q, name) = {n}
  BY <1>5, <1>6 DEF Direct
<1> QED
  BY <1>7, FS_Singleton DEF q

\* What an accepted catalog must be like.
Rewritten(cat, off) ==
  LET kept == [top |-> off.top, extra |-> off.extra]
      reach == Claimed(kept).flat \cup Claimed(kept).inner \cup Range(off.top)
  IN  /\ Carries(cat, off.carrier, off.kind)
      /\ Carries(kept, off.carrier, off.kind)
      /\ \A n \in Installed : Times(kept, n) = 1
      /\ \A t \in reach \ RouterTools : t.name # "apply_patch" /\ ~OwnsEditing(t)

\* A catalog that prepareRequest looks at.
Readable(cat) == cat.top \in Seq(Plain \cup Namespaces) /\ cat.extra \in Seq(Plain \cup Namespaces)

LEMMA LeavesAre ==
  ASSUME NEW s, DOMAIN s = 1..Len(s)
  PROVE  /\ \A n \in 1..Len(s) : s[n] \in Range(s)
         /\ \A t \in Range(s) : \E n \in 1..Len(s) : t = s[n]
         /\ \A n \in 1..Len(s) : s[n].type # "namespace" => s[n] \in Leaves(s)
         /\ \A n \in 1..Len(s) : s[n].type = "namespace" /\ s[n].nested \in Seq(Plain) =>
              \A m \in 1..Len(s[n].nested) : s[n].nested[m] \in Leaves(s)
<1>1. /\ \A n \in 1..Len(s) : s[n] \in Range(s)
      /\ \A t \in Range(s) : \E n \in 1..Len(s) : t = s[n]
  BY DEF Range
<1>2. \A n \in 1..Len(s) : s[n].type # "namespace" => s[n] \in Leaves(s)
  BY <1>1 DEF Leaves
<1>3. ASSUME NEW n \in 1..Len(s), s[n].type = "namespace", s[n].nested \in Seq(Plain), NEW m \in 1..Len(s[n].nested)
      PROVE  s[n].nested[m] \in Leaves(s)
  <2>1. s[n].nested[m] \in Range(s[n].nested)
    BY <1>3 DEF Range
  <2>2. Range(s[n].nested) \subseteq Nested(s)
    BY <1>1, <1>3 DEF Nested
  <2> QED
    BY <2>1, <2>2 DEF Leaves
<1> QED
  BY <1>1, <1>2, <1>3

\* The client defines no tool that the router installs.
LEMMA Foreign ==
  ASSUME NEW cat, Readable(cat), ~CarriersClash(cat), NEW name \in Installed
  PROVE  /\ \A n \in 1..Len(cat.top) : cat.top[n].name # name
         /\ \A n \in 1..Len(cat.extra) : cat.extra[n].type # "namespace" => cat.extra[n].name # name
         /\ \A n \in 1..Len(cat.extra) : cat.extra[n].type = "namespace" =>
              \A m \in 1..Len(cat.extra[n].nested) : cat.extra[n].nested[m].name # name
<1>1. \A t \in Range(cat.top) \cup Leaves(cat.extra) : t.name # name
  BY DEF CarriersClash
<1>2. /\ DOMAIN cat.top = 1..Len(cat.top) /\ DOMAIN cat.extra = 1..Len(cat.extra)
      /\ \A n \in 1..Len(cat.extra) : cat.extra[n] \in Plain \cup Namespaces
  BY DEF Readable
<1>3. \A n \in 1..Len(cat.extra) : cat.extra[n].nested \in Seq(Plain)
  BY <1>2, PlainIs, NamespaceIs DEF Shaped
<1> QED
  BY <1>1, <1>2, <1>3, LeavesAre

\* The rewritten sections, entry by entry.
LEMMA StripIs ==
  ASSUME NEW s \in Seq(Plain \cup Namespaces)
  PROVE  /\ Len(s) \in Nat /\ \A n \in 1..Len(s) : Shaped(s[n])
         /\ Len(StripFlat(s)) = Len(s) /\ DOMAIN StripFlat(s) = 1..Len(s)
         /\ \A n \in 1..Len(s) : StripFlat(s)[n] = Stripped(s[n])
         /\ StripFlat(s) \in Seq({Stripped(t) : t \in Plain \cup Namespaces})
         /\ Len(StripAdditional(s)) = Len(s) /\ DOMAIN StripAdditional(s) = 1..Len(s)
         /\ \A n \in 1..Len(s) : StripAdditional(s)[n] = Bare(s[n])
<1>1. Len(s) \in Nat /\ \A n \in 1..Len(s) : s[n] \in Plain \cup Namespaces
  OBVIOUS
<1>2. StripAdditional(s) = [n \in 1..Len(s) |-> Bare(s[n])]
  BY DEF StripAdditional, Bare, InFunctions
<1>3. \A n \in 1..Len(s) : Shaped(s[n])
  BY <1>1, PlainIs, NamespaceIs
<1>4. StripFlat(s) = [n \in 1..Len(s) |-> Stripped(s[n])]
  BY DEF StripFlat
<1> QED
  BY <1>1, <1>2, <1>3, <1>4

\* The tools of the rewritten additional item.
LEMMA StrippedLeaves ==
  ASSUME NEW s \in Seq(Plain \cup Namespaces), NEW n \in 1..Len(s)
  PROVE  LET e == StripAdditional(s) IN
         /\ e[n].name = s[n].name /\ e[n].type = s[n].type /\ ~OwnsEditing(e[n])
         /\ DOMAIN e[n].nested = 1..Len(s[n].nested) /\ Len(e[n].nested) = Len(s[n].nested)
         /\ \A m \in 1..Len(s[n].nested) :
              /\ e[n].nested[m].name = s[n].nested[m].name /\ e[n].nested[m].type = s[n].nested[m].type
              /\ InFunctions(s[n]) => ~OwnsEditing(e[n].nested[m])
<1> DEFINE e == StripAdditional(s)
<1>1. e[n] = Bare(s[n]) /\ Shaped(s[n])
  BY StripIs
<1> HIDE DEF e
<1>2. /\ e[n].name = s[n].name /\ e[n].type = s[n].type /\ ~OwnsEditing(e[n])
      /\ ~InFunctions(s[n]) => e[n].nested = s[n].nested
      /\ InFunctions(s[n]) => e[n].nested = [m \in 1..Len(s[n].nested) |-> Stripped(s[n].nested[m])]
  BY <1>1, BareIs
<1>3. Len(s[n].nested) \in Nat /\ DOMAIN s[n].nested = 1..Len(s[n].nested)
  BY <1>1 DEF Shaped
<1>4. DOMAIN e[n].nested = 1..Len(s[n].nested) /\ Len(e[n].nested) = Len(s[n].nested)
  BY <1>2, <1>3
<1>5. ASSUME NEW m \in 1..Len(s[n].nested)
      PROVE  /\ e[n].nested[m].name = s[n].nested[m].name /\ e[n].nested[m].type = s[n].nested[m].type
             /\ InFunctions(s[n]) => ~OwnsEditing(e[n].nested[m])
  <2>1. s[n].nested[m] \in Plain
    BY <1>1 DEF Shaped
  <2>2. Shaped(s[n].nested[m])
    BY <2>1, PlainIs
  <2>3. CASE InFunctions(s[n])
    <3>1. e[n].nested[m] = Stripped(s[n].nested[m])
      BY <1>2, <2>3
    <3> QED
      BY <2>2, <3>1, StrippedIs
  <2>4. CASE ~InFunctions(s[n])
    BY <1>2, <2>4
  <2> QED
    BY <2>3, <2>4
<1> QED
  BY <1>2, <1>4, <1>5 DEF e

\* The tools of the rewritten top-level array.
LEMMA StrippedTop ==
  ASSUME NEW s \in Seq(Plain \cup Namespaces), NEW n \in 1..Len(s)
  PROVE  LET e == StripFlat(s) IN e[n].name = s[n].name /\ e[n].type = s[n].type /\ ~OwnsEditing(e[n])
<1>1. StripFlat(s)[n] = Stripped(s[n]) /\ Shaped(s[n])
  BY StripIs
<1> QED
  BY <1>1, StrippedIs

\* Code Mode: the executor is stripped and stays the carrier.
LEMMA CodeRewrite ==
  ASSUME NEW cat, Readable(cat), ~CarriersClash(cat), ~ClaimFails(cat), Owners(cat) # {},
         \A t \in Range(cat.top) : OwnsEditing(t) \/ t.name \notin Installed \cup {"apply_patch", "exec", "functions.exec"}
  PROVE  Rewritten(cat, Exposed(cat))
<1> DEFINE top == StripFlat(cat.top)
           extra == StripAdditional(cat.extra)
           all == AppendTop(top)
           kept == [top |-> all, extra |-> extra]
<1>1. /\ cat.top \in Seq(Plain \cup Namespaces) /\ cat.extra \in Seq(Plain \cup Namespaces)
      /\ DOMAIN cat.top = 1..Len(cat.top) /\ DOMAIN cat.extra = 1..Len(cat.extra)
  BY DEF Readable
<1>2. /\ Len(top) = Len(cat.top) /\ DOMAIN top = 1..Len(top) /\ Len(extra) = Len(cat.extra) /\ DOMAIN extra = 1..Len(extra)
      /\ top \in Seq({Stripped(t) : t \in Plain \cup Namespaces})
  BY <1>1, StripIs
<1>3. \A n \in 1..Len(top) : top[n].name = cat.top[n].name /\ top[n].type = cat.top[n].type /\ ~OwnsEditing(top[n])
  BY <1>1, <1>2, StrippedTop
<1>4. \A n \in 1..Len(extra) :
        /\ extra[n].name = cat.extra[n].name /\ extra[n].type = cat.extra[n].type /\ ~OwnsEditing(extra[n])
        /\ DOMAIN extra[n].nested = 1..Len(cat.extra[n].nested) /\ Len(extra[n].nested) = Len(cat.extra[n].nested)
        /\ \A m \in 1..Len(extra[n].nested) :
             /\ extra[n].nested[m].name = cat.extra[n].nested[m].name
             /\ extra[n].nested[m].type = cat.extra[n].nested[m].type
             /\ InFunctions(cat.extra[n]) => ~OwnsEditing(extra[n].nested[m])
  <2> SUFFICES ASSUME NEW n \in 1..Len(extra)
               PROVE  /\ extra[n].name = cat.extra[n].name /\ extra[n].type = cat.extra[n].type /\ ~OwnsEditing(extra[n])
                      /\ DOMAIN extra[n].nested = 1..Len(cat.extra[n].nested)
                      /\ Len(extra[n].nested) = Len(cat.extra[n].nested)
                      /\ \A m \in 1..Len(extra[n].nested) :
                           /\ extra[n].nested[m].name = cat.extra[n].nested[m].name
                           /\ extra[n].nested[m].type = cat.extra[n].nested[m].type
                           /\ InFunctions(cat.extra[n]) => ~OwnsEditing(extra[n].nested[m])
    OBVIOUS
  <2>1. PICK s \in Seq(Plain \cup Namespaces) : s = cat.extra
    BY <1>1
  <2>2. n \in 1..Len(s) /\ extra = StripAdditional(s)
    BY <1>2, <2>1
  <2>3. /\ extra[n].name = s[n].name /\ extra[n].type = s[n].type /\ ~OwnsEditing(extra[n])
        /\ DOMAIN extra[n].nested = 1..Len(s[n].nested) /\ Len(extra[n].nested) = Len(s[n].nested)
        /\ \A m \in 1..Len(s[n].nested) :
             /\ extra[n].nested[m].name = s[n].nested[m].name /\ extra[n].nested[m].type = s[n].nested[m].type
             /\ InFunctions(s[n]) => ~OwnsEditing(extra[n].nested[m])
    <3> HIDE DEF extra
    <3> QED
      BY <2>2, StrippedLeaves
  <2> HIDE DEF extra
  <2> QED
    BY <2>1, <2>3
<1>6. \A n \in 1..Len(cat.extra) : cat.extra[n].nested \in Seq(Plain) /\ DOMAIN cat.extra[n].nested = 1..Len(cat.extra[n].nested)
  BY <1>1, PlainIs, NamespaceIs DEF Shaped
<1> HIDE DEF top, extra
<1>7. /\ DOMAIN all = 1..Len(all)
      /\ \A n \in 1..Len(top) : n \in 1..Len(all) /\ all[n] = top[n]
      /\ \A n \in 1..Len(all) : n \notin 1..Len(top) => all[n] \in RouterTools
  BY <1>2, AppendIs
<1> HIDE DEF all
<1>8. /\ kept.top = all /\ kept.extra = extra
  OBVIOUS
<1> HIDE DEF kept
<1>9. Carries(cat, "exec", "custom") /\ Carries(kept, "exec", "custom")
  <2>1. PICK t \in Claimed(cat).top \cup Claimed(cat).flat \cup Claimed(cat).inner : OwnsEditing(t)
    BY DEF Owners
  <2>2. t.name = "exec" /\ t.type = "custom"
    BY <2>1 DEF OwnsEditing
  <2>3. CASE t \in Claimed(cat).top
    <3>1. PICK n \in 1..Len(cat.top) : t = cat.top[n]
      BY <1>1, <2>3, LeavesAre DEF Claimed
    <3>2. t \in Listed(cat)
      BY <1>1, <2>2, <3>1, LeavesAre DEF Listed
    <3>3. n \in 1..Len(all) /\ all[n].name = "exec" /\ all[n].type = "custom"
      BY <1>2, <1>3, <1>7, <2>2, <3>1
    <3>4. all[n] \in Listed(kept)
      BY <1>7, <1>8, <3>3, LeavesAre DEF Listed
    <3> QED
      BY <1>8, <2>2, <3>2, <3>3, <3>4 DEF Carries, Listed
  <2>4. CASE t \in Claimed(cat).flat
    <3>1. PICK n \in 1..Len(cat.extra) : t = cat.extra[n]
      BY <1>1, <2>4, LeavesAre DEF Claimed
    <3>2. t \in Leaves(cat.extra)
      BY <1>1, <2>2, <3>1, LeavesAre
    <3>3. n \in 1..Len(extra) /\ extra[n].name = "exec" /\ extra[n].type = "custom"
      BY <1>2, <1>4, <2>2, <3>1
    <3>4. extra[n] \in Leaves(extra)
      BY <1>2, <3>3, LeavesAre
    <3> QED
      BY <1>8, <2>2, <3>2, <3>3, <3>4 DEF Carries, Listed
  <2>5. CASE t \in Claimed(cat).inner
    <3>1. PICK u \in Range(cat.extra) : u.type = "namespace" /\ t \in Range(u.nested)
      BY <2>5 DEF Claimed
    <3>2. PICK n \in 1..Len(cat.extra) : u = cat.extra[n]
      BY <1>1, <3>1, LeavesAre
    <3>3. PICK m \in 1..Len(cat.extra[n].nested) : t = cat.extra[n].nested[m]
      BY <1>6, <3>1, <3>2, LeavesAre
    <3>4. t \in Leaves(cat.extra)
      BY <1>1, <1>6, <3>1, <3>2, <3>3, LeavesAre
    <3>5. /\ n \in 1..Len(extra) /\ m \in 1..Len(extra[n].nested) /\ extra[n].type = "namespace"
          /\ extra[n].nested[m].name = "exec" /\ extra[n].nested[m].type = "custom"
      BY <1>2, <1>4, <2>2, <3>1, <3>2, <3>3
    <3>6. extra[n].nested[m] \in Leaves(extra)
      <4>1. extra[n] \in Range(extra) /\ extra[n].nested[m] \in Range(extra[n].nested)
        BY <1>2, <1>4, <3>5 DEF Range
      <4> QED
        BY <3>5, <4>1 DEF Leaves, Nested
    <3> QED
      BY <1>8, <2>2, <3>4, <3>5, <3>6 DEF Carries, Listed
  <2> QED
    BY <2>1, <2>3, <2>4, <2>5
<1>10. ASSUME NEW name \in Installed PROVE Times(kept, name) = 1
  <2>1. \A n \in 1..Len(top) : ~Defines(top[n], name)
    BY <1>2, <1>3, Foreign DEF Defines
  <2>2. Cardinality(Direct(all, name)) = 1
    BY <1>2, <2>1, TimesOnce DEF all
  <2>3. \A n \in 1..Len(extra) : ~Defines(extra[n], name)
    BY <1>2, <1>4, Foreign DEF Defines
  <2>4. ASSUME NEW n \in 1..Len(extra), extra[n].type = "namespace", NEW m \in 1..Len(extra[n].nested)
        PROVE  ~Defines(extra[n].nested[m], name)
    <3>1. n \in 1..Len(cat.extra) /\ cat.extra[n].type = "namespace" /\ m \in 1..Len(cat.extra[n].nested)
      BY <1>2, <1>4, <2>4
    <3>2. cat.extra[n].nested[m].name # name
      BY <3>1, Foreign
    <3>3. extra[n].nested[m].name = cat.extra[n].nested[m].name
      BY <1>4
    <3> QED
      BY <3>2, <3>3 DEF Defines
  <2>5. Cardinality(Direct(extra, name)) = 0 /\ Cardinality(Inner(extra, name)) = 0
    BY <2>3, <2>4, PlacesAre
  <2> QED
    BY <1>8, <2>2, <2>5 DEF Times
<1>11. ASSUME NEW t \in Range(all), t \notin RouterTools PROVE t.name # "apply_patch" /\ ~OwnsEditing(t)
  <2>1. PICK n \in 1..Len(top) : t = top[n]
    BY <1>7, <1>11, LeavesAre
  <2>2. cat.top[n] \in Range(cat.top) /\ cat.top[n].name = t.name
    BY <1>1, <1>2, <1>3, <2>1, LeavesAre
  <2>3. OwnsEditing(cat.top[n]) => cat.top[n].name = "exec"
    BY DEF OwnsEditing
  <2> QED
    BY <1>3, <2>1, <2>2, <2>3
<1>12. ASSUME NEW t \in Claimed(kept).flat PROVE t.name # "apply_patch" /\ ~OwnsEditing(t)
  <2>1. PICK n \in 1..Len(extra) : t = extra[n] /\ t.type # "namespace"
    BY <1>2, <1>8, <1>12, LeavesAre DEF Claimed
  <2>2. cat.extra[n] \in Claimed(cat).flat /\ cat.extra[n].name = t.name
    BY <1>1, <1>2, <1>4, <2>1, LeavesAre DEF Claimed
  <2> QED
    BY <1>4, <2>1, <2>2 DEF ClaimFails
<1>13. ASSUME NEW t \in Claimed(kept).inner PROVE t.name # "apply_patch" /\ ~OwnsEditing(t)
  <2>1. PICK u \in Range(extra) : u.type = "namespace" /\ u.name = "functions" /\ t \in Range(u.nested)
    BY <1>8, <1>13 DEF Claimed
  <2>2. PICK n \in 1..Len(extra) : u = extra[n]
    BY <1>2, <2>1, LeavesAre
  <2>3. PICK m \in 1..Len(extra[n].nested) : t = extra[n].nested[m]
    <3>1. PICK s : s = extra[n].nested
      OBVIOUS
    <3>2. DOMAIN s = 1..Len(s) /\ t \in Range(s)
      BY <1>4, <2>1, <2>2, <3>1
    <3>3. \E m \in 1..Len(s) : t = s[m]
      BY ONLY <3>2 DEF Range
    <3> QED
      BY <3>1, <3>3
  <2>4. /\ n \in 1..Len(cat.extra) /\ cat.extra[n].type = "namespace" /\ cat.extra[n].name = "functions"
        /\ m \in 1..Len(cat.extra[n].nested) /\ cat.extra[n].nested[m].name = t.name /\ ~OwnsEditing(t)
    BY <1>2, <1>4, <2>1, <2>2, <2>3 DEF InFunctions
  <2>5. cat.extra[n] \in Range(cat.extra) /\ cat.extra[n].nested[m] \in Range(cat.extra[n].nested)
    BY <1>1, <1>6, <2>4, LeavesAre
  <2>6. cat.extra[n].nested[m] \in Claimed(cat).inner
    BY <2>4, <2>5 DEF Claimed
  <2> QED
    BY <2>4, <2>6 DEF ClaimFails
<1>14. /\ Exposed(cat).top = all /\ Exposed(cat).extra = extra
       /\ Exposed(cat).carrier = "exec" /\ Exposed(cat).kind = "custom"
  BY DEF Exposed, all, top, extra
<1> QED
  BY <1>9, <1>10, <1>11, <1>12, <1>13, <1>14 DEF Rewritten, kept

\* Removing one element leaves the others.
LEMMA RemoveIs ==
  ASSUME NEW X, NEW s \in Seq(X), NEW i \in 1..Len(s)
  PROVE  /\ RemoveAt(s, i) \in Seq(X)
         /\ \A n \in 1..Len(RemoveAt(s, i)) : \E j \in 1..Len(s) : j # i /\ RemoveAt(s, i)[n] = s[j]
         /\ \A j \in 1..Len(s) : j # i => \E n \in 1..Len(RemoveAt(s, i)) : RemoveAt(s, i)[n] = s[j]
<1> DEFINE a == SubSeq(s, 1, i - 1)
           b == SubSeq(s, i + 1, Len(s))
           q == a \o b
<1>1. Len(s) \in Nat /\ i \in Nat /\ i - 1 \in Nat /\ Len(s) - i \in Nat
  OBVIOUS
<1>2. a \in Seq(X) /\ Len(a) = i - 1 /\ \A n \in 1..(i - 1) : a[n] = s[n]
  BY <1>1
<1>3. b \in Seq(X) /\ Len(b) = Len(s) - i /\ \A n \in 1..(Len(s) - i) : b[n] = s[i + n]
  <2>1. b \in Seq(X)
    BY <1>1
  <2>2. Len(b) = Len(s) - i
    BY <1>1
  <2>3. ASSUME NEW n \in 1..(Len(s) - i) PROVE b[n] = s[i + n]
    BY <1>1, <2>3
  <2> QED
    BY <2>1, <2>2, <2>3
<1> HIDE DEF a, b
<1>4. q \in Seq(X) /\ Len(q) = Len(a) + Len(b)
  <2>1. a \in Seq(X) /\ b \in Seq(X)
    BY <1>2, <1>3
  <2> QED
    BY ONLY <2>1
<1>5. \A n \in 1..Len(a) : q[n] = a[n]
  BY <1>2, <1>3
<1>6. \A n \in 1..Len(b) : q[Len(a) + n] = b[n]
  BY <1>2, <1>3
<1> HIDE DEF q
<1>7. ASSUME NEW n \in 1..Len(q) PROVE \E j \in 1..Len(s) : j # i /\ q[n] = s[j]
  <2>1. CASE n \in 1..Len(a)
    <3>1. n \in 1..(i - 1) /\ n \in 1..Len(s) /\ n # i
      BY <1>1, <1>2, <2>1
    <3>2. q[n] = s[n]
      BY <1>2, <1>5, <2>1, <3>1
    <3> QED
      BY <3>1, <3>2
  <2>2. CASE n \notin 1..Len(a)
    <3> DEFINE m == n - Len(a)
    <3>1. m \in 1..Len(b) /\ n = Len(a) + m /\ m \in 1..(Len(s) - i)
      BY <1>1, <1>2, <1>3, <1>4, <2>2
    <3>2. q[n] = s[i + m]
      BY <1>3, <1>6, <3>1
    <3>3. i + m \in 1..Len(s) /\ i + m # i
      BY <1>1, <3>1
    <3> QED
      BY <3>2, <3>3
  <2> QED
    BY <2>1, <2>2
<1>8. ASSUME NEW j \in 1..Len(s), j # i PROVE \E n \in 1..Len(q) : q[n] = s[j]
  <2>1. CASE j < i
    <3>1. j \in 1..(i - 1) /\ j \in 1..Len(a) /\ j \in 1..Len(q)
      BY <1>1, <1>2, <1>3, <1>4, <2>1
    <3> QED
      BY <1>2, <1>5, <3>1
  <2>2. CASE j > i
    <3> DEFINE m == j - i
    <3>1. m \in 1..Len(b) /\ m \in 1..(Len(s) - i) /\ i + m = j /\ Len(a) + m \in 1..Len(q)
      BY <1>1, <1>2, <1>3, <1>4, <2>2
    <3>2. q[Len(a) + m] = s[j]
      BY <1>3, <1>6, <3>1
    <3> QED
      BY <3>1, <3>2
  <2> QED
    BY <1>1, <1>8, <2>1, <2>2
<1>9. RemoveAt(s, i) = q
  BY DEF RemoveAt, q, a, b
<1> QED
  BY <1>4, <1>7, <1>8, <1>9

\* Native tools: apply_patch goes, exec_command carries.
LEMMA NativeRewrite ==
  ASSUME NEW cat, NEW choice, Readable(cat), ~CarriersClash(cat), ~ClaimFails(cat), Owners(cat) = {},
         ReplaceNativeTools(cat, choice).verdict = "native"
  PROVE  Rewritten(cat, ReplaceNativeTools(cat, choice))
<1> DEFINE named(n) == {k \in 1..Len(cat.top) : cat.top[k].name = n}
           gone == CHOOSE k \in named("apply_patch") : TRUE
           top == RemoveAt(cat.top, gone)
           all == AppendTop(top)
           kept == [top |-> all, extra |-> cat.extra]
           off == ReplaceNativeTools(cat, choice)
<1>1. /\ cat.top \in Seq(Plain \cup Namespaces) /\ cat.extra \in Seq(Plain \cup Namespaces)
      /\ DOMAIN cat.top = 1..Len(cat.top) /\ DOMAIN cat.extra = 1..Len(cat.extra)
      /\ Len(cat.top) \in Nat
  BY DEF Readable
<1>2. /\ cat.present
      /\ \A t \in Range(cat.top) : t.name \notin Installed \cup {"exec", "functions.exec"}
      /\ \A t \in Range(cat.top) : t.name = "exec_command" => t.type = "function"
      /\ ~(Cardinality(named("apply_patch")) > 1)
      /\ (named("apply_patch") = {}) = (named("exec_command") = {})
      /\ named("apply_patch") # {}
      /\ off = [verdict |-> "native", carrier |-> "exec_command", kind |-> "function",
                top |-> all, extra |-> cat.extra]
  BY DEF ReplaceNativeTools, Refused, Unmatched
<1>3. off.top = all /\ off.extra = cat.extra /\ off.carrier = "exec_command" /\ off.kind = "function"
  BY <1>2
<1>4. gone \in named("apply_patch") /\ \A k \in named("apply_patch") : k = gone
  <2>1. IsFiniteSet(1..Len(cat.top)) /\ named("apply_patch") \in SUBSET (1..Len(cat.top))
    BY <1>1, FS_Interval
  <2>2. IsFiniteSet(named("apply_patch"))
    BY <2>1, FS_Subset
  <2> DEFINE N == named("apply_patch")
  <2>3. IsFiniteSet(N) /\ N # {} /\ ~(Cardinality(N) > 1) /\ gone = CHOOSE k \in N : TRUE
    BY <1>2, <2>2
  <2> HIDE DEF N, gone
  <2>4. Cardinality(N) \in Nat /\ Cardinality(N) # 0
    BY <2>3, FS_CardinalityType, FS_EmptySet
  <2>5. Cardinality(N) = 1
    BY <2>3, <2>4
  <2>6. PICK x : N = {x}
    BY <2>3, <2>5, FS_Singleton
  <2>7. gone \in N /\ \A k \in N : k = gone
    BY <2>3, <2>6
  <2> QED
    BY <2>7 DEF N
<1>5. gone \in 1..Len(cat.top) /\ cat.top[gone].name = "apply_patch"
      /\ \A j \in 1..Len(cat.top) : cat.top[j].name = "apply_patch" => j = gone
  BY <1>4
<1>6. PICK c \in 1..Len(cat.top) : cat.top[c].name = "exec_command"
  BY <1>2
<1> HIDE DEF gone
<1>7. /\ top \in Seq(Plain \cup Namespaces) /\ DOMAIN top = 1..Len(top)
      /\ \A n \in 1..Len(top) : \E j \in 1..Len(cat.top) : j # gone /\ top[n] = cat.top[j]
      /\ \A j \in 1..Len(cat.top) : j # gone => \E n \in 1..Len(top) : top[n] = cat.top[j]
  <2>1. PICK s \in Seq(Plain \cup Namespaces) : s = cat.top
    BY <1>1
  <2>2. gone \in 1..Len(s) /\ top = RemoveAt(s, gone)
    BY <1>5, <2>1
  <2> DEFINE X == Plain \cup Namespaces
  <2>5. s \in Seq(X)
    BY <2>1
  <2> HIDE DEF top, X
  <2>6. /\ RemoveAt(s, gone) \in Seq(X)
        /\ \A n \in 1..Len(RemoveAt(s, gone)) : \E j \in 1..Len(s) : j # gone /\ RemoveAt(s, gone)[n] = s[j]
        /\ \A j \in 1..Len(s) : j # gone => \E n \in 1..Len(RemoveAt(s, gone)) : RemoveAt(s, gone)[n] = s[j]
    BY ONLY <2>2, <2>5, RemoveIs
  <2>3. /\ top \in Seq(X)
        /\ \A n \in 1..Len(top) : \E j \in 1..Len(s) : j # gone /\ top[n] = s[j]
        /\ \A j \in 1..Len(s) : j # gone => \E n \in 1..Len(top) : top[n] = s[j]
    BY ONLY <2>2, <2>6
  <2>4. DOMAIN top = 1..Len(top)
    BY <2>3
  <2> QED
    BY <2>1, <2>3, <2>4 DEF X
<1> HIDE DEF top
<1>8. /\ DOMAIN all = 1..Len(all)
      /\ \A n \in 1..Len(top) : n \in 1..Len(all) /\ all[n] = top[n]
      /\ \A n \in 1..Len(all) : n \notin 1..Len(top) => all[n] \in RouterTools
  BY <1>7, AppendIs
<1> HIDE DEF all
<1>9. kept.top = all /\ kept.extra = cat.extra
  OBVIOUS
<1> HIDE DEF kept
<1>10. cat.top[c] \in Range(cat.top) /\ cat.top[c].type = "function" /\ cat.top[c] \in Listed(cat)
  BY <1>1, <1>2, <1>6, LeavesAre DEF Listed
<1>11. Carries(cat, "exec_command", "function")
  BY <1>6, <1>10 DEF Carries
<1>12. Carries(kept, "exec_command", "function")
  <2>1. c # gone
    BY <1>5, <1>6
  <2>2. PICK n \in 1..Len(top) : top[n] = cat.top[c]
    BY <1>7, <2>1
  <2>3. n \in 1..Len(all) /\ all[n].name = "exec_command" /\ all[n].type = "function"
    BY <1>6, <1>8, <1>10, <2>2
  <2>4. all[n] \in Listed(kept)
    BY <1>8, <1>9, <2>3, LeavesAre DEF Listed
  <2> QED
    BY <1>9, <2>3, <2>4 DEF Carries
<1>13. ASSUME NEW name \in Installed PROVE Times(kept, name) = 1
  <2>1. \A n \in 1..Len(top) : ~Defines(top[n], name)
    BY <1>7, Foreign DEF Defines
  <2>2. Cardinality(Direct(all, name)) = 1
    BY <1>7, <2>1, TimesOnce DEF all
  <2>3. \A n \in 1..Len(cat.extra) : ~Defines(cat.extra[n], name)
    BY Foreign DEF Defines
  <2>4. ASSUME NEW n \in 1..Len(cat.extra), cat.extra[n].type = "namespace", NEW m \in 1..Len(cat.extra[n].nested)
        PROVE  ~Defines(cat.extra[n].nested[m], name)
    BY <2>4, Foreign DEF Defines
  <2>5. Cardinality(Direct(cat.extra, name)) = 0 /\ Cardinality(Inner(cat.extra, name)) = 0
    BY <2>3, <2>4, PlacesAre
  <2> QED
    BY <1>9, <2>2, <2>5 DEF Times
<1>14. ASSUME NEW t \in Range(all), t \notin RouterTools PROVE t.name # "apply_patch" /\ ~OwnsEditing(t)
  <2>1. PICK n \in 1..Len(top) : t = top[n]
    BY <1>8, <1>14, LeavesAre
  <2>2. PICK j \in 1..Len(cat.top) : j # gone /\ t = cat.top[j]
    BY <1>7, <2>1
  <2>3. t \in Range(cat.top)
    BY <1>1, <2>2, LeavesAre
  <2> QED
    BY <1>2, <1>5, <2>2, <2>3 DEF OwnsEditing
<1>15. ASSUME NEW t \in Claimed(kept).flat \cup Claimed(kept).inner PROVE t.name # "apply_patch" /\ ~OwnsEditing(t)
  <2>1. t \in Claimed(cat).flat \cup Claimed(cat).inner
    BY <1>9, <1>15 DEF Claimed
  <2> QED
    BY <2>1 DEF ClaimFails, Owners
<1> HIDE DEF off
<1>16. Rewritten(cat, off)
  BY <1>3, <1>11, <1>12, <1>13, <1>14, <1>15 DEF Rewritten, kept
<1> QED
  BY <1>16 DEF off

\* Every catalog that is accepted is rewritten.
LEMMA ReplaceRewrites ==
  ASSUME NEW cat, NEW choice, Readable(cat), Replace(cat, choice).verdict \in {"code", "native"}
  PROVE  Rewritten(cat, Replace(cat, choice))
<1> DEFINE code == ReplaceCodeModeTools(cat, choice)
           native == ReplaceNativeTools(cat, choice)
<1>1. Refused.verdict = "refused" /\ Unmatched.verdict = "unmatched" /\ Exposed(cat).verdict = "code"
  BY DEF Refused, Unmatched, Exposed
<1>2. native.verdict \in {"refused", "unmatched", "native"}
  BY DEF ReplaceNativeTools, Refused, Unmatched
<1>3. ~CarriersClash(cat)
  BY <1>1 DEF Replace
<1>4. CASE code.verdict # "unmatched"
  <2>1. Replace(cat, choice) = code
    BY <1>3, <1>4 DEF Replace
  <2>2. /\ ~ClaimFails(cat) /\ Owners(cat) # {} /\ code = Exposed(cat)
        /\ \A t \in Range(cat.top) : OwnsEditing(t) \/ t.name \notin Installed \cup {"apply_patch", "exec", "functions.exec"}
    BY <1>1, <1>4, <2>1 DEF ReplaceCodeModeTools
  <2> QED
    BY <1>3, <2>1, <2>2, CodeRewrite
<1>5. CASE code.verdict = "unmatched"
  <2>1. ~ClaimFails(cat) /\ Owners(cat) = {}
    BY <1>1, <1>5 DEF ReplaceCodeModeTools
  <2>2. Replace(cat, choice) = native /\ native.verdict = "native"
    BY <1>1, <1>2, <1>3, <1>5 DEF Replace
  <2> QED
    BY <1>3, <2>1, <2>2, NativeRewrite
<1> QED
  BY <1>4, <1>5

CatalogInv ==
  /\ Readable(catalog[1])
  /\ offer = Null \/ offer = Replace(catalog[1], catalog[2])

LEMMA CatalogNext == CatalogInv /\ PhaseInv /\ [TransformNext]_transformVars => CatalogInv'
<1> SUFFICES ASSUME CatalogInv, [TransformNext]_transformVars PROVE CatalogInv'
  OBVIOUS
<1>1. CASE PrepareRequest
  BY <1>1 DEF PrepareRequest, CatalogInv
<1>2. CASE UNCHANGED <<catalog, offer>>
  BY <1>2 DEF CatalogInv
<1>3. CASE PassThrough \/ UNCHANGED transformVars
  BY <1>2, <1>3 DEF PassThrough, transformVars
<1>4. CASE Asks
  <2>1. \E order, course, fault : NextRequest(order, course, fault)
    BY <1>4 DEF Asks
  <2> QED
    BY <1>2, <2>1 DEF NextRequest
<1>5. CASE Responds
  BY <1>2, <1>5 DEF Responds, Added, ArgumentsDone, InputDone, ItemDone, Unsupported, AnswerEvent, ErrorEvent,
                    EndOfStream, TerminalRefused, Terminal, TransformJSON, Streaming
<1> QED
  BY <1>1, <1>3, <1>4, <1>5, NextCases

\* Every accepted catalog, with any number of tools, offers the provider each
\* router tool exactly once, Codex's editing tool at no place where Codex puts it,
\* and keeps the carrier of the router's own translations.
THEOREM CatalogsAreReplaced == TransformSpec => []CatalogIsReplaced
<1>1. TransformInit => CatalogInv
  <2> SUFFICES ASSUME TransformInit PROVE CatalogInv
    OBVIOUS
  <2>1. catalog[1] \in Catalogs /\ offer = Null
    BY DEF TransformInit
  <2>2. \A S : \A s \in SeqOf(S, MaxTop) \cup SeqOf(S, MaxExtra) : s \in Seq(S)
    BY InstalledAssumption DEF SeqOf
  <2>3. Readable(catalog[1])
    <3>1. <<>> \in Seq(Plain \cup Namespaces)
      OBVIOUS
    <3>2. /\ catalog[1].top \in SeqOf(Plain \cup Namespaces, MaxTop) \/ catalog[1].top = <<>>
          /\ catalog[1].extra \in SeqOf(Plain \cup Namespaces, MaxExtra)
      BY <2>1 DEF Catalogs
    <3> QED
      BY <2>2, <3>1, <3>2 DEF Readable
  <2> QED
    BY <2>1, <2>3 DEF CatalogInv
<1>2. CatalogInv => CatalogIsReplaced
  <2> SUFFICES ASSUME CatalogInv, offer # Null, offer.verdict \in {"code", "native"}
               PROVE  Rewritten(catalog[1], offer)
    BY DEF CatalogIsReplaced, Rewritten
  <2> QED
    BY ReplaceRewrites DEF CatalogInv
<1> QED
  BY <1>1, <1>2, CatalogNext, DeliveryAlways, PTL DEF TransformSpec

=============================================================================
