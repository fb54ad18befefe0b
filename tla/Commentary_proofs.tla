------------------------- MODULE Commentary_proofs -------------------------
(***************************************************************************)
(* Proofs about the publication broker: its counters are exact and its     *)
(* limits hold, every route has an owner, and a publication reaches one    *)
(* response.                                                               *)
(***************************************************************************)
EXTENDS Commentary, FiniteSetTheorems, TLAPS

Routes == [session: Sessions, thread: Threads \cup {None}, call: Calls \cup {None},
           nextID: Nat, events: Seq(Events), complete: BOOLEAN]
Provenances == [session: Sessions, ids: SUBSET MessageIDs]
Active == {"activated", "subscribed", "prepared", "created", "streaming", "lowered",
           "draining", "threadDraining", "failed", "released"}
Early == {"idle", "activated", "subscribed"}
Subscriptions == [token: Nat \cup {None}, call: Calls, carrier: {"prepared", "handed", "drained"}]
Transforms == [pc: Active \cup {"idle", "closed"}, session: Sessions \cup {None},
               subs: Seq(Subscriptions), queue: Seq(Events)]

-----------------------------------------------------------------------------
(* The invariants.                                                         *)

\* A response is in a session while it is active, and has calls only later.
Formed(x) ==
  /\ x \in Transforms
  /\ x.pc \in Active => x.session \in Sessions
  /\ x.pc \in Early => x.subs = <<>> /\ x.queue = <<>>
  /\ x.pc = "lowered" => x.subs # <<>>

\* A route belongs to a thread or to a call.  It numbers its messages, and those
\* of a call, whose publisher ends, are limited for good.
Regular(t, route) ==
  /\ route \in Routes
  /\ route.thread = None <=> route.call # None
  /\ Len(route.events) <= MaxEventsPerRoute
  /\ route.thread = None => Len(route.events) <= route.nextID /\ route.nextID <= MaxEventsPerRoute
  /\ route.complete => route.events # <<>> /\ route.thread = None
  /\ \A i \in DOMAIN route.events :
       /\ route.events[i].call = route.call
       /\ route.events[i].id[1] = t
       /\ route.events[i].id[2] \in 1..route.nextID
  /\ \A i, j \in DOMAIN route.events : i < j => route.events[i].id[2] < route.events[j].id[2]

\* An identity was given out: its route is gone or has counted past it.
Issued(id) ==
  /\ id \in MessageIDs /\ id[1] \in 1..minted
  /\ id[1] \in DOMAIN routes => id[2] \in 1..routes[id[1]].nextID

\* The broker by itself.
BrokerInv ==
  /\ minted \in Nat /\ DOMAIN routes \subseteq 1..minted /\ late \subseteq DOMAIN routes
  /\ brokerClosed \in BOOLEAN
  /\ \A t \in DOMAIN routes : Regular(t, routes[t])
  /\ DOMAIN threads \subseteq Threads /\ IsFiniteSet(DOMAIN threads)
  /\ \A th \in DOMAIN threads : threads[th] \in Provenances
  /\ \A th \in DOMAIN threads : \A id \in threads[th].ids : Issued(id)
  /\ IsFiniteSet(Retained)
  /\ brokerClosed => DOMAIN routes = {}
  /\ Accounting

\* Who owns the routes.
OwnerInv ==
  /\ \A r \in Responses : \A i \in DOMAIN resp[r].subs :
       LET sub == resp[r].subs[i] IN
       sub.token # None =>
         /\ sub.token \in 1..minted
         /\ sub.token \in DOMAIN routes =>
              routes[sub.token].call = sub.call /\ routes[sub.token].session = resp[r].session
  /\ RoutesAreOwned

Present(s) == {r \in Responses : resp[r].pc \in Active /\ resp[r].session = s}

\* A session counts the responses in it, until shutdown forgets them.
CountInv ==
  /\ brokerClosed => proxyClosed
  /\ \A s \in Sessions : IsFiniteSet(Present(s))
  /\ brokerClosed \/ activeSessions = [s \in Sessions |-> Cardinality(Present(s))]

\* Publishers hold a call's token only once its record is durable, and only then
\* do events wait on its route; a thread retains the identity of its events.
Waits(t) ==
  /\ routes[t].thread # None =>
       \A i \in DOMAIN routes[t].events : routes[t].events[i].id \in threads[routes[t].thread].ids
  /\ routes[t].call # None /\ (t \in held \/ routes[t].events # <<>>) => routes[t].call \in calls
\* No call is handled by two responses.
Disjoint == \A r, q \in Responses : r # q => Handled(r) \cap Handled(q) = {}
HoldInv ==
  /\ held \subseteq 1..minted
  /\ \A t \in DOMAIN routes : Waits(t)
  /\ Disjoint

\* The response r may show the event: it was given out, its call is durable or
\* its thread retains it, and no other response still works on the call.
Fit(r, event) ==
  /\ Issued(event.id) /\ (event.call # None => event.call \in calls)
  /\ brokerClosed \/ Renderable(r, event)
  /\ \A q \in Responses : event.call \in Handled(q) => q = r \/ resp[q].pc = "closed"

\* Claims are fit to be shown, and what was shown was given out.
QueueInv ==
  /\ \A id \in rendered : Issued(id)
  /\ \A r \in Responses : \A i \in DOMAIN resp[r].queue : Fit(r, resp[r].queue[i])
  /\ ClaimedOnce

TravelInv == CountInv /\ HoldInv /\ QueueInv

FormInv == DOMAIN resp = Responses /\ \A r \in Responses : Formed(resp[r])

-----------------------------------------------------------------------------
(* Routes and their queued events.                                         *)

\* Queues that obey the limits, with the number of events that wait in them.
Balanced(R, n) ==
  /\ \A t \in DOMAIN R : Regular(t, R[t])
  /\ IsFiniteSet(DOMAIN R) /\ Cardinality(DOMAIN R) <= MaxRoutes
  /\ n = Queued(R, DOMAIN R) /\ n <= MaxEvents

\* The limits are numbers.
LEMMA Limits ==
  /\ MaxRoutes \in Nat /\ MaxEvents \in Nat /\ MaxEventsPerRoute \in Nat /\ MaxThreadIDs \in Nat
  /\ None \notin Threads /\ None \notin Calls /\ None \notin Nat
  BY LimitsAssumption

\* The places of the waiting events.
LEMMA WaitingIs ==
  ASSUME NEW R, NEW S, NEW t, NEW n
  PROVE  <<t, n>> \in Waiting(R, S) <=> t \in S /\ n \in DOMAIN R[t].events
  BY DEF Waiting

\* A place is a pair.
LEMMA WaitingPairs ==
  ASSUME NEW R, NEW S, NEW p \in Waiting(R, S)
  PROVE  \E t \in S : \E n \in DOMAIN R[t].events : p = <<t, n>>
  BY DEF Waiting

\* Sets of places that agree on pairs are equal.
LEMMA WaitingSame ==
  ASSUME NEW R, NEW S, NEW Q, NEW U,
         \A t, n : (t \in S /\ n \in DOMAIN R[t].events) <=> (t \in U /\ n \in DOMAIN Q[t].events)
  PROVE  Waiting(R, S) = Waiting(Q, U)
<1>1. \A p \in Waiting(R, S) : p \in Waiting(Q, U)
  BY WaitingPairs, WaitingIs
<1>2. \A p \in Waiting(Q, U) : p \in Waiting(R, S)
  BY WaitingPairs, WaitingIs
<1> QED
  BY <1>1, <1>2

\* Finitely many events wait.
LEMMA WaitingFinite ==
  ASSUME NEW R, \A t \in DOMAIN R : Regular(t, R[t]), IsFiniteSet(DOMAIN R), NEW S \in SUBSET DOMAIN R
  PROVE  /\ IsFiniteSet(Waiting(R, S)) /\ Queued(R, S) \in Nat
         /\ Waiting(R, S) \subseteq Waiting(R, DOMAIN R)
<1>1. IsFiniteSet((DOMAIN R) \X (1..MaxEventsPerRoute))
  <2>1. IsFiniteSet(1..MaxEventsPerRoute)
    BY Limits, FS_Interval
  <2> QED
    BY <2>1, FS_Product
<1>2. \A p \in Waiting(R, S) : p \in (DOMAIN R) \X (1..MaxEventsPerRoute) /\ p \in Waiting(R, DOMAIN R)
  <2> TAKE p \in Waiting(R, S)
  <2>1. PICK t \in S : \E n \in DOMAIN R[t].events : p = <<t, n>>
    BY WaitingPairs
  <2>2. PICK n \in DOMAIN R[t].events : p = <<t, n>>
    BY <2>1
  <2>3. R[t].events \in Seq(Events) /\ Len(R[t].events) <= MaxEventsPerRoute
    BY DEF Regular, Routes
  <2>4. n \in 1..MaxEventsPerRoute
    BY <2>3, Limits
  <2> QED
    BY <2>2, <2>4, WaitingIs
<1> QED
  BY <1>1, <1>2, FS_Subset, FS_CardinalityType DEF Queued

\* Removing routes removes their events.
LEMMA BalancedWithout ==
  ASSUME NEW R, NEW n, Balanced(R, n), NEW S
  PROVE  Balanced(Without(R, S), n - Queued(R, S \cap DOMAIN R))
<1> DEFINE Q == Without(R, S)
           U == S \cap DOMAIN R
<1>1. DOMAIN Q = DOMAIN R \ S /\ \A t \in DOMAIN Q : Q[t] = R[t]
  BY DEF Without
<1>2. /\ IsFiniteSet(DOMAIN Q) /\ Cardinality(DOMAIN Q) <= Cardinality(DOMAIN R)
      /\ Cardinality(DOMAIN R) \in Nat /\ Cardinality(DOMAIN Q) \in Nat
  BY <1>1, FS_Subset, FS_CardinalityType DEF Balanced
<1>3. \A t \in DOMAIN Q : Regular(t, Q[t])
  BY <1>1 DEF Balanced
<1>4. Waiting(Q, DOMAIN Q) = Waiting(R, DOMAIN R) \ Waiting(R, U)
  <2>1. \A p \in Waiting(Q, DOMAIN Q) : p \in Waiting(R, DOMAIN R) /\ p \notin Waiting(R, U)
    BY <1>1, WaitingPairs, WaitingIs
  <2>2. \A p \in Waiting(R, DOMAIN R) : p \notin Waiting(R, U) => p \in Waiting(Q, DOMAIN Q)
    BY <1>1, WaitingPairs, WaitingIs
  <2> QED
    BY <2>1, <2>2
<1>5. /\ IsFiniteSet(Waiting(R, DOMAIN R)) /\ Queued(R, DOMAIN R) \in Nat
      /\ Waiting(R, U) \subseteq Waiting(R, DOMAIN R) /\ Queued(R, U) \in Nat
  BY WaitingFinite DEF Balanced
<1>6. Waiting(R, DOMAIN R) \cap Waiting(R, U) = Waiting(R, U)
  BY <1>5
<1>7. Queued(Q, DOMAIN Q) = Queued(R, DOMAIN R) - Queued(R, U)
  BY <1>4, <1>5, <1>6, FS_Difference DEF Queued
<1>8. n - Queued(R, U) <= MaxEvents /\ Cardinality(DOMAIN Q) <= MaxRoutes
  BY <1>2, <1>5, Limits DEF Balanced
<1> QED
  BY <1>2, <1>3, <1>7, <1>8 DEF Balanced

\* A new route waits for its first event.
LEMMA BalancedNew ==
  ASSUME NEW R, NEW n, Balanced(R, n), NEW t, t \notin DOMAIN R, NEW x, Regular(t, x), x.events = <<>>,
         Cardinality(DOMAIN R) < MaxRoutes
  PROVE  Balanced(With(R, t, x), n)
<1> DEFINE Q == With(R, t, x)
<1>1. DOMAIN Q = DOMAIN R \cup {t} /\ Q[t] = x /\ \A u \in DOMAIN R : Q[u] = R[u]
  BY DEF With
<1>2. IsFiniteSet(DOMAIN Q) /\ Cardinality(DOMAIN Q) <= MaxRoutes
  <2>1. IsFiniteSet(DOMAIN R) /\ Cardinality(DOMAIN R) \in Nat
    BY FS_CardinalityType DEF Balanced
  <2>2. IsFiniteSet((DOMAIN R) \cup {t}) /\ Cardinality((DOMAIN R) \cup {t}) = Cardinality(DOMAIN R) + 1
    BY <2>1, FS_AddElement
  <2> QED
    BY <1>1, <2>1, <2>2, Limits
<1>3. \A u \in DOMAIN Q : Regular(u, Q[u])
  BY <1>1 DEF Balanced
<1>4. Waiting(Q, DOMAIN Q) = Waiting(R, DOMAIN R)
  BY <1>1, WaitingSame
<1> QED
  BY <1>2, <1>3, <1>4 DEF Balanced, Queued

\* A route is changed and keeps its events.
LEMMA BalancedSame ==
  ASSUME NEW R, NEW n, Balanced(R, n), NEW t \in DOMAIN R, NEW x, Regular(t, x),
         DOMAIN x.events = DOMAIN R[t].events
  PROVE  Balanced([R EXCEPT ![t] = x], n)
<1> DEFINE Q == [R EXCEPT ![t] = x]
<1>1. DOMAIN Q = DOMAIN R /\ Q[t] = x /\ \A u \in DOMAIN R : u # t => Q[u] = R[u]
  OBVIOUS
<1>2. \A u \in DOMAIN Q : Regular(u, Q[u])
  BY <1>1 DEF Balanced
<1>3. Waiting(Q, DOMAIN Q) = Waiting(R, DOMAIN R)
  BY <1>1, WaitingSame
<1> QED
  BY <1>1, <1>2, <1>3 DEF Balanced, Queued

\* A route takes one more event.
LEMMA BalancedMore ==
  ASSUME NEW R, NEW n, Balanced(R, n), NEW t \in DOMAIN R, NEW x, Regular(t, x),
         Len(x.events) = Len(R[t].events) + 1, n < MaxEvents
  PROVE  Balanced([R EXCEPT ![t] = x], n + 1)
<1> DEFINE Q == [R EXCEPT ![t] = x]
           p == <<t, Len(x.events)>>
<1>1. DOMAIN Q = DOMAIN R /\ Q[t] = x /\ \A u \in DOMAIN R : u # t => Q[u] = R[u]
  OBVIOUS
<1>2. \A u \in DOMAIN Q : Regular(u, Q[u])
  BY <1>1 DEF Balanced
<1>3. x.events \in Seq(Events) /\ R[t].events \in Seq(Events)
  BY DEF Regular, Routes, Balanced
<1>4. DOMAIN x.events = (DOMAIN R[t].events) \cup {Len(x.events)} /\ Len(x.events) \notin DOMAIN R[t].events
  BY <1>3
<1>5. Waiting(Q, DOMAIN Q) = Waiting(R, DOMAIN R) \cup {p} /\ p \notin Waiting(R, DOMAIN R)
  <2>1. \A z \in Waiting(Q, DOMAIN Q) : z \in Waiting(R, DOMAIN R) \cup {p}
    BY <1>1, <1>4, WaitingPairs, WaitingIs
  <2>2. \A z \in Waiting(R, DOMAIN R) : z \in Waiting(Q, DOMAIN Q)
    BY <1>1, <1>4, WaitingPairs, WaitingIs
  <2>3. p \in Waiting(Q, DOMAIN Q) /\ p \notin Waiting(R, DOMAIN R)
    BY <1>1, <1>4, WaitingIs
  <2> QED
    BY <2>1, <2>2, <2>3
<1>6. IsFiniteSet(Waiting(R, DOMAIN R)) /\ Queued(R, DOMAIN R) \in Nat
  BY WaitingFinite DEF Balanced
<1>7. Queued(Q, DOMAIN Q) = n + 1
  BY <1>5, <1>6, FS_AddElement DEF Queued, Balanced
<1>8. n \in Nat /\ n + 1 <= MaxEvents
  BY <1>6, Limits DEF Balanced
<1> QED
  BY <1>1, <1>2, <1>7, <1>8 DEF Balanced

\* A route without its events.
LEMMA Emptied ==
  ASSUME NEW x \in Routes
  PROVE  LET y == [x EXCEPT !.events = <<>>] IN
         /\ y \in Routes /\ y.events = <<>> /\ y.thread = x.thread /\ y.call = x.call
         /\ y.nextID = x.nextID /\ y.complete = x.complete /\ y.session = x.session
<1>1. <<>> \in Seq(Events)
  OBVIOUS
<1> QED
  BY <1>1 DEF Routes

\* A drain empties the queues and forgets the routes that have ended.
LEMMA BalancedDrained ==
  ASSUME NEW R, NEW n, Balanced(R, n), NEW S \in SUBSET DOMAIN R
  PROVE  Balanced([t \in DOMAIN R \ {u \in S : R[u].complete} |->
                     IF t \in S THEN [R[t] EXCEPT !.events = <<>>] ELSE R[t]], n - Queued(R, S))
<1> DEFINE Q == [t \in DOMAIN R \ {u \in S : R[u].complete} |->
                   IF t \in S THEN [R[t] EXCEPT !.events = <<>>] ELSE R[t]]
<1>1. /\ DOMAIN Q = DOMAIN R \ {u \in S : R[u].complete}
      /\ \A t \in DOMAIN Q : IF t \in S THEN Q[t] = [R[t] EXCEPT !.events = <<>>] ELSE Q[t] = R[t]
  OBVIOUS
<1> HIDE DEF Q
<1>2. /\ IsFiniteSet(DOMAIN Q) /\ Cardinality(DOMAIN Q) <= Cardinality(DOMAIN R)
      /\ Cardinality(DOMAIN R) \in Nat /\ Cardinality(DOMAIN Q) \in Nat
  <2>1. IsFiniteSet(DOMAIN R) /\ DOMAIN Q \in SUBSET DOMAIN R
    BY <1>1 DEF Balanced
  <2> QED
    BY <2>1, FS_Subset, FS_CardinalityType
<1>3. ASSUME NEW t \in DOMAIN Q
      PROVE  Regular(t, Q[t]) /\ (t \in S => Q[t].events = <<>>)
  <2>1. CASE t \in S
    <3>1. R[t] \in Routes /\ Regular(t, R[t]) /\ ~R[t].complete
      BY <1>1, <2>1 DEF Balanced, Regular
    <3>2. PICK x : x = Q[t]
      OBVIOUS
    <3>3. x = [R[t] EXCEPT !.events = <<>>]
      BY <1>1, <2>1, <3>2
    <3>4. /\ x \in Routes /\ x.events = <<>> /\ x.thread = R[t].thread /\ x.call = R[t].call
          /\ x.nextID = R[t].nextID /\ x.complete = R[t].complete
      BY <3>1, <3>3, Emptied
    <3>5. DOMAIN x.events = {} /\ Len(x.events) = 0
      BY <3>4
    <3>6. x.nextID \in Nat
      BY <3>4 DEF Routes
    <3>7. Regular(t, x)
      BY <3>1, <3>4, <3>5, <3>6, Limits DEF Regular
    <3> QED
      BY <3>2, <3>4, <3>7
  <2> QED
    BY <1>1, <2>1 DEF Balanced
<1>4. Waiting(Q, DOMAIN Q) = Waiting(R, DOMAIN R) \ Waiting(R, S)
  <2>1. \A t \in S \cap DOMAIN Q : DOMAIN Q[t].events = {}
    BY <1>3
  <2>2. \A p \in Waiting(Q, DOMAIN Q) : p \in Waiting(R, DOMAIN R) /\ p \notin Waiting(R, S)
    BY <1>1, <2>1, WaitingPairs, WaitingIs
  <2>3. \A p \in Waiting(R, DOMAIN R) : p \notin Waiting(R, S) => p \in Waiting(Q, DOMAIN Q)
    BY <1>1, WaitingPairs, WaitingIs
  <2> QED
    BY <2>2, <2>3
<1>5. /\ IsFiniteSet(Waiting(R, DOMAIN R)) /\ Queued(R, DOMAIN R) \in Nat
      /\ Waiting(R, S) \subseteq Waiting(R, DOMAIN R) /\ Queued(R, S) \in Nat
  BY WaitingFinite DEF Balanced
<1>6. Waiting(R, DOMAIN R) \cap Waiting(R, S) = Waiting(R, S)
  BY <1>5
<1>7. Queued(Q, DOMAIN Q) = Queued(R, DOMAIN R) - Queued(R, S)
  BY <1>4, <1>5, <1>6, FS_Difference DEF Queued
<1>8. n - Queued(R, S) <= MaxEvents /\ Cardinality(DOMAIN Q) <= MaxRoutes
  BY <1>2, <1>5, Limits DEF Balanced
<1>9. Balanced(Q, n - Queued(R, S))
  BY <1>2, <1>3, <1>7, <1>8 DEF Balanced
<1> QED
  BY <1>9 DEF Q

-----------------------------------------------------------------------------
(* What the methods of the broker do.                                      *)

\* The broker's routes are balanced, before and after the cleanup.
LEMMA LiveIs ==
  ASSUME BrokerInv
  PROVE  /\ Balanced(routes, eventCount) /\ Balanced(Live, LiveCount)
         /\ DOMAIN Live = DOMAIN routes \ late /\ \A t \in DOMAIN Live : Live[t] = routes[t]
         /\ DOMAIN Live \subseteq 1..minted /\ minted \in Nat
         /\ LiveCount \in Nat /\ threadIDCount \in Nat
<1>1. IsFiniteSet(DOMAIN routes)
  BY FS_Interval, FS_Subset DEF BrokerInv
<1>2. Balanced(routes, eventCount)
  BY <1>1 DEF BrokerInv, Accounting, Balanced
<1>3. late \cap DOMAIN routes = late
  BY DEF BrokerInv
<1>4. Balanced(Live, LiveCount)
  BY <1>2, <1>3, BalancedWithout DEF Live, LiveCount
<1>5. LiveCount \in Nat
  BY <1>4, WaitingFinite DEF Balanced
<1>6. threadIDCount \in Nat
  BY FS_CardinalityType DEF BrokerInv, Accounting
<1> QED
  BY <1>2, <1>4, <1>5, <1>6 DEF BrokerInv, Live, Without

\* Routes only appear with fresh tokens, only count up, and stay with their
\* thread or call.
Evolves ==
  /\ minted \in Nat /\ minted' \in Nat /\ minted <= minted' /\ DOMAIN routes' \subseteq 1..minted'
  /\ \A t \in DOMAIN routes' :
       IF t \in DOMAIN routes
         THEN /\ routes'[t].thread = routes[t].thread /\ routes'[t].call = routes[t].call
              /\ routes[t].nextID \in Nat /\ routes'[t].nextID \in Nat
              /\ routes[t].nextID <= routes'[t].nextID
         ELSE t = minted' /\ minted < minted'

\* What was given out stays given out.
LEMMA IssuedStays ==
  ASSUME Evolves, NEW id, Issued(id)
  PROVE  Issued(id)'
<1>1. id[1] \in 1..minted'
  BY DEF Evolves, Issued
<1>2. ASSUME id[1] \in DOMAIN routes'
      PROVE  id[2] \in 1..routes'[id[1]].nextID
  <2>1. id[1] \in DOMAIN routes
    BY <1>2 DEF Evolves, Issued
  <2> QED
    BY <1>2, <2>1 DEF Evolves, Issued
<1> QED
  BY <1>1, <1>2 DEF Issued

\* What a method has to show when it leaves the threads alone.
LEMMA BrokerKept ==
  ASSUME BrokerInv, Evolves, Balanced(routes', eventCount'), late' \subseteq DOMAIN routes',
         UNCHANGED <<threads, threadIDCount, brokerClosed>>, brokerClosed => DOMAIN routes' = {}
  PROVE  BrokerInv'
<1>1. \A th \in DOMAIN threads' : \A id \in threads'[th].ids : Issued(id)'
  BY IssuedStays DEF BrokerInv
<1>2. \A t \in DOMAIN routes' : Regular(t, routes'[t])
  BY DEF Balanced
<1>3. Accounting'
  <2>1. /\ eventCount' = Queued(routes', DOMAIN routes') /\ eventCount' <= MaxEvents
        /\ Cardinality(DOMAIN routes') <= MaxRoutes
    BY DEF Balanced
  <2>2. /\ threadIDCount' = Cardinality(Retained') /\ threadIDCount' <= MaxThreadIDs
        /\ Cardinality(DOMAIN threads') <= MaxRoutes
    BY DEF BrokerInv, Accounting, Retained
  <2>3. \A t \in DOMAIN routes' : Len(routes'[t].events) <= MaxEventsPerRoute
    BY <1>2 DEF Regular
  <2> QED
    BY <2>1, <2>2, <2>3 DEF Accounting
<1>4. IsFiniteSet(Retained)'
  BY DEF BrokerInv, Retained
<1> QED
  BY <1>1, <1>2, <1>3, <1>4 DEF BrokerInv, Evolves

\* Routes that disappear or stay as they are.
LEMMA EvolvesLess ==
  ASSUME BrokerInv, UNCHANGED minted, DOMAIN routes' \subseteq DOMAIN routes,
         \A t \in DOMAIN routes' : /\ routes'[t].thread = routes[t].thread /\ routes'[t].call = routes[t].call
                                   /\ routes'[t].nextID = routes[t].nextID
  PROVE  Evolves
<1>1. \A t \in DOMAIN routes : routes[t].nextID \in Nat
  BY DEF BrokerInv, Regular, Routes
<1> QED
  BY <1>1 DEF BrokerInv, Evolves

\* A new route is regular.
LEMMA RouteIs ==
  ASSUME NEW s \in Sessions, NEW th \in Threads \cup {None}, NEW c \in Calls \cup {None},
         th = None <=> c # None, NEW t
  PROVE  Regular(t, Route(s, th, c)) /\ Route(s, th, c).events = <<>>
<1>1. PICK x : x = Route(s, th, c)
  OBVIOUS
<1>2. /\ x \in Routes /\ x.events = <<>> /\ x.thread = th /\ x.call = c /\ x.nextID = 0 /\ ~x.complete
  BY <1>1 DEF Route, Routes
<1>3. Len(x.events) = 0 /\ DOMAIN x.events = {}
  BY <1>2
<1>4. Regular(t, x)
  BY <1>2, <1>3, Limits DEF Regular
<1> QED
  BY <1>1, <1>2, <1>4

\* A route is added under a fresh token.
LEMMA AddRoute ==
  ASSUME BrokerInv, NEW x, Regular(minted + 1, x), x.events = <<>>, minted' = minted + 1,
         Cardinality(DOMAIN Live) < MaxRoutes, routes' = With(Live, minted + 1, x)
  PROVE  /\ Balanced(routes', LiveCount) /\ Evolves
         /\ DOMAIN routes' = DOMAIN Live \cup {minted + 1} /\ minted + 1 \notin DOMAIN routes
         /\ routes'[minted + 1] = x /\ \A t \in DOMAIN Live : routes'[t] = routes[t]
<1>1. minted + 1 \notin DOMAIN routes /\ minted + 1 \notin DOMAIN Live /\ minted \in Nat
  BY LiveIs DEF BrokerInv
<1>2. Balanced(routes', LiveCount)
  BY <1>1, LiveIs, BalancedNew
<1>3. /\ DOMAIN routes' = DOMAIN Live \cup {minted + 1}
      /\ routes'[minted + 1] = x /\ \A t \in DOMAIN Live : routes'[t] = routes[t]
  BY <1>1, LiveIs DEF With
<1>4. \A t \in DOMAIN routes : routes[t].nextID \in Nat
  BY DEF BrokerInv, Regular, Routes
<1>5. Evolves
  BY <1>1, <1>3, <1>4, LiveIs DEF Evolves
<1> QED
  BY <1>1, <1>2, <1>3, <1>5

\* subscribe.
LEMMA SubscribeKeeps ==
  ASSUME BrokerInv, NEW s \in Sessions, NEW c \in Calls, Subscribe(s, c)
  PROVE  BrokerInv' /\ Evolves
<1>1. CASE routes' = Live /\ UNCHANGED minted
  <2>1. Evolves
    BY <1>1, LiveIs, EvolvesLess
  <2>2. Balanced(routes', eventCount') /\ late' \subseteq DOMAIN routes' /\ (brokerClosed => DOMAIN routes' = {})
    BY <1>1, LiveIs DEF Subscribe, BrokerInv
  <2> QED
    BY <2>1, <2>2, BrokerKept DEF Subscribe
<1>2. CASE ~(brokerClosed \/ Cardinality(DOMAIN Live) >= MaxRoutes)
  <2>1. /\ minted' = minted + 1 /\ routes' = With(Live, minted + 1, Route(s, None, c))
    BY <1>2 DEF Subscribe
  <2>2. Regular(minted + 1, Route(s, None, c)) /\ Route(s, None, c).events = <<>>
    BY RouteIs, Limits
  <2>3. Cardinality(DOMAIN Live) < MaxRoutes
    BY <1>2, LiveIs, FS_CardinalityType, Limits DEF Balanced
  <2>4. Balanced(routes', LiveCount) /\ Evolves
    BY <2>1, <2>2, <2>3, AddRoute
  <2> QED
    BY <1>2, <2>4, BrokerKept DEF Subscribe
<1> QED
  BY <1>1, <1>2 DEF Subscribe

\* drain, over any routes.
LEMMA DrainKeeps ==
  ASSUME BrokerInv, NEW S \in SUBSET DOMAIN Live, Drain(S)
  PROVE  /\ BrokerInv' /\ Evolves /\ DOMAIN routes' \subseteq DOMAIN Live
         /\ \A t \in DOMAIN routes' :
              /\ t \notin S => routes'[t] = routes[t]
              /\ t \in S => routes'[t] = [routes[t] EXCEPT !.events = <<>>] /\ ~routes[t].complete
<1>1. Balanced(routes', eventCount')
  BY LiveIs, BalancedDrained DEF Drain
<1>2. /\ DOMAIN routes' \subseteq DOMAIN Live
      /\ \A t \in DOMAIN routes' :
              /\ t \notin S => routes'[t] = routes[t]
              /\ t \in S => routes'[t] = [routes[t] EXCEPT !.events = <<>>] /\ ~routes[t].complete
  BY LiveIs DEF Drain
<1>3. \A t \in DOMAIN routes : routes[t] \in Routes
  BY DEF BrokerInv, Regular
<1>4. \A t \in DOMAIN routes' :
        /\ routes'[t].thread = routes[t].thread /\ routes'[t].call = routes[t].call
        /\ routes'[t].nextID = routes[t].nextID
  BY <1>2, <1>3, LiveIs, Emptied
<1>5. Evolves
  BY <1>2, <1>4, LiveIs, EvolvesLess DEF Drain
<1>6. late' \subseteq DOMAIN routes' /\ (brokerClosed => DOMAIN routes' = {})
  BY <1>2, LiveIs DEF Drain, BrokerInv
<1> QED
  BY <1>1, <1>2, <1>5, <1>6, BrokerKept DEF Drain

\* cancel, of any tokens.
LEMMA CancelKeeps ==
  ASSUME BrokerInv, NEW S, Cancelled(S)
  PROVE  /\ BrokerInv' /\ Evolves /\ DOMAIN routes' = DOMAIN routes \ S
         /\ \A t \in DOMAIN routes' : routes'[t] = routes[t]
<1>1. DOMAIN routes' = DOMAIN routes \ S /\ \A t \in DOMAIN routes' : routes'[t] = routes[t]
  BY DEF Cancelled, Without
<1>2. Balanced(routes', eventCount')
  BY LiveIs, BalancedWithout DEF Cancelled
<1>3. Evolves
  BY <1>1, EvolvesLess DEF Cancelled
<1>4. late' \subseteq DOMAIN routes' /\ (brokerClosed => DOMAIN routes' = {})
  BY <1>1 DEF Cancelled, BrokerInv
<1> QED
  BY <1>1, <1>2, <1>3, <1>4, BrokerKept DEF Cancelled

\* A time-to-live runs out.
LEMMA ElapseKeeps ==
  ASSUME BrokerInv, NEW t, Elapse(t)
  PROVE  BrokerInv' /\ Evolves
<1>1. Evolves
  BY EvolvesLess DEF Elapse
<1>2. Balanced(routes', eventCount')
  BY LiveIs DEF Elapse
<1> QED
  BY <1>1, <1>2, BrokerKept DEF Elapse, BrokerInv

\* A step that does not call the broker.
LEMMA StillKeeps ==
  ASSUME BrokerInv, UNCHANGED broker
  PROVE  BrokerInv' /\ Evolves
<1>1. Evolves
  BY EvolvesLess DEF broker
<1>2. Balanced(routes', eventCount')
  BY LiveIs DEF broker
<1> QED
  BY <1>1, <1>2, BrokerKept DEF broker, BrokerInv

\* What subscribeThread does to a thread's provenance.
Moved(s, th) ==
  threads' = With(threads, th, [session |-> s, ids |-> IF th \in DOMAIN threads THEN threads[th].ids ELSE {}])

\* A thread that moves or appears retains what it retained.
LEMMA MovedIs ==
  ASSUME BrokerInv, NEW s \in Sessions, NEW th \in Threads, Moved(s, th)
  PROVE  /\ DOMAIN threads' = DOMAIN threads \cup {th}
         /\ \A u \in DOMAIN threads : threads'[u].ids = threads[u].ids /\ (u # th => threads'[u] = threads[u])
         /\ th \notin DOMAIN threads => threads'[th].ids = {}
         /\ threads'[th].session = s /\ \A u \in DOMAIN threads' : threads'[u] \in Provenances
         /\ Retained' = Retained
<1>1. DOMAIN threads' = DOMAIN threads \cup {th}
  BY DEF Moved, With
<1> DEFINE old == IF th \in DOMAIN threads THEN threads[th].ids ELSE {}
<1>2. PICK ids : ids = old
  OBVIOUS
<1>3. threads'[th] = [session |-> s, ids |-> ids] /\ \A u \in DOMAIN threads : u # th => threads'[u] = threads[u]
  BY <1>2 DEF Moved, With
<1>4. /\ threads'[th].ids = ids /\ threads'[th].session = s
      /\ \A u \in DOMAIN threads : threads'[u].ids = threads[u].ids
      /\ th \notin DOMAIN threads => threads'[th].ids = {}
  <2>1. threads'[th].ids = ids /\ threads'[th].session = s
    BY <1>3
  <2> QED
    BY <1>2, <1>3, <2>1
<1>5. \A u \in DOMAIN threads' : threads'[u] \in Provenances
  <2>1. \A u \in DOMAIN threads : threads[u] \in Provenances
    BY DEF BrokerInv
  <2>2. ids \in SUBSET MessageIDs
    BY <1>2, <2>1 DEF Provenances
  <2>3. threads'[th] \in Provenances
    BY <1>3, <2>2 DEF Provenances
  <2> QED
    BY <1>1, <1>3, <2>1, <2>3
<1>6. Retained' = Retained
  <2>1. \A p \in Retained : p \in Retained'
    BY <1>1, <1>4 DEF Retained
  <2>2. \A p \in Retained' : p \in Retained
    BY <1>1, <1>4 DEF Retained
  <2> QED
    BY <2>1, <2>2
<1> QED
  BY <1>1, <1>3, <1>4, <1>5, <1>6

\* What subscribeThread has to show about the routes.
LEMMA ThreadKept ==
  ASSUME BrokerInv, Evolves, Balanced(routes', eventCount'), late' = {},
         UNCHANGED <<threadIDCount, brokerClosed>>, ~brokerClosed,
         NEW s \in Sessions, NEW th \in Threads, Moved(s, th),
         ~(th \notin DOMAIN threads /\ Cardinality(DOMAIN threads) >= MaxRoutes)
  PROVE  BrokerInv'
<1>0. /\ DOMAIN threads' = DOMAIN threads \cup {th}
      /\ \A u \in DOMAIN threads : threads'[u].ids = threads[u].ids
      /\ th \notin DOMAIN threads => threads'[th].ids = {}
      /\ \A u \in DOMAIN threads' : threads'[u] \in Provenances
      /\ Retained' = Retained
  BY MovedIs
<1>1. \A u \in DOMAIN threads' : \A id \in threads'[u].ids : Issued(id)'
  BY <1>0, IssuedStays DEF BrokerInv
<1>2. \A t \in DOMAIN routes' : Regular(t, routes'[t])
  BY DEF Balanced
<1>3. IsFiniteSet(DOMAIN threads') /\ Cardinality(DOMAIN threads') <= MaxRoutes
  <2>1. IsFiniteSet(DOMAIN threads) /\ Cardinality(DOMAIN threads) \in Nat /\ Cardinality(DOMAIN threads) <= MaxRoutes
    BY FS_CardinalityType DEF BrokerInv, Accounting
  <2>2. CASE th \in DOMAIN threads
    BY <1>0, <2>1, <2>2
  <2>3. CASE th \notin DOMAIN threads
    <3>1. /\ IsFiniteSet((DOMAIN threads) \cup {th})
          /\ Cardinality((DOMAIN threads) \cup {th}) = Cardinality(DOMAIN threads) + 1
      BY <2>1, <2>3, FS_AddElement
    <3>2. Cardinality(DOMAIN threads) < MaxRoutes
      BY <2>1, <2>3, Limits
    <3> QED
      BY <2>1, <3>1, <3>2, <1>0, Limits
  <2> QED
    BY <2>2, <2>3
<1>4. Accounting'
  <2>1. /\ eventCount' = Queued(routes', DOMAIN routes') /\ eventCount' <= MaxEvents
        /\ Cardinality(DOMAIN routes') <= MaxRoutes
    BY DEF Balanced
  <2>2. /\ threadIDCount' = Cardinality(Retained') /\ threadIDCount' <= MaxThreadIDs
    BY <1>0 DEF BrokerInv, Accounting
  <2>3. \A t \in DOMAIN routes' : Len(routes'[t].events) <= MaxEventsPerRoute
    BY <1>2 DEF Regular
  <2> QED
    BY <1>3, <2>1, <2>2, <2>3 DEF Accounting
<1>5. IsFiniteSet(Retained)'
  BY <1>0 DEF BrokerInv
<1> QED
  BY <1>1, <1>2, <1>3, <1>4, <1>5, <1>0 DEF BrokerInv, Evolves

\* A route that moves to another session.
LEMMA RemappedIs ==
  ASSUME NEW x \in Routes, NEW s \in Sessions
  PROVE  LET y == [x EXCEPT !.session = s] IN
         /\ y \in Routes /\ y.events = x.events /\ y.thread = x.thread /\ y.call = x.call
         /\ y.nextID = x.nextID /\ y.complete = x.complete /\ y.session = s
  BY DEF Routes

\* What subscribeThread does to the routes.
Found(s, th, t) == t \in RouteOfThread(th) /\ routes' = [Live EXCEPT ![t].session = s] /\ UNCHANGED minted
Opened(s, th) ==
  /\ RouteOfThread(th) = {} /\ Cardinality(DOMAIN Live) < MaxRoutes /\ minted' = minted + 1
  /\ routes' = With(Live, minted + 1, Route(s, th, None))

\* The thread's route moves with it.
LEMMA FoundIs ==
  ASSUME BrokerInv, NEW s \in Sessions, NEW th \in Threads, NEW t, Found(s, th, t)
  PROVE  /\ Balanced(routes', LiveCount) /\ Evolves /\ DOMAIN routes' = DOMAIN Live
         /\ t \in DOMAIN Live /\ routes[t].thread = th /\ routes'[t].session = s
         /\ routes'[t].complete = routes[t].complete /\ routes'[t].events = routes[t].events
         /\ \A u \in DOMAIN Live : u # t => routes'[u] = routes[u]
<1>1. t \in DOMAIN Live /\ routes[t].thread = th /\ Live[t] = routes[t]
  BY LiveIs DEF Found, RouteOfThread
<1>2. PICK y : y = [routes[t] EXCEPT !.session = s]
  OBVIOUS
<1>3. routes[t] \in Routes /\ Regular(t, routes[t])
  BY <1>1, LiveIs DEF BrokerInv, Regular
<1>4. /\ y \in Routes /\ y.events = routes[t].events /\ y.thread = routes[t].thread /\ y.call = routes[t].call
      /\ y.nextID = routes[t].nextID /\ y.complete = routes[t].complete /\ y.session = s
  BY <1>2, <1>3, RemappedIs
<1>5. Regular(t, y)
  BY <1>3, <1>4 DEF Regular
<1>6. routes' = [Live EXCEPT ![t] = y]
  BY <1>1, <1>2 DEF Found
<1>7. Balanced(routes', LiveCount)
  BY <1>1, <1>4, <1>5, <1>6, LiveIs, BalancedSame
<1>8. DOMAIN routes' = DOMAIN Live /\ routes'[t] = y /\ \A u \in DOMAIN Live : u # t => routes'[u] = routes[u]
  BY <1>1, <1>6, LiveIs
<1>9. Evolves
  BY <1>4, <1>8, LiveIs, EvolvesLess DEF Found
<1> QED
  BY <1>1, <1>4, <1>7, <1>8, <1>9

\* subscribeThread, case by case.
LEMMA SubscribeThreadCases ==
  ASSUME BrokerInv, NEW s \in Sessions, NEW th \in Threads, SubscribeThread(s, th)
  PROVE  \/ routes' = Live /\ UNCHANGED <<threads, minted>>
         \/ /\ ~brokerClosed /\ Moved(s, th)
            /\ ~(th \notin DOMAIN threads /\ Cardinality(DOMAIN threads) >= MaxRoutes)
            /\ \/ \E t : Found(s, th, t)
               \/ RouteOfThread(th) = {} /\ routes' = Live /\ UNCHANGED minted
               \/ Opened(s, th)
<1>1. Cardinality(DOMAIN Live) \in Nat
  BY LiveIs, FS_CardinalityType DEF Balanced
<1> QED
  BY <1>1, Limits DEF SubscribeThread, Moved, Found, Opened

\* subscribeThread.
LEMMA SubscribeThreadKeeps ==
  ASSUME BrokerInv, NEW s \in Sessions, NEW th \in Threads, SubscribeThread(s, th)
  PROVE  BrokerInv' /\ Evolves
<1>1. late' = {} /\ eventCount' = LiveCount /\ UNCHANGED <<threadIDCount, brokerClosed>>
  BY DEF SubscribeThread
<1>2. CASE routes' = Live /\ UNCHANGED minted
  <2>1. Evolves
    BY <1>2, LiveIs, EvolvesLess
  <2>2. Balanced(routes', eventCount')
    BY <1>1, <1>2, LiveIs
  <2>3. brokerClosed => DOMAIN routes' = {}
    BY <1>2, LiveIs DEF BrokerInv
  <2> QED
    BY <1>1, <2>1, <2>2, <2>3, BrokerKept, ThreadKept, SubscribeThreadCases
<1>3. ASSUME NEW t, Found(s, th, t), Moved(s, th), ~brokerClosed,
             ~(th \notin DOMAIN threads /\ Cardinality(DOMAIN threads) >= MaxRoutes)
      PROVE  BrokerInv' /\ Evolves
  BY <1>1, <1>3, FoundIs, ThreadKept
<1>4. ASSUME Opened(s, th), Moved(s, th), ~brokerClosed,
             ~(th \notin DOMAIN threads /\ Cardinality(DOMAIN threads) >= MaxRoutes)
      PROVE  BrokerInv' /\ Evolves
  <2>1. Regular(minted + 1, Route(s, th, None)) /\ Route(s, th, None).events = <<>>
    BY RouteIs, Limits
  <2>2. Balanced(routes', LiveCount) /\ Evolves
    BY <1>4, <2>1, AddRoute DEF Opened
  <2> QED
    BY <1>1, <1>4, <2>2, ThreadKept
<1> QED
  BY <1>2, <1>3, <1>4, SubscribeThreadCases

-----------------------------------------------------------------------------
(* publish.                                                                *)

\* An appended event has the next number and waits last.
LEMMA AppendedIs ==
  ASSUME BrokerInv, NEW t \in DOMAIN Live, HasCapacity(Live[t])
  PROVE  LET x == Appended(Live[t], t) IN
         /\ Regular(t, x) /\ x.thread = Live[t].thread /\ x.call = Live[t].call /\ x.session = Live[t].session
         /\ x.nextID = Live[t].nextID + 1 /\ x.complete = Live[t].complete
         /\ Len(x.events) = Len(Live[t].events) + 1 /\ x.events # <<>>
         /\ \A i \in DOMAIN x.events :
              x.events[i] = IF i = Len(x.events) THEN [id |-> <<t, Live[t].nextID + 1>>, call |-> Live[t].call]
                                                 ELSE Live[t].events[i]
<1>1. PICK y : y = Live[t]
  OBVIOUS
<1>2. y \in Routes /\ Regular(t, y) /\ t \in Nat
  BY <1>1, LiveIs DEF BrokerInv, Regular
<1>3. y.nextID \in Nat /\ y.events \in Seq(Events) /\ y.call \in Calls \cup {None}
  BY <1>2 DEF Routes
<1>4. PICK e : e = [id |-> <<t, y.nextID + 1>>, call |-> y.call]
  OBVIOUS
<1>5. e \in Events /\ e.id = <<t, y.nextID + 1>> /\ e.call = y.call
  BY <1>2, <1>3, <1>4 DEF Events, MessageIDs
<1>6. PICK q : q = Append(y.events, e)
  OBVIOUS
<1>7. /\ q \in Seq(Events) /\ Len(q) = Len(y.events) + 1 /\ Len(q) \in Nat /\ Len(y.events) \in Nat
      /\ DOMAIN q = 1..Len(q) /\ DOMAIN y.events = 1..Len(y.events) /\ q # <<>>
      /\ \A i \in DOMAIN q : q[i] = IF i = Len(q) THEN e ELSE y.events[i]
  BY <1>3, <1>5, <1>6
<1>8. PICK n \in Nat : n = y.nextID + 1
  BY <1>3
<1>9. PICK x : x = [y EXCEPT !.nextID = n, !.events = q]
  OBVIOUS
<1>10. /\ x \in Routes /\ x.thread = y.thread /\ x.call = y.call /\ x.session = y.session
       /\ x.nextID = y.nextID + 1 /\ x.complete = y.complete /\ x.events = q
  <2>1. q \in Seq(Events)
    BY <1>7
  <2>2. /\ x \in Routes /\ x.thread = y.thread /\ x.call = y.call /\ x.session = y.session
        /\ x.nextID = n /\ x.complete = y.complete /\ x.events = q
    BY <1>2, <1>9, <2>1 DEF Routes
  <2> QED
    BY <1>8, <2>2
<1>13. x = Appended(Live[t], t)
  BY <1>1, <1>4, <1>6, <1>8, <1>9 DEF Appended
<1>11. /\ y.thread = None => y.nextID < MaxEventsPerRoute
       /\ y.thread # None => Len(y.events) < MaxEventsPerRoute
  BY <1>1 DEF HasCapacity
<1>12. Regular(t, x)
  <2>1. \A i \in DOMAIN q : q[i].call = x.call /\ q[i].id[1] = t /\ q[i].id[2] \in 1..x.nextID
    <3> TAKE i \in DOMAIN q
    <3>1. CASE i = Len(q)
      BY <1>3, <1>5, <1>7, <1>10, <3>1
    <3>2. CASE i # Len(q)
      <4>1. i \in DOMAIN y.events /\ q[i] = y.events[i]
        BY <1>7, <3>2
      <4>2. y.events[i].call = y.call /\ y.events[i].id[1] = t /\ y.events[i].id[2] \in 1..y.nextID
        BY <1>2, <4>1 DEF Regular
      <4> QED
        BY <1>3, <1>10, <4>1, <4>2
    <3> QED
      BY <3>1, <3>2
  <2>2. \A i, j \in DOMAIN q : i < j => q[i].id[2] < q[j].id[2]
    <3> TAKE i, j \in DOMAIN q
    <3> HAVE i < j
    <3>1. i \in DOMAIN y.events /\ q[i] = y.events[i]
      BY <1>7
    <3>2. CASE j = Len(q)
      <4>1. q[j].id[2] = y.nextID + 1
        BY <1>5, <1>7, <3>2
      <4>2. y.events[i].id[2] \in 1..y.nextID
        BY <1>2, <3>1 DEF Regular
      <4> QED
        BY <1>3, <3>1, <4>1, <4>2
    <3>3. CASE j # Len(q)
      <4>1. j \in DOMAIN y.events /\ q[j] = y.events[j]
        BY <1>7, <3>3
      <4> QED
        BY <1>2, <3>1, <4>1 DEF Regular
    <3> QED
      BY <3>2, <3>3
  <2>3. x.thread = None <=> x.call # None
    BY <1>2, <1>10 DEF Regular
  <2>4. /\ Len(q) <= MaxEventsPerRoute
        /\ x.thread = None => Len(q) <= x.nextID /\ x.nextID <= MaxEventsPerRoute
    BY <1>2, <1>3, <1>7, <1>10, <1>11, Limits DEF Regular
  <2>5. x.complete => q # <<>> /\ x.thread = None
    BY <1>2, <1>7, <1>10 DEF Regular
  <2> QED
    BY <1>10, <2>1, <2>2, <2>3, <2>4, <2>5 DEF Regular
<1> QED
  BY <1>1, <1>4, <1>7, <1>10, <1>12, <1>13

\* The route after a publication that leaves it in place.
After(t, text, complete) == [AfterPublish(t, text) EXCEPT !.complete = @ \/ Finishes(t, complete)]

\* Noting the end of the publisher changes nothing else.
LEMMA EndedIs ==
  ASSUME NEW x \in Routes, NEW b \in BOOLEAN
  PROVE  LET y == [x EXCEPT !.complete = @ \/ b] IN
         /\ y \in Routes /\ y.events = x.events /\ y.thread = x.thread /\ y.call = x.call
         /\ y.nextID = x.nextID /\ y.complete = (x.complete \/ b) /\ y.session = x.session
  BY DEF Routes

\* What publish leaves of a route: one more event or none.
LEMMA AfterIs ==
  ASSUME BrokerInv, NEW t \in DOMAIN Live, NEW text, NEW complete \in BOOLEAN,
         ~(Finishes(t, complete) /\ AfterPublish(t, text).events = <<>>)
  PROVE  LET x == After(t, text, complete) IN
         /\ Regular(t, x) /\ x.thread = routes[t].thread /\ x.call = routes[t].call /\ x.session = routes[t].session
         /\ ~Accepted(t, text) => x.nextID = routes[t].nextID /\ x.events = routes[t].events
         /\ Accepted(t, text) =>
              /\ x.nextID = routes[t].nextID + 1 /\ Len(x.events) = Len(routes[t].events) + 1
              /\ \A i \in DOMAIN x.events :
                   x.events[i] = IF i = Len(x.events)
                                   THEN [id |-> <<t, routes[t].nextID + 1>>, call |-> routes[t].call]
                                   ELSE routes[t].events[i]
<1>1. PICK y : y = AfterPublish(t, text)
  OBVIOUS
<1>2. Live[t] = routes[t] /\ Regular(t, routes[t])
  BY LiveIs DEF BrokerInv
<1>3. /\ Regular(t, y) /\ y.thread = routes[t].thread /\ y.call = routes[t].call /\ y.session = routes[t].session
      /\ ~Accepted(t, text) => y.nextID = routes[t].nextID /\ y.events = routes[t].events
      /\ Accepted(t, text) =>
           /\ y.nextID = routes[t].nextID + 1 /\ Len(y.events) = Len(routes[t].events) + 1
           /\ \A i \in DOMAIN y.events :
                   y.events[i] = IF i = Len(y.events)
                                   THEN [id |-> <<t, routes[t].nextID + 1>>, call |-> routes[t].call]
                                   ELSE routes[t].events[i]
  <2>1. CASE Accepted(t, text)
    <3>1. HasCapacity(Live[t]) /\ y = Appended(Live[t], t)
      BY <1>1, <2>1 DEF Accepted, AfterPublish
    <3> QED
      BY <1>2, <2>1, <3>1, AppendedIs
  <2>2. CASE ~Accepted(t, text)
    BY <1>1, <1>2, <2>2 DEF AfterPublish
  <2> QED
    BY <2>1, <2>2
<1>4. PICK b \in BOOLEAN : b = Finishes(t, complete)
  BY DEF Finishes
<1>5. y \in Routes
  BY <1>3 DEF Regular
<1>6. PICK x : x = [y EXCEPT !.complete = @ \/ b]
  OBVIOUS
<1>7. x = After(t, text, complete)
  BY <1>1, <1>4, <1>6 DEF After
<1>8. /\ x \in Routes /\ x.events = y.events /\ x.thread = y.thread /\ x.call = y.call
      /\ x.nextID = y.nextID /\ x.complete = (y.complete \/ b) /\ x.session = y.session
  BY <1>5, <1>6, EndedIs
<1>9. b => y.thread = None /\ y.events # <<>>
  BY <1>1, <1>2, <1>3, <1>4 DEF Finishes
<1>10. Regular(t, x)
  BY <1>3, <1>8, <1>9 DEF Regular
<1> QED
  BY <1>3, <1>7, <1>8, <1>10

\* The three things that publish does.
Denied == routes' = Live /\ eventCount' = LiveCount /\ UNCHANGED <<threads, threadIDCount>>
Ended(t) ==
  /\ t \in DOMAIN Live /\ Live[t].events = <<>> /\ Live[t].thread = None
  /\ routes' = Without(Live, {t}) /\ eventCount' = LiveCount
  /\ UNCHANGED <<threads, threadIDCount>>
Updated(t, text, complete) ==
  /\ t \in DOMAIN Live /\ routes' = [Live EXCEPT ![t] = After(t, text, complete)]
  /\ ~(Finishes(t, complete) /\ AfterPublish(t, text).events = <<>>)
  /\ eventCount' = LiveCount + (IF Accepted(t, text) THEN 1 ELSE 0)
  /\ IF Accepted(t, text) /\ Live[t].thread # None
       THEN /\ threads' = [threads EXCEPT ![Live[t].thread].ids = @ \cup {<<t, Live[t].nextID + 1>>}]
            /\ threadIDCount' = threadIDCount + 1
       ELSE UNCHANGED <<threads, threadIDCount>>

\* publish, case by case.
LEMMA PublishCases ==
  ASSUME BrokerInv, NEW t, NEW text, NEW complete \in BOOLEAN, Publish(t, text, complete)
  PROVE  /\ late' = {} /\ UNCHANGED <<brokerClosed, minted>>
         /\ Denied \/ Ended(t) \/ Updated(t, text, complete)
<1>1. CASE t \notin DOMAIN Live
  BY <1>1 DEF Publish, Denied
<1>2. CASE t \in DOMAIN Live /\ Finishes(t, complete) /\ AfterPublish(t, text).events = <<>>
  <2>1. ~Accepted(t, text)
    BY <1>2, AppendedIs DEF Accepted, AfterPublish
  <2>2. AfterPublish(t, text) = Live[t]
    BY <2>1 DEF AfterPublish
  <2>3. /\ routes' = Without(Live, {t}) /\ UNCHANGED <<threads, threadIDCount>>
        /\ eventCount' = LiveCount + 0
    BY <1>2, <2>1 DEF Publish
  <2>4. eventCount' = LiveCount
    BY <2>3, LiveIs
  <2> QED
    BY <1>2, <2>2, <2>3, <2>4 DEF Publish, Ended, Finishes
<1>3. CASE t \in DOMAIN Live /\ ~(Finishes(t, complete) /\ AfterPublish(t, text).events = <<>>)
  BY <1>3 DEF Publish, Updated, After
<1> QED
  BY <1>1, <1>2, <1>3 DEF Publish

\* A retained identity is new.
LEMMA RetainMore ==
  ASSUME BrokerInv, NEW th \in DOMAIN threads, NEW id \in MessageIDs, id \notin threads[th].ids,
         threads' = [threads EXCEPT ![th].ids = @ \cup {id}]
  PROVE  /\ DOMAIN threads' = DOMAIN threads
         /\ \A u \in DOMAIN threads : threads'[u] \in Provenances /\ threads'[u].session = threads[u].session
         /\ \A u \in DOMAIN threads : threads[u].ids \subseteq threads'[u].ids
         /\ \A u \in DOMAIN threads : \A z \in threads'[u].ids : z \in threads[u].ids \/ z = id
         /\ id \in threads'[th].ids
         /\ IsFiniteSet(Retained') /\ Cardinality(Retained') = Cardinality(Retained) + 1
<1>1. /\ DOMAIN threads' = DOMAIN threads /\ \A u \in DOMAIN threads : u # th => threads'[u] = threads[u]
      /\ threads'[th] = [threads[th] EXCEPT !.ids = @ \cup {id}]
  OBVIOUS
<1>2. \A u \in DOMAIN threads : threads[u] \in Provenances
  BY DEF BrokerInv
<1>3. /\ threads'[th] \in Provenances /\ threads'[th].session = threads[th].session
      /\ threads'[th].ids = threads[th].ids \cup {id}
  BY <1>1, <1>2 DEF Provenances
<1>4. \A u \in DOMAIN threads : threads[u].ids \subseteq threads'[u].ids
                                /\ \A z \in threads'[u].ids : z \in threads[u].ids \/ z = id
  BY <1>1, <1>3
<1>5. Retained' = Retained \cup {<<th, id>>} /\ <<th, id>> \notin Retained
  <2>1. \A p \in Retained' : p \in Retained \cup {<<th, id>>}
    BY <1>1, <1>3 DEF Retained
  <2>2. \A p \in Retained : p \in Retained'
    BY <1>1, <1>4 DEF Retained
  <2>3. <<th, id>> \in Retained' /\ <<th, id>> \notin Retained
    BY <1>1, <1>3 DEF Retained
  <2> QED
    BY <2>1, <2>2, <2>3
<1>6. IsFiniteSet(Retained)
  BY DEF BrokerInv
<1> QED
  BY <1>1, <1>2, <1>3, <1>4, <1>5, <1>6, FS_AddElement

\* What Updated does to the routes.
LEMMA UpdatedRoutes ==
  ASSUME BrokerInv, NEW t, NEW text, NEW complete \in BOOLEAN, Updated(t, text, complete), UNCHANGED minted
  PROVE  /\ Evolves /\ Balanced(routes', eventCount') /\ t \in DOMAIN Live
         /\ DOMAIN routes' = DOMAIN Live /\ \A u \in DOMAIN Live : u # t => routes'[u] = routes[u]
         /\ Regular(t, routes'[t]) /\ routes'[t].session = routes[t].session
         /\ ~Accepted(t, text) => routes'[t].nextID = routes[t].nextID /\ routes'[t].events = routes[t].events
         /\ Accepted(t, text) =>
              /\ routes'[t].nextID = routes[t].nextID + 1 /\ Len(routes'[t].events) = Len(routes[t].events) + 1
              /\ \A i \in DOMAIN routes'[t].events :
                   routes'[t].events[i] = IF i = Len(routes'[t].events)
                                       THEN [id |-> <<t, routes[t].nextID + 1>>, call |-> routes[t].call]
                                       ELSE routes[t].events[i]
<1>1. PICK x : x = After(t, text, complete)
  OBVIOUS
<1>2. /\ Regular(t, x) /\ x.thread = routes[t].thread /\ x.call = routes[t].call /\ x.session = routes[t].session
      /\ ~Accepted(t, text) => x.nextID = routes[t].nextID /\ x.events = routes[t].events
      /\ Accepted(t, text) =>
           /\ x.nextID = routes[t].nextID + 1 /\ Len(x.events) = Len(routes[t].events) + 1
           /\ \A i \in DOMAIN x.events :
                x.events[i] = IF i = Len(x.events)
                                    THEN [id |-> <<t, routes[t].nextID + 1>>, call |-> routes[t].call]
                                    ELSE routes[t].events[i]
  BY <1>1, AfterIs DEF Updated
<1>3. /\ t \in DOMAIN Live /\ Live[t] = routes[t] /\ routes' = [Live EXCEPT ![t] = x]
  BY <1>1, LiveIs DEF Updated
<1>4. Balanced(routes', eventCount')
  <2>1. CASE Accepted(t, text)
    <3>1. LiveCount < MaxEvents /\ eventCount' = LiveCount + 1
      BY <2>1 DEF Accepted, HasCapacity, Updated
    <3> QED
      BY <1>2, <1>3, <2>1, <3>1, LiveIs, BalancedMore
  <2>2. CASE ~Accepted(t, text)
    <3>1. eventCount' = LiveCount
      BY <2>2, LiveIs DEF Updated
    <3> QED
      BY <1>2, <1>3, <2>2, <3>1, LiveIs, BalancedSame
  <2> QED
    BY <2>1, <2>2
<1>5. /\ DOMAIN routes' = DOMAIN Live /\ routes'[t] = x
      /\ \A u \in DOMAIN Live : u # t => routes'[u] = routes[u]
  BY <1>3, LiveIs
<1>6. \A u \in DOMAIN routes : routes[u].nextID \in Nat
  BY DEF BrokerInv, Regular, Routes
<1>7. Evolves
  <2>1. routes[t].nextID \in Nat /\ x.nextID \in Nat /\ routes[t].nextID <= x.nextID
    BY <1>2, <1>3, <1>6, LiveIs
  <2> QED
    BY <1>2, <1>5, <1>6, <2>1, LiveIs DEF Evolves
<1> QED
  BY <1>2, <1>3, <1>4, <1>5, <1>7

\* publish.
LEMMA PublishKeeps ==
  ASSUME BrokerInv, RoutesAreOwned, NEW t, NEW text, NEW complete \in BOOLEAN, Publish(t, text, complete)
  PROVE  BrokerInv' /\ Evolves
<1>1. late' = {} /\ UNCHANGED <<brokerClosed, minted>>
  BY PublishCases
<1>2. CASE Denied
  <2>1. Evolves
    BY <1>1, <1>2, LiveIs, EvolvesLess DEF Denied
  <2>2. Balanced(routes', eventCount') /\ (brokerClosed => DOMAIN routes' = {})
    BY <1>2, LiveIs DEF Denied, BrokerInv
  <2> QED
    BY <1>1, <1>2, <2>1, <2>2, BrokerKept DEF Denied
<1>3. CASE Ended(t)
  <2>1. DOMAIN routes' = DOMAIN Live \ {t} /\ \A u \in DOMAIN routes' : routes'[u] = routes[u]
    BY <1>3, LiveIs DEF Ended, Without
  <2>2. Evolves
    BY <1>1, <2>1, LiveIs, EvolvesLess
  <2>3. Queued(Live, {t} \cap DOMAIN Live) = 0
    <3>1. {t} \cap DOMAIN Live = {t} /\ DOMAIN Live[t].events = {}
      BY <1>3 DEF Ended
    <3>2. Waiting(Live, {t}) = {}
      BY <3>1 DEF Waiting
    <3> QED
      BY <3>1, <3>2, FS_EmptySet DEF Queued
  <2>4. Balanced(routes', LiveCount - 0)
    BY <1>3, <2>3, LiveIs, BalancedWithout DEF Ended
  <2>5. LiveCount - 0 = eventCount'
    BY <1>3, LiveIs DEF Ended
  <2>6. Balanced(routes', eventCount')
    BY <2>4, <2>5
  <2> QED
    BY <1>1, <1>3, <2>1, <2>2, <2>6, LiveIs, BrokerKept DEF Ended, BrokerInv
<1>4. CASE Updated(t, text, complete)
  <2>1. /\ Evolves /\ Balanced(routes', eventCount') /\ t \in DOMAIN Live
        /\ DOMAIN routes' = DOMAIN Live
        /\ Accepted(t, text) => routes'[t].nextID = routes[t].nextID + 1
    BY <1>1, <1>4, UpdatedRoutes
  <2>2. t \in DOMAIN routes /\ Live[t] = routes[t] /\ (brokerClosed => DOMAIN routes' = {})
    BY <2>1, LiveIs DEF BrokerInv
  <2>3. CASE ~(Accepted(t, text) /\ Live[t].thread # None)
    <3>1. UNCHANGED <<threads, threadIDCount>>
      BY <1>4, <2>3 DEF Updated
    <3> QED
      BY <1>1, <2>1, <2>2, <3>1, BrokerKept
  <2>4. CASE Accepted(t, text) /\ Live[t].thread # None
    <3>0. PICK th, id : th = routes[t].thread /\ id = <<t, routes[t].nextID + 1>>
      OBVIOUS
    <3>1. th \in DOMAIN threads /\ threads' = [threads EXCEPT ![th].ids = @ \cup {id}]
      BY <1>4, <2>2, <2>4, <3>0 DEF Updated, RoutesAreOwned
    <3>2. routes[t].nextID \in Nat /\ t \in 1..minted /\ minted \in Nat
      BY <2>2 DEF BrokerInv, Regular, Routes
    <3>3. id \in MessageIDs /\ id[1] = t /\ id[2] = routes[t].nextID + 1
      BY <3>0, <3>2 DEF MessageIDs
    <3>4. id \notin threads[th].ids
      BY <2>2, <3>1, <3>2, <3>3 DEF BrokerInv, Issued
    <3>5. /\ DOMAIN threads' = DOMAIN threads
          /\ \A u \in DOMAIN threads : threads'[u] \in Provenances
          /\ \A u \in DOMAIN threads : \A z \in threads'[u].ids : z \in threads[u].ids \/ z = id
          /\ IsFiniteSet(Retained') /\ Cardinality(Retained') = Cardinality(Retained) + 1
      BY <3>1, <3>3, <3>4, RetainMore
    <3>6. Issued(id)'
      <4>1. routes'[t].nextID = routes[t].nextID + 1
        BY <2>1, <2>4
      <4> QED
        BY <1>1, <3>2, <3>3, <4>1 DEF Issued
    <3>7. \A u \in DOMAIN threads' : \A z \in threads'[u].ids : Issued(z)'
      <4>1. \A u \in DOMAIN threads : \A z \in threads[u].ids : Issued(z)'
        BY <2>1, IssuedStays DEF BrokerInv
      <4> QED
        BY <3>5, <3>6, <4>1
    <3>8. threadIDCount' = threadIDCount + 1 /\ threadIDCount < MaxThreadIDs
      BY <1>4, <2>4 DEF Updated, Accepted, HasCapacity
    <3>9. /\ threadIDCount' = Cardinality(Retained') /\ threadIDCount' <= MaxThreadIDs
      BY <3>5, <3>8, LiveIs, Limits DEF BrokerInv, Accounting
    <3>10. \A u \in DOMAIN routes' : Regular(u, routes'[u])
      BY <2>1 DEF Balanced
    <3>11. Accounting'
      <4>1. Cardinality(DOMAIN threads') <= MaxRoutes
        BY <3>5 DEF BrokerInv, Accounting
      <4>2. /\ eventCount' = Queued(routes', DOMAIN routes') /\ eventCount' <= MaxEvents
            /\ Cardinality(DOMAIN routes') <= MaxRoutes
        BY <2>1 DEF Balanced
      <4>3. \A u \in DOMAIN routes' : Len(routes'[u].events) <= MaxEventsPerRoute
        BY <3>10 DEF Regular
      <4> QED
        BY <3>9, <4>1, <4>2, <4>3 DEF Accounting
    <3> QED
      BY <1>1, <2>1, <2>2, <3>5, <3>7, <3>10, <3>11 DEF BrokerInv, Evolves
  <2> QED
    BY <2>3, <2>4
<1> QED
  BY <1>2, <1>3, <1>4, PublishCases

\* close.
LEMMA FinishCloseKeeps ==
  ASSUME BrokerInv, FinishClose
  PROVE  BrokerInv' /\ Evolves
<1>1. /\ DOMAIN routes' = {} /\ DOMAIN threads' = {} /\ late' = {} /\ eventCount' = 0 /\ threadIDCount' = 0
      /\ brokerClosed' = TRUE /\ minted' = minted
  BY DEF FinishClose
<1>2. Waiting(routes', DOMAIN routes') = {} /\ Retained' = {}
  BY <1>1 DEF Waiting, Retained
<1>3. Accounting'
  <2>1. Cardinality({}) = 0 /\ 0 <= MaxEvents /\ 0 <= MaxThreadIDs /\ 0 <= MaxRoutes
    BY FS_EmptySet, Limits
  <2>2. Queued(routes', DOMAIN routes') = 0 /\ Cardinality(Retained') = 0
    BY <1>2, <2>1 DEF Queued
  <2> QED
    BY <1>1, <2>1, <2>2 DEF Accounting
<1> QED
  BY <1>1, <1>2, <1>3, FS_EmptySet DEF BrokerInv, Evolves

-----------------------------------------------------------------------------
(* What the steps of a response do to it.                                  *)

\* What a drain returns was waiting on a live route, and is returned once.
LEMMA ClaimsIs ==
  ASSUME BrokerInv, NEW S \in SUBSET DOMAIN Live, NEW q \in Claims(S)
  PROVE  /\ q \in Seq(Events)
         /\ \A i \in DOMAIN q : \E t \in S : \E k \in DOMAIN routes[t].events : q[i] = routes[t].events[k]
         /\ \A i, j \in DOMAIN q : i # j => q[i] # q[j]
<1> DEFINE T == UNION {Range(Live[t].events) : t \in S}
           W == Waiting(Live, S)
<1>1. \A t \in S : t \in DOMAIN Live /\ Live[t] = routes[t] /\ Live[t].events \in Seq(Events)
  BY LiveIs DEF Balanced, Regular, Routes
<1>2. IsFiniteSet(W)
  BY LiveIs, WaitingFinite DEF Balanced
<1>3. \A e \in T : \E t \in S : \E k \in DOMAIN Live[t].events : e = Live[t].events[k]
  BY DEF Range
<1>4. IsFiniteSet(T)
  <2> DEFINE f == [p \in W |-> Live[p[1]].events[p[2]]]
  <2>1. \A p \in W : f[p] \in T
    <3> TAKE p \in W
    <3>1. PICK t \in S : \E n \in DOMAIN Live[t].events : p = <<t, n>>
      BY WaitingPairs
    <3>2. PICK n \in DOMAIN Live[t].events : p = <<t, n>>
      BY <3>1
    <3>3. f[p] = Live[t].events[n]
      BY <3>2
    <3> HIDE DEF f
    <3> QED
      BY <3>3 DEF Range
  <2>2. \A e \in T : \E p \in W : f[p] = e
    <3> TAKE e \in T
    <3>1. PICK t \in S : \E k \in DOMAIN Live[t].events : e = Live[t].events[k]
      BY <1>3
    <3>2. PICK k \in DOMAIN Live[t].events : e = Live[t].events[k]
      BY <3>1
    <3>3. <<t, k>> \in W
      BY WaitingIs
    <3>4. f[<<t, k>>] = e
      BY <3>2, <3>3
    <3> QED
      BY <3>3, <3>4
  <2>3. f \in Surjection(W, T)
    <3>1. f \in [W -> T]
      BY <2>1
    <3> HIDE DEF f, W, T
    <3> QED
      BY <2>2, <3>1 DEF Surjection
  <2> HIDE DEF f, W, T
  <2> QED
    BY <1>2, <2>3, FS_Surjection
<1>5. Cardinality(T) \in Nat
  BY <1>4, FS_CardinalityType
<1>6. q \in [1..Cardinality(T) -> T] /\ \A i, j \in 1..Cardinality(T) : i # j => q[i] # q[j]
  BY DEF Claims, SetToSeqs
<1>7. \A e \in T : e \in Events
  <2> TAKE e \in T
  <2>1. PICK t \in S : \E k \in DOMAIN Live[t].events : e = Live[t].events[k]
    BY <1>3
  <2>2. Live[t].events \in Seq(Events)
    BY <1>1
  <2> QED
    BY <2>1, <2>2
<1> HIDE DEF T, W
<1>8. q \in Seq(Events)
  BY <1>5, <1>6, <1>7
<1>9. \A i \in DOMAIN q : q[i] \in T
  BY <1>6
<1>10. DOMAIN q = 1..Cardinality(T)
  BY <1>6
<1> QED
  BY <1>1, <1>3, <1>6, <1>8, <1>9, <1>10

\* The response r becomes as described, and the others stay.
Becomes(r, p, s, u, q) ==
  /\ DOMAIN resp' = Responses /\ \A o \in Responses : o # r => resp'[o] = resp[o]
  /\ resp'[r] \in Transforms /\ resp'[r].pc = p /\ resp'[r].session = s /\ resp'[r].subs = u /\ resp'[r].queue = q

\* The types of the fields.
LEMMA FieldsAre ==
  ASSUME FormInv, NEW r \in Responses
  PROVE  /\ resp[r].pc \in Active \cup {"idle", "closed"} /\ resp[r].session \in Sessions \cup {None}
         /\ resp[r].subs \in Seq(Subscriptions) /\ resp[r].queue \in Seq(Events) /\ resp[r] \in Transforms
  BY DEF FormInv, Formed, Transforms

\* A sequence with one element replaced.
LEMMA Replaced ==
  ASSUME NEW X, NEW u \in Seq(X), NEW i \in DOMAIN u, NEW x \in X
  PROVE  /\ [u EXCEPT ![i] = x] \in Seq(X) /\ DOMAIN [u EXCEPT ![i] = x] = DOMAIN u
         /\ \A j \in DOMAIN u : [u EXCEPT ![i] = x][j] = IF j = i THEN x ELSE u[j]
  OBVIOUS

\* A subscription with another state of its carrier.
LEMMA CarrierIs ==
  ASSUME NEW x \in Subscriptions, NEW c \in {"prepared", "handed", "drained"}
  PROVE  LET y == [x EXCEPT !.carrier = c] IN
         y \in Subscriptions /\ y.token = x.token /\ y.call = x.call /\ y.carrier = c
  BY DEF Subscriptions

\* A step of the response r alone.
LEMMA BecomesIs ==
  ASSUME FormInv, NEW r \in Responses, NEW y \in Transforms, resp' = [resp EXCEPT ![r] = y]
  PROVE  Becomes(r, y.pc, y.session, y.subs, y.queue)
  BY DEF FormInv, Becomes

\* Steps that change the program point.
LEMMA PointSteps ==
  ASSUME FormInv, NEW r \in Responses
  PROVE  \A p \in Active \cup {"idle", "closed"} :
           /\ resp' = [resp EXCEPT ![r].pc = p] =>
                Becomes(r, p, resp[r].session, resp[r].subs, resp[r].queue)
           /\ \A q \in Seq(Events) : resp' = [resp EXCEPT ![r].pc = p, ![r].queue = q] =>
                Becomes(r, p, resp[r].session, resp[r].subs, q)
           /\ \A s \in Sessions : resp' = [resp EXCEPT ![r].pc = p, ![r].session = s] =>
                Becomes(r, p, s, resp[r].subs, resp[r].queue)
           /\ \A u \in Seq(Subscriptions) : resp' = [resp EXCEPT ![r].pc = p, ![r].subs = u] =>
                Becomes(r, p, resp[r].session, u, resp[r].queue)
<1> TAKE p \in Active \cup {"idle", "closed"}
<1>1. DOMAIN resp = Responses
  BY DEF FormInv
<1>2. ASSUME resp' = [resp EXCEPT ![r].pc = p]
      PROVE  Becomes(r, p, resp[r].session, resp[r].subs, resp[r].queue)
  <2>1. PICK y : y = [resp[r] EXCEPT !.pc = p]
    OBVIOUS
  <2>2. y \in Transforms /\ y.pc = p /\ y.session = resp[r].session /\ y.subs = resp[r].subs /\ y.queue = resp[r].queue
    BY <2>1, FieldsAre DEF Transforms
  <2>3. resp' = [resp EXCEPT ![r] = y]
    BY <1>1, <1>2, <2>1
  <2> QED
    BY <2>2, <2>3, BecomesIs
<1>3. ASSUME NEW q \in Seq(Events), resp' = [resp EXCEPT ![r].pc = p, ![r].queue = q]
      PROVE  Becomes(r, p, resp[r].session, resp[r].subs, q)
  <2>1. PICK y : y = [resp[r] EXCEPT !.pc = p, !.queue = q]
    OBVIOUS
  <2>2. y \in Transforms /\ y.pc = p /\ y.session = resp[r].session /\ y.subs = resp[r].subs /\ y.queue = q
    BY <2>1, FieldsAre DEF Transforms
  <2>3. resp' = [resp EXCEPT ![r] = y]
    BY <1>1, <1>3, <2>1
  <2> QED
    BY <2>2, <2>3, BecomesIs
<1>4. ASSUME NEW s \in Sessions, resp' = [resp EXCEPT ![r].pc = p, ![r].session = s]
      PROVE  Becomes(r, p, s, resp[r].subs, resp[r].queue)
  <2>1. PICK y : y = [resp[r] EXCEPT !.pc = p, !.session = s]
    OBVIOUS
  <2>2. y \in Transforms /\ y.pc = p /\ y.session = s /\ y.subs = resp[r].subs /\ y.queue = resp[r].queue
    BY <2>1, FieldsAre DEF Transforms
  <2>3. resp' = [resp EXCEPT ![r] = y]
    BY <1>1, <1>4, <2>1
  <2> QED
    BY <2>2, <2>3, BecomesIs
<1>5. ASSUME NEW u \in Seq(Subscriptions), resp' = [resp EXCEPT ![r].pc = p, ![r].subs = u]
      PROVE  Becomes(r, p, resp[r].session, u, resp[r].queue)
  <2>1. PICK y : y = [resp[r] EXCEPT !.pc = p, !.subs = u]
    OBVIOUS
  <2>2. y \in Transforms /\ y.pc = p /\ y.session = resp[r].session /\ y.subs = u /\ y.queue = resp[r].queue
    BY <2>1, FieldsAre DEF Transforms
  <2>3. resp' = [resp EXCEPT ![r] = y]
    BY <1>1, <1>5, <2>1
  <2> QED
    BY <2>2, <2>3, BecomesIs
<1> QED
  BY <1>2, <1>3, <1>4, <1>5

-----------------------------------------------------------------------------
(* Threads own their routes.                                               *)

ThreadOwns(t) ==
  /\ routes[t].thread \in DOMAIN threads
  /\ routes[t].session = threads[routes[t].thread].session
  /\ \A u \in DOMAIN routes : routes[u].thread = routes[t].thread => u = t
ThreadsOwn == \A t \in DOMAIN routes : routes[t].thread # None => ThreadOwns(t)

CallOwns(t) ==
  \E r \in Responses : \E i \in DOMAIN resp[r].subs :
    /\ resp[r].subs[i].token = t
    /\ resp[r].subs[i].carrier # "prepared" \/ resp[r].pc \notin {"released", "closed"}
CallsOwn == \A t \in DOMAIN routes : routes[t].call # None => CallOwns(t)

\* The parts of RoutesAreOwned.
LEMMA OwnedParts ==
  ASSUME \A t \in DOMAIN routes : Regular(t, routes[t])
  PROVE  RoutesAreOwned <=> ThreadsOwn /\ CallsOwn
<1>1. \A t \in DOMAIN routes : routes[t].complete => routes[t].events # <<>>
  BY DEF Regular
<1> QED
  BY <1>1 DEF RoutesAreOwned, ThreadsOwn, CallsOwn, ThreadOwns, CallOwns

\* A call's route stays in its session.
SessionsStay ==
  \A t \in DOMAIN routes' : t \in DOMAIN routes /\ routes[t].call # None => routes'[t].session = routes[t].session

\* What every method of the broker preserves.
BrokerMoves == BrokerInv' /\ Evolves /\ ThreadsOwn' /\ SessionsStay

\* Routes that disappear or stay leave the others owned.
LEMMA OwnLess ==
  ASSUME ThreadsOwn, Evolves, DOMAIN routes' \subseteq DOMAIN routes, DOMAIN threads' = DOMAIN threads,
         \A th \in DOMAIN threads : threads'[th].session = threads[th].session,
         \A t \in DOMAIN routes' : routes'[t].session = routes[t].session
  PROVE  ThreadsOwn' /\ SessionsStay
<1>1. \A t \in DOMAIN routes' : routes'[t].thread = routes[t].thread
  BY DEF Evolves
<1> QED
  BY <1>1 DEF ThreadsOwn, ThreadOwns, SessionsStay

\* The methods that add no route and move no thread.
LEMMA LessMoves ==
  ASSUME BrokerInv, ThreadsOwn
  PROVE  /\ UNCHANGED broker => BrokerMoves
         /\ \A S \in SUBSET DOMAIN Live : Drain(S) => BrokerMoves
         /\ \A S : Cancelled(S) => BrokerMoves
         /\ \A t : Elapse(t) => BrokerMoves
<1>1. ASSUME UNCHANGED broker PROVE BrokerMoves
  <2>1. BrokerInv' /\ Evolves
    BY <1>1, StillKeeps
  <2> QED
    BY <1>1, <2>1, OwnLess DEF BrokerMoves, broker
<1>2. ASSUME NEW S \in SUBSET DOMAIN Live, Drain(S) PROVE BrokerMoves
  <2>1. /\ BrokerInv' /\ Evolves /\ DOMAIN routes' \subseteq DOMAIN Live /\ UNCHANGED threads
        /\ \A t \in DOMAIN routes' :
              /\ t \notin S => routes'[t] = routes[t]
              /\ t \in S => routes'[t] = [routes[t] EXCEPT !.events = <<>>]
    BY <1>2, DrainKeeps DEF Drain
  <2>2. \A t \in DOMAIN routes : routes[t] \in Routes
    BY DEF BrokerInv, Regular
  <2>3. DOMAIN routes' \subseteq DOMAIN routes /\ \A t \in DOMAIN routes' : routes'[t].session = routes[t].session
    BY <2>1, <2>2, LiveIs, Emptied
  <2> QED
    BY <2>1, <2>3, OwnLess DEF BrokerMoves
<1>3. ASSUME NEW S, Cancelled(S) PROVE BrokerMoves
  <2>1. /\ BrokerInv' /\ Evolves /\ DOMAIN routes' = DOMAIN routes \ S /\ UNCHANGED threads
        /\ \A t \in DOMAIN routes' : routes'[t] = routes[t]
    BY <1>3, CancelKeeps DEF Cancelled
  <2> QED
    BY <2>1, OwnLess DEF BrokerMoves
<1>4. ASSUME NEW t, Elapse(t) PROVE BrokerMoves
  <2>1. BrokerInv' /\ Evolves /\ UNCHANGED <<routes, threads>>
    BY <1>4, ElapseKeeps DEF Elapse
  <2> QED
    BY <2>1, OwnLess DEF BrokerMoves
<1> QED
  BY <1>1, <1>2, <1>3, <1>4

\* subscribe: the new route belongs to no thread.
LEMMA SubscribeMoves ==
  ASSUME BrokerInv, ThreadsOwn, NEW s \in Sessions, NEW c \in Calls, Subscribe(s, c)
  PROVE  /\ BrokerMoves /\ UNCHANGED threads
         /\ \A t \in DOMAIN routes' \cap DOMAIN routes : routes'[t] = routes[t]
         /\ IF minted' > minted
              THEN /\ minted' = minted + 1 /\ minted \in Nat /\ minted + 1 \notin DOMAIN routes
                   /\ DOMAIN routes' \subseteq DOMAIN routes \cup {minted + 1}
                   /\ routes'[minted + 1] = Route(s, None, c)
              ELSE DOMAIN routes' \subseteq DOMAIN routes
<1>1. BrokerInv' /\ Evolves /\ UNCHANGED threads
  BY SubscribeKeeps DEF Subscribe
<1>2. CASE routes' = Live /\ UNCHANGED minted
  <2>1. DOMAIN routes' \subseteq DOMAIN routes /\ \A t \in DOMAIN routes' : routes'[t] = routes[t]
    BY <1>2, LiveIs
  <2>2. ~(minted' > minted)
    BY <1>2, LiveIs
  <2> QED
    BY <1>1, <2>1, <2>2, OwnLess DEF BrokerMoves
<1>3. CASE ~(brokerClosed \/ Cardinality(DOMAIN Live) >= MaxRoutes)
  <2>1. /\ minted' = minted + 1 /\ routes' = With(Live, minted + 1, Route(s, None, c))
    BY <1>3 DEF Subscribe
  <2>2. Regular(minted + 1, Route(s, None, c)) /\ Route(s, None, c).events = <<>> /\ Route(s, None, c).thread = None
    BY RouteIs, Limits DEF Route
  <2>3. Cardinality(DOMAIN Live) < MaxRoutes
    BY <1>3, LiveIs, FS_CardinalityType, Limits DEF Balanced
  <2>4. /\ DOMAIN routes' = DOMAIN Live \cup {minted + 1} /\ minted + 1 \notin DOMAIN routes
        /\ routes'[minted + 1] = Route(s, None, c) /\ \A t \in DOMAIN Live : routes'[t] = routes[t]
    BY <2>1, <2>2, <2>3, AddRoute
  <2>5. DOMAIN Live \subseteq DOMAIN routes /\ minted \in Nat
    BY LiveIs
  <2>6. ThreadsOwn'
    <3> SUFFICES ASSUME NEW t \in DOMAIN routes', routes'[t].thread # None
                 PROVE  ThreadOwns(t)'
      BY DEF ThreadsOwn
    <3>1. t \in DOMAIN Live /\ routes'[t] = routes[t] /\ t \in DOMAIN routes
      BY <2>2, <2>4, <2>5
    <3>2. \A u \in DOMAIN routes' : routes'[u].thread = routes'[t].thread => u \in DOMAIN Live
      BY <2>2, <2>4
    <3> QED
      BY <1>1, <2>4, <2>5, <3>1, <3>2 DEF ThreadsOwn, ThreadOwns
  <2>7. SessionsStay
    BY <2>4, <2>5 DEF SessionsStay
  <2>8. minted' > minted
    BY <2>1, <2>5
  <2> QED
    BY <1>1, <2>1, <2>4, <2>5, <2>6, <2>7, <2>8 DEF BrokerMoves
<1> QED
  BY <1>2, <1>3 DEF Subscribe

\* subscribeThread: the route moves with its thread, or the thread gets one.
LEMMA SubscribeThreadMoves ==
  ASSUME BrokerInv, ThreadsOwn, NEW s \in Sessions, NEW th \in Threads, SubscribeThread(s, th)
  PROVE  /\ BrokerMoves /\ UNCHANGED brokerClosed
         /\ DOMAIN threads \subseteq DOMAIN threads'
         /\ \A u \in DOMAIN threads : threads'[u].ids = threads[u].ids
         /\ \A t \in DOMAIN routes' :
              IF t \in DOMAIN routes THEN routes'[t].events = routes[t].events
                                     ELSE routes'[t].events = <<>> /\ routes'[t].call = None
<1>1. BrokerInv' /\ Evolves /\ UNCHANGED brokerClosed
  BY SubscribeThreadKeeps DEF SubscribeThread
<1>2. CASE routes' = Live /\ UNCHANGED <<threads, minted>>
  <2>1. DOMAIN routes' \subseteq DOMAIN routes /\ \A t \in DOMAIN routes' : routes'[t] = routes[t]
    BY <1>2, LiveIs
  <2> QED
    BY <1>1, <1>2, <2>1, OwnLess DEF BrokerMoves
<1>3. ASSUME Moved(s, th)
      PROVE  /\ DOMAIN threads' = DOMAIN threads \cup {th} /\ threads'[th].session = s
             /\ \A u \in DOMAIN threads : threads'[u].ids = threads[u].ids /\ (u # th => threads'[u] = threads[u])
  BY <1>3, MovedIs
<1>4. th # None
  BY Limits
<1>5. \A t \in DOMAIN routes' \cap DOMAIN routes : routes'[t].thread = routes[t].thread
  BY <1>1 DEF Evolves
<1>6. DOMAIN Live \subseteq DOMAIN routes /\ minted \in Nat /\ \A t \in DOMAIN Live : Live[t] = routes[t]
  BY LiveIs
<1>7. ASSUME NEW t, Found(s, th, t), Moved(s, th)
      PROVE  BrokerMoves /\ \A u \in DOMAIN routes' : u \in DOMAIN routes /\ routes'[u].events = routes[u].events
  <2>1. /\ DOMAIN routes' = DOMAIN Live /\ t \in DOMAIN Live /\ routes[t].thread = th /\ routes'[t].session = s
        /\ routes'[t].events = routes[t].events
        /\ \A u \in DOMAIN Live : u # t => routes'[u] = routes[u]
    BY <1>7, FoundIs
  <2>2. ThreadsOwn'
    <3> SUFFICES ASSUME NEW u \in DOMAIN routes', routes'[u].thread # None
                 PROVE  ThreadOwns(u)'
      BY DEF ThreadsOwn
    <3>1. ThreadOwns(u) /\ routes'[u].thread = routes[u].thread
      BY <1>5, <1>6, <2>1 DEF ThreadsOwn
    <3>2. \A v \in DOMAIN routes' : routes'[v].thread = routes'[u].thread => v = u
      BY <1>5, <1>6, <2>1, <3>1 DEF ThreadOwns
    <3>3. CASE u = t
      BY <1>3, <1>7, <2>1, <3>1, <3>2, <3>3 DEF ThreadOwns
    <3>4. CASE u # t
      <4>1. routes[u].thread # th
        BY <1>6, <2>1, <3>1, <3>4 DEF ThreadOwns
      <4> QED
        BY <1>3, <1>7, <2>1, <3>1, <3>2, <3>4, <4>1 DEF ThreadOwns
    <3> QED
      BY <3>3, <3>4
  <2>3. SessionsStay
    <3>1. routes[t].call = None
      BY <1>4, <1>6, <2>1 DEF BrokerInv, Regular
    <3> QED
      BY <1>6, <2>1, <3>1 DEF SessionsStay
  <2> QED
    BY <1>1, <1>6, <2>1, <2>2, <2>3 DEF BrokerMoves
<1>8. ASSUME RouteOfThread(th) = {}, routes' = Live, UNCHANGED minted, Moved(s, th)
      PROVE  BrokerMoves /\ \A u \in DOMAIN routes' : u \in DOMAIN routes /\ routes'[u].events = routes[u].events
  <2>1. \A t \in DOMAIN Live : routes[t].thread # th
    BY <1>6, <1>8 DEF RouteOfThread
  <2>2. ThreadsOwn'
    BY <1>3, <1>6, <1>8, <2>1 DEF ThreadsOwn, ThreadOwns
  <2> QED
    BY <1>1, <1>6, <1>8, <2>2 DEF BrokerMoves, SessionsStay
<1>9. ASSUME Opened(s, th), Moved(s, th)
      PROVE  /\ BrokerMoves
             /\ \A u \in DOMAIN routes' :
                  IF u \in DOMAIN routes THEN routes'[u].events = routes[u].events
                                         ELSE routes'[u].events = <<>> /\ routes'[u].call = None
  <2>1. PICK x : x = Route(s, th, None)
    OBVIOUS
  <2>2. Regular(minted + 1, x) /\ x.events = <<>> /\ x.thread = th /\ x.session = s /\ x.call = None
    BY <2>1, RouteIs, Limits DEF Route
  <2>3. /\ DOMAIN routes' = DOMAIN Live \cup {minted + 1} /\ minted + 1 \notin DOMAIN routes
        /\ routes'[minted + 1] = x /\ \A t \in DOMAIN Live : routes'[t] = routes[t]
    BY <1>9, <2>1, <2>2, AddRoute DEF Opened
  <2>4. \A t \in DOMAIN Live : routes[t].thread # th
    BY <1>6, <1>9 DEF RouteOfThread, Opened
  <2>5. ThreadsOwn'
    <3> SUFFICES ASSUME NEW u \in DOMAIN routes', routes'[u].thread # None
                 PROVE  ThreadOwns(u)'
      BY DEF ThreadsOwn
    <3>1. CASE u = minted + 1
      BY <1>3, <1>9, <2>2, <2>3, <2>4, <3>1 DEF ThreadOwns
    <3>2. CASE u \in DOMAIN Live
      <4>1. ThreadOwns(u) /\ routes'[u] = routes[u] /\ routes[u].thread # th
        BY <1>6, <2>3, <2>4, <3>2 DEF ThreadsOwn
      <4>2. \A v \in DOMAIN routes' : routes'[v].thread = routes'[u].thread => v = u
        BY <1>6, <2>2, <2>3, <4>1 DEF ThreadOwns
      <4> QED
        BY <1>3, <1>9, <4>1, <4>2 DEF ThreadOwns
    <3> QED
      BY <2>3, <3>1, <3>2
  <2>6. SessionsStay
    BY <1>6, <2>3 DEF SessionsStay
  <2> QED
    BY <1>1, <1>6, <2>2, <2>3, <2>5, <2>6 DEF BrokerMoves
<1>10. ASSUME Moved(s, th)
       PROVE  /\ DOMAIN threads \subseteq DOMAIN threads'
              /\ \A u \in DOMAIN threads : threads'[u].ids = threads[u].ids
  BY <1>3, <1>10
<1> QED
  BY <1>1, <1>2, <1>7, <1>8, <1>9, <1>10, SubscribeThreadCases

\* What publish does to the events: none, or one more on its route.
Published(t) ==
  /\ DOMAIN routes' \subseteq DOMAIN routes /\ DOMAIN threads' = DOMAIN threads
  /\ \A th \in DOMAIN threads : threads[th].ids \subseteq threads'[th].ids
  /\ \A u \in DOMAIN routes' : routes'[u].events = routes[u].events \/ u = t
  /\ t \in DOMAIN routes' =>
       \A i \in DOMAIN routes'[t].events :
         \/ i \in DOMAIN routes[t].events /\ routes'[t].events[i] = routes[t].events[i]
         \/ /\ routes'[t].events[i] = [id |-> <<t, routes[t].nextID + 1>>, call |-> routes[t].call]
            /\ routes[t].thread # None =>
                 routes'[t].events[i].id \in threads'[routes[t].thread].ids

\* publish: a blank message is refused.
LEMMA PublishMoves ==
  ASSUME BrokerInv, RoutesAreOwned, NEW t, NEW text, NEW complete \in BOOLEAN, Publish(t, text, complete)
  PROVE  /\ BrokerMoves /\ UNCHANGED <<brokerClosed, minted>> /\ Published(t)
         /\ text # "text" => \A u \in DOMAIN routes' : routes'[u].events = routes[u].events
<1>1. BrokerInv' /\ Evolves /\ UNCHANGED <<brokerClosed, minted>>
  BY PublishKeeps, PublishCases
<1>2. ThreadsOwn
  BY OwnedParts DEF BrokerInv
<1>3. DOMAIN Live \subseteq DOMAIN routes /\ minted \in Nat /\ \A u \in DOMAIN Live : Live[u] = routes[u]
  BY LiveIs
<1>4. ASSUME UNCHANGED threads, DOMAIN routes' \subseteq DOMAIN Live, \A u \in DOMAIN routes' : routes'[u] = routes[u]
      PROVE  /\ BrokerMoves /\ Published(t) /\ \A u \in DOMAIN routes' : routes'[u].events = routes[u].events
  <2>1. Published(t)
    BY <1>3, <1>4 DEF Published
  <2> QED
    BY <1>1, <1>2, <1>3, <1>4, <2>1, OwnLess DEF BrokerMoves
<1>5. CASE Denied
  BY <1>1, <1>3, <1>4, <1>5 DEF Denied
<1>6. CASE Ended(t)
  BY <1>1, <1>3, <1>4, <1>6 DEF Ended, Without
<1>7. CASE Updated(t, text, complete)
  <2>1. /\ t \in DOMAIN Live /\ DOMAIN routes' = DOMAIN Live
        /\ \A u \in DOMAIN Live : u # t => routes'[u] = routes[u]
        /\ Regular(t, routes'[t]) /\ routes'[t].session = routes[t].session
        /\ ~Accepted(t, text) => routes'[t].events = routes[t].events
        /\ Accepted(t, text) =>
             /\ Len(routes'[t].events) = Len(routes[t].events) + 1
             /\ \A i \in DOMAIN routes'[t].events :
                  routes'[t].events[i] = IF i = Len(routes'[t].events)
                              THEN [id |-> <<t, routes[t].nextID + 1>>, call |-> routes[t].call]
                              ELSE routes[t].events[i]
    BY <1>1, <1>7, UpdatedRoutes
  <2>2. \A u \in DOMAIN routes' : u \in DOMAIN routes /\ routes'[u].session = routes[u].session
    BY <1>3, <2>1
  <2>3. CASE ~(Accepted(t, text) /\ routes[t].thread # None)
    <3>1. UNCHANGED threads
      BY <1>3, <1>7, <2>1, <2>3 DEF Updated
    <3>2. BrokerMoves
      BY <1>1, <1>2, <2>2, <3>1, OwnLess DEF BrokerMoves
    <3>3. CASE ~Accepted(t, text)
      BY <1>1, <1>3, <2>1, <3>1, <3>2, <3>3 DEF Published
    <3>4. CASE Accepted(t, text)
      <4>1. text = "text" /\ routes[t].thread = None
        BY <2>3, <3>4 DEF Accepted
      <4>2. \A i \in DOMAIN routes'[t].events :
              \/ i \in DOMAIN routes[t].events /\ routes'[t].events[i] = routes[t].events[i]
              \/ routes'[t].events[i] = [id |-> <<t, routes[t].nextID + 1>>, call |-> routes[t].call]
        <5>1. routes'[t].events \in Seq(Events) /\ routes[t].events \in Seq(Events)
          BY <1>3, <2>1 DEF Regular, Routes, BrokerInv
        <5> QED
          BY <2>1, <3>4, <5>1
      <4>3. Published(t)
        BY <1>3, <2>1, <3>1, <4>1, <4>2 DEF Published
      <4> QED
        BY <1>1, <3>2, <4>1, <4>3
    <3> QED
      BY <3>3, <3>4
  <2>4. CASE Accepted(t, text) /\ routes[t].thread # None
    <3>1. PICK th, id : th = routes[t].thread /\ id = <<t, routes[t].nextID + 1>>
      OBVIOUS
    <3>2. th \in DOMAIN threads /\ threads' = [threads EXCEPT ![th].ids = @ \cup {id}]
      BY <1>2, <1>3, <1>7, <2>1, <2>4, <3>1 DEF Updated, ThreadsOwn, ThreadOwns
    <3>3. \A u \in DOMAIN threads : threads[u] \in Provenances
      BY DEF BrokerInv
    <3>4. /\ DOMAIN threads' = DOMAIN threads /\ \A u \in DOMAIN threads : u # th => threads'[u] = threads[u]
          /\ threads'[th].session = threads[th].session /\ threads'[th].ids = threads[th].ids \cup {id}
      BY <3>2, <3>3 DEF Provenances
    <3>5. /\ \A u \in DOMAIN threads : threads'[u].session = threads[u].session
          /\ \A u \in DOMAIN threads : threads[u].ids \subseteq threads'[u].ids
      BY <3>4
    <3>6. BrokerMoves
      BY <1>1, <1>2, <2>2, <3>4, <3>5, OwnLess DEF BrokerMoves
    <3>7. text = "text"
      BY <2>4 DEF Accepted
    <3>8. \A i \in DOMAIN routes'[t].events :
            \/ i \in DOMAIN routes[t].events /\ routes'[t].events[i] = routes[t].events[i]
            \/ routes'[t].events[i] = [id |-> <<t, routes[t].nextID + 1>>, call |-> routes[t].call]
      <4>1. routes'[t].events \in Seq(Events) /\ routes[t].events \in Seq(Events)
        BY <1>3, <2>1 DEF Regular, Routes, BrokerInv
      <4>2. \A i \in DOMAIN routes'[t].events :
              i # Len(routes'[t].events) => i \in DOMAIN routes[t].events /\ routes'[t].events[i] = routes[t].events[i]
        BY <2>1, <2>4, <4>1
      <4>3. \A i \in DOMAIN routes'[t].events :
              i = Len(routes'[t].events) =>
                routes'[t].events[i] = [id |-> <<t, routes[t].nextID + 1>>, call |-> routes[t].call]
        BY <2>1, <2>4
      <4> QED
        BY <4>2, <4>3
    <3>9. \A i \in DOMAIN routes'[t].events :
            \/ i \in DOMAIN routes[t].events /\ routes'[t].events[i] = routes[t].events[i]
            \/ /\ routes'[t].events[i] = [id |-> <<t, routes[t].nextID + 1>>, call |-> routes[t].call]
               /\ routes'[t].events[i].id \in threads'[routes[t].thread].ids
      BY <3>1, <3>4, <3>8
    <3>10. Published(t)
      BY <1>3, <2>1, <3>4, <3>5, <3>9 DEF Published
    <3> QED
      BY <1>1, <3>6, <3>7, <3>10
  <2> QED
    BY <2>3, <2>4
<1> QED
  BY <1>1, <1>5, <1>6, <1>7, PublishCases

\* close: nothing is left.
LEMMA FinishCloseMoves ==
  ASSUME BrokerInv, ThreadsOwn, FinishClose
  PROVE  BrokerMoves /\ DOMAIN routes' = {}
<1>1. BrokerInv' /\ Evolves /\ DOMAIN routes' = {}
  BY FinishCloseKeeps DEF FinishClose
<1> QED
  BY <1>1 DEF BrokerMoves, ThreadsOwn, SessionsStay

-----------------------------------------------------------------------------
(* What each step makes of its response.                                   *)

\* Subscriptions keep their token and call; a carrier that went out stays out.
SameSubs(u, v) ==
  /\ DOMAIN v = DOMAIN u
  /\ \A i \in DOMAIN u : /\ v[i].token = u[i].token /\ v[i].call = u[i].call
                         /\ u[i].carrier # "prepared" => v[i].carrier # "prepared"

\* A response that becomes well formed.
LEMMA FormBy ==
  ASSUME FormInv, NEW r \in Responses, NEW p, NEW s, NEW u, NEW q, Becomes(r, p, s, u, q),
         p \in Active => s \in Sessions, p \in Early => u = <<>> /\ q = <<>>, p = "lowered" => u # <<>>
  PROVE  FormInv'
  BY DEF FormInv, Formed, Becomes

\* A response before it has calls.
LEMMA EarlyIs ==
  ASSUME FormInv, NEW r \in Responses, resp[r].pc \in Early
  PROVE  resp[r].subs = <<>> /\ resp[r].queue = <<>>
  BY DEF FormInv, Formed

\* A request enters, and leaves early.
LEMMA EnterIs ==
  ASSUME FormInv, NEW r \in Responses
  PROVE  /\ \A s \in Sessions : Activate(r, s) => Becomes(r, "activated", s, <<>>, <<>>)
         /\ PrepareShellCommentary(r) => Becomes(r, "subscribed", resp[r].session, <<>>, <<>>)
         /\ Refuse(r) => Becomes(r, "closed", None, <<>>, <<>>)
<1>1. ASSUME NEW s \in Sessions, Activate(r, s) PROVE Becomes(r, "activated", s, <<>>, <<>>)
  BY <1>1, PointSteps, EarlyIs DEF Activate, Active, Early
<1>2. ASSUME PrepareShellCommentary(r) PROVE Becomes(r, "subscribed", resp[r].session, <<>>, <<>>)
  BY <1>2, PointSteps, EarlyIs DEF PrepareShellCommentary, Active, Early
<1>3. ASSUME Refuse(r) PROVE Becomes(r, "closed", None, <<>>, <<>>)
  <2>1. PICK y : y = [Idle EXCEPT !.pc = "closed"]
    OBVIOUS
  <2>2. y \in Transforms /\ y.pc = "closed" /\ y.session = None /\ y.subs = <<>> /\ y.queue = <<>>
    <3>1. <<>> \in Seq(Subscriptions) /\ <<>> \in Seq(Events)
      OBVIOUS
    <3>2. y = [pc |-> "closed", session |-> None, subs |-> <<>>, queue |-> <<>>]
      BY <2>1 DEF Idle
    <3> QED
      BY <3>1, <3>2 DEF Transforms
  <2>3. resp' = [resp EXCEPT ![r] = y]
    BY <1>3, <2>1 DEF Refuse
  <2> QED
    BY <2>2, <2>3, BecomesIs
<1> QED
  BY <1>1, <1>2, <1>3

\* What is left of a sequence without its head.
LEMMA TailIs ==
  ASSUME NEW X, NEW q \in Seq(X), q # <<>>
  PROVE  /\ Tail(q) \in Seq(X) /\ Head(q) = q[1] /\ 1 \in DOMAIN q
         /\ \A i \in DOMAIN Tail(q) : i + 1 \in DOMAIN q /\ Tail(q)[i] = q[i + 1] /\ i \in Nat
  OBVIOUS

\* The steps that call no broker and keep the subscriptions.
LEMMA PlainIs ==
  ASSUME FormInv, NEW r \in Responses
  PROVE  /\ Created(r) => Becomes(r, "created", resp[r].session, resp[r].subs, resp[r].queue)
         /\ Streaming(r) => Becomes(r, "streaming", resp[r].session, resp[r].subs, resp[r].queue)
         /\ Fail(r) => Becomes(r, "failed", resp[r].session, resp[r].subs, <<>>)
         /\ Terminal(r) => Becomes(r, "draining", resp[r].session, resp[r].subs, resp[r].queue)
         /\ ReleaseCommentarySubscriptions(r) =>
              Becomes(r, "released", resp[r].session, resp[r].subs, resp[r].queue)
         /\ Close(r) => Becomes(r, "closed", resp[r].session, resp[r].subs, resp[r].queue)
         /\ Render(r) => /\ resp[r].queue # <<>>
                         /\ Becomes(r, resp[r].pc, resp[r].session, resp[r].subs, Tail(resp[r].queue))
<1>1. ASSUME Render(r) PROVE Becomes(r, resp[r].pc, resp[r].session, resp[r].subs, Tail(resp[r].queue))
  <2>1. PICK q \in Seq(Events) : q = Tail(resp[r].queue)
    <3>1. resp[r].queue \in Seq(Events) /\ resp[r].queue # <<>>
      BY <1>1, FieldsAre DEF Render
    <3>2. Tail(resp[r].queue) \in Seq(Events)
      BY <3>1, TailIs
    <3> QED
      BY <3>2
  <2>2. PICK y : y = [resp[r] EXCEPT !.queue = q]
    OBVIOUS
  <2>3. /\ y \in Transforms /\ y.pc = resp[r].pc /\ y.session = resp[r].session
        /\ y.subs = resp[r].subs /\ y.queue = q
    BY <2>2, FieldsAre DEF Transforms
  <2>4. resp' = [resp EXCEPT ![r] = y]
    BY <1>1, <2>1, <2>2 DEF Render, FormInv
  <2> QED
    BY <2>1, <2>3, <2>4, BecomesIs
<1>2. ASSUME Fail(r) PROVE Becomes(r, "failed", resp[r].session, resp[r].subs, <<>>)
  <2>1. <<>> \in Seq(Events) /\ "failed" \in Active
    BY DEF Active
  <2> QED
    BY <1>2, <2>1, PointSteps DEF Fail
<1>3. {"created", "streaming", "draining", "released", "closed"} \subseteq Active \cup {"idle", "closed"}
  BY DEF Active
<1>4. Created(r) => Becomes(r, "created", resp[r].session, resp[r].subs, resp[r].queue)
  BY <1>3, PointSteps DEF Created
<1>5. Streaming(r) => Becomes(r, "streaming", resp[r].session, resp[r].subs, resp[r].queue)
  BY <1>3, PointSteps DEF Streaming
<1>6. Terminal(r) => Becomes(r, "draining", resp[r].session, resp[r].subs, resp[r].queue)
  BY <1>3, PointSteps DEF Terminal
<1>7. ReleaseCommentarySubscriptions(r) => Becomes(r, "released", resp[r].session, resp[r].subs, resp[r].queue)
  BY <1>3, PointSteps DEF ReleaseCommentarySubscriptions
<1>8. Close(r) => Becomes(r, "closed", resp[r].session, resp[r].subs, resp[r].queue)
  BY <1>3, PointSteps DEF Close
<1> QED
  BY <1>1, <1>2, <1>4, <1>5, <1>6, <1>7, <1>8 DEF Render

\* The drains.
LEMMA DrainsAre ==
  ASSUME FormInv, BrokerInv, NEW r \in Responses
  PROVE  /\ DrainCommentarySession(r) =>
              /\ Drain(DeferredRoutes(r)) /\ DeferredRoutes(r) \in SUBSET DOMAIN Live
              /\ \E q \in Claims(DeferredRoutes(r)) : Becomes(r, "prepared", resp[r].session, resp[r].subs, q)
         /\ DrainThread(r) =>
              /\ Drain(ThreadRoutes(r)) /\ ThreadRoutes(r) \in SUBSET DOMAIN Live
              /\ \E q \in Claims(ThreadRoutes(r)) : Becomes(r, "threadDraining", resp[r].session, resp[r].subs, q)
         /\ \A i \in DOMAIN resp[r].subs : DrainCall(r, i) =>
              LET own == {resp[r].subs[i].token} \cap DOMAIN Live IN
              /\ Drain(own) /\ own \in SUBSET DOMAIN Live
              /\ \E q \in Claims(own), u \in Seq(Subscriptions) :
                   Becomes(r, "draining", resp[r].session, u, q) /\ SameSubs(resp[r].subs, u)
<1>1. ThreadRoutes(r) \in SUBSET DOMAIN Live /\ DeferredRoutes(r) \in SUBSET DOMAIN Live
  BY DEF ThreadRoutes, DeferredRoutes
<1>2. ASSUME DrainCommentarySession(r)
      PROVE  \E q \in Claims(DeferredRoutes(r)) : Becomes(r, "prepared", resp[r].session, resp[r].subs, q)
  <2>1. PICK q \in Claims(DeferredRoutes(r)) : resp' = [resp EXCEPT ![r].pc = "prepared", ![r].queue = q]
    BY <1>2 DEF DrainCommentarySession
  <2>2. q \in Seq(Events) /\ "prepared" \in Active
    BY <1>1, ClaimsIs DEF Active
  <2> QED
    BY <2>1, <2>2, PointSteps
<1>3. ASSUME DrainThread(r)
      PROVE  \E q \in Claims(ThreadRoutes(r)) : Becomes(r, "threadDraining", resp[r].session, resp[r].subs, q)
  <2>1. PICK q \in Claims(ThreadRoutes(r)) : resp' = [resp EXCEPT ![r].pc = "threadDraining", ![r].queue = q]
    BY <1>3 DEF DrainThread
  <2>2. q \in Seq(Events) /\ "threadDraining" \in Active
    BY <1>1, ClaimsIs DEF Active
  <2> QED
    BY <2>1, <2>2, PointSteps
<1>4. ASSUME NEW i \in DOMAIN resp[r].subs, DrainCall(r, i)
      PROVE  LET own == {resp[r].subs[i].token} \cap DOMAIN Live IN
             /\ Drain(own) /\ own \in SUBSET DOMAIN Live
             /\ \E q \in Claims(own), u \in Seq(Subscriptions) :
                  Becomes(r, "draining", resp[r].session, u, q) /\ SameSubs(resp[r].subs, u)
  <2>1. PICK own : own = {resp[r].subs[i].token} \cap DOMAIN Live
    OBVIOUS
  <2>2. Drain(own) /\ own \in SUBSET DOMAIN Live
    BY <1>4, <2>1 DEF DrainCall
  <2>3. PICK q \in Claims(own) : resp' = [resp EXCEPT ![r].queue = q, ![r].subs[i].carrier = "drained"]
    BY <1>4, <2>1 DEF DrainCall
  <2>4. q \in Seq(Events)
    BY <2>2, ClaimsIs
  <2>5. PICK sub : sub = [resp[r].subs[i] EXCEPT !.carrier = "drained"]
    OBVIOUS
  <2>6. resp[r].subs \in Seq(Subscriptions) /\ resp[r].subs[i] \in Subscriptions
    BY FieldsAre
  <2>7. /\ sub \in Subscriptions /\ sub.token = resp[r].subs[i].token /\ sub.call = resp[r].subs[i].call
        /\ sub.carrier = "drained"
    BY <2>5, <2>6, CarrierIs
  <2>8. PICK u : u = [resp[r].subs EXCEPT ![i] = sub]
    OBVIOUS
  <2>9. u \in Seq(Subscriptions) /\ SameSubs(resp[r].subs, u)
    BY <2>6, <2>7, <2>8, Replaced DEF SameSubs
  <2>10. PICK y : y = [resp[r] EXCEPT !.queue = q, !.subs = u]
    OBVIOUS
  <2>11. /\ y \in Transforms /\ y.pc = resp[r].pc /\ y.session = resp[r].session
         /\ y.subs = u /\ y.queue = q
    BY <2>4, <2>9, <2>10, FieldsAre DEF Transforms
  <2>12. resp' = [resp EXCEPT ![r] = y]
    BY <2>3, <2>5, <2>8, <2>10 DEF FormInv
  <2>13. Becomes(r, "draining", resp[r].session, u, q)
    <3>1. resp[r].pc = "draining"
      BY <1>4 DEF DrainCall
    <3>2. Becomes(r, y.pc, y.session, y.subs, y.queue)
      BY <2>11, <2>12, BecomesIs
    <3> QED
      BY <2>11, <3>1, <3>2
  <2> QED
    BY <2>1, <2>2, <2>9, <2>13
<1> QED
  BY <1>1, <1>2, <1>3, <1>4 DEF DrainCommentarySession, DrainThread

\* The response r has lowered the call c with a token, or without one.
Lowered(r, c, token, u) ==
  /\ IF minted' > minted THEN token = minted' ELSE token = None
  /\ Becomes(r, "lowered", resp[r].session, u, resp[r].queue)
  /\ u \in Seq(Subscriptions) /\ u # <<>>
  /\ DOMAIN u = (DOMAIN resp[r].subs) \cup {Len(u)} /\ Len(u) \notin DOMAIN resp[r].subs
  /\ u[Len(u)].token = token /\ u[Len(u)].call = c
  /\ \A i \in DOMAIN resp[r].subs : u[i] = resp[r].subs[i]

\* A call is lowered around a route of its own.
LEMMA LowerIs ==
  ASSUME FormInv, BrokerInv, BrokerInv', NEW r \in Responses, NEW c \in Calls, LowerCall(r, c)
  PROVE  \E token, u : Lowered(r, c, token, u)
<1>1. PICK token : token = IF minted' > minted THEN minted' ELSE None
  OBVIOUS
<1>2. PICK sub : sub = [token |-> token, call |-> c, carrier |-> "prepared"]
  OBVIOUS
<1>3. sub \in Subscriptions
  <2>1. token \in Nat \cup {None}
    BY <1>1 DEF BrokerInv
  <2> QED
    BY <1>2, <2>1 DEF Subscriptions
<1>4. PICK v : v = resp[r].subs
  OBVIOUS
<1>5. v \in Seq(Subscriptions)
  BY <1>4, FieldsAre
<1>6. PICK u : u = Append(v, sub)
  OBVIOUS
<1>7. /\ u \in Seq(Subscriptions) /\ u # <<>> /\ DOMAIN u = (DOMAIN v) \cup {Len(u)} /\ Len(u) \notin DOMAIN v
      /\ u[Len(u)] = sub /\ \A i \in DOMAIN v : u[i] = v[i]
  BY <1>3, <1>5, <1>6
<1>8. resp' = [resp EXCEPT ![r].pc = "lowered", ![r].subs = u]
  BY <1>1, <1>2, <1>4, <1>6 DEF LowerCall
<1>9. Becomes(r, "lowered", resp[r].session, u, resp[r].queue)
  <2>1. "lowered" \in Active
    BY DEF Active
  <2> QED
    BY <1>7, <1>8, <2>1, PointSteps
<1>10. u[Len(u)].token = token /\ u[Len(u)].call = c
  BY <1>2, <1>7
<1>11. Lowered(r, c, token, u)
  BY <1>1, <1>4, <1>7, <1>9, <1>10 DEF Lowered
<1> QED
  BY <1>11

\* The last call lowered is handed off.
LEMMA CommitIs ==
  ASSUME FormInv, NEW r \in Responses, CommitLocalCall(r)
  PROVE  \E last \in DOMAIN resp[r].subs, u \in Seq(Subscriptions) :
           /\ Becomes(r, "streaming", resp[r].session, u, resp[r].queue) /\ SameSubs(resp[r].subs, u)
           /\ calls' = calls \cup {resp[r].subs[last].call}
           /\ held' = held \cup ({resp[r].subs[last].token} \ {None})
<1>1. PICK v : v = resp[r].subs
  OBVIOUS
<1>2. v \in Seq(Subscriptions) /\ v # <<>>
  BY <1>1, FieldsAre DEF CommitLocalCall, FormInv, Formed
<1>3. PICK last : last = Len(v)
  OBVIOUS
<1>4. last \in DOMAIN v /\ v[last] \in Subscriptions
  BY <1>2, <1>3
<1>5. PICK sub : sub = [v[last] EXCEPT !.carrier = "handed"]
  OBVIOUS
<1>6. sub \in Subscriptions /\ sub.token = v[last].token /\ sub.call = v[last].call /\ sub.carrier = "handed"
  BY <1>4, <1>5, CarrierIs
<1>7. PICK u : u = [v EXCEPT ![last] = sub]
  OBVIOUS
<1>8. u \in Seq(Subscriptions) /\ SameSubs(v, u)
  BY <1>2, <1>4, <1>6, <1>7, Replaced DEF SameSubs
<1>9. /\ resp' = [resp EXCEPT ![r].pc = "streaming", ![r].subs[last].carrier = "handed"]
      /\ calls' = calls \cup {v[last].call} /\ held' = held \cup ({v[last].token} \ {None})
  BY <1>1, <1>3 DEF CommitLocalCall
<1>10. resp' = [resp EXCEPT ![r].pc = "streaming", ![r].subs = u]
  BY <1>1, <1>5, <1>7, <1>9 DEF FormInv
<1>11. Becomes(r, "streaming", resp[r].session, u, resp[r].queue)
  <2>1. "streaming" \in Active
    BY DEF Active
  <2> QED
    BY <1>8, <1>10, <2>1, PointSteps
<1> QED
  BY <1>1, <1>4, <1>8, <1>9, <1>11

\* An active response has a session.
LEMMA SessionIs ==
  ASSUME FormInv, NEW r \in Responses, resp[r].pc \in Active
  PROVE  resp[r].session \in Sessions /\ ThreadOf(r) \in Threads
<1>1. resp[r].session \in Directories \X Threads
  BY DEF FormInv, Formed, Sessions
<1> QED
  BY <1>1 DEF ThreadOf, Sessions

\* No step spoils the form of a response.
LEMMA FormStep ==
  ASSUME FormInv, BrokerInv, BrokerInv', NEW r \in Responses, Step(r)
  PROVE  FormInv'
<1>1. ASSUME NEW s \in Sessions, Activate(r, s) PROVE FormInv'
  BY <1>1, EnterIs, FormBy
<1>2. CASE PrepareShellCommentary(r)
  <2>1. resp[r].session \in Sessions
    BY <1>2, SessionIs DEF PrepareShellCommentary, Active
  <2> QED
    BY <1>2, <2>1, EnterIs, FormBy
<1>3. CASE Refuse(r)
  BY <1>3, EnterIs, FormBy DEF Active, Early
<1>4. ASSUME resp[r].pc \in Active, NEW p, NEW u, NEW q, Becomes(r, p, resp[r].session, u, q), p \notin Early,
             p = "lowered" => u # <<>>
      PROVE  FormInv'
  BY <1>4, SessionIs, FormBy
<1>5. CASE DrainCommentarySession(r)
  <2>1. resp[r].pc \in Active
    BY <1>5 DEF DrainCommentarySession, Active
  <2>2. PICK q : Becomes(r, "prepared", resp[r].session, resp[r].subs, q)
    BY <1>5, DrainsAre
  <2> QED
    BY <1>4, <2>1, <2>2 DEF Early
<1>6. CASE DrainThread(r)
  <2>1. resp[r].pc \in Active
    BY <1>6 DEF DrainThread, Active
  <2>2. PICK q : Becomes(r, "threadDraining", resp[r].session, resp[r].subs, q)
    BY <1>6, DrainsAre
  <2> QED
    BY <1>4, <2>1, <2>2 DEF Early
<1>7. ASSUME NEW i \in DOMAIN resp[r].subs, DrainCall(r, i) PROVE FormInv'
  <2>1. resp[r].pc \in Active
    BY <1>7 DEF DrainCall, Active
  <2>2. PICK q, u : Becomes(r, "draining", resp[r].session, u, q)
    BY <1>7, DrainsAre
  <2> QED
    BY <1>4, <2>1, <2>2 DEF Early
<1>8. ASSUME NEW c \in Calls, LowerCall(r, c) PROVE FormInv'
  <2>1. resp[r].pc \in Active
    BY <1>8 DEF LowerCall, Active
  <2>2. PICK u : Becomes(r, "lowered", resp[r].session, u, resp[r].queue) /\ u # <<>>
    BY <1>8, LowerIs DEF Lowered
  <2> QED
    BY <1>4, <2>1, <2>2 DEF Early
<1>9. CASE CommitLocalCall(r)
  <2>1. resp[r].pc \in Active
    BY <1>9 DEF CommitLocalCall, Active
  <2>2. PICK u : Becomes(r, "streaming", resp[r].session, u, resp[r].queue)
    BY <1>9, CommitIs
  <2> QED
    BY <1>4, <2>1, <2>2 DEF Early
<1>10. CASE Created(r) \/ Streaming(r) \/ Fail(r) \/ Terminal(r) \/ ReleaseCommentarySubscriptions(r) \/ Close(r)
  <2>1. resp[r].pc \in Active
    BY <1>10 DEF Created, Streaming, Fail, Terminal, ReleaseCommentarySubscriptions, Close, Active
  <2>2. PICK p, q : /\ p \in {"created", "streaming", "failed", "draining", "released", "closed"}
                    /\ Becomes(r, p, resp[r].session, resp[r].subs, q)
    BY <1>10, PlainIs
  <2> QED
    BY <1>4, <2>1, <2>2 DEF Early
<1>11. CASE Render(r)
  <2>1. resp[r].pc \in {"created", "draining", "threadDraining"}
    BY <1>11 DEF Render
  <2>2. Becomes(r, resp[r].pc, resp[r].session, resp[r].subs, Tail(resp[r].queue))
    BY <1>11, PlainIs
  <2>3. resp[r].pc \in Active /\ resp[r].pc \notin Early /\ resp[r].pc # "lowered"
    BY <2>1 DEF Active, Early
  <2> QED
    BY <1>4, <2>2, <2>3
<1> QED
  BY <1>1, <1>2, <1>3, <1>5, <1>6, <1>7, <1>8, <1>9, <1>10, <1>11 DEF Step

-----------------------------------------------------------------------------
(* Who owns the routes.                                                    *)

Gone == {"released", "closed"}

\* A response keeps its subscriptions and its session with them, and when it is
\* gone no route is left that it never handed off.
Keeps(q) ==
  /\ SameSubs(resp[q].subs, resp'[q].subs)
  /\ resp[q].subs # <<>> => resp'[q].session = resp[q].session
  /\ resp'[q].pc \in Gone /\ resp[q].pc \notin Gone =>
       \A i \in DOMAIN resp[q].subs : resp[q].subs[i].carrier = "prepared" =>
         resp[q].subs[i].token \notin DOMAIN routes'

\* A token is the call's and the session's.
Matched(r, i) ==
  LET sub == resp[r].subs[i] IN
  sub.token # None =>
    /\ sub.token \in 1..minted
    /\ sub.token \in DOMAIN routes =>
         routes[sub.token].call = sub.call /\ routes[sub.token].session = resp[r].session

\* The parts of the invariant.
LEMMA OwnerParts ==
  ASSUME BrokerInv
  PROVE  OwnerInv <=> /\ \A r \in Responses : \A i \in DOMAIN resp[r].subs : Matched(r, i)
                      /\ ThreadsOwn /\ CallsOwn
<1>1. \A t \in DOMAIN routes : Regular(t, routes[t])
  BY DEF BrokerInv
<1> QED
  BY <1>1, OwnedParts DEF OwnerInv, Matched

\* The parts of the invariant after the step.
LEMMA OwnerPartsNext ==
  ASSUME BrokerInv', (\A r \in Responses : \A i \in DOMAIN resp[r].subs : Matched(r, i))',
         ThreadsOwn', CallsOwn'
  PROVE  OwnerInv'
<1>1. \A t \in DOMAIN routes' : routes'[t].complete => routes'[t].events # <<>>
  BY DEF BrokerInv, Regular
<1>2. RoutesAreOwned'
  BY <1>1 DEF RoutesAreOwned, ThreadsOwn, CallsOwn, ThreadOwns, CallOwns
<1> QED
  BY <1>2 DEF OwnerInv, Matched

\* What a step has to show about its response.
LEMMA OwnerKept ==
  ASSUME FormInv, BrokerInv, OwnerInv, BrokerMoves, \A q \in Responses : Keeps(q),
         \A t \in DOMAIN routes' : t \notin DOMAIN routes => routes'[t].call = None
  PROVE  OwnerInv'
<1>1. ASSUME NEW r \in Responses, NEW i \in DOMAIN resp'[r].subs
      PROVE  Matched(r, i)'
  <2>1. /\ i \in DOMAIN resp[r].subs /\ resp'[r].subs[i].token = resp[r].subs[i].token
        /\ resp'[r].subs[i].call = resp[r].subs[i].call
    BY <1>1 DEF Keeps, SameSubs
  <2>2. Matched(r, i)
    BY <2>1, OwnerParts
  <2>3. resp'[r].session = resp[r].session
    BY <2>1 DEF Keeps
  <2>4. \A t \in 1..minted : t \in DOMAIN routes' => t \in DOMAIN routes /\ routes'[t].call = routes[t].call
    BY DEF BrokerMoves, Evolves
  <2>5. resp[r].subs[i].call # None
    <3>1. resp[r].subs[i] \in Subscriptions
      BY <2>1, FieldsAre
    <3> QED
      BY <3>1, Limits DEF Subscriptions
  <2>6. 1..minted \subseteq 1..minted'
    BY DEF BrokerMoves, Evolves
  <2> QED
    BY <2>1, <2>2, <2>3, <2>4, <2>5, <2>6 DEF Matched, BrokerMoves, SessionsStay
<1>2. ASSUME NEW t \in DOMAIN routes', routes'[t].call # None
      PROVE  CallOwns(t)'
  <2>1. t \in DOMAIN routes /\ routes[t].call # None
    BY <1>2 DEF BrokerMoves, Evolves
  <2>2. PICK r \in Responses : \E i \in DOMAIN resp[r].subs :
          /\ resp[r].subs[i].token = t
          /\ resp[r].subs[i].carrier # "prepared" \/ resp[r].pc \notin Gone
    BY <2>1, OwnerParts DEF CallsOwn, CallOwns, Gone
  <2>3. PICK i \in DOMAIN resp[r].subs :
          /\ resp[r].subs[i].token = t
          /\ resp[r].subs[i].carrier # "prepared" \/ resp[r].pc \notin Gone
    BY <2>2
  <2>4. i \in DOMAIN resp'[r].subs /\ resp'[r].subs[i].token = t
    BY <2>3 DEF Keeps, SameSubs
  <2>5. resp'[r].subs[i].carrier # "prepared" \/ resp'[r].pc \notin Gone
    BY <1>2, <2>3 DEF Keeps, SameSubs
  <2> QED
    BY <2>4, <2>5 DEF CallOwns, Gone
<1>3. ThreadsOwn' /\ BrokerInv'
  BY DEF BrokerMoves
<1>4. CallsOwn'
  BY <1>2 DEF CallsOwn
<1> QED
  BY <1>1, <1>3, <1>4, OwnerPartsNext

\* Only the response r has to be looked at.
LEMMA KeepsOthers ==
  ASSUME FormInv, NEW r \in Responses, NEW p, NEW s, NEW u, NEW q, Becomes(r, p, s, u, q), Keeps(r)
  PROVE  \A o \in Responses : Keeps(o)
  BY DEF Becomes, Keeps, SameSubs

\* A response that is not gone after its step.
LEMMA KeepsActive ==
  ASSUME FormInv, NEW r \in Responses, NEW p, NEW u, NEW q, Becomes(r, p, resp[r].session, u, q),
         SameSubs(resp[r].subs, u), p \notin Gone \/ resp[r].pc \in Gone
  PROVE  \A o \in Responses : Keeps(o)
  BY KeepsOthers DEF Becomes, Keeps

\* A response without subscriptions.
LEMMA KeepsEarly ==
  ASSUME FormInv, NEW r \in Responses, NEW p, NEW s, NEW q, Becomes(r, p, s, <<>>, q), resp[r].subs = <<>>
  PROVE  \A o \in Responses : Keeps(o)
  BY KeepsOthers DEF Becomes, Keeps, SameSubs

\* Subscriptions are the same as themselves.
LEMMA SameSubsSelf == \A u : SameSubs(u, u)
  BY DEF SameSubs

\* A lowered call owns its route.
LEMMA LowerOwns ==
  ASSUME FormInv, BrokerInv, OwnerInv, NEW r \in Responses, NEW c \in Calls, LowerCall(r, c)
  PROVE  /\ BrokerMoves /\ OwnerInv'
         /\ \A t \in DOMAIN routes' :
              IF t \in DOMAIN routes THEN routes'[t] = routes[t]
                                     ELSE t = minted' /\ t > minted /\ routes'[t].events = <<>>
<1>1. Subscribe(resp[r].session, c) /\ resp[r].session \in Sessions
  BY SessionIs DEF LowerCall, Active
<1>2. ThreadsOwn /\ CallsOwn /\ \A q \in Responses : \A i \in DOMAIN resp[q].subs : Matched(q, i)
  BY OwnerParts
<1>3. /\ BrokerMoves
      /\ \A t \in DOMAIN routes' \cap DOMAIN routes : routes'[t] = routes[t]
      /\ IF minted' > minted
              THEN /\ minted' = minted + 1 /\ minted \in Nat /\ minted + 1 \notin DOMAIN routes
                   /\ DOMAIN routes' \subseteq DOMAIN routes \cup {minted + 1}
                   /\ routes'[minted + 1] = Route(resp[r].session, None, c)
              ELSE DOMAIN routes' \subseteq DOMAIN routes
  BY <1>1, <1>2, SubscribeMoves
<1>4. BrokerInv' /\ ThreadsOwn' /\ Evolves
  BY <1>3 DEF BrokerMoves
<1>0. PICK token, u : Lowered(r, c, token, u)
  BY <1>4, LowerIs
<1>5. /\ IF minted' > minted THEN token = minted' ELSE token = None
      /\ Becomes(r, "lowered", resp[r].session, u, resp[r].queue)
      /\ DOMAIN u = (DOMAIN resp[r].subs) \cup {Len(u)}
      /\ u[Len(u)].token = token /\ u[Len(u)].call = c
      /\ \A i \in DOMAIN resp[r].subs : u[i] = resp[r].subs[i]
  BY <1>0 DEF Lowered
<1>6. minted \in Nat /\ minted' \in Nat
  BY <1>4 DEF Evolves
<1>7. PICK x : x = Route(resp[r].session, None, c)
  OBVIOUS
<1>8. x.session = resp[r].session /\ x.call = c /\ x.events = <<>>
  BY <1>7 DEF Route
<1>9. /\ resp'[r].subs = u /\ resp'[r].session = resp[r].session /\ resp'[r].pc = "lowered"
      /\ \A o \in Responses : o # r => resp'[o] = resp[o]
  BY <1>5 DEF Becomes
<1>10. \A t \in DOMAIN routes' :
              IF t \in DOMAIN routes THEN routes'[t] = routes[t]
                                     ELSE t = minted' /\ t > minted /\ routes'[t] = x
  BY <1>3, <1>7
<1>11. ASSUME NEW q \in Responses, NEW i \in DOMAIN resp[q].subs
       PROVE  LET old == resp[q].subs[i] IN
              old.token # None =>
                /\ old.token \in 1..minted'
                /\ old.token \in DOMAIN routes' =>
                     routes'[old.token].call = old.call /\ routes'[old.token].session = resp[q].session
  <2>1. Matched(q, i)
    BY <1>2
  <2>2. 1..minted \subseteq 1..minted' /\ \A t \in 1..minted : ~(t > minted) /\ minted \in Nat
    BY <1>4 DEF Evolves
  <2> QED
    BY <1>10, <2>1, <2>2 DEF Matched
<1>12. ASSUME NEW q \in Responses, NEW i \in DOMAIN resp'[q].subs
       PROVE  Matched(q, i)'
  <2>1. CASE q # r
    BY <1>9, <1>11, <2>1 DEF Matched
  <2>2. CASE q = r /\ i \in DOMAIN resp[r].subs
    <3>1. resp'[q].subs[i] = resp[q].subs[i] /\ resp'[q].session = resp[q].session
      BY <1>5, <1>9, <2>2
    <3> QED
      BY <1>11, <2>2, <3>1 DEF Matched
  <2>3. CASE q = r /\ i = Len(u)
    <3>1. resp'[q].subs[i].token = token /\ resp'[q].subs[i].call = c /\ resp'[q].session = resp[r].session
      BY <1>5, <1>9, <2>3
    <3>2. token # None => token = minted' /\ minted' = minted + 1 /\ minted + 1 \notin DOMAIN routes
      BY <1>3, <1>5
    <3>3. token # None => token \in 1..minted'
      BY <1>6, <3>2
    <3> QED
      BY <1>8, <1>10, <3>1, <3>2, <3>3 DEF Matched
  <2> QED
    BY <1>5, <1>9, <2>1, <2>2, <2>3
<1>13. CallsOwn'
  <2> SUFFICES ASSUME NEW t \in DOMAIN routes', routes'[t].call # None
               PROVE  CallOwns(t)'
    BY DEF CallsOwn
  <2>1. CASE t \in DOMAIN routes
    <3>1. PICK q \in Responses : \E i \in DOMAIN resp[q].subs :
            /\ resp[q].subs[i].token = t
            /\ resp[q].subs[i].carrier # "prepared" \/ resp[q].pc \notin Gone
      BY <1>2, <1>10, <2>1 DEF CallsOwn, CallOwns, Gone
    <3>2. PICK i \in DOMAIN resp[q].subs :
            /\ resp[q].subs[i].token = t
            /\ resp[q].subs[i].carrier # "prepared" \/ resp[q].pc \notin Gone
      BY <3>1
    <3>3. i \in DOMAIN resp'[q].subs /\ resp'[q].subs[i] = resp[q].subs[i]
      BY <1>5, <1>9, <3>2
    <3>4. resp'[q].pc = resp[q].pc \/ resp'[q].pc \notin Gone
      BY <1>9 DEF Gone
    <3> QED
      BY <3>2, <3>3, <3>4 DEF CallOwns, Gone
  <2>2. CASE t \notin DOMAIN routes
    <3>1. t = minted' /\ minted' > minted
      BY <1>10, <2>2
    <3>2. Len(u) \in DOMAIN resp'[r].subs /\ resp'[r].subs[Len(u)].token = t
      BY <1>5, <1>9, <3>1
    <3> QED
      BY <1>9, <3>2 DEF CallOwns, Gone
  <2> QED
    BY <2>1, <2>2
<1>14. OwnerInv'
  BY <1>4, <1>12, <1>13, OwnerPartsNext
<1> QED
  BY <1>3, <1>8, <1>10, <1>14

\* The step keeps the subscriptions, or lowers one more call.
Subscribed(r) == (\A o \in Responses : Keeps(o)) \/ \E c \in Calls : LowerCall(r, c)

\* No step of a response leaves a route without an owner.
LEMMA OwnerStep ==
  ASSUME FormInv, BrokerInv, OwnerInv, NEW r \in Responses, Step(r)
  PROVE  BrokerMoves /\ OwnerInv' /\ Subscribed(r)
<1>1. ThreadsOwn
  BY OwnerParts
<1>2. ASSUME BrokerMoves, \A o \in Responses : Keeps(o), DOMAIN routes' \subseteq DOMAIN routes
      PROVE  BrokerMoves /\ OwnerInv' /\ Subscribed(r)
  BY <1>2, OwnerKept DEF Subscribed
<1>3. ASSUME NEW s \in Sessions, Activate(r, s) PROVE BrokerMoves /\ OwnerInv' /\ Subscribed(r)
  <2>1. BrokerMoves /\ UNCHANGED routes
    BY <1>1, <1>3, LessMoves DEF Activate, broker
  <2>2. \A o \in Responses : Keeps(o)
    BY <1>3, EnterIs, KeepsEarly, EarlyIs DEF Activate, Early
  <2> QED
    BY <1>2, <2>1, <2>2
<1>4. CASE PrepareShellCommentary(r)
  <2>1. resp[r].session \in Sessions /\ ThreadOf(r) \in Threads
    BY <1>4, SessionIs DEF PrepareShellCommentary, Active
  <2>2. /\ BrokerMoves
        /\ \A t \in DOMAIN routes' : t \notin DOMAIN routes => routes'[t].call = None
    BY <1>1, <1>4, <2>1, SubscribeThreadMoves DEF PrepareShellCommentary
  <2>3. \A o \in Responses : Keeps(o)
    BY <1>4, EnterIs, KeepsEarly, EarlyIs DEF PrepareShellCommentary, Early
  <2> QED
    BY <2>2, <2>3, OwnerKept DEF Subscribed
<1>5. CASE Refuse(r)
  <2>1. BrokerMoves /\ UNCHANGED routes
    BY <1>1, <1>5, LessMoves DEF Refuse, broker
  <2>2. \A o \in Responses : Keeps(o)
    BY <1>5, EnterIs, KeepsEarly, EarlyIs DEF Refuse, Early
  <2> QED
    BY <1>2, <2>1, <2>2
<1>6. ASSUME NEW S \in SUBSET DOMAIN Live, Drain(S), \A o \in Responses : Keeps(o)
      PROVE  BrokerMoves /\ OwnerInv' /\ Subscribed(r)
  <2>1. BrokerMoves
    BY <1>1, <1>6, LessMoves
  <2>2. DOMAIN routes' \subseteq DOMAIN routes
    BY <1>6, DrainKeeps, LiveIs
  <2> QED
    BY <1>2, <1>6, <2>1, <2>2
<1>7. CASE DrainCommentarySession(r)
  <2>1. PICK q : Becomes(r, "prepared", resp[r].session, resp[r].subs, q)
    BY <1>7, DrainsAre
  <2>2. \A o \in Responses : Keeps(o)
    BY <2>1, SameSubsSelf, KeepsActive DEF Gone
  <2> QED
    BY <1>6, <1>7, <2>2, DrainsAre
<1>8. CASE DrainThread(r)
  <2>1. PICK q : Becomes(r, "threadDraining", resp[r].session, resp[r].subs, q)
    BY <1>8, DrainsAre
  <2>2. \A o \in Responses : Keeps(o)
    BY <2>1, SameSubsSelf, KeepsActive DEF Gone
  <2> QED
    BY <1>6, <1>8, <2>2, DrainsAre
<1>9. ASSUME NEW i \in DOMAIN resp[r].subs, DrainCall(r, i) PROVE BrokerMoves /\ OwnerInv' /\ Subscribed(r)
  <2>1. PICK q, u : Becomes(r, "draining", resp[r].session, u, q) /\ SameSubs(resp[r].subs, u)
    BY <1>9, DrainsAre
  <2>2. \A o \in Responses : Keeps(o)
    BY <2>1, KeepsActive DEF Gone
  <2> QED
    BY <1>6, <1>9, <2>2, DrainsAre
<1>10. CASE CommitLocalCall(r)
  <2>1. BrokerMoves /\ UNCHANGED routes
    BY <1>1, <1>10, LessMoves DEF CommitLocalCall, broker
  <2>2. PICK u : Becomes(r, "streaming", resp[r].session, u, resp[r].queue) /\ SameSubs(resp[r].subs, u)
    BY <1>10, CommitIs
  <2>3. \A o \in Responses : Keeps(o)
    BY <2>2, KeepsActive DEF Gone
  <2> QED
    BY <1>2, <2>1, <2>3
<1>11. CASE Created(r) \/ Streaming(r) \/ Fail(r) \/ Terminal(r) \/ Close(r) \/ Render(r)
  <2>1. BrokerMoves /\ UNCHANGED routes
    BY <1>1, <1>11, LessMoves DEF Created, Streaming, Fail, Terminal, Close, Render, broker
  <2>2. PICK p, q : /\ Becomes(r, p, resp[r].session, resp[r].subs, q) /\ (p \notin Gone \/ resp[r].pc \in Gone)
    BY <1>11, PlainIs DEF Render, Close, Gone
  <2>3. \A o \in Responses : Keeps(o)
    BY <2>2, SameSubsSelf, KeepsActive
  <2> QED
    BY <1>2, <2>1, <2>3
<1>12. CASE ReleaseCommentarySubscriptions(r)
  <2>1. Cancelled(Unhanded(r)) /\ Becomes(r, "released", resp[r].session, resp[r].subs, resp[r].queue)
    BY <1>12, PlainIs DEF ReleaseCommentarySubscriptions
  <2>2. BrokerMoves /\ DOMAIN routes' = DOMAIN routes \ Unhanded(r)
    BY <1>1, <2>1, LessMoves, CancelKeeps
  <2>3. None \notin DOMAIN routes
    BY Limits DEF BrokerInv
  <2>4. \A i \in DOMAIN resp[r].subs : resp[r].subs[i].carrier = "prepared" =>
          resp[r].subs[i].token \notin DOMAIN routes'
    BY <2>2, <2>3 DEF Unhanded
  <2>5. Keeps(r)
    BY <2>1, <2>4, SameSubsSelf DEF Keeps, Becomes
  <2>6. \A o \in Responses : Keeps(o)
    BY <2>1, <2>5, KeepsOthers
  <2> QED
    BY <1>2, <2>2, <2>6
<1>13. ASSUME NEW c \in Calls, LowerCall(r, c) PROVE BrokerMoves /\ OwnerInv' /\ Subscribed(r)
  BY <1>13, LowerOwns DEF Subscribed
<1> QED
  BY <1>3, <1>4, <1>5, <1>7, <1>8, <1>9, <1>10, <1>11, <1>12, <1>13 DEF Step

\* Publishers, time and shutdown.
Outside(t) == (\E text \in {"text", "oversized"} : Send(t, text)) \/ EndProgram(t) \/ Elapse(t)

\* They leave every route with its owner.
LEMMA OutsideOwner ==
  ASSUME FormInv, BrokerInv, OwnerInv,
         (\E t \in Tokens : Outside(t)) \/ BeginClose \/ FinishClose \/ UNCHANGED vars
  PROVE  BrokerMoves /\ OwnerInv' /\ UNCHANGED resp
<1>1. ThreadsOwn /\ RoutesAreOwned
  BY OwnerParts DEF OwnerInv
<1>2. UNCHANGED resp
  BY DEF Outside, Send, EndProgram, Elapse, BeginClose, FinishClose, vars
<1>3. \A o \in Responses : Keeps(o)
  BY <1>2, SameSubsSelf DEF Keeps
<1>4. ASSUME BrokerMoves, DOMAIN routes' \subseteq DOMAIN routes
      PROVE  BrokerMoves /\ OwnerInv' /\ UNCHANGED resp
  BY <1>2, <1>3, <1>4, OwnerKept
<1>5. ASSUME NEW t, NEW text, NEW complete \in BOOLEAN, Publish(t, text, complete)
      PROVE  BrokerMoves /\ DOMAIN routes' \subseteq DOMAIN routes
  BY <1>1, <1>5, PublishMoves DEF Published
<1>6. ASSUME UNCHANGED broker
      PROVE  BrokerMoves /\ DOMAIN routes' \subseteq DOMAIN routes
  BY <1>1, <1>6, LessMoves DEF broker
<1>7. ASSUME NEW t \in Tokens, NEW text, Send(t, text) PROVE BrokerMoves /\ DOMAIN routes' \subseteq DOMAIN routes
  BY <1>5, <1>7 DEF Send
<1>8. ASSUME NEW t \in Tokens, EndProgram(t) PROVE BrokerMoves /\ DOMAIN routes' \subseteq DOMAIN routes
  BY <1>5, <1>6, <1>8 DEF EndProgram
<1>9. ASSUME NEW t \in Tokens, Elapse(t) PROVE BrokerMoves /\ DOMAIN routes' \subseteq DOMAIN routes
  BY <1>1, <1>9, LessMoves DEF Elapse
<1>10. CASE BeginClose
  BY <1>4, <1>6, <1>10 DEF BeginClose
<1>11. CASE FinishClose
  BY <1>1, <1>4, <1>11, FinishCloseMoves
<1>12. CASE UNCHANGED vars
  BY <1>4, <1>6, <1>12 DEF vars
<1>13. ASSUME NEW t \in Tokens, Outside(t) PROVE BrokerMoves /\ DOMAIN routes' \subseteq DOMAIN routes
  BY <1>7, <1>8, <1>9, <1>13 DEF Outside
<1> QED
  BY <1>4, <1>10, <1>11, <1>12, <1>13

\* The steps of the specification.
LEMMA NextCases ==
  ASSUME [Next]_vars
  PROVE  \/ \E r \in Responses : Step(r)
         \/ (\E t \in Tokens : Outside(t)) \/ BeginClose \/ FinishClose \/ UNCHANGED vars
  BY DEF Next, Outside

RouteInv == FormInv /\ BrokerInv /\ OwnerInv

\* It holds at first.
LEMMA RouteInit ==
  ASSUME Init
  PROVE  RouteInv
<1>1. /\ DOMAIN routes = {} /\ DOMAIN threads = {} /\ late = {} /\ eventCount = 0 /\ threadIDCount = 0
      /\ brokerClosed = FALSE /\ minted = 0
  BY DEF Init
<1>2. Waiting(routes, DOMAIN routes) = {} /\ Retained = {}
  BY <1>1 DEF Waiting, Retained
<1>3. Accounting
  <2>1. Cardinality({}) = 0 /\ 0 <= MaxEvents /\ 0 <= MaxThreadIDs /\ 0 <= MaxRoutes
    BY FS_EmptySet, Limits
  <2>2. Queued(routes, DOMAIN routes) = 0 /\ Cardinality(Retained) = 0
    BY <1>2, <2>1 DEF Queued
  <2> QED
    BY <1>1, <2>1, <2>2 DEF Accounting
<1>4. BrokerInv
  BY <1>1, <1>2, <1>3, FS_EmptySet DEF BrokerInv
<1>5. /\ DOMAIN resp = Responses /\ \A r \in Responses : resp[r] = Idle
  BY DEF Init
<1>6. Formed(Idle) /\ Idle.subs = <<>>
  <2>1. <<>> \in Seq(Subscriptions) /\ <<>> \in Seq(Events)
    OBVIOUS
  <2>2. /\ Idle \in Transforms /\ Idle.pc = "idle" /\ Idle.subs = <<>> /\ Idle.queue = <<>>
    BY <2>1 DEF Idle, Transforms
  <2> QED
    BY <2>2 DEF Formed, Active
<1>7. FormInv
  BY <1>5, <1>6 DEF FormInv
<1>8. OwnerInv
  BY <1>1, <1>5, <1>6 DEF OwnerInv, RoutesAreOwned
<1> QED
  BY <1>4, <1>7, <1>8 DEF RouteInv

\* Every step keeps it.
LEMMA RouteNext ==
  ASSUME RouteInv, [Next]_vars
  PROVE  RouteInv' /\ BrokerMoves
<1>1. ASSUME NEW r \in Responses, Step(r) PROVE RouteInv' /\ BrokerMoves
  <2>1. BrokerMoves /\ OwnerInv'
    BY <1>1, OwnerStep DEF RouteInv
  <2>2. BrokerInv'
    BY <2>1 DEF BrokerMoves
  <2>3. FormInv'
    BY <1>1, <2>2, FormStep DEF RouteInv
  <2> QED
    BY <2>1, <2>2, <2>3 DEF RouteInv
<1>2. CASE (\E t \in Tokens : Outside(t)) \/ BeginClose \/ FinishClose \/ UNCHANGED vars
  <2>1. BrokerMoves /\ OwnerInv' /\ UNCHANGED resp
    BY <1>2, OutsideOwner DEF RouteInv
  <2>2. FormInv'
    BY <2>1 DEF FormInv, RouteInv
  <2> QED
    BY <2>1, <2>2 DEF RouteInv, BrokerMoves
<1> QED
  BY <1>1, <1>2, NextCases

\* The broker's books: the counters that admit publications are exact, and
\* routes, threads, queued events and retained identities stay in their limits,
\* for any number of requests, routes and publishers.
THEOREM CapacityIsAccounted == Spec => []Accounting
<1>1. Init => RouteInv
  BY RouteInit
<1>2. RouteInv /\ [Next]_vars => RouteInv'
  BY RouteNext
<1>3. RouteInv => Accounting
  BY DEF RouteInv, BrokerInv
<1> QED
  BY <1>1, <1>2, <1>3, PTL DEF Spec

\* Every route has an owner: its thread, whose record publish may dereference, or
\* the response that lowered the call and has not left without handing it off.
THEOREM RoutesHaveOwners == Spec => []RoutesAreOwned
<1>1. Init => RouteInv
  BY RouteInit
<1>2. RouteInv /\ [Next]_vars => RouteInv'
  BY RouteNext
<1>3. RouteInv => RoutesAreOwned
  BY DEF RouteInv, OwnerInv
<1> QED
  BY <1>1, <1>2, <1>3, PTL DEF Spec

-----------------------------------------------------------------------------
(* The responses of a session.                                             *)

\* The sessions are as full as they were.
LEMMA CountKept ==
  ASSUME CountInv, \A o \in Responses : /\ resp'[o].pc \in Active <=> resp[o].pc \in Active
                                        /\ resp[o].pc \in Active => resp'[o].session = resp[o].session,
         UNCHANGED <<activeSessions, proxyClosed, brokerClosed>>
  PROVE  CountInv'
<1>1. \A s : Present(s)' = Present(s)
  BY DEF Present
<1>2. [s \in Sessions |-> Cardinality(Present(s))]' = [s \in Sessions |-> Cardinality(Present(s))]
  BY <1>1
<1> QED
  BY <1>1, <1>2 DEF CountInv

\* A response that stays in its session.
LEMMA CountStays ==
  ASSUME FormInv, CountInv, NEW r \in Responses, NEW p, NEW u, NEW q, Becomes(r, p, resp[r].session, u, q),
         resp[r].pc \in Active, p \in Active, UNCHANGED <<activeSessions, proxyClosed, brokerClosed>>
  PROVE  CountInv'
<1>1. \A o \in Responses : /\ resp'[o].pc \in Active <=> resp[o].pc \in Active
                           /\ resp'[o].session = resp[o].session
  BY DEF Becomes
<1> QED
  BY <1>1, CountKept

\* A response that leaves it.
LEMMA CountLeaves ==
  ASSUME FormInv, CountInv, NEW r \in Responses, NEW s, NEW u, NEW q, Becomes(r, "closed", s, u, q),
         resp[r].pc \in Active, activeSessions' = Deactivated(resp[r].session), UNCHANGED <<proxyClosed, brokerClosed>>
  PROVE  CountInv'
<1>1. PICK z \in Sessions : z = resp[r].session
  BY SessionIs
<1>2. "closed" \notin Active
  BY DEF Active
<1>3. Present(z)' = Present(z) \ {r} /\ r \in Present(z) /\ \A o \in Sessions : o # z => Present(o)' = Present(o)
  BY <1>1, <1>2 DEF Present, Becomes
<1>4. \A o \in Sessions : IsFiniteSet(Present(o))
  BY DEF CountInv
<1>5. /\ IsFiniteSet(Present(z)') /\ Cardinality(Present(z)') = Cardinality(Present(z)) - 1
      /\ Cardinality(Present(z)) \in Nat /\ Cardinality(Present(z)') \in Nat
  BY <1>3, <1>4, FS_RemoveElement, FS_CardinalityType
<1>6. ASSUME ~brokerClosed
      PROVE  activeSessions' = [o \in Sessions |-> Cardinality(Present(o)')]
  <2>1. activeSessions = [o \in Sessions |-> Cardinality(Present(o))]
    BY <1>6 DEF CountInv
  <2>2. activeSessions' = [activeSessions EXCEPT ![z] = IF activeSessions[z] <= 1 THEN 0 ELSE activeSessions[z] - 1]
    BY <1>1 DEF Deactivated
  <2>3. activeSessions[z] = Cardinality(Present(z))
    BY <2>1
  <2>4. activeSessions'[z] = Cardinality(Present(z)')
    BY <1>5, <2>1, <2>2, <2>3
  <2>5. \A o \in Sessions : activeSessions'[o] = Cardinality(Present(o)')
    BY <1>3, <2>1, <2>2, <2>4
  <2>6. activeSessions' = [o \in Sessions |-> activeSessions'[o]]
    BY <2>1, <2>2
  <2> QED
    BY <2>5, <2>6
<1>7. \A o \in Sessions : IsFiniteSet(Present(o)')
  BY <1>3, <1>4, <1>5
<1> QED
  BY <1>6, <1>7 DEF CountInv

\* A response that enters it.
LEMMA CountEnters ==
  ASSUME FormInv, CountInv, NEW r \in Responses, NEW z \in Sessions, Activate(r, z)
  PROVE  CountInv'
<1>1. Becomes(r, "activated", z, <<>>, <<>>) /\ "activated" \in Active /\ resp[r].pc \notin Active
  BY EnterIs DEF Active, Activate
<1>2. ~brokerClosed /\ UNCHANGED <<proxyClosed, brokerClosed>>
  BY DEF Activate, CountInv, broker
<1>3. Present(z)' = Present(z) \cup {r} /\ r \notin Present(z) /\ \A o \in Sessions : o # z => Present(o)' = Present(o)
  BY <1>1 DEF Present, Becomes
<1>4. \A o \in Sessions : IsFiniteSet(Present(o))
  BY DEF CountInv
<1>5. /\ IsFiniteSet(Present(z)') /\ Cardinality(Present(z)') = Cardinality(Present(z)) + 1
  BY <1>3, <1>4, FS_AddElement
<1>6. activeSessions' = [o \in Sessions |-> Cardinality(Present(o)')]
  <2>1. activeSessions = [o \in Sessions |-> Cardinality(Present(o))]
    BY <1>2 DEF CountInv
  <2>2. activeSessions' = [activeSessions EXCEPT ![z] = activeSessions[z] + 1]
    BY DEF Activate
  <2>3. activeSessions[z] = Cardinality(Present(z))
    BY <2>1
  <2>4. activeSessions'[z] = Cardinality(Present(z)')
    BY <1>5, <2>1, <2>2, <2>3
  <2>5. \A o \in Sessions : activeSessions'[o] = Cardinality(Present(o)')
    BY <1>3, <2>1, <2>2, <2>4
  <2>6. activeSessions' = [o \in Sessions |-> activeSessions'[o]]
    BY <2>1, <2>2
  <2> QED
    BY <2>5, <2>6
<1>7. \A o \in Sessions : IsFiniteSet(Present(o)')
  BY <1>3, <1>4, <1>5
<1> QED
  BY <1>2, <1>6, <1>7 DEF CountInv

\* Every step counts the responses of a session.
LEMMA CountStep ==
  ASSUME FormInv, BrokerInv, BrokerInv', CountInv, NEW r \in Responses, Step(r)
  PROVE  CountInv'
<1>1. ASSUME resp[r].pc \in Active, NEW p \in Active, NEW u, NEW q, Becomes(r, p, resp[r].session, u, q),
             UNCHANGED <<proxy, brokerClosed>>
      PROVE  CountInv'
  BY <1>1, CountStays DEF proxy
<1>2. ASSUME NEW s \in Sessions, Activate(r, s) PROVE CountInv'
  BY <1>2, CountEnters
<1>3. CASE Refuse(r) \/ Close(r)
  <2>1. /\ resp[r].pc \in Active /\ activeSessions' = Deactivated(resp[r].session)
        /\ UNCHANGED <<proxyClosed, brokerClosed>>
    BY <1>3 DEF Refuse, Close, Active, broker
  <2>2. PICK s, u, q : Becomes(r, "closed", s, u, q)
    BY <1>3, EnterIs, PlainIs
  <2> QED
    BY <2>1, <2>2, CountLeaves
<1>4. CASE PrepareShellCommentary(r)
  <2>1. resp[r].pc \in Active /\ "subscribed" \in Active /\ UNCHANGED <<proxy, brokerClosed>>
    BY <1>4 DEF PrepareShellCommentary, SubscribeThread, Active
  <2> QED
    BY <1>1, <1>4, <2>1, EnterIs
<1>5. CASE DrainCommentarySession(r)
  <2>1. resp[r].pc \in Active /\ "prepared" \in Active /\ UNCHANGED <<proxy, brokerClosed>>
    BY <1>5 DEF DrainCommentarySession, Drain, Active
  <2> QED
    BY <1>1, <1>5, <2>1, DrainsAre
<1>6. CASE DrainThread(r)
  <2>1. resp[r].pc \in Active /\ "threadDraining" \in Active /\ UNCHANGED <<proxy, brokerClosed>>
    BY <1>6 DEF DrainThread, Drain, Active
  <2> QED
    BY <1>1, <1>6, <2>1, DrainsAre
<1>7. ASSUME NEW i \in DOMAIN resp[r].subs, DrainCall(r, i) PROVE CountInv'
  <2>1. resp[r].pc \in Active /\ "draining" \in Active /\ UNCHANGED <<proxy, brokerClosed>>
    BY <1>7 DEF DrainCall, Drain, Active
  <2>2. PICK q, u : Becomes(r, "draining", resp[r].session, u, q)
    BY <1>7, DrainsAre
  <2> QED
    BY <1>1, <2>1, <2>2
<1>8. ASSUME NEW c \in Calls, LowerCall(r, c) PROVE CountInv'
  <2>1. resp[r].pc \in Active /\ "lowered" \in Active /\ UNCHANGED <<proxy, brokerClosed>>
    BY <1>8 DEF LowerCall, Subscribe, Active
  <2>2. PICK u : Becomes(r, "lowered", resp[r].session, u, resp[r].queue)
    BY <1>8, LowerIs DEF Lowered
  <2> QED
    BY <1>1, <2>1, <2>2
<1>9. CASE CommitLocalCall(r)
  <2>1. resp[r].pc \in Active /\ "streaming" \in Active /\ UNCHANGED <<proxy, brokerClosed>>
    BY <1>9 DEF CommitLocalCall, broker, Active
  <2> QED
    BY <1>1, <1>9, <2>1, CommitIs
<1>10. CASE Created(r) \/ Streaming(r) \/ Fail(r) \/ Terminal(r) \/ ReleaseCommentarySubscriptions(r) \/ Render(r)
  <2>1. resp[r].pc \in Active /\ UNCHANGED <<proxy, brokerClosed>>
    BY <1>10 DEF Created, Streaming, Fail, Terminal, ReleaseCommentarySubscriptions, Cancelled, Render, Active, broker
  <2>2. PICK p \in Active : \E q : Becomes(r, p, resp[r].session, resp[r].subs, q)
    <3>1. {"created", "streaming", "failed", "draining", "released"} \subseteq Active
      BY DEF Active
    <3> QED
      BY <1>10, <2>1, <3>1, PlainIs
  <2> QED
    BY <1>1, <2>1, <2>2
<1> QED
  BY <1>2, <1>3, <1>4, <1>5, <1>6, <1>7, <1>8, <1>9, <1>10 DEF Step

\* Nobody else enters or leaves a session; shutdown forgets them all.
LEMMA CountOutside ==
  ASSUME CountInv, UNCHANGED resp, BrokerInv,
         (\E t \in Tokens : Outside(t)) \/ BeginClose \/ FinishClose \/ UNCHANGED vars
  PROVE  CountInv'
<1>1. \A s : Present(s)' = Present(s)
  BY DEF Present
<1>2. CASE FinishClose
  BY <1>1, <1>2 DEF CountInv, FinishClose
<1>3. CASE BeginClose
  <2>1. UNCHANGED <<activeSessions, brokerClosed>> /\ proxyClosed'
    BY <1>3 DEF BeginClose, broker
  <2>2. [s \in Sessions |-> Cardinality(Present(s))]' = [s \in Sessions |-> Cardinality(Present(s))]
    BY <1>1
  <2> QED
    BY <1>1, <2>1, <2>2 DEF CountInv
<1>4. CASE UNCHANGED <<activeSessions, proxyClosed, brokerClosed>>
  BY <1>4, CountKept
<1>5. ASSUME NEW t, Outside(t) PROVE UNCHANGED <<activeSessions, proxyClosed, brokerClosed>>
  BY <1>5 DEF Outside, Send, EndProgram, Elapse, Publish, proxy, broker
<1>6. ASSUME UNCHANGED vars PROVE UNCHANGED <<activeSessions, proxyClosed, brokerClosed>>
  BY <1>6 DEF vars, proxy, broker
<1> QED
  BY <1>2, <1>3, <1>4, <1>5, <1>6

-----------------------------------------------------------------------------
(* What every step keeps of the publications.                              *)

\* The threads keep the identities they retain.
IdsGrow ==
  /\ DOMAIN threads \subseteq DOMAIN threads'
  /\ \A th \in DOMAIN threads : threads[th].ids \subseteq threads'[th].ids

\* No event comes to wait on a route.
Quieter ==
  \A t \in DOMAIN routes' :
    \/ routes'[t].events = <<>>
    \/ t \in DOMAIN routes /\ routes'[t].events = routes[t].events

\* The step of a response publishes nothing and forgets no identity.
LEMMA StepQuiet ==
  ASSUME FormInv, BrokerInv, OwnerInv, NEW r \in Responses, Step(r)
  PROVE  Quieter /\ IdsGrow /\ UNCHANGED brokerClosed /\ calls \subseteq calls'
<1> USE DEF Quieter, IdsGrow
<1>1. ThreadsOwn
  BY OwnerParts
<1>2. ASSUME UNCHANGED broker PROVE Quieter /\ IdsGrow /\ UNCHANGED brokerClosed
  BY <1>2 DEF broker
<1>3. ASSUME NEW s \in Sessions, Activate(r, s) PROVE Quieter /\ IdsGrow /\ UNCHANGED <<brokerClosed, calls>>
  BY <1>2, <1>3 DEF Activate, durable
<1>4. CASE Refuse(r) \/ Created(r) \/ Render(r) \/ Streaming(r) \/ Fail(r) \/ Terminal(r) \/ Close(r)
  <2>1. UNCHANGED <<broker, calls>>
    BY <1>4 DEF Refuse, Created, Render, Streaming, Fail, Terminal, Close, durable
  <2> QED
    BY <1>2, <2>1
<1>5. CASE CommitLocalCall(r)
  <2>1. UNCHANGED broker /\ calls \subseteq calls'
    BY <1>5 DEF CommitLocalCall
  <2> QED
    BY <1>2, <2>1
<1>6. CASE PrepareShellCommentary(r)
  <2>1. resp[r].session \in Sessions /\ ThreadOf(r) \in Threads
    BY <1>6, SessionIs DEF PrepareShellCommentary, Active
  <2>2. SubscribeThread(resp[r].session, ThreadOf(r)) /\ UNCHANGED calls
    BY <1>6 DEF PrepareShellCommentary, durable
  <2> QED
    BY <1>1, <2>1, <2>2, SubscribeThreadMoves
<1>7. ASSUME NEW S \in SUBSET DOMAIN Live, Drain(S) PROVE Quieter /\ IdsGrow /\ UNCHANGED brokerClosed
  <2>1. \A t \in DOMAIN routes : routes[t] \in Routes
    BY DEF BrokerInv, Regular
  <2>2. DOMAIN routes' \subseteq DOMAIN routes
    BY <1>7, DrainKeeps, LiveIs
  <2>3. \A t \in DOMAIN routes' : routes'[t].events = <<>> \/ routes'[t].events = routes[t].events
    <3> TAKE t \in DOMAIN routes'
    <3>1. routes[t] \in Routes
      BY <2>1, <2>2
    <3>2. CASE t \notin S
      BY <1>7, <3>2, DrainKeeps
    <3>3. CASE t \in S
      <4>1. routes'[t] = [routes[t] EXCEPT !.events = <<>>]
        BY <1>7, <3>3, DrainKeeps
      <4> QED
        BY <3>1, <4>1 DEF Routes
    <3> QED
      BY <3>2, <3>3
  <2>4. UNCHANGED <<threads, brokerClosed>>
    BY <1>7 DEF Drain
  <2> QED
    BY <2>2, <2>3, <2>4
<1>8. CASE DrainCommentarySession(r) \/ DrainThread(r)
  <2>1. UNCHANGED calls
    BY <1>8 DEF DrainCommentarySession, DrainThread, durable
  <2>2. PICK S \in SUBSET DOMAIN Live : Drain(S)
    BY <1>8, DrainsAre
  <2>3. Quieter /\ IdsGrow /\ UNCHANGED brokerClosed
    BY <1>7, <2>2
  <2> QED
    BY <2>1, <2>3
<1>9. ASSUME NEW i \in DOMAIN resp[r].subs, DrainCall(r, i) PROVE Quieter /\ IdsGrow /\ UNCHANGED <<brokerClosed, calls>>
  <2>1. UNCHANGED calls
    BY <1>9 DEF DrainCall, durable
  <2>2. PICK S \in SUBSET DOMAIN Live : Drain(S)
    BY <1>9, DrainsAre
  <2>3. Quieter /\ IdsGrow /\ UNCHANGED brokerClosed
    BY <1>7, <2>2
  <2> QED
    BY <2>1, <2>3
<1>10. CASE ReleaseCommentarySubscriptions(r)
  <2>1. UNCHANGED <<calls, threads, brokerClosed>> /\ Cancelled(Unhanded(r))
    BY <1>10 DEF ReleaseCommentarySubscriptions, durable, Cancelled
  <2> QED
    BY <2>1, CancelKeeps
<1>11. ASSUME NEW c \in Calls, LowerCall(r, c) PROVE Quieter /\ IdsGrow /\ UNCHANGED <<brokerClosed, calls>>
  <2>1. UNCHANGED <<calls, threads, brokerClosed>>
    BY <1>11 DEF LowerCall, Subscribe, durable
  <2>2. Quieter
    BY <1>11, LowerOwns
  <2> QED
    BY <2>1, <2>2
<1> QED
  BY <1>3, <1>4, <1>5, <1>6, <1>8, <1>9, <1>10, <1>11 DEF Step

\* A response that keeps its subscriptions handles the same calls.
LEMMA HandledSame ==
  ASSUME NEW q, Keeps(q)
  PROVE  Handled(q)' = Handled(q)
  BY DEF Handled, Keeps, SameSubs

\* A response that lowers a call handles one more.
LEMMA HandledMore ==
  ASSUME FormInv, BrokerInv, BrokerInv', NEW r \in Responses, NEW c \in Calls, LowerCall(r, c)
  PROVE  /\ Handled(r)' = Handled(r) \cup {c}
         /\ \A o \in Responses : o # r => Handled(o)' = Handled(o)
<1>1. PICK token, u : Lowered(r, c, token, u)
  BY LowerIs
<1>2. resp'[r].subs = u /\ \A o \in Responses : o # r => resp'[o] = resp[o]
  BY <1>1 DEF Lowered, Becomes
<1>3. /\ DOMAIN u = (DOMAIN resp[r].subs) \cup {Len(u)} /\ u[Len(u)].call = c
      /\ \A i \in DOMAIN resp[r].subs : u[i] = resp[r].subs[i]
      /\ Len(u) \notin DOMAIN resp[r].subs
  BY <1>1 DEF Lowered
<1>4. Handled(r)' = {u[i].call : i \in DOMAIN u}
  BY <1>2 DEF Handled
<1>5. Handled(r) = {resp[r].subs[i].call : i \in DOMAIN resp[r].subs}
  BY DEF Handled
<1>6. Handled(r)' = Handled(r) \cup {c}
  <2> DEFINE v == resp[r].subs
  <2>1. \A x \in Handled(r)' : x \in Handled(r) \/ x = c
    BY <1>3, <1>4, <1>5
  <2>2. \A x \in Handled(r) : \E i \in DOMAIN v : x = v[i].call
    BY <1>5
  <2>3. \A i \in DOMAIN v : i \in DOMAIN u /\ u[i].call = v[i].call
    BY <1>3
  <2>4. \A i \in DOMAIN u : u[i].call \in Handled(r)'
    BY <1>4
  <2>5. Len(u) \in DOMAIN u
    BY <1>3
  <2> HIDE DEF v
  <2>6. \A x \in Handled(r) : x \in Handled(r)'
    BY <2>2, <2>3, <2>4
  <2>7. c \in Handled(r)'
    BY <1>3, <2>4, <2>5
  <2> QED
    BY <2>1, <2>6, <2>7
<1>7. \A o \in Responses : o # r => Handled(o)' = Handled(o)
  BY <1>2 DEF Handled
<1> QED
  BY <1>6, <1>7

\* Calls are names.
LEMMA HandledCalls ==
  ASSUME FormInv, NEW q \in Responses
  PROVE  Handled(q) \subseteq Calls /\ None \notin Handled(q)
<1>1. \A i \in DOMAIN resp[q].subs : resp[q].subs[i].call \in Calls
  <2> TAKE i \in DOMAIN resp[q].subs
  <2>1. resp[q].subs[i] \in Subscriptions
    BY FieldsAre
  <2> QED
    BY <2>1 DEF Subscriptions
<1> QED
  BY <1>1, Limits DEF Handled

\* No call that is durable is handled anew.
Anew == \A o \in Responses : \A c \in Handled(o)' : c \in Handled(o) \/ c \notin calls

\* Calls stay with their response.
LEMMA HandledStep ==
  ASSUME FormInv, BrokerInv, BrokerInv', NEW r \in Responses, Subscribed(r), Disjoint
  PROVE  Disjoint' /\ Anew
<1>1. CASE \A o \in Responses : Keeps(o)
  BY <1>1, HandledSame DEF Disjoint, Anew
<1>2. ASSUME NEW c \in Calls, LowerCall(r, c) PROVE Disjoint' /\ Anew
  <2>1. c \notin calls /\ \A q \in Responses : c \notin Handled(q)
    BY <1>2 DEF LowerCall
  <2> QED
    BY <1>2, <2>1, HandledMore DEF Disjoint, Anew
<1> QED
  BY <1>1, <1>2 DEF Subscribed

\* A response that is closed stays so, and one with claims stays in its session.
Steady ==
  \A o \in Responses : /\ resp[o].pc = "closed" => resp'[o].pc = "closed"
                       /\ resp'[o].queue # <<>> => resp'[o].session = resp[o].session

\* Every step of a response does.
LEMMA SteadyStep ==
  ASSUME FormInv, BrokerInv, BrokerInv', NEW r \in Responses, Step(r)
  PROVE  Steady
<1>1. ASSUME resp[r].pc # "closed", NEW p, NEW s, NEW u, NEW q, Becomes(r, p, s, u, q), q # <<>> => s = resp[r].session
      PROVE  Steady
  BY <1>1 DEF Becomes, Steady
<1>2. ASSUME NEW s \in Sessions, Activate(r, s) PROVE Steady
  BY <1>1, <1>2, EnterIs DEF Activate
<1>3. CASE PrepareShellCommentary(r) \/ Refuse(r)
  BY <1>1, <1>3, EnterIs DEF PrepareShellCommentary, Refuse
<1>4. CASE DrainCommentarySession(r) \/ DrainThread(r)
  <2>1. resp[r].pc # "closed"
    BY <1>4 DEF DrainCommentarySession, DrainThread
  <2>2. PICK p, u, q : Becomes(r, p, resp[r].session, u, q)
    BY <1>4, DrainsAre
  <2> QED
    BY <1>1, <2>1, <2>2
<1>5. ASSUME NEW i \in DOMAIN resp[r].subs, DrainCall(r, i) PROVE Steady
  <2>1. resp[r].pc # "closed"
    BY <1>5 DEF DrainCall
  <2>2. PICK q, u : Becomes(r, "draining", resp[r].session, u, q)
    BY <1>5, DrainsAre
  <2> QED
    BY <1>1, <2>1, <2>2
<1>6. ASSUME NEW c \in Calls, LowerCall(r, c) PROVE Steady
  <2>1. resp[r].pc # "closed"
    BY <1>6 DEF LowerCall
  <2>2. PICK u : Becomes(r, "lowered", resp[r].session, u, resp[r].queue)
    BY <1>6, LowerIs DEF Lowered
  <2> QED
    BY <1>1, <2>1, <2>2
<1>7. CASE CommitLocalCall(r)
  <2>1. resp[r].pc # "closed"
    BY <1>7 DEF CommitLocalCall
  <2> QED
    BY <1>1, <1>7, <2>1, CommitIs
<1>8. CASE Created(r) \/ Streaming(r) \/ Fail(r) \/ Terminal(r) \/ ReleaseCommentarySubscriptions(r)
           \/ Close(r) \/ Render(r)
  <2>1. resp[r].pc # "closed"
    BY <1>8 DEF Created, Streaming, Fail, Terminal, ReleaseCommentarySubscriptions, Close, Render
  <2>2. PICK p, q : Becomes(r, p, resp[r].session, resp[r].subs, q)
    BY <1>8, PlainIs
  <2> QED
    BY <1>1, <2>1, <2>2
<1> QED
  BY <1>2, <1>3, <1>4, <1>5, <1>6, <1>7, <1>8 DEF Step

-----------------------------------------------------------------------------
(* Publishers hold the tokens of durable calls.                            *)

\* A step that publishes nothing and gives out tokens of durable calls only.
LEMMA HoldKept ==
  ASSUME BrokerInv, ThreadsOwn, HoldInv, Evolves, Quieter, IdsGrow, calls \subseteq calls', Disjoint',
         \A t \in held' : \/ t \in held
                          \/ /\ t \in 1..minted'
                             /\ t \in DOMAIN routes' => routes'[t].call = None \/ routes'[t].call \in calls'
  PROVE  HoldInv'
<1>1. held' \subseteq 1..minted'
  <2>1. 1..minted \subseteq 1..minted'
    BY DEF Evolves
  <2>2. held \subseteq 1..minted
    BY DEF HoldInv
  <2> QED
    BY <2>1, <2>2
<1>2. ASSUME NEW t \in DOMAIN routes' PROVE Waits(t)'
  <2>1. CASE t \notin DOMAIN routes
    <3>1. t \notin held /\ routes'[t].events = <<>>
      BY <1>2, <2>1 DEF HoldInv, Evolves, Quieter
    <3> QED
      BY <1>2, <3>1 DEF Waits
  <2>2. CASE t \in DOMAIN routes
    <3>1. Waits(t) /\ routes'[t].thread = routes[t].thread /\ routes'[t].call = routes[t].call
      BY <1>2, <2>2 DEF HoldInv, Evolves
    <3>2. routes'[t].events = <<>> \/ routes'[t].events = routes[t].events
      BY <1>2 DEF Quieter
    <3>3. routes[t].thread # None => threads[routes[t].thread].ids \subseteq threads'[routes[t].thread].ids
      BY <2>2 DEF ThreadsOwn, ThreadOwns, IdsGrow
    <3>4. ASSUME routes'[t].thread # None, NEW i \in DOMAIN routes'[t].events
          PROVE  routes'[t].events[i].id \in threads'[routes'[t].thread].ids
      BY <3>1, <3>2, <3>3, <3>4 DEF Waits
    <3>5. routes'[t].call # None /\ (t \in held' \/ routes'[t].events # <<>>) => routes'[t].call \in calls'
      BY <1>2, <3>1, <3>2 DEF Waits
    <3> QED
      BY <3>4, <3>5 DEF Waits
  <2> QED
    BY <2>1, <2>2
<1> QED
  BY <1>1, <1>2 DEF HoldInv

\* No step of a response gives out the token of a call before its record.
LEMMA HoldStep ==
  ASSUME FormInv, BrokerInv, OwnerInv, HoldInv, NEW r \in Responses, Step(r)
  PROVE  HoldInv' /\ Anew
<1>1. BrokerMoves /\ Subscribed(r) /\ ThreadsOwn
  BY OwnerStep, OwnerParts
<1>2. Quieter /\ IdsGrow /\ calls \subseteq calls'
  BY StepQuiet
<1>3. Disjoint' /\ Anew
  BY <1>1, HandledStep DEF HoldInv, BrokerMoves
<1>4. \A t \in held' : \/ t \in held
                       \/ /\ t \in 1..minted'
                          /\ t \in DOMAIN routes' => routes'[t].call = None \/ routes'[t].call \in calls'
  <2>1. CASE UNCHANGED held
    BY <2>1
  <2>2. CASE PrepareShellCommentary(r)
    <3>1. ThreadOf(r) \in Threads /\ ThreadOf(r) # None
      BY <2>2, SessionIs, Limits DEF PrepareShellCommentary, Active
    <3>2. \A t \in held' : t \in held \/ (t \in DOMAIN routes' /\ routes'[t].thread = ThreadOf(r))
      BY <2>2 DEF PrepareShellCommentary
    <3>3. \A t \in DOMAIN routes' : t \in 1..minted' /\ (routes'[t].thread = None <=> routes'[t].call # None)
      BY <1>1 DEF BrokerMoves, BrokerInv, Regular
    <3> QED
      BY <3>1, <3>2, <3>3
  <2>3. CASE CommitLocalCall(r)
    <3>1. PICK last \in DOMAIN resp[r].subs :
            /\ calls' = calls \cup {resp[r].subs[last].call}
            /\ held' = held \cup ({resp[r].subs[last].token} \ {None})
      BY <2>3, CommitIs
    <3>2. Matched(r, last) /\ UNCHANGED <<routes, minted>>
      BY <2>3, OwnerParts DEF CommitLocalCall, broker
    <3> QED
      BY <3>1, <3>2 DEF Matched
  <2>4. ASSUME NEW s, Activate(r, s) PROVE UNCHANGED held
    BY <2>4 DEF Activate, outside
  <2>5. CASE \/ Refuse(r) \/ DrainCommentarySession(r) \/ Created(r) \/ Render(r) \/ Streaming(r) \/ Fail(r)
             \/ Terminal(r) \/ DrainThread(r) \/ ReleaseCommentarySubscriptions(r) \/ Close(r)
    <3>1. UNCHANGED held
      BY <2>5 DEF Refuse, DrainCommentarySession, Created, Render, Streaming, Fail, Terminal, DrainThread,
                  ReleaseCommentarySubscriptions, Close, outside
    <3> QED
      BY <2>1, <3>1
  <2>6. ASSUME NEW i, DrainCall(r, i) PROVE UNCHANGED held
    BY <2>6 DEF DrainCall, outside
  <2>7. ASSUME NEW c, LowerCall(r, c) PROVE UNCHANGED held
    BY <2>7 DEF LowerCall, outside
  <2> QED
    BY <2>1, <2>2, <2>3, <2>4, <2>5, <2>6, <2>7 DEF Step
<1>5. Evolves
  BY <1>1 DEF BrokerMoves
<1>6. HoldInv'
  BY <1>1, <1>2, <1>3, <1>4, <1>5, HoldKept
<1> QED
  BY <1>3, <1>6

\* Publications and shutdown.
LEMMA HoldOutside ==
  ASSUME FormInv, BrokerInv, OwnerInv, HoldInv,
         (\E t \in Tokens : Outside(t)) \/ BeginClose \/ FinishClose \/ UNCHANGED vars
  PROVE  HoldInv'
<1>1. BrokerMoves /\ UNCHANGED resp /\ ThreadsOwn /\ RoutesAreOwned /\ Evolves
  BY OutsideOwner, OwnerParts DEF OwnerInv, BrokerMoves
<1>2. UNCHANGED calls /\ held' \subseteq held
  BY DEF Outside, Send, EndProgram, Elapse, BeginClose, FinishClose, vars, durable, outside
<1>3. Disjoint'
  <2>1. \A q : Handled(q)' = Handled(q)
    BY <1>1 DEF Handled
  <2> QED
    BY <2>1 DEF HoldInv, Disjoint
<1>4. CASE Quieter /\ IdsGrow
  BY <1>1, <1>2, <1>3, <1>4, HoldKept
<1>5. ASSUME UNCHANGED <<routes, threads>> PROVE HoldInv'
  BY <1>4, <1>5 DEF Quieter, IdsGrow
<1>6. CASE FinishClose
  <2>1. DOMAIN routes' = {} /\ UNCHANGED minted
    BY <1>1, <1>6, FinishCloseMoves DEF FinishClose
  <2> QED
    BY <1>2, <1>3, <2>1 DEF HoldInv
<1>7. CASE BeginClose \/ UNCHANGED vars
  <2>1. UNCHANGED <<routes, threads>>
    BY <1>7 DEF BeginClose, vars, broker
  <2> QED
    BY <1>5, <2>1
<1>8. ASSUME NEW t, Elapse(t) PROVE HoldInv'
  BY <1>5, <1>8 DEF Elapse
<1>9. ASSUME NEW t, EndProgram(t) PROVE HoldInv'
  <2>1. CASE UNCHANGED broker
    BY <1>5, <2>1 DEF broker
  <2>2. CASE Publish(t, "blank", TRUE)
    <3>1. PICK text \in {"blank"}, complete \in BOOLEAN : text # "text" /\ Publish(t, text, complete)
      <4>1. "blank" # "text" /\ TRUE \in BOOLEAN
        OBVIOUS
      <4> QED
        BY <2>2, <4>1
    <3>2. Published(t) /\ \A u \in DOMAIN routes' : routes'[u].events = routes[u].events
      BY <1>1, <3>1, PublishMoves
    <3> QED
      BY <1>4, <3>2 DEF Published, Quieter, IdsGrow
  <2> QED
    BY <1>9, <2>1, <2>2 DEF EndProgram
<1>10. ASSUME NEW t, NEW text, Send(t, text) PROVE HoldInv'
  <2>1. Published(t) /\ t \in held /\ UNCHANGED minted
    BY <1>1, <1>10, PublishMoves DEF Send
  <2>2. ASSUME NEW u \in DOMAIN routes' PROVE Waits(u)'
    <3>1. /\ u \in DOMAIN routes /\ Waits(u) /\ routes'[u].thread = routes[u].thread /\ routes'[u].call = routes[u].call
          /\ routes[u].thread # None => threads[routes[u].thread].ids \subseteq threads'[routes[u].thread].ids
      BY <1>1, <2>1, <2>2 DEF Published, HoldInv, Evolves, ThreadsOwn, ThreadOwns
    <3>2. CASE routes'[u].events = routes[u].events
      BY <1>2, <3>1, <3>2 DEF Waits
    <3>3. CASE u = t
      <4>1. routes[u].call # None => routes[u].call \in calls
        BY <2>1, <3>1, <3>3 DEF Waits
      <4>2. ASSUME routes[u].thread # None, NEW i \in DOMAIN routes'[u].events
            PROVE  routes'[u].events[i].id \in threads'[routes[u].thread].ids
        <5>1. \/ i \in DOMAIN routes[u].events /\ routes'[u].events[i] = routes[u].events[i]
              \/ routes'[u].events[i].id \in threads'[routes[u].thread].ids
          BY <2>1, <2>2, <3>3, <4>2 DEF Published
        <5> QED
          BY <3>1, <4>2, <5>1 DEF Waits
      <4> QED
        BY <1>2, <3>1, <4>1, <4>2 DEF Waits
    <3> QED
      BY <2>1, <2>2, <3>2, <3>3 DEF Published
  <2> QED
    BY <1>2, <1>3, <2>1, <2>2 DEF HoldInv
<1> QED
  BY <1>6, <1>7, <1>8, <1>9, <1>10 DEF Outside

-----------------------------------------------------------------------------
(* Claims stay fit to be shown.                                            *)

\* What a step may not spoil: the identities of the threads, unless the broker
\* closes, the calls of the responses, and their sessions.
Sound ==
  /\ Evolves /\ calls \subseteq calls' /\ (brokerClosed => brokerClosed') /\ (brokerClosed' \/ IdsGrow)
  /\ Anew /\ Steady

\* An event that fits still does after the step.
LEMMA FitStays ==
  ASSUME FormInv', Sound, NEW r \in Responses, resp'[r].queue # <<>>, NEW event, Fit(r, event)
  PROVE  Fit(r, event)'
<1>1. Issued(event.id)'
  BY IssuedStays DEF Fit, Sound
<1>2. event.call # None => event.call \in calls'
  BY DEF Fit, Sound
<1>3. ASSUME ~brokerClosed' PROVE Renderable(r, event)'
  <2>1. Renderable(r, event) /\ IdsGrow
    BY <1>3 DEF Fit, Sound
  <2>2. ThreadOf(r)' = ThreadOf(r)
    BY DEF Sound, Steady, ThreadOf
  <2> QED
    BY <1>2, <2>1, <2>2 DEF Renderable, IdsGrow
<1>4. ASSUME NEW q \in Responses, event.call \in Handled(q)'
      PROVE  q = r \/ resp'[q].pc = "closed"
  <2>1. event.call # None
    <3>1. None \notin Handled(q)'
      <4>1. \A i \in DOMAIN resp'[q].subs : resp'[q].subs[i].call \in Calls
        <5> TAKE i \in DOMAIN resp'[q].subs
        <5>1. resp'[q].subs \in Seq(Subscriptions)
          BY DEF FormInv, Formed, Transforms
        <5>2. resp'[q].subs[i] \in Subscriptions
          BY <5>1
        <5> QED
          BY <5>2 DEF Subscriptions
      <4> QED
        BY <4>1, Limits DEF Handled
    <3> QED
      BY <1>4, <3>1
  <2>2. event.call \in Handled(q)
    BY <1>4, <2>1 DEF Fit, Sound, Anew
  <2> QED
    BY <2>2 DEF Fit, Sound, Steady
<1> QED
  BY <1>1, <1>2, <1>3, <1>4 DEF Fit

\* The claims of a response after the step were fit before it.
LEMMA QueueBy ==
  ASSUME FormInv', Sound, ClaimedOnce', \A id \in rendered' : Issued(id),
         \A r \in Responses : \A i \in DOMAIN resp'[r].queue : Fit(r, resp'[r].queue[i])
  PROVE  QueueInv'
<1>1. \A id \in rendered' : Issued(id)'
  BY IssuedStays DEF Sound
<1>2. ASSUME NEW r \in Responses, NEW i \in DOMAIN resp'[r].queue
      PROVE  Fit(r, resp[r].queue[i])'
  <2>1. PICK e : e = resp'[r].queue[i]
    OBVIOUS
  <2>2. resp'[r].queue # <<>> /\ Fit(r, e)
    BY <1>2, <2>1
  <2>3. Fit(r, e)'
    BY <2>2, FitStays
  <2> QED
    BY <2>1, <2>3 DEF Fit, Renderable
<1> QED
  BY <1>1, <1>2 DEF QueueInv

\* The queues of the routes have no message in common.
LEMMA RoutesApart ==
  ASSUME NEW R, \A t \in DOMAIN R : Regular(t, R[t])
  PROVE  \A t, u \in DOMAIN R : Apart(R[t].events, R[u].events, t = u)
<1> SUFFICES ASSUME NEW t \in DOMAIN R, NEW u \in DOMAIN R, NEW i \in DOMAIN R[t].events,
                    NEW j \in DOMAIN R[u].events, R[t].events[i].id = R[u].events[j].id
             PROVE  t = u /\ i = j
  BY DEF Apart
<1>1. Regular(t, R[t]) /\ Regular(u, R[u])
  OBVIOUS
<1>2. t = u
  BY <1>1 DEF Regular
<1>3. i \in Nat /\ j \in Nat
  <2>1. R[t].events \in Seq(Events) /\ R[u].events \in Seq(Events)
    BY <1>1 DEF Regular, Routes
  <2> QED
    BY <2>1
<1>4. R[t].events[i].id[2] \in Nat /\ R[t].events[j].id[2] \in Nat
  BY <1>1, <1>2 DEF Regular, Routes
<1>5. ~(i < j) /\ ~(j < i)
  BY <1>1, <1>2, <1>4 DEF Regular
<1> QED
  BY <1>2, <1>3, <1>5

\* An identity that nobody waits to show.
Absent(id) ==
  /\ \A t \in DOMAIN routes : \A i \in DOMAIN routes[t].events : routes[t].events[i].id # id
  /\ \A r \in Responses : \A i \in DOMAIN resp[r].queue : resp[r].queue[i].id # id

\* Nobody waits to show what was shown.
LEMMA RenderedAbsent ==
  ASSUME ClaimedOnce
  PROVE  \A id \in rendered : Absent(id)
  BY DEF ClaimedOnce, Absent

\* The parts of ClaimedOnce after the step.
LEMMA OnceBy ==
  ASSUME BrokerInv', \A r, q \in Responses : Apart(resp'[r].queue, resp'[q].queue, r = q),
         \A t \in DOMAIN routes', r \in Responses : Apart(routes'[t].events, resp'[r].queue, FALSE),
         \A id \in rendered' : Absent(id)'
  PROVE  ClaimedOnce'
<1>1. \A t, u \in DOMAIN routes' : Apart(routes'[t].events, routes'[u].events, t = u)
  BY RoutesApart DEF BrokerInv
<1> QED
  BY <1>1 DEF ClaimedOnce, Absent, Apart

\* The queue q is what is left of p.
Later(q, p) == \E d \in Nat : \A i \in DOMAIN q : i \in Nat /\ i + d \in DOMAIN p /\ q[i] = p[i + d]

\* Queues from which nothing, the head or everything was taken.
LEMMA LaterIs ==
  ASSUME NEW q \in Seq(Events)
  PROVE  Later(q, q) /\ Later(<<>>, q) /\ (q # <<>> => Later(Tail(q), q))
<1>1. Later(q, q)
  <2>1. \A i \in DOMAIN q : i \in Nat /\ i + 0 = i
    OBVIOUS
  <2> QED
    BY <2>1 DEF Later
<1>2. Later(<<>>, q)
  BY DEF Later
<1>3. ASSUME q # <<>> PROVE Later(Tail(q), q)
  BY <1>3, TailIs DEF Later
<1> QED
  BY <1>1, <1>2, <1>3

\* What nobody waited to show, nobody does.
LEMMA AbsentStays ==
  ASSUME Quieter, \A o \in Responses : Later(resp'[o].queue, resp[o].queue), NEW id, Absent(id)
  PROVE  Absent(id)'
<1>1. ASSUME NEW t \in DOMAIN routes', NEW i \in DOMAIN routes'[t].events PROVE routes'[t].events[i].id # id
  <2>1. t \in DOMAIN routes /\ routes'[t].events = routes[t].events
    BY <1>1 DEF Quieter
  <2> QED
    BY <1>1, <2>1 DEF Absent
<1>2. ASSUME NEW r \in Responses, NEW i \in DOMAIN resp'[r].queue PROVE resp'[r].queue[i].id # id
  BY <1>2 DEF Later, Absent
<1> QED
  BY <1>1, <1>2 DEF Absent

\* Queues that only get shorter stay apart.
LEMMA OnceLater ==
  ASSUME BrokerInv, BrokerInv', ClaimedOnce, Quieter, \A o \in Responses : Later(resp'[o].queue, resp[o].queue),
         \A id \in rendered' : Absent(id)'
  PROVE  ClaimedOnce'
<1>1. ASSUME NEW r \in Responses, NEW q \in Responses PROVE Apart(resp'[r].queue, resp'[q].queue, r = q)
  <2>1. Apart(resp[r].queue, resp[q].queue, r = q)
    BY DEF ClaimedOnce
  <2>2. PICK d \in Nat : \A i \in DOMAIN resp'[r].queue :
          i \in Nat /\ i + d \in DOMAIN resp[r].queue /\ resp'[r].queue[i] = resp[r].queue[i + d]
    BY DEF Later
  <2>3. PICK e \in Nat : \A i \in DOMAIN resp'[q].queue :
          i \in Nat /\ i + e \in DOMAIN resp[q].queue /\ resp'[q].queue[i] = resp[q].queue[i + e]
    BY DEF Later
  <2>4. CASE r # q
    BY <2>1, <2>2, <2>3, <2>4 DEF Apart
  <2>5. CASE r = q
    BY <2>1, <2>2, <2>5 DEF Apart
  <2> QED
    BY <2>4, <2>5
<1>2. ASSUME NEW t \in DOMAIN routes', NEW r \in Responses PROVE Apart(routes'[t].events, resp'[r].queue, FALSE)
  <2>1. CASE routes'[t].events = <<>>
    BY <2>1 DEF Apart
  <2>2. CASE t \in DOMAIN routes /\ routes'[t].events = routes[t].events
    <3>1. Apart(routes[t].events, resp[r].queue, FALSE) /\ Later(resp'[r].queue, resp[r].queue)
      BY <2>2 DEF ClaimedOnce
    <3> QED
      BY <2>2, <3>1 DEF Apart, Later
  <2> QED
    BY <1>2, <2>1, <2>2 DEF Quieter
<1> QED
  BY <1>1, <1>2, OnceBy

\* A step that claims nothing and shows nothing.
LEMMA QueueKept ==
  ASSUME FormInv', BrokerInv, BrokerInv', QueueInv, Sound, Quieter, UNCHANGED rendered,
         \A o \in Responses : Later(resp'[o].queue, resp[o].queue)
  PROVE  QueueInv'
<1>1. \A id \in rendered' : Absent(id)'
  <2>1. \A id \in rendered : Absent(id)
    BY RenderedAbsent DEF QueueInv
  <2> QED
    BY <2>1, AbsentStays
<1>2. ClaimedOnce'
  BY <1>1, OnceLater DEF QueueInv
<1>3. ASSUME NEW r \in Responses, NEW i \in DOMAIN resp'[r].queue PROVE Fit(r, resp'[r].queue[i])
  <2>1. PICK d \in Nat : i + d \in DOMAIN resp[r].queue /\ resp'[r].queue[i] = resp[r].queue[i + d]
    BY <1>3 DEF Later
  <2> QED
    BY <2>1 DEF QueueInv
<1>4. \A id \in rendered' : Issued(id)
  BY DEF QueueInv
<1> QED
  BY <1>2, <1>3, <1>4, QueueBy

\* A response shows the head of its queue.
LEMMA QueueRender ==
  ASSUME FormInv, FormInv', BrokerInv, BrokerInv', QueueInv, Sound, NEW r \in Responses, Render(r)
  PROVE  QueueInv'
<1>1. PICK q \in Seq(Events) : q = resp[r].queue /\ q # <<>>
  BY FieldsAre DEF Render
<1>2. Becomes(r, resp[r].pc, resp[r].session, resp[r].subs, Tail(q)) /\ UNCHANGED routes
  BY <1>1, PlainIs DEF Render, broker
<1>3. \A i \in DOMAIN Tail(q) : i + 1 \in DOMAIN q /\ Tail(q)[i] = q[i + 1] /\ i \in Nat /\ i # 0
  BY <1>1, TailIs
<1>4. \A o \in Responses : Later(resp'[o].queue, resp[o].queue)
  BY <1>1, <1>2, LaterIs, FieldsAre DEF Becomes
<1>5. Quieter
  BY <1>2 DEF Quieter
<1>6. PICK id : id = q[1].id
  OBVIOUS
<1>7. rendered' \subseteq rendered \cup {id}
  BY <1>1, <1>6, TailIs DEF Render
<1>8. Issued(id)
  BY <1>1, <1>6, TailIs DEF QueueInv, Fit
<1>9. Absent(id)'
  <2>1. ASSUME NEW t \in DOMAIN routes', NEW i \in DOMAIN routes'[t].events PROVE routes'[t].events[i].id # id
    <3>1. Apart(routes[t].events, resp[r].queue, FALSE)
      BY <1>2, <2>1 DEF QueueInv, ClaimedOnce
    <3> QED
      BY <1>1, <1>2, <1>6, <2>1, <3>1, TailIs DEF Apart
  <2>2. ASSUME NEW o \in Responses, NEW i \in DOMAIN resp'[o].queue PROVE resp'[o].queue[i].id # id
    <3>1. Apart(resp[o].queue, resp[r].queue, o = r) /\ 1 \in DOMAIN q
      BY <1>1, TailIs DEF QueueInv, ClaimedOnce
    <3>2. CASE o # r
      BY <1>1, <1>2, <1>6, <2>2, <3>1, <3>2 DEF Apart, Becomes
    <3>3. CASE o = r
      <4>1. i \in DOMAIN Tail(q) /\ resp'[o].queue[i] = Tail(q)[i]
        BY <1>2, <2>2, <3>3 DEF Becomes
      <4>2. i + 1 \in DOMAIN q /\ resp'[o].queue[i] = q[i + 1] /\ i + 1 # 1
        BY <1>3, <4>1
      <4> QED
        BY <1>1, <1>6, <3>1, <3>3, <4>2 DEF Apart
    <3> QED
      BY <3>2, <3>3
  <2> QED
    BY <2>1, <2>2 DEF Absent
<1>10. \A x \in rendered' : Absent(x)' /\ Issued(x)
  <2>1. \A x \in rendered : Absent(x) /\ Issued(x)
    BY RenderedAbsent DEF QueueInv
  <2> QED
    BY <1>4, <1>5, <1>7, <1>8, <1>9, <2>1, AbsentStays
<1>11. ClaimedOnce'
  BY <1>4, <1>5, <1>10, OnceLater DEF QueueInv
<1>12. ASSUME NEW o \in Responses, NEW i \in DOMAIN resp'[o].queue PROVE Fit(o, resp'[o].queue[i])
  <2>1. PICK d \in Nat : i + d \in DOMAIN resp[o].queue /\ resp'[o].queue[i] = resp[o].queue[i + d]
    BY <1>4, <1>12 DEF Later
  <2> QED
    BY <2>1 DEF QueueInv
<1> QED
  BY <1>10, <1>11, <1>12, QueueBy

\* A response without claims takes those of some routes.
LEMMA QueueDrain ==
  ASSUME FormInv, FormInv', BrokerInv, BrokerInv', QueueInv, Sound, UNCHANGED rendered,
         NEW r \in Responses, NEW p, NEW u, NEW q, Becomes(r, p, resp[r].session, u, q), resp[r].queue = <<>>,
         NEW S \in SUBSET DOMAIN Live, Drain(S), q \in Claims(S), \A i \in DOMAIN q : Fit(r, q[i])
  PROVE  QueueInv'
<1>1. /\ \A i \in DOMAIN q : \E t \in S : \E k \in DOMAIN routes[t].events : q[i] = routes[t].events[k]
      /\ \A i, j \in DOMAIN q : i # j => q[i] # q[j]
  BY ClaimsIs
<1>2. S \subseteq DOMAIN routes /\ DOMAIN routes' \subseteq DOMAIN routes
  BY LiveIs, DrainKeeps
<1>3. \A t \in DOMAIN routes : routes[t] \in Routes /\ Regular(t, routes[t])
  BY DEF BrokerInv, Regular
<1>4. \A t \in DOMAIN routes' : routes'[t].events = <<>> \/ (t \notin S /\ routes'[t].events = routes[t].events)
  <2> TAKE t \in DOMAIN routes'
  <2>1. CASE t \notin S
    BY <2>1, DrainKeeps
  <2>2. CASE t \in S
    <3>1. routes'[t] = [routes[t] EXCEPT !.events = <<>>] /\ routes[t] \in Routes
      BY <1>2, <1>3, <2>2, DrainKeeps
    <3> QED
      BY <3>1 DEF Routes
  <2> QED
    BY <2>1, <2>2
<1>5. /\ \A o \in Responses : o # r => resp'[o].queue = resp[o].queue
      /\ resp'[r].queue = q
  BY DEF Becomes
<1>6. Apart(q, q, TRUE)
  <2> SUFFICES ASSUME NEW i \in DOMAIN q, NEW j \in DOMAIN q, q[i].id = q[j].id PROVE i = j
    BY DEF Apart
  <2>1. PICK t \in S : \E k \in DOMAIN routes[t].events : q[i] = routes[t].events[k]
    BY <1>1
  <2>2. PICK v \in S : \E k \in DOMAIN routes[v].events : q[j] = routes[v].events[k]
    BY <1>1
  <2>3. PICK k \in DOMAIN routes[t].events : q[i] = routes[t].events[k]
    BY <2>1
  <2>4. PICK l \in DOMAIN routes[v].events : q[j] = routes[v].events[l]
    BY <2>2
  <2>5. Apart(routes[t].events, routes[v].events, t = v)
    BY <1>2 DEF QueueInv, ClaimedOnce
  <2>6. t = v /\ k = l
    BY <2>3, <2>4, <2>5 DEF Apart
  <2> QED
    BY <1>1, <2>3, <2>4, <2>6
<1>7. ASSUME NEW o \in Responses, o # r PROVE Apart(resp[o].queue, q, FALSE) /\ Apart(q, resp[o].queue, FALSE)
  <2>1. \A t \in S : Apart(routes[t].events, resp[o].queue, FALSE)
    BY <1>2 DEF QueueInv, ClaimedOnce
  <2> QED
    BY <1>1, <2>1 DEF Apart
<1>8. \A o, w \in Responses : Apart(resp'[o].queue, resp'[w].queue, o = w)
  <2> TAKE o, w \in Responses
  <2>1. CASE o # r /\ w # r
    BY <1>5, <2>1 DEF QueueInv, ClaimedOnce
  <2>2. CASE o = r /\ w = r
    BY <1>5, <1>6, <2>2 DEF Apart
  <2>3. CASE (o = r /\ w # r) \/ (o # r /\ w = r)
    BY <1>5, <1>7, <2>3 DEF Apart
  <2> QED
    BY <2>1, <2>2, <2>3
<1>9. \A t \in DOMAIN routes', o \in Responses : Apart(routes'[t].events, resp'[o].queue, FALSE)
  <2> TAKE t \in DOMAIN routes', o \in Responses
  <2>1. CASE routes'[t].events = <<>>
    BY <2>1 DEF Apart
  <2>2. CASE t \notin S /\ routes'[t].events = routes[t].events
    <3>1. CASE o # r
      BY <1>2, <1>5, <2>2, <3>1 DEF QueueInv, ClaimedOnce
    <3>2. CASE o = r
      <4>1. \A v \in S : Apart(routes[t].events, routes[v].events, FALSE)
        <5> TAKE v \in S
        <5>1. Apart(routes[t].events, routes[v].events, t = v)
          BY <1>2 DEF QueueInv, ClaimedOnce
        <5> QED
          BY <2>2, <5>1 DEF Apart
      <4> QED
        BY <1>1, <1>5, <2>2, <3>2, <4>1 DEF Apart
    <3> QED
      BY <3>1, <3>2
  <2> QED
    BY <1>4, <2>1, <2>2
<1>10. \A id \in rendered' : Absent(id)'
  <2> SUFFICES ASSUME NEW id \in rendered PROVE Absent(id)'
    OBVIOUS
  <2>1. Absent(id)
    BY RenderedAbsent DEF QueueInv
  <2>2. \A t \in DOMAIN routes' : \A i \in DOMAIN routes'[t].events : routes'[t].events[i].id # id
    BY <1>2, <1>4, <2>1 DEF Absent
  <2>3. \A o \in Responses : \A i \in DOMAIN resp'[o].queue : resp'[o].queue[i].id # id
    BY <1>1, <1>2, <1>5, <2>1 DEF Absent
  <2> QED
    BY <2>2, <2>3 DEF Absent
<1>11. ClaimedOnce'
  BY <1>8, <1>9, <1>10, OnceBy
<1>12. \A o \in Responses : \A i \in DOMAIN resp'[o].queue : Fit(o, resp'[o].queue[i])
  BY <1>5 DEF QueueInv
<1> QED
  BY <1>11, <1>12, QueueBy DEF QueueInv

-----------------------------------------------------------------------------
(* What a response may drain is fit to be shown by it.                     *)

\* The route t is for r to drain.
For(r, t) ==
  /\ routes[t].call = None => routes[t].thread = ThreadOf(r)
  /\ \A q \in Responses : routes[t].call \in Handled(q) => q = r \/ resp[q].pc = "closed"

\* The events that wait on such a route.
LEMMA WaitingFits ==
  ASSUME FormInv, BrokerInv, ThreadsOwn, HoldInv, NEW r \in Responses, NEW t \in DOMAIN routes, For(r, t),
         NEW k \in DOMAIN routes[t].events
  PROVE  Fit(r, routes[t].events[k])
<1>1. PICK e : e = routes[t].events[k]
  OBVIOUS
<1>2. Regular(t, routes[t]) /\ DOMAIN routes \subseteq 1..minted
  BY DEF BrokerInv
<1>3. e.call = routes[t].call /\ e.id[1] = t /\ e.id[2] \in 1..routes[t].nextID
  BY <1>1, <1>2 DEF Regular
<1>4. e.id \in MessageIDs
  <2>1. routes[t].events \in Seq(Events)
    BY <1>2 DEF Regular, Routes
  <2>2. e \in Events
    BY <1>1, <2>1
  <2> QED
    BY <2>2 DEF Events
<1>5. Issued(e.id)
  BY <1>2, <1>3, <1>4 DEF Issued
<1>6. Waits(t) /\ routes[t].events # <<>>
  BY DEF HoldInv
<1>7. e.call # None => e.call \in calls
  BY <1>3, <1>6 DEF Waits
<1>8. Renderable(r, e)
  <2>1. CASE e.call # None
    BY <1>7, <2>1 DEF Renderable
  <2>2. CASE e.call = None
    <3>1. routes[t].thread = ThreadOf(r) /\ routes[t].thread # None
      BY <1>2, <1>3, <2>2 DEF For, Regular
    <3>2. ThreadOf(r) \in DOMAIN threads
      BY <3>1 DEF ThreadsOwn, ThreadOwns
    <3>3. e.id \in threads[ThreadOf(r)].ids
      BY <1>1, <1>6, <3>1 DEF Waits
    <3> QED
      BY <2>2, <3>2, <3>3 DEF Renderable
  <2> QED
    BY <2>1, <2>2
<1>9. Fit(r, e)
  BY <1>3, <1>5, <1>7, <1>8 DEF Fit, For
<1> QED
  BY <1>1, <1>9

\* The routes of the thread.
LEMMA ThreadRoutesFit ==
  ASSUME FormInv, BrokerInv, NEW r \in Responses, resp[r].pc \in Active, NEW t \in ThreadRoutes(r)
  PROVE  t \in DOMAIN routes /\ For(r, t)
<1>1. t \in DOMAIN routes /\ routes[t].thread = ThreadOf(r)
  BY LiveIs DEF ThreadRoutes
<1>2. ThreadOf(r) # None
  BY SessionIs, Limits
<1>3. routes[t].call = None
  BY <1>1, <1>2 DEF BrokerInv, Regular
<1>4. \A q \in Responses : None \notin Handled(q)
  BY HandledCalls
<1> QED
  BY <1>1, <1>3, <1>4 DEF For

\* The route of a call that the response handles.
LEMMA OwnRouteFits ==
  ASSUME FormInv, BrokerInv, OwnerInv, HoldInv, NEW r \in Responses, NEW i \in DOMAIN resp[r].subs,
         NEW t \in DOMAIN routes, t = resp[r].subs[i].token
  PROVE  For(r, t)
<1>1. Matched(r, i) /\ t # None
  BY OwnerParts, Limits DEF BrokerInv
<1>2. routes[t].call = resp[r].subs[i].call
  BY <1>1 DEF Matched
<1>3. routes[t].call \in Handled(r)
  BY <1>2 DEF Handled
<1>4. routes[t].call # None
  BY <1>3, HandledCalls
<1> QED
  BY <1>3, <1>4 DEF For, HoldInv, Disjoint

\* The route of a call in a session where no other response is left.
LEMMA DeferredRouteFits ==
  ASSUME FormInv, BrokerInv, OwnerInv, CountInv, HoldInv, NEW r \in Responses, resp[r].pc \in Active,
         ~(activeSessions[resp[r].session] > 1),
         NEW t \in DOMAIN routes, routes[t].session = resp[r].session, routes[t].thread = None
  PROVE  For(r, t)
<1>1. PICK s \in Sessions : s = resp[r].session
  BY SessionIs
<1>2. ~brokerClosed /\ routes[t].call # None
  BY DEF BrokerInv, Regular
<1>3. /\ Cardinality(Present(s)) <= 1 /\ IsFiniteSet(Present(s)) /\ r \in Present(s)
      /\ Cardinality(Present(s)) \in Nat
  <2>1. activeSessions[s] = Cardinality(Present(s)) /\ IsFiniteSet(Present(s))
    BY <1>2 DEF CountInv
  <2>2. r \in Present(s)
    BY <1>1 DEF Present
  <2>3. Cardinality(Present(s)) \in Nat
    BY <2>1, FS_CardinalityType
  <2> QED
    BY <1>1, <2>1, <2>2, <2>3
<1>4. \A q \in Present(s) : q = r
  <2>1. IsFiniteSet(Present(s) \ {r}) /\ Cardinality(Present(s) \ {r}) = Cardinality(Present(s)) - 1
    BY <1>3, FS_RemoveElement
  <2>2. Cardinality(Present(s) \ {r}) \in Nat
    BY <2>1, FS_CardinalityType
  <2>3. Cardinality(Present(s) \ {r}) = 0
    BY <1>3, <2>1, <2>2
  <2>4. Present(s) \ {r} = {}
    BY <2>1, <2>3, FS_EmptySet
  <2> QED
    BY <2>4
<1>5. PICK o \in Responses : \E i \in DOMAIN resp[o].subs : resp[o].subs[i].token = t
  BY <1>2, OwnerParts DEF CallsOwn, CallOwns
<1>6. PICK i \in DOMAIN resp[o].subs : resp[o].subs[i].token = t
  BY <1>5
<1>7. routes[t].call = resp[o].subs[i].call /\ resp[o].session = s
  <2>1. Matched(o, i) /\ t # None
    BY <1>6, OwnerParts, Limits DEF BrokerInv
  <2> QED
    BY <1>1, <1>6, <2>1 DEF Matched
<1>8. routes[t].call \in Handled(o)
  BY <1>6, <1>7 DEF Handled
<1>9. o = r \/ resp[o].pc = "closed"
  <2>1. resp[o].pc \in Active \cup {"idle", "closed"}
    BY FieldsAre
  <2>2. resp[o].pc # "idle"
    BY <1>6, EarlyIs DEF Early
  <2>3. resp[o].pc \in Active => o \in Present(s)
    BY <1>7 DEF Present
  <2> QED
    BY <1>4, <2>1, <2>2, <2>3
<1>10. \A q \in Responses : routes[t].call \in Handled(q) => q = o
  BY <1>8 DEF HoldInv, Disjoint
<1> QED
  BY <1>2, <1>9, <1>10 DEF For

\* The claims of a drain over routes that are for the response.
LEMMA ClaimsFit ==
  ASSUME FormInv, BrokerInv, ThreadsOwn, HoldInv, NEW r \in Responses, NEW S \in SUBSET DOMAIN Live,
         \A t \in S : For(r, t), NEW q \in Claims(S)
  PROVE  \A i \in DOMAIN q : Fit(r, q[i])
<1> TAKE i \in DOMAIN q
<1>1. PICK t \in S : \E k \in DOMAIN routes[t].events : q[i] = routes[t].events[k]
  BY ClaimsIs
<1>2. t \in DOMAIN routes
  BY LiveIs
<1> QED
  BY <1>1, <1>2, WaitingFits

-----------------------------------------------------------------------------
(* A publication reaches one response.                                     *)

\* Every step of a response is sound.
LEMMA SoundStep ==
  ASSUME FormInv, BrokerInv, BrokerInv', OwnerInv, HoldInv, NEW r \in Responses, Step(r)
  PROVE  Sound /\ Quieter
<1>1. Evolves
  BY OwnerStep DEF BrokerMoves
<1>2. Quieter /\ IdsGrow /\ UNCHANGED brokerClosed /\ calls \subseteq calls'
  BY StepQuiet
<1>3. Anew /\ Steady
  BY HoldStep, SteadyStep
<1> QED
  BY <1>1, <1>2, <1>3 DEF Sound

\* No step of a response claims a message that another has, or shows it again.
LEMMA QueueStep ==
  ASSUME RouteInv, RouteInv', TravelInv, NEW r \in Responses, Step(r)
  PROVE  QueueInv'
<1> USE DEF RouteInv, TravelInv
<1>1. Sound /\ Quieter /\ ThreadsOwn
  BY SoundStep, OwnerParts
<1>2. ASSUME UNCHANGED rendered, NEW p, NEW s, NEW u, NEW q, Becomes(r, p, s, u, q),
             q = resp[r].queue \/ q = <<>>
      PROVE  QueueInv'
  <2>1. \A o \in Responses : Later(resp'[o].queue, resp[o].queue)
    BY <1>2, LaterIs, FieldsAre DEF Becomes
  <2> QED
    BY <1>1, <1>2, <2>1, QueueKept
<1>3. ASSUME NEW s \in Sessions, Activate(r, s) PROVE QueueInv'
  <2>1. UNCHANGED rendered
    BY <1>3 DEF Activate, durable
  <2> QED
    BY <1>2, <1>3, <2>1, EnterIs
<1>4. CASE PrepareShellCommentary(r) \/ Refuse(r)
  <2>1. UNCHANGED rendered
    BY <1>4 DEF PrepareShellCommentary, Refuse, durable
  <2> QED
    BY <1>2, <1>4, <2>1, EnterIs
<1>5. CASE CommitLocalCall(r)
  <2>1. UNCHANGED rendered
    BY <1>5 DEF CommitLocalCall
  <2> QED
    BY <1>2, <1>5, <2>1, CommitIs
<1>6. CASE \/ Created(r) \/ Streaming(r) \/ Fail(r) \/ Terminal(r) \/ ReleaseCommentarySubscriptions(r) \/ Close(r)
  <2>1. UNCHANGED rendered
    BY <1>6 DEF Created, Streaming, Fail, Terminal, ReleaseCommentarySubscriptions, Close, durable
  <2>2. PICK p, q : Becomes(r, p, resp[r].session, resp[r].subs, q) /\ (q = resp[r].queue \/ q = <<>>)
    BY <1>6, PlainIs
  <2> QED
    BY <1>2, <2>1, <2>2
<1>7. ASSUME NEW c \in Calls, LowerCall(r, c) PROVE QueueInv'
  <2>1. UNCHANGED rendered
    BY <1>7 DEF LowerCall, durable
  <2>2. PICK u : Becomes(r, "lowered", resp[r].session, u, resp[r].queue)
    BY <1>7, LowerIs DEF Lowered
  <2> QED
    BY <1>2, <2>1, <2>2
<1>8. CASE Render(r)
  BY <1>1, <1>8, QueueRender
<1>9. ASSUME NEW S \in SUBSET DOMAIN Live, Drain(S), \A t \in S : For(r, t), NEW q \in Claims(S),
             NEW p, NEW u, Becomes(r, p, resp[r].session, u, q), resp[r].queue = <<>>, UNCHANGED rendered
      PROVE  QueueInv'
  <2>1. \A i \in DOMAIN q : Fit(r, q[i])
    BY <1>1, <1>9, ClaimsFit
  <2> QED
    BY <1>1, <1>9, <2>1, QueueDrain
<1>10. CASE DrainCommentarySession(r)
  <2>1. resp[r].pc \in Active /\ resp[r].pc \in Early /\ UNCHANGED rendered
    BY <1>10 DEF DrainCommentarySession, durable, Active, Early
  <2>2. \A t \in DeferredRoutes(r) : For(r, t)
    <3> TAKE t \in DeferredRoutes(r)
    <3>1. CASE t \in ThreadRoutes(r)
      BY <2>1, <3>1, ThreadRoutesFit
    <3>2. CASE t \notin ThreadRoutes(r)
      <4>1. /\ ~(activeSessions[resp[r].session] > 1) /\ t \in DOMAIN Live
            /\ Live[t].session = resp[r].session /\ Live[t].thread = None
        BY <3>2 DEF DeferredRoutes
      <4>2. t \in DOMAIN routes /\ Live[t] = routes[t]
        BY <4>1, LiveIs
      <4> QED
        BY <2>1, <4>1, <4>2, DeferredRouteFits
    <3> QED
      BY <3>1, <3>2
  <2>3. resp[r].queue = <<>>
    BY <2>1, EarlyIs
  <2>4. /\ Drain(DeferredRoutes(r)) /\ DeferredRoutes(r) \in SUBSET DOMAIN Live
        /\ \E q \in Claims(DeferredRoutes(r)) : Becomes(r, "prepared", resp[r].session, resp[r].subs, q)
    BY <1>10, DrainsAre
  <2> QED
    BY <1>9, <2>1, <2>2, <2>3, <2>4
<1>11. CASE DrainThread(r)
  <2>1. resp[r].pc \in Active /\ resp[r].queue = <<>> /\ UNCHANGED rendered
    BY <1>11 DEF DrainThread, durable, Active
  <2>2. \A t \in ThreadRoutes(r) : For(r, t)
    BY <2>1, ThreadRoutesFit
  <2>3. /\ Drain(ThreadRoutes(r)) /\ ThreadRoutes(r) \in SUBSET DOMAIN Live
        /\ \E q \in Claims(ThreadRoutes(r)) : Becomes(r, "threadDraining", resp[r].session, resp[r].subs, q)
    BY <1>11, DrainsAre
  <2> QED
    BY <1>9, <2>1, <2>2, <2>3
<1>12. ASSUME NEW i \in DOMAIN resp[r].subs, DrainCall(r, i) PROVE QueueInv'
  <2>1. resp[r].queue = <<>> /\ UNCHANGED rendered
    BY <1>12 DEF DrainCall, durable
  <2>2. PICK own : own = {resp[r].subs[i].token} \cap DOMAIN Live
    OBVIOUS
  <2>3. \A t \in own : For(r, t)
    BY <2>2, LiveIs, OwnRouteFits
  <2>4. /\ Drain(own) /\ own \in SUBSET DOMAIN Live
        /\ \E q \in Claims(own), u \in Seq(Subscriptions) : Becomes(r, "draining", resp[r].session, u, q)
    BY <1>12, <2>2, DrainsAre
  <2> QED
    BY <1>9, <2>1, <2>3, <2>4
<1> QED
  BY <1>3, <1>4, <1>5, <1>6, <1>7, <1>8, <1>10, <1>11, <1>12 DEF Step

\* A publication gets an identity that nobody has seen.
LEMMA QueueSend ==
  ASSUME FormInv, FormInv', BrokerInv, BrokerInv', QueueInv, Sound, NEW t, Published(t), UNCHANGED <<resp, rendered>>
  PROVE  QueueInv'
<1>1. ASSUME NEW u \in DOMAIN routes', NEW i \in DOMAIN routes'[u].events, NEW id, Issued(id),
             u \in DOMAIN routes => \A k \in DOMAIN routes[u].events : routes[u].events[k].id # id
      PROVE  routes'[u].events[i].id # id
  <2>1. u \in DOMAIN routes
    BY <1>1 DEF Published
  <2>2. CASE i \in DOMAIN routes[u].events /\ routes'[u].events[i] = routes[u].events[i]
    BY <1>1, <2>1, <2>2
  <2>3. CASE u = t /\ routes'[u].events[i] = [id |-> <<t, routes[t].nextID + 1>>, call |-> routes[t].call]
    <3>1. routes'[u].events[i].id = <<t, routes[t].nextID + 1>>
      BY <2>3
    <3>2. routes[t].nextID \in Nat
      BY <2>1, <2>3 DEF BrokerInv, Regular, Routes
    <3>3. ASSUME id = <<t, routes[t].nextID + 1>> PROVE FALSE
      <4>1. id[1] = t /\ id[2] = routes[t].nextID + 1
        BY <3>3
      <4>2. id[2] \in 1..routes[t].nextID
        BY <1>1, <2>1, <2>3, <4>1 DEF Issued
      <4> QED
        BY <3>2, <4>1, <4>2
    <3> QED
      BY <3>1, <3>3
  <2> QED
    BY <1>1, <2>1, <2>2, <2>3 DEF Published
<1>2. ASSUME NEW u \in DOMAIN routes', NEW o \in Responses PROVE Apart(routes'[u].events, resp'[o].queue, FALSE)
  <2> SUFFICES ASSUME NEW i \in DOMAIN routes'[u].events, NEW j \in DOMAIN resp[o].queue
               PROVE  routes'[u].events[i].id # resp[o].queue[j].id
    BY DEF Apart
  <2>1. Issued(resp[o].queue[j].id)
    BY DEF QueueInv, Fit
  <2>2. u \in DOMAIN routes => \A k \in DOMAIN routes[u].events : routes[u].events[k].id # resp[o].queue[j].id
    BY DEF QueueInv, ClaimedOnce, Apart
  <2> QED
    BY <1>1, <1>2, <2>1, <2>2
<1>3. \A r, q \in Responses : Apart(resp'[r].queue, resp'[q].queue, r = q)
  BY DEF QueueInv, ClaimedOnce
<1>4. \A id \in rendered' : Absent(id)'
  <2> SUFFICES ASSUME NEW id \in rendered PROVE Absent(id)'
    OBVIOUS
  <2>1. Absent(id) /\ Issued(id)
    BY RenderedAbsent DEF QueueInv
  <2>2. \A u \in DOMAIN routes' : \A i \in DOMAIN routes'[u].events : routes'[u].events[i].id # id
    BY <1>1, <2>1 DEF Absent
  <2> QED
    BY <2>1, <2>2 DEF Absent
<1>5. ClaimedOnce'
  BY <1>2, <1>3, <1>4, OnceBy
<1>6. \A o \in Responses : \A i \in DOMAIN resp'[o].queue : Fit(o, resp'[o].queue[i])
  BY DEF QueueInv
<1> QED
  BY <1>5, <1>6, QueueBy DEF QueueInv

\* Publishers, time and shutdown.
LEMMA QueueOutside ==
  ASSUME RouteInv, RouteInv', TravelInv,
         (\E t \in Tokens : Outside(t)) \/ BeginClose \/ FinishClose \/ UNCHANGED vars
  PROVE  QueueInv'
<1> USE DEF RouteInv, TravelInv
<1>1. BrokerMoves /\ UNCHANGED resp /\ RoutesAreOwned /\ Evolves /\ ThreadsOwn
  BY OutsideOwner, OwnerParts DEF OwnerInv, BrokerMoves
<1>2. UNCHANGED <<calls, rendered>> /\ (brokerClosed => brokerClosed')
  <2>1. UNCHANGED <<calls, rendered>>
    BY DEF Outside, Send, EndProgram, Elapse, BeginClose, FinishClose, vars, durable
  <2>2. ASSUME NEW t, Outside(t) PROVE UNCHANGED brokerClosed
    BY <2>2 DEF Outside, Send, EndProgram, Elapse, Publish, broker
  <2>3. CASE BeginClose \/ FinishClose \/ UNCHANGED vars
    BY <2>1, <2>3 DEF BeginClose, FinishClose, vars, broker
  <2> QED
    BY <2>1, <2>2, <2>3
<1>3. Anew /\ Steady
  <2>1. \A q : Handled(q)' = Handled(q)
    BY <1>1 DEF Handled
  <2> QED
    BY <1>1, <2>1 DEF Anew, Steady
<1>4. \A o \in Responses : Later(resp'[o].queue, resp[o].queue)
  BY <1>1, LaterIs, FieldsAre
<1>5. ASSUME brokerClosed' \/ IdsGrow PROVE Sound
  BY <1>1, <1>2, <1>3, <1>5 DEF Sound
<1>6. ASSUME Quieter, brokerClosed' \/ IdsGrow PROVE QueueInv'
  BY <1>2, <1>4, <1>5, <1>6, QueueKept
<1>7. ASSUME UNCHANGED <<routes, threads>> PROVE QueueInv'
  BY <1>6, <1>7 DEF Quieter, IdsGrow
<1>8. CASE FinishClose
  <2>1. DOMAIN routes' = {} /\ brokerClosed'
    BY <1>1, <1>8, FinishCloseMoves DEF FinishClose
  <2> QED
    BY <1>6, <2>1 DEF Quieter
<1>9. CASE BeginClose \/ UNCHANGED vars
  <2>1. UNCHANGED <<routes, threads>>
    BY <1>9 DEF BeginClose, vars, broker
  <2> QED
    BY <1>7, <2>1
<1>10. ASSUME NEW t, Elapse(t) PROVE QueueInv'
  BY <1>7, <1>10 DEF Elapse
<1>11. ASSUME NEW t, NEW text, NEW complete \in BOOLEAN, Publish(t, text, complete) PROVE QueueInv'
  <2>1. Published(t)
    BY <1>1, <1>11, PublishMoves
  <2>2. IdsGrow
    BY <2>1 DEF Published, IdsGrow
  <2> QED
    BY <1>1, <1>2, <1>5, <2>1, <2>2, QueueSend
<1>12. ASSUME NEW t, EndProgram(t) PROVE QueueInv'
  <2>1. CASE UNCHANGED broker
    BY <1>7, <2>1 DEF broker
  <2>2. CASE Publish(t, "blank", TRUE)
    BY <1>11, <2>2
  <2> QED
    BY <1>12, <2>1, <2>2 DEF EndProgram
<1>13. ASSUME NEW t, NEW text, Send(t, text) PROVE QueueInv'
  BY <1>11, <1>13 DEF Send
<1> QED
  BY <1>8, <1>9, <1>10, <1>12, <1>13 DEF Outside

\* Nothing is on its way at first.
LEMMA TravelInit ==
  ASSUME Init
  PROVE  TravelInv
<1>1. DOMAIN routes = {} /\ held = {} /\ rendered = {} /\ brokerClosed = FALSE
  BY DEF Init
<1>2. \A r \in Responses : resp[r].pc = "idle" /\ resp[r].subs = <<>> /\ resp[r].queue = <<>>
  BY DEF Init, Idle
<1>3. \A s \in Sessions : Present(s) = {}
  BY <1>2 DEF Present, Active
<1>4. CountInv
  <2>1. IsFiniteSet({}) /\ Cardinality({}) = 0
    BY FS_EmptySet
  <2>2. activeSessions = [s \in Sessions |-> 0] /\ [s \in Sessions |-> 0] = [s \in Sessions |-> Cardinality(Present(s))]
    BY <1>3, <2>1 DEF Init
  <2> QED
    BY <1>1, <1>3, <2>1, <2>2 DEF CountInv
<1>5. HoldInv
  <2>1. \A r \in Responses : Handled(r) = {}
    BY <1>2 DEF Handled
  <2> QED
    BY <1>1, <2>1 DEF HoldInv, Disjoint
<1>6. QueueInv
  BY <1>1, <1>2 DEF QueueInv, ClaimedOnce, Apart
<1> QED
  BY <1>4, <1>5, <1>6 DEF TravelInv

\* Every step keeps the way of a publication.
LEMMA TravelNext ==
  ASSUME RouteInv, TravelInv, [Next]_vars
  PROVE  RouteInv' /\ TravelInv'
<1>1. RouteInv'
  BY RouteNext
<1>2. ASSUME NEW r \in Responses, Step(r) PROVE TravelInv'
  <2>1. CountInv'
    BY <1>1, <1>2, CountStep DEF RouteInv, TravelInv
  <2>2. HoldInv'
    BY <1>2, HoldStep DEF RouteInv, TravelInv
  <2>3. QueueInv'
    BY <1>1, <1>2, QueueStep
  <2> QED
    BY <2>1, <2>2, <2>3 DEF TravelInv
<1>3. CASE (\E t \in Tokens : Outside(t)) \/ BeginClose \/ FinishClose \/ UNCHANGED vars
  <2>1. UNCHANGED resp
    BY <1>3, OutsideOwner DEF RouteInv
  <2>2. CountInv'
    BY <1>3, <2>1, CountOutside DEF RouteInv, TravelInv
  <2>3. HoldInv'
    BY <1>3, HoldOutside DEF RouteInv, TravelInv
  <2>4. QueueInv'
    BY <1>1, <1>3, QueueOutside
  <2> QED
    BY <1>1, <2>2, <2>3, <2>4 DEF TravelInv
<1> QED
  BY <1>1, <1>2, <1>3, NextCases

\* The way of a publication: it waits in one place and is shown at most once, a
\* claim stays renderable until shutdown although routes expire and threads move,
\* and progress of a call is deferred to another response only once the response
\* that made the call has left its session.
THEOREM PublicationsAreDelivered == Spec => []PublicationsReachOneResponse
<1>1. Init => RouteInv /\ TravelInv
  BY RouteInit, TravelInit
<1>2. RouteInv /\ TravelInv /\ [Next]_vars => RouteInv' /\ TravelInv'
  BY TravelNext
<1>3. TravelInv => PublicationsReachOneResponse
  BY DEF TravelInv, QueueInv, Fit, PublicationsReachOneResponse, ClaimedIsRenderable, DeferredProgressIsQuiet
<1> QED
  BY <1>1, <1>2, <1>3, PTL DEF Spec

=============================================================================
