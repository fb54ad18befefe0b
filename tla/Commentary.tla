----------------------------- MODULE Commentary -----------------------------
(***************************************************************************)
(* The publication broker and the responses that deliver its messages      *)
(* (internal/router/commentary_publisher.go, commentary.go and the parts   *)
(* of mekugi_proxy.go that subscribe, hand off, drain and release).        *)
(*                                                                         *)
(* A route is a bearer token with a queue.  A shell thread has one route   *)
(* for as long as it is used; a Code Mode call has a route of its own,     *)
(* owned by its response until the carrier is handed off.  Publishers run  *)
(* outside the router and hold tokens; responses of one thread run         *)
(* concurrently and claim queued messages when they are prepared and when  *)
(* their stream ends.  Every broker method is one critical section.        *)
(***************************************************************************)
EXTENDS Integers, Sequences, FiniteSets, SequencesExt

CONSTANTS
  Responses, Directories, Threads, Calls,
  MaxTokens,              \* bound: routes ever created
  MaxPublications,        \* bound: publications ever sent
  MaxElapses,             \* bound: how often a route's time-to-live runs out
  MaxRoutes,              \* maxCommentaryRoutes
  MaxEvents,              \* maxCommentaryEvents
  MaxEventsPerRoute,      \* maxCommentaryEventsPerRoute
  MaxThreadIDs,           \* maxThreadCommentaryIDs
  None

ASSUME LimitsAssumption ==
  /\ {MaxTokens, MaxPublications, MaxElapses, MaxRoutes, MaxEvents,
      MaxEventsPerRoute, MaxThreadIDs} \subseteq Nat
  /\ None \notin Threads \cup Calls \cup Nat

VARIABLES
  routes,        \* token -> commentaryRoute
  threads,       \* thread -> threadCommentaryProvenance
  eventCount, threadIDCount, brokerClosed,
  late,          \* tokens of routes whose time-to-live has run out
  minted,        \* number of tokens created so far
  held,          \* tokens in the hands of running publishers
  proxyClosed, activeSessions,
  resp,          \* mekugiResponseTransform of each request
  calls,         \* calls with a durable record
  stored,        \* message IDs with a durable commentary record
  rendered,      \* message IDs shown to the client
  published, elapsed

broker == <<routes, threads, eventCount, threadIDCount, brokerClosed, late, minted>>
outside == <<held, published, elapsed>>
proxy == <<proxyClosed, activeSessions>>
durable == <<calls, stored, rendered>>
vars == <<broker, outside, proxy, durable, resp>>

Tokens == 1..MaxTokens
\* A history session is a directory and a thread.
Sessions == Directories \X Threads
\* commentaryMessageID hashes the token with the route's counter.
MessageIDs == Nat \X Nat
Events == [id: MessageIDs, call: Calls \cup {None}]

Idle == [pc |-> "idle", session |-> None, subs |-> <<>>, queue |-> <<>>]
ThreadOf(r) == resp[r].session[2]

Init ==
  /\ routes = <<>> /\ threads = <<>> /\ eventCount = 0 /\ threadIDCount = 0
  /\ brokerClosed = FALSE /\ late = {} /\ minted = 0
  /\ held = {} /\ published = 0 /\ elapsed = 0
  /\ proxyClosed = FALSE /\ activeSessions = [s \in Sessions |-> 0]
  /\ resp = [r \in Responses |-> Idle]
  /\ calls = {} /\ stored = {} /\ rendered = {}

-----------------------------------------------------------------------------
(* The broker.                                                             *)

Without(R, S) == [t \in DOMAIN R \ S |-> R[t]]
With(R, t, x) == [u \in DOMAIN R \cup {t} |-> IF u = t THEN x ELSE R[u]]
\* The events waiting on some routes, each at its place, and their number.
Waiting(R, S) == UNION {{t} \X DOMAIN R[t].events : t \in S}
Queued(R, S) == Cardinality(Waiting(R, S))

\* cleanupExpiredLocked opens every method but cancel and close.
Live == Without(routes, late)
\* Mutant: expiry drops the routes and keeps their events in the count.
LiveCountKept == eventCount

LiveCount == eventCount - Queued(routes, late)

Route(session, thread, call) ==
  [session |-> session, thread |-> thread, call |-> call,
   nextID |-> 0, events |-> <<>>, complete |-> FALSE]

\* subscribe: a Code Mode route, or no token when the broker is closed or full.
Subscribe(session, call) ==
  /\ late' = {} /\ eventCount' = LiveCount
  /\ IF brokerClosed \/ Cardinality(DOMAIN Live) >= MaxRoutes
       THEN routes' = Live /\ UNCHANGED minted
       ELSE /\ minted < MaxTokens
            /\ minted' = minted + 1
            /\ routes' = With(Live, minted + 1, Route(session, None, call))
  /\ UNCHANGED <<threads, threadIDCount, brokerClosed>>

\* Mutant: every request gives its thread a route of its own.
RouteOfThreadNever(thread) == {}

RouteOfThread(thread) == {t \in DOMAIN Live : Live[t].thread = thread}

\* subscribeThread: the thread's route, refreshed and moved to the session.
\* The provenance moves even when no route can be created.
SubscribeThread(session, thread) ==
  /\ late' = {} /\ eventCount' = LiveCount
  /\ UNCHANGED <<threadIDCount, brokerClosed>>
  /\ IF brokerClosed \/ (thread \notin DOMAIN threads /\ Cardinality(DOMAIN threads) >= MaxRoutes)
       THEN routes' = Live /\ UNCHANGED <<threads, minted>>
       ELSE /\ threads' = With(threads, thread,
                              [session |-> session,
                               ids |-> IF thread \in DOMAIN threads THEN threads[thread].ids ELSE {}])
            /\ \/ \E t \in RouteOfThread(thread) :
                    /\ routes' = [Live EXCEPT ![t].session = session]
                    /\ UNCHANGED minted
               \/ /\ RouteOfThread(thread) = {}
                  /\ IF Cardinality(DOMAIN Live) >= MaxRoutes
                       THEN routes' = Live /\ UNCHANGED minted
                       ELSE /\ minted < MaxTokens
                            /\ minted' = minted + 1
                            /\ routes' = With(Live, minted + 1, Route(session, thread, None))

\* Mutant: the limits are tested after the event they should refuse.
HasCapacityLate(route) ==
  /\ LiveCount <= MaxEvents
  /\ IF route.thread = None
       THEN route.nextID <= MaxEventsPerRoute
       ELSE Len(route.events) <= MaxEventsPerRoute /\ threadIDCount <= MaxThreadIDs

HasCapacity(route) ==
  /\ LiveCount < MaxEvents
  /\ IF route.thread = None
       THEN route.nextID < MaxEventsPerRoute
       ELSE Len(route.events) < MaxEventsPerRoute /\ threadIDCount < MaxThreadIDs

Appended(route, t) ==
  [route EXCEPT !.nextID = @ + 1,
                !.events = Append(@, [id |-> <<t, route.nextID + 1>>, call |-> route.call])]

\* publish on a known token: "text" fits, anything else is blank or oversized.
Accepted(t, text) == text = "text" /\ HasCapacity(Live[t])

AfterPublish(t, text) == IF Accepted(t, text) THEN Appended(Live[t], t) ELSE Live[t]

\* Only a Code Mode route ends with its publisher.
Finishes(t, complete) == complete /\ Live[t].thread = None

Publish(t, text, complete) ==
  /\ late' = {}
  /\ UNCHANGED <<brokerClosed, minted>>
  /\ \/ /\ t \notin DOMAIN Live                      \* unauthorized
        /\ routes' = Live /\ eventCount' = LiveCount
        /\ UNCHANGED <<threads, threadIDCount>>
     \/ /\ t \in DOMAIN Live
        /\ eventCount' = LiveCount + (IF Accepted(t, text) THEN 1 ELSE 0)
        /\ IF Accepted(t, text) /\ Live[t].thread # None
             THEN /\ threads' = [threads EXCEPT ![Live[t].thread].ids = @ \cup {<<t, Live[t].nextID + 1>>}]
                  /\ threadIDCount' = threadIDCount + 1
             ELSE UNCHANGED <<threads, threadIDCount>>
        /\ LET after == AfterPublish(t, text) IN
           routes' = IF Finishes(t, complete) /\ after.events = <<>>
                       THEN Without(Live, {t})
                       ELSE [Live EXCEPT ![t] = [after EXCEPT !.complete = @ \/ Finishes(t, complete)]]

\* Mutant: a drain copies the queue and does not consume it.
DrainPeek(S) ==
  /\ late' = {} /\ eventCount' = LiveCount /\ routes' = Live
  /\ UNCHANGED <<threads, threadIDCount, brokerClosed, minted>>

\* Mutant: a drained route stays although its publisher has ended.
DrainKeeping(S) ==
  /\ late' = {} /\ eventCount' = LiveCount - Queued(Live, S)
  /\ routes' = [t \in DOMAIN Live |-> IF t \in S THEN [Live[t] EXCEPT !.events = <<>>] ELSE Live[t]]
  /\ UNCHANGED <<threads, threadIDCount, brokerClosed, minted>>

\* drainLocked over a set of routes.
Drain(S) ==
  /\ late' = {} /\ eventCount' = LiveCount - Queued(Live, S)
  /\ routes' = [t \in DOMAIN Live \ {u \in S : Live[u].complete} |->
                  IF t \in S THEN [Live[t] EXCEPT !.events = <<>>] ELSE Live[t]]
  /\ UNCHANGED <<threads, threadIDCount, brokerClosed, minted>>

Source(event) == event.id[1]
Number(event) == event.id[2]

\* What a drain returns: the events of one route after the other, in the order a
\* map iteration gives the routes, and those of a route in their own order.
Claims(S) ==
  {q \in SetToSeqs(UNION {Range(Live[t].events) : t \in S}) :
     \A i, j \in DOMAIN q : i < j /\ Source(q[i]) = Source(q[j]) =>
       Number(q[i]) < Number(q[j]) /\ \A k \in i..j : Source(q[k]) = Source(q[i])}

\* cancel forgets a route and its queue.
Cancelled(S) ==
  /\ routes' = Without(routes, S)
  /\ late' = late \ S
  /\ eventCount' = eventCount - Queued(routes, S \cap DOMAIN routes)
  /\ UNCHANGED <<threads, threadIDCount, brokerClosed, minted>>

-----------------------------------------------------------------------------
(* Requests.                                                               *)

\* A request enters its session unless the proxy is closed.
Activate(r, session) ==
  /\ resp[r].pc = "idle" /\ ~proxyClosed
  /\ activeSessions' = [activeSessions EXCEPT ![session] = @ + 1]
  /\ resp' = [resp EXCEPT ![r].pc = "activated", ![r].session = session]
  /\ UNCHANGED <<broker, outside, proxyClosed, durable>>

\* prepareShellCommentary: shell workers of the thread discover the token.
PrepareShellCommentary(r) ==
  /\ resp[r].pc = "activated"
  /\ SubscribeThread(resp[r].session, ThreadOf(r))
  /\ resp' = [resp EXCEPT ![r].pc = "subscribed"]
  /\ held' = held \cup {t \in DOMAIN routes' : routes'[t].thread = ThreadOf(r)}
  /\ UNCHANGED <<published, elapsed, proxy, durable>>

\* Deactivation forgets a count of one, or none when the proxy has closed.
Deactivated(session) ==
  [activeSessions EXCEPT ![session] = IF @ <= 1 THEN 0 ELSE @ - 1]

\* The visible input is refused: the request ends without claiming anything.
Refuse(r) ==
  /\ resp[r].pc = "subscribed"
  /\ resp' = [resp EXCEPT ![r] = [Idle EXCEPT !.pc = "closed"]]
  /\ activeSessions' = Deactivated(resp[r].session)
  /\ UNCHANGED <<broker, outside, proxyClosed, durable>>

ThreadRoutes(r) ==
  {t \in DOMAIN Live : Live[t].thread = ThreadOf(r) /\ Live[t].session = resp[r].session}

\* Mutant: the guard on concurrent requests is missing.
DeferredRoutesAll(r) ==
  ThreadRoutes(r) \cup {t \in DOMAIN Live : Live[t].session = resp[r].session /\ Live[t].thread = None}

\* drainCommentarySession: Code Mode queues only when no other request of the
\* session is active.
DeferredRoutes(r) ==
  IF activeSessions[resp[r].session] > 1 THEN ThreadRoutes(r)
  ELSE ThreadRoutes(r) \cup {t \in DOMAIN Live : Live[t].session = resp[r].session
                                                 /\ Live[t].thread = None}

DrainCommentarySession(r) ==
  /\ resp[r].pc = "subscribed"
  /\ Drain(DeferredRoutes(r))
  /\ \E queue \in Claims(DeferredRoutes(r)) :
       resp' = [resp EXCEPT ![r].pc = "prepared", ![r].queue = queue]
  /\ UNCHANGED <<outside, proxy, durable>>

\* response.created starts rendering what the request claimed.
Created(r) ==
  /\ resp[r].pc = "prepared"
  /\ resp' = [resp EXCEPT ![r].pc = "created"]
  /\ UNCHANGED <<broker, outside, proxy, durable>>

\* Mutant: provenance is looked up by the thread's current session.
RenderableBySession(r, event) ==
  IF event.call # None THEN event.call \in calls
  ELSE \E th \in DOMAIN threads : /\ threads[th].session = resp[r].session
                                  /\ event.id \in threads[th].ids

\* A claimed publication may be shown when its call has a durable record, or
\* when the response's thread published it.
Renderable(r, event) ==
  IF event.call # None THEN event.call \in calls
  ELSE /\ ThreadOf(r) \in DOMAIN threads
       /\ event.id \in threads[ThreadOf(r)].ids

\* runtimeCommentaryMessage: the identity is stored first, then shown; a store
\* that fails suppresses the message.
Render(r) ==
  /\ resp[r].pc \in {"created", "draining", "threadDraining"} /\ resp[r].queue # <<>>
  /\ LET event == Head(resp[r].queue) IN
     \/ /\ Renderable(r, event)
        /\ stored' = stored \cup {event.id}
        /\ rendered' = rendered \cup {event.id}
     \/ UNCHANGED <<stored, rendered>>
  /\ resp' = [resp EXCEPT ![r].queue = Tail(@)]
  /\ UNCHANGED <<broker, outside, proxy, calls>>

Streaming(r) ==
  /\ resp[r].pc = "created" /\ resp[r].queue = <<>>
  /\ resp' = [resp EXCEPT ![r].pc = "streaming"]
  /\ UNCHANGED <<broker, outside, proxy, durable>>

Handled(r) == {resp[r].subs[i].call : i \in DOMAIN resp[r].subs}

\* lowerCodeModeCommentary: the call is rewritten around a route of its own.
LowerCall(r, call) ==
  /\ resp[r].pc = "streaming"
  /\ call \notin calls /\ \A q \in Responses : call \notin Handled(q)
  /\ Subscribe(resp[r].session, call)
  /\ resp' = [resp EXCEPT ![r].pc = "lowered",
                 ![r].subs = Append(@, [token |-> IF minted' > minted THEN minted' ELSE None,
                                        call |-> call, carrier |-> "prepared"])]
  /\ UNCHANGED <<outside, proxy, durable>>

\* commitLocalCall: the record is stored, then the carrier goes to the client,
\* whose program holds the token.
CommitLocalCall(r) ==
  /\ resp[r].pc = "lowered"
  /\ LET last == Len(resp[r].subs)
         sub == resp[r].subs[last] IN
     /\ calls' = calls \cup {sub.call}
     /\ held' = held \cup ({sub.token} \ {None})
     /\ resp' = [resp EXCEPT ![r].pc = "streaming", ![r].subs[last].carrier = "handed"]
  /\ UNCHANGED <<broker, published, elapsed, proxy, stored, rendered>>

\* A stream that fails, a disconnect, or a store that refuses the call.
Fail(r) ==
  /\ resp[r].pc \in {"prepared", "created", "streaming", "lowered", "draining", "threadDraining"}
  /\ resp' = [resp EXCEPT ![r].pc = "failed", ![r].queue = <<>>]
  /\ UNCHANGED <<broker, outside, proxy, durable>>

\* A terminal event: the transform drains the calls it handed off.
Terminal(r) ==
  /\ resp[r].pc = "streaming"
  /\ resp' = [resp EXCEPT ![r].pc = "draining"]
  /\ UNCHANGED <<broker, outside, proxy, durable>>

HandedOff(r) ==
  {i \in DOMAIN resp[r].subs : resp[r].subs[i].carrier = "handed" /\ resp[r].subs[i].token # None}

\* drain of one handed-off subscription; the next waits for its rendering.
DrainCall(r, i) ==
  /\ resp[r].pc = "draining" /\ resp[r].queue = <<>>
  /\ i \in HandedOff(r) /\ \A j \in HandedOff(r) : i <= j
  /\ LET own == {resp[r].subs[i].token} \cap DOMAIN Live IN
     /\ Drain(own)
     /\ \E queue \in Claims(own) :
          resp' = [resp EXCEPT ![r].queue = queue, ![r].subs[i].carrier = "drained"]
  /\ UNCHANGED <<outside, proxy, durable>>

\* drainThreadCommentarySession, after every subscription.
DrainThread(r) ==
  /\ resp[r].pc = "draining" /\ resp[r].queue = <<>>
  /\ HandedOff(r) = {}
  /\ Drain(ThreadRoutes(r))
  /\ \E queue \in Claims(ThreadRoutes(r)) :
       resp' = [resp EXCEPT ![r].pc = "threadDraining", ![r].queue = queue]
  /\ UNCHANGED <<outside, proxy, durable>>

\* Mutant: nothing is cancelled.
UnhandedNone(r) == {}

Unhanded(r) ==
  {resp[r].subs[i].token : i \in {j \in DOMAIN resp[r].subs : resp[r].subs[j].carrier = "prepared"}} \ {None}

\* releaseCommentarySubscriptions cancels what was never handed off.
ReleaseCommentarySubscriptions(r) ==
  /\ \/ resp[r].pc = "threadDraining" /\ resp[r].queue = <<>>
     \/ resp[r].pc = "failed"
  /\ Cancelled(Unhanded(r))
  /\ resp' = [resp EXCEPT ![r].pc = "released"]
  /\ UNCHANGED <<outside, proxy, durable>>

\* Close leaves the session.
Close(r) ==
  /\ resp[r].pc = "released"
  /\ resp' = [resp EXCEPT ![r].pc = "closed"]
  /\ activeSessions' = Deactivated(resp[r].session)
  /\ UNCHANGED <<broker, outside, proxyClosed, durable>>

-----------------------------------------------------------------------------
(* Publishers, time and shutdown.                                          *)

\* A program or a shell worker publishes; Code Mode publishers may end.
Send(t, text) ==
  /\ published < MaxPublications /\ t \in held
  /\ Publish(t, text, FALSE)
  /\ published' = published + 1
  /\ UNCHANGED <<held, elapsed, proxy, durable, resp>>

IsCallToken(t) == \E r \in Responses : \E i \in DOMAIN resp[r].subs : resp[r].subs[i].token = t

\* A Code Mode program ends, with or without the completion message.
EndProgram(t) ==
  /\ t \in held /\ IsCallToken(t)
  /\ held' = held \ {t}
  /\ Publish(t, "blank", TRUE) \/ UNCHANGED broker
  /\ UNCHANGED <<published, elapsed, proxy, durable, resp>>

\* A route has been idle for its time-to-live.
Elapse(t) ==
  /\ elapsed < MaxElapses /\ t \in DOMAIN routes \ late
  /\ late' = late \cup {t}
  /\ elapsed' = elapsed + 1
  /\ UNCHANGED <<routes, threads, eventCount, threadIDCount, brokerClosed, minted,
                 held, published, proxy, durable, resp>>

\* The proxy closes: no new request, then nothing is left.
BeginClose ==
  /\ ~proxyClosed /\ proxyClosed' = TRUE
  /\ UNCHANGED <<broker, outside, activeSessions, durable, resp>>

FinishClose ==
  /\ proxyClosed /\ ~brokerClosed
  /\ brokerClosed' = TRUE /\ routes' = <<>> /\ threads' = <<>> /\ late' = {}
  /\ eventCount' = 0 /\ threadIDCount' = 0
  /\ activeSessions' = [s \in Sessions |-> 0]
  /\ UNCHANGED <<minted, outside, proxyClosed, durable, resp>>

Step(r) ==
  \/ \E s \in Sessions : Activate(r, s)
  \/ PrepareShellCommentary(r) \/ Refuse(r) \/ DrainCommentarySession(r)
  \/ Created(r) \/ Render(r) \/ Streaming(r)
  \/ \E c \in Calls : LowerCall(r, c)
  \/ CommitLocalCall(r) \/ Fail(r) \/ Terminal(r)
  \/ \E i \in DOMAIN resp[r].subs : DrainCall(r, i)
  \/ DrainThread(r) \/ ReleaseCommentarySubscriptions(r) \/ Close(r)

Next ==
  \/ \E r \in Responses : Step(r)
  \/ \E t \in Tokens : \/ \E text \in {"text", "oversized"} : Send(t, text)
                       \/ EndProgram(t)
                       \/ Elapse(t)
  \/ BeginClose \/ FinishClose

Spec == Init /\ [][Next]_vars

-----------------------------------------------------------------------------
(* Properties.                                                             *)

\* The identities that the threads retain.
Retained == UNION {{th} \X threads[th].ids : th \in DOMAIN threads}

\* The counters that admit publications agree with what the broker holds, so
\* that expiry, cancellation and drains can neither leak nor mint capacity, and
\* routes, threads, queued events and retained identities stay in their limits.
Accounting ==
  /\ eventCount = Queued(routes, DOMAIN routes) /\ eventCount <= MaxEvents
  /\ threadIDCount = Cardinality(Retained) /\ threadIDCount <= MaxThreadIDs
  /\ Cardinality(DOMAIN routes) <= MaxRoutes /\ Cardinality(DOMAIN threads) <= MaxRoutes
  /\ \A t \in DOMAIN routes : Len(routes[t].events) <= MaxEventsPerRoute

\* Two queues have a message in common only if they are one, and at one place.
Apart(p, q, same) == \A i \in DOMAIN p, j \in DOMAIN q : p[i].id = q[j].id => same /\ i = j

\* Drains of concurrent responses consume each publication once: no message is
\* waiting in two places, and none is waiting after it was shown.
ClaimedOnce ==
  /\ \A t, u \in DOMAIN routes : Apart(routes[t].events, routes[u].events, t = u)
  /\ \A r, q \in Responses : Apart(resp[r].queue, resp[q].queue, r = q)
  /\ \A t \in DOMAIN routes, r \in Responses : Apart(routes[t].events, resp[r].queue, FALSE)
  /\ \A t \in DOMAIN routes : \A i \in DOMAIN routes[t].events : routes[t].events[i].id \notin rendered
  /\ \A r \in Responses : \A i \in DOMAIN resp[r].queue : resp[r].queue[i].id \notin rendered

\* A claimed publication stays renderable although its route expires or its
\* thread moves to another session, until the router shuts down.
ClaimedIsRenderable ==
  brokerClosed \/ \A r \in Responses : \A i \in DOMAIN resp[r].queue : Renderable(r, resp[r].queue[i])

\* Progress of a Code Mode call is deferred to another response only once the
\* response that made the call has left the session.
DeferredProgressIsQuiet ==
  \A r, q \in Responses :
    \A i \in DOMAIN resp[r].queue : resp[r].queue[i].call \in Handled(q) => q = r \/ resp[q].pc = "closed"

\* A publication is shown by one response at most, the right one, and once it is
\* claimed no expiry or move takes that from it (a response that fails drops what
\* it claimed): the three parts above.
PublicationsReachOneResponse == ClaimedOnce /\ ClaimedIsRenderable /\ DeferredProgressIsQuiet

\* Every route has an owner.  A thread has one route, whose provenance record
\* exists and names the same session (publish dereferences that record without a
\* check); a call's route outlives its response only when its program got the
\* token; and a route that announced its end is gone as soon as its queue is.
RoutesAreOwned ==
  \A t \in DOMAIN routes :
    /\ routes[t].thread # None =>
         /\ routes[t].thread \in DOMAIN threads
         /\ routes[t].session = threads[routes[t].thread].session
         /\ \A u \in DOMAIN routes : routes[u].thread = routes[t].thread => u = t
    /\ routes[t].call # None =>
         \E r \in Responses : \E i \in DOMAIN resp[r].subs :
           /\ resp[r].subs[i].token = t
           /\ resp[r].subs[i].carrier # "prepared" \/ resp[r].pc \notin {"released", "closed"}
    /\ routes[t].complete => routes[t].events # <<>>

=============================================================================
