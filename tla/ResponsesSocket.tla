--------------------------- MODULE ResponsesSocket ---------------------------
(***************************************************************************)
(* One Codex WebSocket session (internal/router/server_websocket.go).  The *)
(* session owns a provider socket, keeps the native history of every       *)
(* response that ended on it, and serves one response at a time while it   *)
(* reads both peers: a client may steer a response, continue it, or send   *)
(* the next response.create early; the provider may start a successor on   *)
(* its own once it has accepted steering.                                  *)
(*                                                                         *)
(* All reading and writing is done by one goroutine, so every message is   *)
(* handled in one step.  The provider is external: it answers the messages *)
(* of a socket in order and is the reference for what a response's context *)
(* is.  An item of a conversation is <<kind, number>>.                     *)
(***************************************************************************)
EXTENDS Integers, Sequences, FiniteSets, SequencesExt

CONSTANTS
  MaxCreates, MaxSteers,   \* messages of the client
  MaxOutputs,              \* output items of a response
  MaxInFlight,             \* events that the router has not read yet
  None

ASSUME SocketAssumption ==
  MaxCreates \in Nat \ {0} /\ MaxSteers \in Nat /\ MaxOutputs \in Nat /\ MaxInFlight \in Nat /\ None \notin Nat

Steers == 1..MaxSteers
IDs == 1..(MaxCreates + MaxSteers)     \* every automatic successor takes some steering

VARIABLES
  mode,          \* "idle" in run, "await" in forwardExecution, "stream" in Read, "ended"
  histories,     \* the retained responses
  lastID,
  steers,        \* steering sent and neither refused nor committed
  queuedCreate,
  exchange,      \* the response in progress
  connected,     \* s.upstream # nil
  up, down,      \* the provider socket, in both directions
  context, produced, accepted, succeeded, ended, active,   \* the provider
  told,          \* what the client has been told of its steering
  created, ran   \* history: the creates sent, the last one executed

router == <<mode, histories, lastID, steers, queuedCreate, exchange, connected, ran>>
provider == <<context, produced, accepted, succeeded, ended, active>>
vars == <<router, up, down, provider, told, created>>

-----------------------------------------------------------------------------
(* Histories *)

\* webSocketInput: the items of a create's input, text or a list.
Input(n) == <<"input", n>>
Steering(n) == <<"steer", n>>
Note(id) == <<"note", id>>             \* commentary of the router in the terminal snapshot
IsCall(item) == item[1] = "call"
Of(items, kind) == SelectSeq(items, LAMBDA item : item[1] = kind)
Without(items, kind) == SelectSeq(items, LAMBDA item : item[1] # kind)

\* isFinalAnswerMessage: a message that is not marked as commentary.
IsAnswer(item) == item[1] = "answer"

NoExchange == [parent |-> None, input |-> <<>>, output |-> <<>>, rebased |-> FALSE, id |-> None,
               answers |-> <<>>, disabled |-> FALSE]

\* webSocketHistory.items: the ancestors first.
items(id) ==
  LET before[k \in 0..Cardinality(IDs), n \in IDs \cup {None}] ==
        IF n = None \/ k = 0 THEN <<>>
        ELSE before[k - 1, histories[n].parent] \o histories[n].input \o histories[n].output
  IN before[Cardinality(IDs), id]

\* The generated commentary is filtered out before anything is sent.
projected(id) == Without(items(id), "note")

\* webSocketHistory: what is kept of a response that ended.
webSocketHistory(x, output) ==
  [parent |-> x.parent, input |-> x.input, rebased |-> x.rebased, output |-> output]

\* Mutant: the terminal snapshot replaces what was streamed.
mergeReplacing(streamed, terminal) == IF terminal = <<>> THEN streamed ELSE terminal

\* Delivered order is kept; items that were not streamed follow.
mergeWebSocketOutput(streamed, terminal) ==
  FoldLeft(LAMBDA output, item : IF item \in Range(output) THEN output ELSE Append(output, item),
           streamed, terminal)

-----------------------------------------------------------------------------
(* Steering *)

Acknowledged(p) == SelectSeq(steers, LAMBDA s : s.id # None /\ s.parent = p)
InputOf(list) == [i \in DOMAIN list |-> Steering(list[i].n)]

\* Mutant: a refusal is only looked for among the unacknowledged steering.
RefusesNew(m, s) == s.id = None /\ s.parent = m.parent

Refuses(m, s) ==
  \/ m.sid # None /\ s.id = m.sid
  \/ m.sid = None /\ s.id = None /\ s.parent = m.parent

FirstIndex(P(_)) ==
  LET found == {i \in DOMAIN steers : P(steers[i])}
  IN IF found = {} THEN 0 ELSE CHOOSE i \in found : \A j \in found : i <= j

\* observeControl: the first steering that the event can be about.
observeControl(m) ==
  LET i == FirstIndex(LAMBDA s : IF m.kind = "accepted" THEN s.id = None /\ s.parent = m.parent
                                 ELSE Refuses(m, s)) IN
  steers' = IF i = 0 THEN steers
            ELSE IF m.kind = "accepted" THEN [steers EXCEPT ![i].id = m.sid]
            ELSE RemoveAt(steers, i)

\* Mutant: steering is committed before it is acknowledged.
AdmittedUnseen(p) == SelectSeq(steers, LAMBDA s : s.parent = p)

Admitted(p) == Acknowledged(p)

\* commitSteering: what is acknowledged by now precedes the request's input.
commitSteering(x) ==
  /\ steers' = SelectSeq(steers, LAMBDA s : s \notin Range(Admitted(x.parent)))
  /\ exchange' = [x EXCEPT !.input = InputOf(Admitted(x.parent)) \o @]

isWebSocketSteering(m) == m.kind \in {"accepted", "failed"}

Told(m) ==
  told' = CASE m.kind = "accepted" -> [told EXCEPT ![m.n].state = "accepted"]
            [] m.kind = "failed" -> [told EXCEPT ![m.n].state = "failed"]
            [] m.kind = "created" ->
                 [n \in Steers |-> IF n \in m.takes THEN [told[n] EXCEPT !.state = "committed"] ELSE told[n]]
            [] OTHER -> told

-----------------------------------------------------------------------------
Nothing == [id \in IDs |-> <<>>]
Unsent == [n \in Steers |-> [state |-> "unsent", parent |-> None]]

Init ==
  /\ mode = "idle" /\ created = 0
  /\ histories = <<>> /\ lastID = None /\ steers = <<>> /\ queuedCreate = None
  /\ exchange = NoExchange /\ connected = FALSE /\ ran = 0 /\ up = <<>> /\ down = <<>>
  /\ context = <<>> /\ produced = Nothing /\ accepted = Nothing
  /\ succeeded = {} /\ ended = {} /\ active = None /\ told = Unsent

\* The handler returns: both sockets are closed and nothing of the session
\* survives, neither here nor at the provider.
Close ==
  /\ mode' = "ended"
  /\ histories' = <<>> /\ lastID' = None /\ steers' = <<>> /\ queuedCreate' = None
  /\ exchange' = NoExchange /\ connected' = FALSE /\ ran' = 0 /\ up' = <<>> /\ down' = <<>>
  /\ context' = <<>> /\ produced' = Nothing /\ accepted' = Nothing
  /\ succeeded' = {} /\ ended' = {} /\ active' = None /\ told' = Unsent

\* A deadline passes, a budget is exceeded, a write or a transformation fails,
\* the provider sends an error, or the router shuts down.
Abort == mode # "ended" /\ Close /\ UNCHANGED created

\* readResponsesWebSocket: a peer leaves, or sends what is not a JSON text; its
\* reader reports that once, after the messages before it, and stops.
PeerFails(messages) == mode # "ended" /\ messages = <<>> /\ Close /\ UNCHANGED created

-----------------------------------------------------------------------------
(* Requests of the client *)

Live(id) == id # None /\ (id \in DOMAIN histories \/ id = exchange.id)
OutputOf(id) == IF id \in DOMAIN histories THEN histories[id].output ELSE exchange.output
HasCall(id) == Of(OutputOf(id), "call") # <<>>

\* Whether the instructions projected for this request differ from those that
\* the provider holds is the projection's affair; without a cached prefix there
\* is nothing to compare.
Rebases(p) ==
  IF p # None /\ (projected(p) # <<>> \/ Acknowledged(p) # <<>>) THEN BOOLEAN ELSE {FALSE}

\* What goes upstream: the new input after the cached prefix, or, rebased, the
\* whole conversation as a request without a predecessor.
Sent(c, rebased) ==
  [kind |-> "create", n |-> c.n, warm |-> c.warm,
   prev |-> IF rebased THEN None ELSE c.prev,
   input |-> IF rebased THEN projected(c.prev) \o InputOf(Acknowledged(c.prev)) \o <<Input(c.n)>>
             ELSE <<Input(c.n)>>]

\* execute for a response.create, up to the wait for the first event.
execute(c) ==
  IF c.prev # None /\ c.prev \notin DOMAIN histories
  THEN Close
  ELSE \E rebased \in Rebases(c.prev) :
         /\ exchange' = [NoExchange EXCEPT !.parent = c.prev, !.input = <<Input(c.n)>>, !.rebased = rebased]
         /\ up' = Append(up, Sent(c, rebased))
         /\ connected' = TRUE /\ mode' = "await" /\ ran' = c.n /\ queuedCreate' = None
         /\ UNCHANGED <<histories, lastID, steers, told, down, provider>>

\* run: a queued create goes before anything that either peer has sent.
RunQueued ==
  /\ mode = "idle" /\ queuedCreate # None
  /\ execute(queuedCreate)
  /\ UNCHANGED created

Reading == mode \in {"await", "stream"} \/ (mode = "idle" /\ queuedCreate = None)

\* Mutant: a second create takes the place of the queued one.
QueuesLatest == TRUE

Queues == queuedCreate = None

\* control for a response.create while a response is in progress.
queueCreate(c) ==
  IF Queues
  THEN /\ queuedCreate' = c
       /\ UNCHANGED <<mode, histories, lastID, steers, exchange, connected, ran, told, up, down, provider>>
  ELSE Close

\* The client does not race a successor that the provider may start: it sends a
\* request only while the steering that it has not heard of waits for a tool
\* result, and does not return to a response it continued with changed
\* instructions.
Unheard(n) == told[n].state \in {"sent", "accepted"}
RebasedFrom(p) ==
  \/ \E id \in DOMAIN histories : histories[id].parent = p /\ histories[id].rebased
  \/ exchange.parent = p /\ exchange.rebased
MayCreate(p) ==
  /\ \A n \in Steers : Unheard(n) => HasCall(told[n].parent)
  /\ p # None => Live(p) /\ ~RebasedFrom(p)

ClientCreate(p, warm) ==
  /\ Reading /\ (created < MaxCreates \/ queuedCreate # None)
  /\ MayCreate(p) /\ (warm => created = 0)
  /\ created' = created + 1
  /\ LET c == [n |-> created', prev |-> p, warm |-> warm] IN
     IF mode = "idle" THEN execute(c) ELSE queueCreate(c)

NextSteer == Cardinality({n \in Steers : told[n].state # "unsent"}) + 1

\* control for response.steer: noted, then forwarded as it is.
ClientSteer(p) ==
  /\ Reading /\ NextSteer \in Steers /\ Live(p)
  /\ queuedCreate # None => HasCall(p)
  /\ steers' = Append(steers, [id |-> None, parent |-> p, n |-> NextSteer])
  /\ up' = Append(up, [kind |-> "steer", n |-> NextSteer, parent |-> p])
  /\ told' = [told EXCEPT ![NextSteer] = [state |-> "sent", parent |-> p]]
  /\ UNCHANGED <<mode, histories, lastID, queuedCreate, exchange, connected, ran, down, provider, created>>

\* Before a first create there is no socket for a control message.
SteerUnconnected ==
  /\ mode = "idle" /\ ~connected
  /\ Close /\ UNCHANGED created

-----------------------------------------------------------------------------
(* Events of the provider *)

Cleared == NoExchange

\* providerControl: an event of steering is noted, then passed on as it is.
providerControl(m) == observeControl(m) /\ Told(m)

\* finalAnswerStream.observe: an answer waits for the end of its response while
\* later items pass.  Beyond the budget of the buffer, or in a session without
\* the transform, it passes with those before it, and none waits any more.
observe(x, item) ==
  LET passes == [x EXCEPT !.output = @ \o x.answers \o <<item>>, !.answers = <<>>, !.disabled = TRUE] IN
  IF ~IsAnswer(item) THEN {[x EXCEPT !.output = Append(@, item)]}
  ELSE {passes} \cup (IF x.disabled THEN {} ELSE {[x EXCEPT !.answers = Append(@, item)]})

\* Mutant: the answers that wait are dropped with the terminal event.
flushDropped(x) == <<>>

\* finalAnswerStream.flush, before the terminal event.
flush(x) == x.answers

\* webSocketOutput.message for the events that change the session, each as the
\* transforms let it through; commentary of the router comes before the answers
\* and in front of the terminal snapshot.
message(m) ==
  CASE isWebSocketSteering(m) ->
         observeControl(m) /\ UNCHANGED <<mode, histories, lastID, exchange>>
    [] m.kind = "created" ->
         /\ commitSteering([exchange EXCEPT !.id = m.id])
         /\ mode' = "stream" /\ UNCHANGED <<histories, lastID>>
    [] m.kind = "item" ->
         /\ exchange' \in observe(exchange, m.item)
         /\ mode' = "stream" /\ UNCHANGED <<histories, lastID, steers>>
    [] m.kind = "end" ->
         \E note \in {<<>>, <<Note(m.id)>>} :
           /\ histories' = [id \in DOMAIN histories \cup {m.id} |->
                IF id # m.id THEN histories[id]
                ELSE webSocketHistory(exchange, mergeWebSocketOutput(
                       exchange.output \o note \o flush(exchange), note \o m.output))]
           /\ lastID' = m.id /\ exchange' = Cleared /\ mode' = "idle"
           /\ UNCHANGED steers

\* An event for the response in progress.
Deliver ==
  /\ down' = Tail(down)
  /\ message(Head(down)) /\ Told(Head(down))
  /\ UNCHANGED <<queuedCreate, connected, ran, up, provider, created>>

\* forwardExecution waits for the first event of the response; steering that
\* is answered meanwhile is passed on and the wait goes on.
ReadFirst ==
  /\ mode = "await" /\ down # <<>>
  /\ \/ isWebSocketSteering(Head(down)) /\ down' = Tail(down) /\ providerControl(Head(down))
        /\ UNCHANGED <<mode, histories, lastID, queuedCreate, exchange, connected, ran, up, provider, created>>
     \/ ~isWebSocketSteering(Head(down)) /\ Deliver

\* Read: the events of the response after the first.
ReadEvent == mode = "stream" /\ down # <<>> /\ Deliver

\* Between responses only steering is expected, and a successor that the
\* provider starts: it inherits its parent, and fails when the projection of
\* the parent's instructions has changed.
IdleControl ==
  /\ mode = "idle" /\ queuedCreate = None /\ down # <<>>
  /\ Head(down).kind # "created"
  /\ down' = Tail(down)
  /\ providerControl(Head(down))
  /\ UNCHANGED <<mode, histories, lastID, queuedCreate, exchange, connected, ran, up, provider, created>>

Parent(m) == IF m.prev = None THEN lastID ELSE m.prev

AutomaticSuccessor ==
  /\ mode = "idle" /\ queuedCreate = None /\ down # <<>>
  /\ Head(down).kind = "created"
  /\ LET m == Head(down)
         p == Parent(m) IN
     IF p \notin DOMAIN histories THEN Close
     ELSE \E changed \in Rebases(p) :
            IF changed THEN Close
            ELSE /\ commitSteering([NoExchange EXCEPT !.parent = p, !.id = m.id])
                 /\ Told(m) /\ mode' = "stream" /\ down' = Tail(down)
                 /\ UNCHANGED <<histories, lastID, queuedCreate, connected, ran, up, provider>>
  /\ UNCHANGED created

-----------------------------------------------------------------------------
(* The provider (external) *)

NewID == Cardinality(DOMAIN context) + 1
Started(id, input) == [i \in DOMAIN context \cup {id} |-> IF i = id THEN input ELSE context[i]]
Full(p) == IF p = None THEN <<>> ELSE context[p] \o produced[p]
Numbers(list) == {list[i] : i \in DOMAIN list}

\* A response begins: its context is its parent's, the accepted steering and
\* the new input, and from now on the parent takes no steering.
Begin(p, input, prev) ==
  LET taken == IF p = None THEN <<>> ELSE accepted[p] IN
  /\ context' = Started(NewID, Full(p) \o [i \in DOMAIN taken |-> Steering(taken[i])] \o input)
  /\ down' = Append(down, [kind |-> "created", id |-> NewID, prev |-> prev, takes |-> Numbers(taken)])
  /\ accepted' = [id \in IDs |-> IF id = p THEN <<>> ELSE accepted[id]]
  /\ succeeded' = succeeded \cup {p}
  /\ active' = NewID

ProviderCreate ==
  /\ up # <<>> /\ Head(up).kind = "create" /\ ~Head(up).warm /\ active = None
  /\ Begin(Head(up).prev, Head(up).input, Head(up).prev)
  /\ up' = Tail(up)
  /\ UNCHANGED <<router, produced, ended, told, created>>

\* generate=false: the input is kept and the response completed at once.
ProviderWarm ==
  /\ up # <<>> /\ Head(up).kind = "create" /\ Head(up).warm
  /\ context' = Started(NewID, Head(up).input)
  /\ succeeded' = succeeded \cup {NewID} /\ ended' = ended \cup {NewID}
  /\ down' = Append(down, [kind |-> "end", id |-> NewID, output |-> <<>>])
  /\ up' = Tail(up)
  /\ UNCHANGED <<router, produced, accepted, active, told, created>>

ProviderSteer ==
  /\ up # <<>> /\ Head(up).kind = "steer"
  /\ LET s == Head(up) IN
     \/ /\ s.parent \notin succeeded
        /\ accepted' = [accepted EXCEPT ![s.parent] = Append(@, s.n)]
        /\ down' = Append(down, [kind |-> "accepted", sid |-> s.n, parent |-> s.parent, n |-> s.n])
     \/ /\ down' = Append(down, [kind |-> "failed", sid |-> None, parent |-> s.parent, n |-> s.n])
        /\ UNCHANGED accepted
  /\ up' = Tail(up)
  /\ UNCHANGED <<router, context, produced, succeeded, ended, active, told, created>>

\* Accepted steering can still fail while it waits.
ProviderFails ==
  /\ \E p \in IDs : \E i \in DOMAIN accepted[p] :
       /\ accepted' = [accepted EXCEPT ![p] = RemoveAt(@, i)]
       /\ down' = Append(down, [kind |-> "failed", sid |-> accepted[p][i], parent |-> p, n |-> accepted[p][i]])
  /\ UNCHANGED <<router, up, context, produced, succeeded, ended, active, told, created>>

OutputItems == {"call", "answer"} \X {active}

ProviderOutput ==
  /\ active # None /\ Len(produced[active]) < MaxOutputs
  /\ \E item \in OutputItems \ Range(produced[active]) :
       /\ produced' = [produced EXCEPT ![active] = Append(@, item)]
       /\ down' = Append(down, [kind |-> "item", id |-> active, item |-> item])
  /\ UNCHANGED <<router, up, context, accepted, succeeded, ended, active, told, created>>

\* The terminal event names none or all of the items, and may add one that was
\* not streamed.
ProviderEnd ==
  /\ active # None
  /\ \E last \in {<<>>} \cup {<<i>> : i \in OutputItems \ Range(produced[active])}, named \in BOOLEAN :
       /\ Len(produced[active] \o last) <= MaxOutputs /\ (last # <<>> => named)
       /\ produced' = [produced EXCEPT ![active] = @ \o last]
       /\ down' = Append(down, [kind |-> "end", id |-> active,
                               output |-> IF named THEN produced'[active] ELSE <<>>])
  /\ ended' = ended \cup {active} /\ active' = None
  /\ UNCHANGED <<router, up, context, accepted, succeeded, told, created>>

\* A response that ended without a tool call and has steering is succeeded by
\* itself; with one, the steering waits for the client's tool result.  The event
\* may leave the parent out when it is the newest response.
ProviderSucceeds ==
  /\ active = None
  /\ \E p \in ended \ succeeded, named \in BOOLEAN :
       /\ accepted[p] # <<>> /\ Of(produced[p], "call") = <<>> /\ (named \/ NewID = p + 1)
       /\ Begin(p, <<>>, IF named THEN p ELSE None)
  /\ UNCHANGED <<router, up, produced, ended, told, created>>

-----------------------------------------------------------------------------
ProviderStep ==
  \/ ProviderCreate \/ ProviderWarm \/ ProviderSteer \/ ProviderFails
  \/ ProviderOutput \/ ProviderEnd \/ ProviderSucceeds

ClientStep ==
  \/ \E p \in IDs \cup {None}, warm \in BOOLEAN : ClientCreate(p, warm)
  \/ \E p \in IDs : ClientSteer(p)
  \/ SteerUnconnected

Next ==
  \/ ClientStep \/ RunQueued \/ ReadFirst \/ ReadEvent \/ IdleControl \/ AutomaticSuccessor \/ Abort
  \/ PeerFails(down) \/ PeerFails(<<>>)
  \/ (mode # "ended" /\ Len(down) < MaxInFlight /\ ProviderStep)

Spec == Init /\ [][Next]_vars

-----------------------------------------------------------------------------
(* Properties *)

\* Nothing on the way here was sent again as a whole.
Incremental(id) ==
  LET clean[k \in 0..Cardinality(IDs), n \in IDs \cup {None}] ==
        n = None \/ k = 0 \/ (~histories[n].rebased /\ clean[k - 1, histories[n].parent])
  IN clean[Cardinality(IDs), id]

\* Two histories of the same items, each once and in one order, but for answers
\* that come after a later call of their own response.
SameConversation(native, held) ==
  /\ Len(native) = Len(held) /\ Range(native) = Range(held)
  /\ LET at == [item \in Range(held) |-> CHOOSE k \in DOMAIN held : held[k] = item]
         late(item, other) == IsAnswer(item) /\ IsCall(other) /\ item[2] = other[2]
     IN \A j \in DOMAIN native : \A i \in 1..(j - 1) :
          at[native[i]] < at[native[j]] \/ late(native[j], native[i])

\* The retained history of every response is the conversation that the provider
\* has, although answers were held back while later items passed, steering was
\* acknowledged late or refused, the provider went on by itself, or a terminal
\* snapshot was partial or held the router's commentary.  After a rebase, whose
\* steering is that of the moment it was sent, this holds of everything but
\* steering (commitSteering, message, execute).
HistoryMatches ==
  \A id \in DOMAIN histories :
    LET native == projected(id)
        held == context[id] \o produced[id] IN
    IF Incremental(id) THEN SameConversation(native, held)
    ELSE SameConversation(Without(native, "steer"), Without(held, "steer"))

Times(n, list) == Cardinality({i \in DOMAIN list : list[i] = Steering(n)})

\* Steering is the user's input once: it is in a history at most once, and what
\* was refused is in none (unless a rebase had already sent it); an
\* acknowledgement belongs to the steering it is recorded for; and nothing
\* accepted is sent again to the response's successor ("does not resend accepted
\* steering", doc/spec/router.md:221).
SteeringOnce ==
  /\ \A n \in Steers, id \in DOMAIN histories :
       /\ Times(n, items(id)) <= 1
       /\ told[n].state = "failed" /\ Incremental(id) => Times(n, items(id)) = 0
  /\ \A i \in DOMAIN steers : steers[i].id \in {None, steers[i].n}
  /\ \A i \in DOMAIN up : up[i].kind = "create" /\ up[i].prev # None => Of(up[i].input, "steer") = <<>>

\* Creates are executed in the order in which they came, and none is dropped:
\* at most one waits, and it is the newest (control, run).
CreatesInOrder ==
  mode # "ended" =>
    IF queuedCreate = None THEN ran = created
    ELSE queuedCreate.n = created /\ ran = created - 1

\* What the user sends is acted on once and in order, steering and requests.
InputIsTakenOnce == SteeringOnce /\ CreatesInOrder
=============================================================================
