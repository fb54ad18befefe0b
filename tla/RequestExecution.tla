-------------------------- MODULE RequestExecution --------------------------
(***************************************************************************)
(* One Responses request from its arrival to its deferred clean-up         *)
(* (internal/router/server.go, executeRequest) together with what requests *)
(* share: the critical-error queue (critical_errors.go) and the thread     *)
(* totals (thread_usage.go).  The provider, the client, the timers and a   *)
(* shutdown act at any moment.  The mentor's schedule is a module of its   *)
(* own: here it can only refuse a request.                                 *)
(***************************************************************************)
EXTENDS Naturals, FiniteSetsExt

CONSTANTS
  Requests,
  ThreadOf,           \* the thread-id header of each request
  TokenCounts,        \* bound: what one response may report
  MaxRetries,         \* maxUpstreamRetries
  NoticeLimit,        \* 256 entries of the critical-error queue
  ThreadLimit,        \* maxCommentaryRoutes tracked threads
  MaxTotal,           \* the largest total the counters hold
  MaxModelFailures,   \* bound: failed GET /v1/models requests
  Mekugi,             \* --mode mekugi, not passthrough
  None

ASSUME ExecutionAssumption ==
  /\ {MaxRetries, NoticeLimit, ThreadLimit, MaxTotal, MaxModelFailures} \subseteq Nat
  /\ TokenCounts \subseteq Nat
  /\ Mekugi \in BOOLEAN
  /\ None \notin Nat

VARIABLES
  ex,             \* each request: where executeRequest is and what it knows
  ctx,            \* its start and execution contexts
  entries,        \* CriticalErrors.entries by category
  overflow,       \* CriticalErrors.overflow
  totals,         \* threadUsage.threads
  modelFailures,  \* bound counter of ModelsFailure
  failures,       \* history: failures that were recorded
  carried         \* history: notices that a successful response carried

shared == <<entries, overflow, failures, carried>>
vars == <<ex, ctx, entries, overflow, totals, modelFailures, failures, carried>>

Put(f, k, v) == [x \in DOMAIN f \cup {k} |-> IF x = k THEN v ELSE f[x]]

NoNotices == [c \in {} |-> 0]

Waiting == [pc |-> "new", attempt |-> 0, status |-> None, tr |-> FALSE, visible |-> FALSE,
            held |-> NoNotices, emitted |-> FALSE, terminal |-> "unknown", usage |-> None,
            err |-> {}, phase |-> "none", outcome |-> "unknown", sent |-> "none"]

Init ==
  /\ ex = [r \in Requests |-> Waiting]
  /\ ctx = [r \in Requests |-> "live"]
  /\ entries = [c \in {} |-> 0] /\ overflow = 0
  /\ totals = [th \in {} |-> 0]
  /\ modelFailures = 0 /\ failures = 0 /\ carried = {}

-----------------------------------------------------------------------------
(* Contexts.  The start context is a child of the execution context with a  *)
(* deadline: it ends first by itself ("expired") or with its parent.        *)

StartDone(r) == ctx[r] # "live"
ExecDone(r) == ctx[r] \in {"canceled", "both"}
StartErr(r) == IF ctx[r] \in {"expired", "both"} THEN "deadline" ELSE "canceled"

Starting == {"claim", "shape", "forward", "http", "backoff"}

\* The provider's body is being read: while the router decides what it is, as a
\* Grok stream that becomes one document, as a stream, as a document.
Reading == {"sniff", "grok", "stream", "json"}

\* A write to the client is under way; nothing bounds how long it takes.
Writing == {"writing", "last"}

StartTimeout(r) ==
  /\ ex[r].pc \in Starting /\ ctx[r] = "live"
  /\ ctx' = [ctx EXCEPT ![r] = "expired"]
  /\ UNCHANGED <<ex, totals, shared, modelFailures>>

\* The client goes away or the server context is cancelled: both cancel the
\* execution context.  Elsewhere nothing reads the contexts any more.
Cancel(r) ==
  /\ ex[r].pc \in Starting \cup Reading \/ "canceled" \in ex[r].err
  /\ ~ExecDone(r)
  /\ ctx' = [ctx EXCEPT ![r] = IF @ = "expired" THEN "both" ELSE "canceled"]
  /\ UNCHANGED <<ex, totals, shared, modelFailures>>

\* withRequestStartCause: a deadline is the start context's own once that has
\* expired, whichever timer it came from.
WithStartCause(r, err) ==
  IF "deadline" \in err /\ StartErr(r) = "deadline" THEN err \cup {"start"} ELSE err

-----------------------------------------------------------------------------
(* Preparation.                                                             *)

\* A step that fails leaves the body of executeRequest for its deferred calls,
\* which read nothing else of the response.
Failed(e, phase, err) ==
  [e EXCEPT !.pc = "unwind", !.phase = phase, !.err = err, !.attempt = 0, !.status = None, !.tr = FALSE,
            !.visible = FALSE, !.emitted = FALSE, !.terminal = "unknown"]

Arrive(r) ==
  /\ ex[r].pc = "new"
  /\ ex' = [ex EXCEPT ![r].pc = "claim"]
  /\ UNCHANGED <<ctx, totals, shared, modelFailures>>

\* An unreadable, oversized or malformed body never reaches executeRequest.
RefuseBody(r) ==
  /\ ex[r].pc = "new"
  /\ ex' = [ex EXCEPT ![r].pc = "ended"]
  /\ UNCHANGED <<ctx, totals, shared, modelFailures>>

\* Mutant: a notice that another request carries is claimed again.
ClaimableAlways == {c \in DOMAIN entries : entries[c].delivered = 0}

\* CriticalErrors.transform takes what was never shown and nobody carries.
Claimable == {c \in DOMAIN entries : entries[c].delivered = 0 /\ ~entries[c].inFlight}

\* noticeText: what a notice says is its message and how often it occurred.
NoticeText(c) == entries[c].count

\* The entry check of the start context, then the notices of the session.
Claim(r) ==
  /\ ex[r].pc = "claim"
  /\ IF StartDone(r)
     THEN /\ ex' = [ex EXCEPT ![r] = Failed(ex[r], "prepare", WithStartCause(r, {StartErr(r)}))]
          /\ UNCHANGED entries
     ELSE /\ ex' = [ex EXCEPT ![r].pc = "shape",
                     ![r].held = [c \in Claimable |-> NoticeText(c)]]
          /\ entries' = [c \in DOMAIN entries |->
               IF c \in Claimable THEN [entries[c] EXCEPT !.inFlight = TRUE] ELSE entries[c]]
  /\ UNCHANGED <<ctx, totals, overflow, failures, carried, modelFailures>>

\* retain and suppress: a notice is shown only after the store has its ID; one
\* that cannot be recorded, or has no namespace, stays queued.  Passthrough has
\* no store.
Retained(r, recorded) == IF Mekugi THEN recorded ELSE DOMAIN ex[r].held # {}

\* The mekugi transform (none for prewarm, compaction and auxiliary turns), the
\* durable record of the notice IDs, and the body to forward.
Shape(r, tr, recorded) ==
  /\ ex[r].pc = "shape"
  /\ tr => Mekugi
  /\ recorded => DOMAIN ex[r].held # {}
  /\ ex' = [ex EXCEPT ![r].pc = "forward", ![r].phase = "forward", ![r].tr = tr,
              ![r].visible = Retained(r, recorded)]
  /\ UNCHANGED <<ctx, totals, shared, modelFailures>>

\* The mentor, the transform, the bridge or the compact protocol refuses: for
\* good, for another reason, or because the start context ended.
ShapeFails(r) ==
  /\ ex[r].pc = "shape"
  /\ \/ \E e \in {"compat", "other"} : ex' = [ex EXCEPT ![r] = Failed(@, "prepare", {e})]
     \/ StartDone(r) /\ ex' = [ex EXCEPT ![r] = Failed(ex[r], "prepare", {StartErr(r)})]
  /\ UNCHANGED <<ctx, totals, shared, modelFailures>>

-----------------------------------------------------------------------------
(* Forwarding.                                                              *)

\* executeRequest on an error of forwardExecution.
ForwardFailed(r, err) == Failed(ex[r], "forward", WithStartCause(r, err))

\* Refused before anything is sent: authentication headers, Grok not enabled.
ForwardRefused(r) ==
  /\ ex[r].pc = "forward"
  /\ ex' = [ex EXCEPT ![r] = ForwardFailed(r, {"transport"})]
  /\ UNCHANGED <<ctx, totals, shared, modelFailures>>

\* How a connection fails: broken, not dialled (or credentials not refreshed) in
\* time, which is a deadline although the start context lives, or cut off with
\* the start context, as its own error or as Canceled.
Broken(r) ==
  {{"transport"}, {"deadline"}} \cup (IF StartDone(r) THEN {{StartErr(r)}, {"canceled"}} ELSE {})

\* The pool: an unsupported handshake falls back to HTTP; once the request was
\* written it is never sent again.
ForwardWebSocket(r) ==
  /\ ex[r].pc = "forward"
  /\ \/ ~StartDone(r) /\ ex' = [ex EXCEPT ![r].pc = "http"]
     \/ \E s \in {"ok", "error"} :
          ~StartDone(r) /\ ex' = [ex EXCEPT ![r].pc = "inspect", ![r].status = s]
     \/ \E err \in Broken(r) : ex' = [ex EXCEPT ![r] = ForwardFailed(r, err)]
  /\ UNCHANGED <<ctx, totals, shared, modelFailures>>

\* Grok: one more attempt after a refresh of its credentials; any status other
\* than 2xx is an error of the router, and so is a retry that was cut off.  A
\* request that did not ask for a stream waits here for the whole of it.
ForwardGrok(r) ==
  /\ ex[r].pc = "forward"
  /\ \/ \E pc \in {"inspect", "grok"} :
          ~StartDone(r) /\ ex' = [ex EXCEPT ![r].pc = pc, ![r].status = "ok"]
     \/ \E err \in Broken(r) : ex' = [ex EXCEPT ![r] = ForwardFailed(r, err)]
  /\ UNCHANGED <<ctx, totals, shared, modelFailures>>

RetryAgain(r, answer) == answer = "capacity" /\ ex[r].attempt < MaxRetries

\* An HTTP answer.  finishResponseStart refuses it when the start context ended
\* first; otherwise the deadline has no hold on it any more.
AttemptAnswered(r, answer) ==
  /\ ex[r].pc = "http"
  /\ ex' = [ex EXCEPT ![r] =
       IF StartDone(r) THEN ForwardFailed(r, {StartErr(r)})
       ELSE IF RetryAgain(r, answer) THEN [@ EXCEPT !.pc = "backoff"]
       ELSE [@ EXCEPT !.pc = "inspect", !.attempt = 0,
               !.status = IF answer = "capacity" THEN "error" ELSE answer]]
  /\ UNCHANGED <<ctx, totals, shared, modelFailures>>

\* httpClient.Do fails.
AttemptBroken(r) ==
  /\ ex[r].pc = "http"
  /\ \E err \in Broken(r) : ex' = [ex EXCEPT ![r] = ForwardFailed(r, err)]
  /\ UNCHANGED <<ctx, totals, shared, modelFailures>>

Backoff(r) ==
  /\ ex[r].pc = "backoff"
  /\ \/ ex' = [ex EXCEPT ![r].pc = "http", ![r].attempt = ex[r].attempt + 1]
     \/ StartDone(r) /\ ex' = [ex EXCEPT ![r] = ForwardFailed(r, {StartErr(r)})]
  /\ UNCHANGED <<ctx, totals, shared, modelFailures>>

-----------------------------------------------------------------------------
(* The response.                                                            *)

\* trackedResponseWriter: the first write commits a status, later ones nothing.
Committed(e) == [e EXCEPT !.sent = IF @ = "none" THEN "upstream" ELSE @]

\* The transforms run on a 2xx response only.
Ok(r) == ex[r].status = "ok"

\* criticalErrorTransform puts the notices of the request into the response.
Carrying(e) == [e EXCEPT !.emitted = @ \/ (e.status = "ok" /\ e.visible)]

\* A stream's status and headers are committed at once, a document is staged
\* first.
Classified(r) ==
  /\ \/ ex' = [ex EXCEPT ![r].pc = "json", ![r].tr = FALSE]
     \/ ex' = [ex EXCEPT ![r] = [Committed(@) EXCEPT !.pc = "stream", !.tr = FALSE]]
     \/ ex' = [ex EXCEPT ![r] = Failed(Committed(@), "write", {"other"})]
     \/ ex[r].status # "ok" /\ ex[r].tr /\ ex' = [ex EXCEPT ![r] = Failed(@, "transform", {"other"})]
  /\ UNCHANGED <<ctx, totals, shared, modelFailures>>

\* prepareUpstreamBody: the headers and the request tell a stream from a document,
\* or the first lines of the body have to.
Inspect(r) ==
  /\ ex[r].pc = "inspect"
  /\ \/ ex' = [ex EXCEPT ![r].pc = "sniff"] /\ UNCHANGED <<ctx, totals, shared, modelFailures>>
     \/ Classified(r)

Sniff(r) == ex[r].pc = "sniff" /\ Classified(r)

\* readGrokStream has seen the end: a document that needs no more reading.
GrokRead(r) ==
  /\ ex[r].pc = "grok"
  /\ ex' = [ex EXCEPT ![r].pc = "whole", ![r].tr = FALSE]
  /\ UNCHANGED <<ctx, totals, shared, modelFailures>>

\* mergeResponseTerminalState: invalid is final, then failed, steered, completed.
Merge(current, observed) ==
  LET both == {current, observed} IN
  IF "invalid" \in both THEN "invalid"
  ELSE IF observed = "unknown" THEN current
  ELSE IF "failed" \in both THEN "failed"
  ELSE IF "steered" \in both THEN "steered"
  ELSE IF "completed" \in both THEN "completed" ELSE "pending"

\* What an event says of the end counts for a 2xx response only.
Seen(e, t) == [e EXCEPT !.terminal = IF e.status = "ok" THEN Merge(@, t) ELSE @]

\* acceptsResponseEnd and isResponseTerminal.
Accepted == {"completed", "steered", "failed"}

CopyPhase(err) == IF "idle" \in err THEN "idle" ELSE IF "transform" \in err THEN "transform"
                  ELSE IF "write" \in err THEN "write" ELSE "inspect"

\* An event that ends nothing, on its way to the client: response.created carries
\* the notices of a main thread, one of another type leaves the stream invalid.
Created(r) ==
  /\ ex[r].pc = "stream"
  /\ ex' = [ex EXCEPT ![r] = [Seen(Carrying(ex[r]), "pending") EXCEPT !.pc = "writing"]]
  /\ UNCHANGED <<ctx, totals, shared, modelFailures>>

InvalidEvent(r) ==
  /\ ex[r].pc = "stream"
  /\ ex' = [ex EXCEPT ![r] = [Seen(ex[r], "invalid") EXCEPT !.pc = "writing"]]
  /\ UNCHANGED <<ctx, totals, shared, modelFailures>>

\* Mutant: an incomplete total starts over instead of staying incomplete.
AddUsageAfresh(th, tokens, conflicted) ==
  IF th \in DOMAIN totals /\ totals[th].complete /\ totals[th].sum + tokens <= MaxTotal
  THEN Put(totals, th, [totals[th] EXCEPT !.sum = @ + tokens])
  ELSE Put(totals, th, [sum |-> tokens, complete |-> TRUE])

\* threadUsage.add, once per response.  A total whose thread ID is contradicted
\* or that would overflow is incomplete for good, and a thread beyond the limit
\* is never tracked.
AddUsage(th, tokens, conflicted) ==
  LET known == IF th \in DOMAIN totals THEN totals[th] ELSE [sum |-> 0, complete |-> TRUE] IN
  IF th \notin DOMAIN totals /\ Cardinality(DOMAIN totals) >= ThreadLimit THEN totals
  ELSE IF known.complete /\ ~conflicted /\ known.sum + tokens <= MaxTotal
  THEN Put(totals, th, [known EXCEPT !.sum = @ + tokens])
  ELSE Put(totals, th, [known EXCEPT !.complete = FALSE])

\* observation: the metadata of a request may name another thread than its header.
Conflicts == BOOLEAN

\* threadUsage.snapshot: only a complete total is shown.
Snapshot(th) == IF totals[th].complete THEN totals[th].sum ELSE None

Observed(r, tokens) ==
  IF tokens = None \/ ~Mekugi THEN UNCHANGED totals
  ELSE \E conflicted \in Conflicts : totals' = AddUsage(ThreadOf[r], tokens, conflicted)

\* Mutant: a 2xx response that ended is one that completed.
ConcludedByStatus(e) ==
  IF e.status = "ok" /\ e.terminal # "failed" THEN [e EXCEPT !.pc = "unwind", !.outcome = "completed"]
  ELSE [e EXCEPT !.pc = "unwind", !.outcome = "failed", !.phase = "validate"]

\* The end of the body of executeRequest: a 2xx response needs a terminal state,
\* and completes with two of them.
Concluded(e) ==
  IF e.status = "ok" /\ e.terminal \notin Accepted THEN Failed(e, "validate", {"noterminal"})
  ELSE IF e.status = "ok" /\ e.terminal # "failed"
  THEN [e EXCEPT !.pc = "unwind", !.outcome = "completed", !.phase = "none", !.visible = FALSE]
  ELSE [e EXCEPT !.pc = "unwind", !.outcome = "failed", !.phase = "validate", !.visible = FALSE,
                 !.status = None, !.terminal = "unknown"]

\* A stream that breaks off: copySSETransformed still flushes the answers it had
\* held back.
BrokenOff(e, err) == [Failed(e, CopyPhase(err), err) EXCEPT !.pc = "last"]

\* The terminal event: usage is taken first, then the transforms run, then the
\* event is written; the notices ride on its output.
TerminalEvent(r, t, tokens, delivery) ==
  /\ ex[r].pc = "stream"
  /\ delivery = "transform" => Ok(r)
  /\ LET after == [Seen(Carrying(ex[r]), t) EXCEPT !.pc = "last", !.usage = tokens] IN
     ex' = [ex EXCEPT ![r] = IF delivery = "ok" THEN after ELSE BrokenOff(after, {delivery})]
  /\ Observed(r, tokens)
  /\ UNCHANGED <<ctx, shared, modelFailures>>

\* The stream ends without a terminal event, or the transform fails at an event
\* or at this end.
StreamEnds(r) ==
  /\ ex[r].pc = "stream"
  /\ \/ ex' = [ex EXCEPT ![r].pc = "last"]
     \/ Ok(r) /\ ex' = [ex EXCEPT ![r] = BrokenOff(ex[r], {"transform"})]
  /\ UNCHANGED <<ctx, totals, shared, modelFailures>>

\* A read that failed, noticed where the body was read.
ReadFailed(e, err) ==
  IF e.pc = "stream" THEN BrokenOff(e, err)
  ELSE Failed(e, IF e.pc = "grok" THEN "forward" ELSE IF e.pc = "sniff" THEN "inspect" ELSE CopyPhase(err), err)

\* Mutant: the read waits for as long as the provider is silent.
IdleTimeoutNever(r) == ex[r].pc = "idle" /\ UNCHANGED vars

\* A provider that stays silent while its body is read.  The timer closes an HTTP
\* body, and a cancelled execution joins its error; a WebSocket's read ends with
\* a deadline of its own, told apart from another only in a live execution.
IdleTimeout(r) ==
  /\ ex[r].pc \in Reading
  /\ LET http == {"idle"} \cup (IF ExecDone(r) THEN {"canceled"} ELSE {})
         socket == {"deadline"} \cup (IF ExecDone(r) THEN {} ELSE {"idle"})
     IN \E err \in {http} \cup (IF ex[r].pc \in {"stream", "json"} THEN {socket} ELSE {}) :
          ex' = [ex EXCEPT ![r] = ReadFailed(ex[r], err)]
  /\ UNCHANGED <<ctx, totals, shared, modelFailures>>

\* Any other failed read; a document may also be larger than the router's buffer.
ReadBroken(r) ==
  /\ ex[r].pc \in Reading \cup {"whole"}
  /\ \E err \in {{"transport"}} \cup
         (IF ExecDone(r) /\ ex[r].pc \in Reading THEN {{"canceled"}} ELSE {}) :
       ex' = [ex EXCEPT ![r] = ReadFailed(ex[r], err)]
  /\ UNCHANGED <<ctx, totals, shared, modelFailures>>

\* copyJSONTransformed: the document is read whole, observed and transformed;
\* its end is the state it names, and a failed transform names none.
CopiedJSON(e, t, tokens, delivery) ==
  LET after == [Carrying(e) EXCEPT !.usage = tokens, !.terminal = t] IN
  IF delivery = "transform" THEN Failed(after, "transform", {"transform"}) ELSE after

\* The document is staged: nothing is sent before its end is accepted, which an
\* error status needs not.  (An empty one is copied a second time, from a closed
\* body, which may fail like a write.)
ReadJSON(r, t, tokens, delivery) ==
  /\ ex[r].pc \in {"json", "whole"}
  /\ delivery = "transform" => Ok(r)
  /\ LET staged == CopiedJSON(ex[r], t, tokens, delivery)
     IN ex' = [ex EXCEPT ![r] =
          IF staged.err # {} THEN staged
          ELSE IF Ok(r) /\ t \notin Accepted THEN Concluded(staged)
          ELSE [Committed(staged) EXCEPT !.pc = "last"]]
  /\ Observed(r, tokens)
  /\ UNCHANGED <<ctx, shared, modelFailures>>

\* The copy returns: its last writes, the terminal event, the document or the
\* answers held back, are over.
Copied(e, err) == IF err = {} THEN Concluded(e) ELSE Failed(e, CopyPhase(err), err)

\* The client took what was written.
Written(r) ==
  /\ ex[r].pc \in Writing
  /\ ex' = [ex EXCEPT ![r] = IF @.pc = "writing" THEN [@ EXCEPT !.pc = "stream"]
                             ELSE Copied(ex[r], ex[r].err)]
  /\ UNCHANGED <<ctx, totals, shared, modelFailures>>

\* The client can no longer be written to.
WriteBroken(r) ==
  /\ ex[r].pc \in Writing
  /\ ex' = [ex EXCEPT ![r] = Copied(ex[r], ex[r].err \cup {"write"})]
  /\ UNCHANGED <<ctx, totals, shared, modelFailures>>

-----------------------------------------------------------------------------
(* The deferred calls, last first.                                          *)

Delivered(r) == ex[r].err = {} /\ ex[r].emitted

\* criticalErrorTransform.finish: whatever happened, the claim ends.
SettleNotices(r) ==
  /\ ex[r].pc = "unwind"
  /\ entries' = [c \in DOMAIN entries |->
       IF c \notin DOMAIN ex[r].held THEN entries[c]
       ELSE [entries[c] EXCEPT !.inFlight = FALSE,
               !.delivered = IF Delivered(r) THEN ex[r].held[c] ELSE @]]
  /\ carried' = IF Delivered(r) THEN carried \cup DOMAIN ex[r].held ELSE carried
  /\ ex' = [ex EXCEPT ![r].pc = "report", ![r].held = NoNotices, ![r].emitted = FALSE,
              ![r].visible = FALSE, ![r].tr = FALSE]
  /\ UNCHANGED <<ctx, totals, overflow, failures, modelFailures>>

\* requestFinalization.finish: the outcome of a request that returned an error.
ErrorOutcome(r) ==
  LET err == ex[r].err IN
  IF "deadline" \in err THEN "timed_out"
  ELSE IF "canceled" \in err /\ ExecDone(r)
  THEN IF ex[r].sent = "none" THEN "canceled_before" ELSE "canceled_after"
  ELSE IF "idle" \in err THEN "idle_timed_out" ELSE "failed"

FinalOutcome(r) == IF ex[r].outcome = "unknown" THEN ErrorOutcome(r) ELSE ex[r].outcome

\* requestCancellationCause, for the debug record.
CancellationCause(r) ==
  LET err == ex[r].err IN
  IF {"deadline", "start"} \subseteq err THEN "response_start_timeout"
  ELSE IF "canceled" \in err /\ ExecDone(r) THEN "downstream_context_canceled"
  ELSE IF "idle" \in err THEN "upstream_idle_timeout"
  ELSE IF "canceled" \in err THEN "cancellation_unknown"
  ELSE IF "deadline" \in err THEN "deadline_unknown" ELSE "none"

Unreported == {"completed", "canceled_before", "canceled_after"}

\* forwardCriticalDiagnostic tells a cancelled forwarding from a broken one; of
\* its other codes, one stands for all.
ForwardDiagnosis(err) == IF "canceled" \in err THEN "upstream_canceled" ELSE "upstream_transport"

\* CriticalErrors.record groups failures: a local incompatibility, a timeout, or
\* the phase that failed with its diagnosis (the reference is left out).
Category(r) ==
  IF "compat" \in ex[r].err THEN "compat"
  ELSE IF ex[r].err \cap {"deadline", "idle"} # {} THEN "timeout"
  ELSE IF ex[r].phase = "forward" THEN ForwardDiagnosis(ex[r].err) ELSE ex[r].phase

RecordFailure(c) ==
  IF c \in DOMAIN entries
  THEN entries' = [entries EXCEPT ![c].count = @ + 1] /\ UNCHANGED overflow
  ELSE IF Cardinality(DOMAIN entries) >= NoticeLimit
  THEN overflow' = overflow + 1 /\ UNCHANGED entries
  ELSE /\ entries' = Put(entries, c, [count |-> 1, delivered |-> 0, inFlight |-> FALSE])
       /\ UNCHANGED overflow

\* Pending: what the launcher reports once the router has stopped.
Pending == {c \in DOMAIN entries : entries[c].count > entries[c].delivered}

\* writeRequestError answers an error that nothing was sent for.
Answer(r) ==
  IF ex[r].err = {} \/ ex[r].sent # "none" THEN ex[r].sent
  ELSE IF "compat" \in ex[r].err THEN "bad" ELSE "gateway"

\* The outermost deferred call settles the outcome and records a failure ...
Finish(r) ==
  /\ ex[r].pc = "report"
  /\ ex' = [ex EXCEPT ![r].pc = "told", ![r].outcome = FinalOutcome(r)]
  /\ IF FinalOutcome(r) \in Unreported THEN UNCHANGED <<entries, overflow, failures>>
     ELSE RecordFailure(Category(r)) /\ failures' = failures + 1
  /\ UNCHANGED <<ctx, totals, carried, modelFailures>>

\* ... then reads the context once more for the debug record, and the handler
\* answers.
Tell(r) ==
  /\ ex[r].pc = "told"
  /\ ex' = [ex EXCEPT ![r] = [Waiting EXCEPT !.pc = "ended", !.usage = ex[r].usage]]
  /\ ctx' = [ctx EXCEPT ![r] = "live"]
  /\ UNCHANGED <<totals, shared, modelFailures>>

\* GET /v1/models answers with a failure and the client is still there.
ModelsFailure ==
  /\ modelFailures < MaxModelFailures
  /\ modelFailures' = modelFailures + 1
  /\ RecordFailure("forward") /\ failures' = failures + 1
  /\ UNCHANGED <<ex, ctx, totals, carried>>

-----------------------------------------------------------------------------
Usages == TokenCounts \cup {None}

Documents(r) ==
  \E t \in {"completed", "failed", "pending", "unknown"}, tokens \in Usages, d \in {"ok", "transform"} :
    ReadJSON(r, t, tokens, d)

LastEvents(r) ==
  \E t \in Accepted, tokens \in Usages, d \in {"ok", "transform"} : TerminalEvent(r, t, tokens, d)

\* What the router does on its own once its inputs are there.
Work(r) ==
  \/ Claim(r) \/ \E tr, rec \in BOOLEAN : Shape(r, tr, rec)
  \/ Inspect(r) \/ (ex[r].pc = "whole" /\ Documents(r))
  \/ SettleNotices(r) \/ Finish(r) \/ Tell(r)

\* What the provider, the client or a timer decides.
Environment(r) ==
  \/ Arrive(r) \/ RefuseBody(r) \/ StartTimeout(r) \/ Cancel(r) \/ ShapeFails(r)
  \/ ForwardRefused(r) \/ ForwardWebSocket(r) \/ ForwardGrok(r) \/ GrokRead(r)
  \/ \E a \in {"ok", "capacity", "error"} : AttemptAnswered(r, a)
  \/ AttemptBroken(r) \/ Backoff(r) \/ Sniff(r)
  \/ Created(r) \/ InvalidEvent(r) \/ LastEvents(r) \/ StreamEnds(r)
  \/ (ex[r].pc = "json" /\ Documents(r))
  \/ IdleTimeout(r) \/ ReadBroken(r) \/ Written(r) \/ WriteBroken(r)

Next == ModelsFailure \/ \E r \in Requests : Work(r) \/ Environment(r)

Spec == Init /\ [][Next]_vars

\* A start that was cut off is noticed.
Interrupted(r) ==
  StartDone(r) /\ (ShapeFails(r) \/ ForwardWebSocket(r) \/ AttemptBroken(r) \/ Backoff(r))

\* The router does not stop while it, or a timer of its own, has something to do.
\* Nothing is assumed of the client or of the provider.
Progress(r) == Work(r) \/ StartTimeout(r) \/ Interrupted(r) \/ IdleTimeout(r)

FairSpec == Spec /\ \A r \in Requests : WF_vars(Progress(r))

-----------------------------------------------------------------------------
\* The sum of f over a finite set of indices.
Total(f, S) == MapThenSumSet(LAMBDA x : f[x], S)

\* No failure gets lost between recording, carrying and delivering it: the queue
\* accounts for every one, a notice is in flight exactly while one unfinished
\* request carries it, and every failure is either in a response that succeeded,
\* at the count it then had, or reported at shutdown.
NoticesAccountedFor ==
  /\ Total([c \in DOMAIN entries |-> entries[c].count], DOMAIN entries) + overflow = failures
  /\ \A c \in DOMAIN entries :
       LET carriers == {r \in Requests : c \in DOMAIN ex[r].held} IN
       /\ Cardinality(carriers) = IF entries[c].inFlight THEN 1 ELSE 0
       /\ entries[c].delivered > 0 => c \in carried
       /\ c \notin Pending => c \in carried

\* What a request is recorded as is what its client saw, although the outcome and
\* the cause are read at two moments: a completed one sent a validated terminal
\* state; one that timed out sent nothing of a response, unless its provider's
\* socket fell silent; the start timeout is blamed only for a request that timed
\* out without an answer and whose start had expired; a cancelled one lost its
\* client or its router, and is told apart from one that was cancelled only after
\* its start had expired; silence is named as the cause of nothing else; and
\* every request has been answered.
OutcomeIsTruthful ==
  \A r \in Requests : ex[r].pc = "told" =>
    LET outcome == ex[r].outcome
        cause == CancellationCause(r)
        canceled == outcome \in {"canceled_before", "canceled_after"}
    IN
    /\ Answer(r) # "none"
    /\ outcome = "completed" =>
         /\ Ok(r) /\ ex[r].sent = "upstream" /\ ex[r].err = {}
         /\ ex[r].terminal \in {"completed", "steered"}
    /\ outcome = "timed_out" => ex[r].sent = "none" \/ "idle" \in ex[r].err \/ ExecDone(r)
    /\ cause = "response_start_timeout" =>
         outcome = "timed_out" /\ ex[r].sent = "none" /\ ctx[r] \in {"expired", "both"}
    /\ canceled => cause = "downstream_context_canceled"
    /\ cause = "downstream_context_canceled" =>
         canceled \/ (outcome = "failed" /\ ctx[r] = "both" /\ ex[r].phase = "forward")
    /\ outcome = "idle_timed_out" => cause = "upstream_idle_timeout"
    /\ cause = "upstream_idle_timeout" => outcome \in {"idle_timed_out", "timed_out"}

\* A thread's total that is still shown as complete is the sum of what every
\* response of the thread reported.
UsageIsWhole ==
  \A th \in DOMAIN totals : Snapshot(th) # None =>
    Snapshot(th) = Total([r \in Requests |-> ex[r].usage],
                         {r \in Requests : ThreadOf[r] = th /\ ex[r].usage # None})

\* Every request that is accepted ends: its start is bounded, its retries are, and
\* so is every silence of its provider.  Only two things keep it: a write that the
\* client neither takes nor refuses, and a provider whose events never end.
EveryRequestEnds ==
  \A r \in Requests :
    <>[](ex[r].pc \notin Writing) => <>[](ex[r].pc \in {"new", "ended"})
=============================================================================
