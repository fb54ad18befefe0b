------------------------- MODULE ResponseTransform -------------------------
(* One conversation through the router's response transform               *)
(* (mekugiResponseTransform of internal/router/mekugi_proxy.go).  The      *)
(* provider streams calls of the router's own tools; the transform holds   *)
(* each one back until its input is complete, translates it once, records  *)
(* the translation durably and only then shows Codex the carrier, a call   *)
(* of a tool that Codex has.  The next request replays the carriers, and   *)
(* reconcileVisibleInput turns them back into what the provider said.      *)
(* Final-answer events are held so that the usage report precedes them     *)
(* (final_answer_stream.go); hpatch_recover edits the newest rejected      *)
(* script of the visible ancestry (mekugi_recovery.go); outputs of work    *)
(* that is still running advertise how to continue it                      *)
(* (execution_continuation.go).                                            *)
(*                                                                         *)
(* A call is its identity and the input the provider completed it with.    *)
(* The provider may repeat a completion with another input.  The stream of *)
(* a response is explored for the catalogs in Streamed only.               *)
EXTENDS ToolCatalog, Functions

CONSTANTS
  Calls,       \* calls the provider makes in the conversation
  ToolOf,      \* the tool each call names, by the carrier's kind
  Inputs,      \* inputs a call may be completed with
  FormOf,      \* what each input is, read as a program
  MaxPending,  \* maxMekugiPendingCalls
  MaxAnswers,  \* bound on the final-answer events of a response
  MaxHeld,     \* answer events that fit the buffer (upstreamJSONBufferBytes)
  MaxReplay,   \* bound on the calls a request replays
  MaxTurns,    \* bound on the responses of the conversation
  MaxEvents,   \* bound on the call and answer events of the conversation
  Streamed,    \* catalogs whose responses are explored
  Courses,     \* what becomes of the calls that Codex executes
  Null         \* absent

\* "shell" is the built-in shell, "plugin" any other registered tool.
Tools == {"hpatch", "hpatch_recover", "shell", "plugin", "code", "commented", "client"}
\* A Code Mode program, one that publishes commentary, a script with a shell header
\* that is no JavaScript, or another text.
Forms == {"program", "commentary", "script", "text"}
\* What Codex executes for a call: the program that the provider wrote, with at most
\* warnings added; the program with its commentary calls replaced by the router's
\* publisher; or a call that the router wrote.
Payloads == {"program", "lowered", "rendered"}
Edits == {"hpatch", "hpatch_recover"}

\* The translations there may be (see History).
Histories ==
  [tool : Tools, input : Inputs, result : {"ok", "rejected", "unevaluated"}, seq : Nat,
   corr : Calls, attempt : Nat, payload : Payloads, replay : BOOLEAN]

\* What may become of an executed call (see Items).
CourseKinds == {"report", "other", "running", "waiting", "yielded", "finished", "orphan"}

ASSUME CallsAssumption ==
  /\ Null \notin Calls \cup Inputs \cup Histories
  /\ ToolOf \in [{"code", "native"} -> [Calls -> Tools]] /\ FormOf \in [Inputs -> Forms]
  /\ MaxTurns \in Nat \ {0} /\ MaxPending \in Nat \ {0}
  /\ MaxAnswers \in Nat /\ MaxHeld \in Nat /\ MaxReplay \in Nat /\ MaxEvents \in Nat
  /\ Courses \subseteq CourseKinds

VARIABLES
  catalog,   \* the tools of the request, as Codex sent them
  offer,     \* the verdict of prepareRequest on them
  phase,     \* "asked", "refused", "accepted", "streaming", "ended" or "failed"
  turn,      \* number of the response
  pending,   \* t.pending: calls held back until complete
  execs,     \* t.nativeExecCalls: Code Mode calls announced and not complete
  local,     \* t.local: translations of this response
  visible,   \* t.visible: translations of the ancestry the request replays
  store,     \* the replay store: durable translations
  answer,    \* t.finalAnswer
  answers,   \* final-answer events received
  events,    \* call and answer events received
  line,      \* answer events, usage and end of the response, in the order Codex sees
  announced, \* calls whose output_item.added was received in this response
  shown,     \* what Codex has seen of each call
  evals,     \* evaluations of each call
  upstream,  \* what the provider was told about each replayed call
  transcript \* the input of the current request, as items

stream == <<pending, execs, local, answer, answers, events, line, announced>>
transformVars == <<catalog, offer, phase, turn, visible, store, shown, evals, upstream, transcript, stream>>

\* The tool that each call names: the accepted catalog decides which tools there are.
Called == ToolOf[offer.verdict]

Native == offer.verdict = "native"

(* shellCodeModeRecovery: a Code Mode program sent to the shell is run as  *)
(* what it is.                                                             *)
Recovered(c, i) == Called[c] = "shell" /\ ~Native /\ FormOf[i] \in {"program", "commentary"}

(* carrierPayload: a program of the executor runs as it is unless it is a  *)
(* shell script (execShellRecovery) or publishes commentary                *)
(* (lowerCodeModeCommentary).                                              *)
Payload(c, i) ==
  CASE Called[c] = "code" /\ FormOf[i] = "script" -> "rendered"
    [] Called[c] = "code" /\ FormOf[i] = "commentary" -> "lowered"
    [] Called[c] = "code" \/ Recovered(c, i) -> "program"
    [] OTHER -> "rendered"

\* Mutant: every call of the executor is replayed as it was executed.
ReplaysAll(c, i) == Called[c] = "code" \/ Recovered(c, i)

(* replayCarrier: the next request replays what was executed.              *)
Replays(c, i) ==
  \/ Called[c] = "code" /\ FormOf[i] \notin {"script", "commentary"}
  \/ Recovered(c, i)

(* mekugiHistory: a translation.  corr and attempt identify the recovery   *)
(* chain.                                                                  *)
History(c, i, r, s, k, a) ==
  [tool |-> Called[c], input |-> i, result |-> r, seq |-> s, corr |-> k, attempt |-> a,
   payload |-> Payload(c, i), replay |-> Replays(c, i)]

\* carrierInput: what Codex is asked to execute for a translation.
Carrier(c, h) == [call |-> c, input |-> h.input, result |-> h.result, payload |-> h.payload]
\* An item that passes as it is: an interrupted one, or one of a client tool.
Raw(c, how) == [call |-> c, input |-> Null, result |-> how, payload |-> "program"]
\* What the provider said itself.
Said(c, i) == [call |-> c, input |-> i, result |-> "said"]

Routed(c) == Called[c] \in Edits \cup {"shell", "plugin"}
\* Code Mode calls are watched only when the carrier is the Code Mode executor.
IsExec(c) == Called[c] = "code" /\ ~Native
Translates(c) == Routed(c) \/ IsExec(c) \/ Called[c] = "commented"

\* What Codex sees beside calls: events of the answer, numbered, and marks.
Piece(n) == <<<<"answer", n>>>>
Mark(what) == <<<<what, 0>>>>

NoAnswer == [held |-> <<>>, off |-> FALSE, substantive |-> FALSE, blocked |-> FALSE]
NoCalls == [c \in {} |-> Null]
\* The entries of the one map before those of the other; a map with one more entry.
Over(upper, lower) ==
  [c \in DOMAIN upper \cup DOMAIN lower |-> IF c \in DOMAIN upper THEN upper[c] ELSE lower[c]]
Entry(c, entry) == [d \in {c} |-> entry]

TransformInit ==
  /\ catalog \in Catalogs \X {<<"auto", "">>, <<"custom", "exec">>, <<"function", "exec_command">>}
  /\ offer = Null /\ phase = "asked" /\ turn = 1
  /\ pending = NoCalls /\ execs = {} /\ local = NoCalls /\ visible = NoCalls
  /\ store = NoCalls /\ answer = NoAnswer /\ answers = 0 /\ events = 0 /\ line = <<>>
  /\ announced = {} /\ shown = [c \in Calls |-> {}] /\ evals = [c \in Calls |-> 0]
  /\ upstream = NoCalls /\ transcript = <<>>

-----------------------------------------------------------------------------
(* Recovery.                                                               *)

\* Edit calls that the evaluator saw; a call refused beforehand is skipped.
Evaluated(hist) ==
  {c \in DOMAIN hist : hist[c].tool \in Edits /\ hist[c].result # "unevaluated"}

(* recoveryHistory and recoveryHistoryOf: this response's calls are newer  *)
(* than the visible ancestry; the newest evaluated call is the base.       *)
Newest ==
  LET hist == IF Evaluated(local) # {} THEN local ELSE visible
  IN  IF Evaluated(hist) = {} THEN Null
      ELSE hist[CHOOSE c \in Evaluated(hist) : \A d \in Evaluated(hist) : hist[d].seq <= hist[c].seq]

\* Mutant: any evaluated call can be recovered.
RecoverableAlways == Newest # Null

Recoverable == Newest # Null /\ Newest.result = "rejected"

(* nextRecoveryAttempt: above every attempt of the correlation in sight.   *)
NextAttempt(k) ==
  LET seen(hist) == {hist[c].attempt : c \in {d \in DOMAIN hist : hist[d].tool \in Edits /\ hist[d].corr = k}}
  IN  Max({1, Newest.attempt} \cup seen(visible) \cup seen(local)) + 1

(* What a translation may come to.  hpatch: rejected by the evaluator, not *)
(* evaluated because the retained shell it edits is gone, or "ok": a       *)
(* patch, another failure, or a mixed script that runs elsewhere.          *)
(* hpatch_recover: unevaluated when it has no base or does not parse.      *)
Results(c) ==
  CASE Called[c] = "hpatch" -> {"ok", "rejected", "unevaluated"}
    [] Called[c] = "hpatch_recover" ->
         {"unevaluated"} \cup (IF Recoverable THEN {"ok", "rejected"} ELSE {})
    [] OTHER -> {"ok"}

(* translate, translateRecovery, translateRegisteredTool, and the Code     *)
(* Mode and commentary records: a call translated before in this response  *)
(* keeps its translation.                                                  *)
Translation(c, i, r) ==
  LET chained == Called[c] = "hpatch_recover" /\ Newest # Null
  IN  History(c, i, r, Cardinality(DOMAIN local) + 1,
              IF chained THEN Newest.corr ELSE c,
              IF chained THEN NextAttempt(Newest.corr) ELSE 1)

\* recordLocal: the translation joins this response's calls.
RecordLocal(c, i, r) == IF c \in DOMAIN local THEN local ELSE Over(local, Entry(c, Translation(c, i, r)))

\* A registered tool whose translator fails, or asks for a carrier that Codex
\* does not have or that does not encode, has no translation; nor has a program
\* whose lowering fails.
NoCarrier(c, i) ==
  c \notin DOMAIN local /\ (Routed(c) \/ (IsExec(c) /\ FormOf[i] \in {"commentary", "script"}))

\* The provider completed the call twice with different inputs.
Changed(c, i) == c \in DOMAIN local /\ local[c].input # i

\* Only a call that is not yet translated is evaluated.
Count(c) == IF c \in DOMAIN local THEN evals ELSE [evals EXCEPT ![c] = @ + 1]

-----------------------------------------------------------------------------
(* The end of a response.                                                  *)

(* FlushSSE and flush: held answer events are released unchanged.          *)
Flushed == [answer EXCEPT !.held = <<>>, !.off = TRUE]

\* The transform is discarded with its response.
Dropped == pending' = NoCalls /\ execs' = {} /\ announced' = {} /\ answer' = NoAnswer

\* Mutant: a failure discards the held answer.
AbortSilently ==
  /\ phase' = "failed" /\ line' = line \o Mark("failure")
  /\ UNCHANGED <<shown, store>>
  /\ Dropped

(* A transform error ends the response: the held answer is released, then  *)
(* the failure is reported.                                                *)
Abort ==
  /\ phase' = "failed" /\ line' = line \o answer.held \o Mark("failure")
  /\ UNCHANGED <<shown, store>>
  /\ Dropped


Known(c) == c \in DOMAIN local
\* Call identities are never reused by a later response.
New(c) == shown[c] = {} /\ evals[c] = 0

\* The request has been sent when the response begins; the ancestry stays.
Sent == upstream' = NoCalls /\ transcript' = <<>>
Streaming == phase = "streaming" /\ Sent /\ UNCHANGED <<catalog, offer, turn, visible, answers>>
Event == events < MaxEvents /\ events' = events + 1

(* observe on output_item.done: a client-dispatched call is no final turn. *)
Blocked == [answer EXCEPT !.blocked = TRUE]

\* Mutant: the carrier becomes visible before the store has answered.
ReleaseEarly(c, i, held, ans) ==
  /\ ~Changed(c, i)
  /\ \E r \in IF Known(c) THEN {local[c].result} ELSE Results(c) :
       /\ local' = RecordLocal(c, i, r) /\ evals' = Count(c)
       /\ shown' = [shown EXCEPT ![c] = @ \cup {Carrier(c, local'[c])}]
       /\ \/ /\ store' = Over(Entry(c, local'[c]), store)
             /\ pending' = held /\ answer' = ans
             /\ announced' = announced \cup {c} /\ UNCHANGED <<phase, line>>
          \/ /\ phase' = "failed" /\ line' = line \o answer.held \o Mark("failure")
             /\ Dropped /\ UNCHANGED store

(* Translate the call and, as commitLocalCall does, store the translation  *)
(* before the carrier becomes visible.  The evaluation and the store can   *)
(* fail.                                                                   *)
Release(c, i, held, ans) ==
  \/ /\ Changed(c, i) \/ NoCarrier(c, i)  \* or cancelled, or over a size limit
     /\ Abort /\ UNCHANGED <<local, evals>>
  \/ \E r \in IF Known(c) THEN {local[c].result} ELSE Results(c) :
       /\ ~Changed(c, i)
       /\ local' = RecordLocal(c, i, r) /\ evals' = Count(c)
       /\ \/ /\ store' = Over(Entry(c, local'[c]), store)
             /\ shown' = [shown EXCEPT ![c] = @ \cup {Carrier(c, local'[c])}]
             /\ pending' = held /\ answer' = ans
             /\ announced' = announced \cup {c} /\ UNCHANGED <<phase, line>>
          \/ Abort

-----------------------------------------------------------------------------
(* Stream events.                                                          *)

(* response.output_item.added: a call of the router's tools is held back.  *)
Added(c) ==
  /\ Streaming /\ Event /\ (New(c) \/ c \in announced)
  /\ UNCHANGED <<local, evals>>
  /\ IF ~IsExec(c) /\ Translates(c) /\ (c \in DOMAIN pending \/ Cardinality(DOMAIN pending) >= MaxPending)
     THEN Abort
     ELSE /\ announced' = announced \cup {c}
          /\ execs' = IF IsExec(c) THEN execs \cup {c} ELSE execs
          /\ pending' = IF ~IsExec(c) /\ Translates(c)
                        THEN Over(pending, Entry(c, [structured |-> ~Routed(c), done |-> FALSE]))
                        ELSE pending
          /\ UNCHANGED <<phase, answer, line, shown, store>>

(* response.custom_tool_call_input.done: the executable handoff boundary.  *)
(* The call stays in pending until its item is done.                       *)
InputDone(c, i) ==
  /\ Streaming /\ Event /\ c \in announced
  /\ \/ c \in DOMAIN pending /\ ~pending[c].structured
     \/ c \in execs
  /\ Release(c, i, pending, answer)
  /\ execs' = IF phase' = "failed" THEN {} ELSE execs

(* response.function_call_arguments.done of a commented call; it may not   *)
(* repeat, and a call of the router's own tools has no function arguments. *)
ArgumentsDone(c) ==
  /\ Streaming /\ Event /\ c \in DOMAIN pending
  /\ UNCHANGED <<local, evals>>
  /\ IF ~pending[c].structured \/ pending[c].done
     THEN Abort
     ELSE /\ pending' = [pending EXCEPT ![c].done = TRUE]
          /\ UNCHANGED <<phase, execs, announced, answer, line, shown, store>>

(* response.output_item.done.  An incomplete item that was not delivered   *)
(* passes as it is, with nothing executable in it, and so does a call that *)
(* the router leaves to the client.                                        *)
ItemDone(c, i, complete) ==
  LET held == Restrict(pending, DOMAIN pending \ {c})
  IN  /\ Streaming /\ Event /\ (New(c) \/ c \in announced)
      /\ IF ~Translates(c) \/ (~complete /\ ~Known(c))
         THEN /\ shown' = [shown EXCEPT ![c] = @ \cup {Raw(c, IF complete THEN "client" ELSE "partial")}]
              /\ pending' = held /\ announced' = announced \cup {c} /\ answer' = Blocked
              /\ UNCHANGED <<local, evals, phase, line, store>>
         ELSE IF c \in DOMAIN pending /\ pending[c].structured /\ ~pending[c].done
         THEN Abort /\ UNCHANGED <<local, evals>>
         ELSE Release(c, i, held, Blocked)
      /\ execs' = IF phase' = "failed" THEN {} ELSE execs \ {c}

(* A malformed or unknown event: refused while a call is held back, passed *)
(* through otherwise.                                                      *)
Unsupported ==
  /\ Streaming /\ DOMAIN pending # {}
  /\ Abort /\ UNCHANGED <<events, local, evals>>

(* observe on an event of a final answer: held, or, once the buffer is     *)
(* full, released together with everything held before it.                 *)
AnswerEvent(done) ==
  /\ phase = "streaming" /\ Event /\ answers < MaxAnswers
  /\ answers' = answers + 1
  /\ LET seen == [answer EXCEPT !.substantive = @ \/ (done /\ ~answer.off)]
     IN  IF answer.off \/ Len(answer.held) >= MaxHeld
         THEN /\ line' = line \o answer.held \o Piece(answers')
              /\ answer' = [seen EXCEPT !.held = <<>>, !.off = TRUE]
         ELSE answer' = [seen EXCEPT !.held = @ \o Piece(answers')] /\ UNCHANGED line
  /\ Sent /\ UNCHANGED <<catalog, offer, phase, turn, visible, store, shown, evals,
                         pending, execs, local, announced>>

(* An error event or [DONE] ends the holding: held events come first.      *)
ErrorEvent ==
  /\ Streaming /\ ~answer.off
  /\ answer' = Flushed /\ line' = line \o answer.held \o Mark("error")
  /\ UNCHANGED <<phase, store, shown, evals, pending, execs, local, events, announced>>

(* transformResponse with commitHistory, for the snapshot of a terminal    *)
(* event or for a whole JSON body.  Every call delivered before appears    *)
(* with the carrier it already has; one complete call may be new.  usage:  *)
(* the token report precedes the answer.                                   *)
Conclude(fresh, i, usage, rest) ==
  \E r \in IF fresh = Null THEN {Null} ELSE Results(fresh) :
       /\ local' = IF fresh = Null THEN local ELSE RecordLocal(fresh, i, r)
       /\ evals' = IF fresh = Null THEN evals ELSE Count(fresh)
       /\ \/ /\ store' = Over(local', store)
             /\ shown' = [c \in Calls |-> shown[c] \cup
                            (IF c \in DOMAIN local' THEN {Carrier(c, local'[c])} ELSE {})]
             /\ phase' = "ended"
             /\ line' = line \o (IF usage THEN Mark("usage") ELSE <<>>) \o rest \o Mark("terminal")
             /\ Dropped
          \/ Abort

\* A call that the snapshot completes although no item event did.
Unseen == {c \in Calls : ~Known(c) /\ Translates(c) /\ (New(c) \/ c \in announced)}

(* response.completed, response.failed, response.incomplete.               *)
Terminal(kind, fresh, i, usage) ==
  /\ Streaming /\ UNCHANGED events
  /\ kind = "completed" => DOMAIN pending = {}
  /\ usage => kind = "completed" /\ answer.substantive /\ ~answer.blocked /\ ~answer.off
  /\ Conclude(fresh, i, usage, answer.held)

(* A completed response with a call that is held back, or a snapshot that  *)
(* changes the input of a delivered call.                                  *)
TerminalRefused ==
  /\ Streaming
  /\ DOMAIN pending # {} \/ \E c \in DOMAIN local, i \in Inputs : Changed(c, i)
  /\ Abort /\ UNCHANGED <<events, local, evals>>

(* TransformJSON: the response is one body, with a call or an answer.      *)
TransformJSON(kind, fresh, i, usage) ==
  /\ phase = "streaming" /\ announced = {} /\ line = <<>> /\ answers = 0 /\ MaxAnswers > 0
  /\ Sent /\ UNCHANGED <<catalog, offer, turn, visible, events>>
  /\ usage => kind = "completed" /\ fresh = Null
  /\ Conclude(fresh, i, usage, IF fresh = Null THEN Piece(1) ELSE <<>>)
  /\ answers' = IF fresh = Null /\ phase' = "ended" THEN 1 ELSE 0  \* a failed body is not sent

(* The stream ends without a terminal event (Finish, FlushSSE).            *)
EndOfStream ==
  /\ Streaming /\ Abort /\ UNCHANGED <<events, local, evals>>

-----------------------------------------------------------------------------
(* The next request.                                                       *)

Item(type, c, body) == [type |-> type, call |-> c, body |-> body]

(* What became of an executed call, as Codex's history has it: a confirmed *)
(* or another result, work that yields while it runs, a wait for it that   *)
(* is outstanding, has yielded again or has finished, and an output whose  *)
(* call compaction removed.                                                *)
Items(c, p, course) ==
  LET call == Item("call", c, p)
      out(o) == Item("output", c, o)
  IN  CASE course = "report"   -> <<call, out("report")>>
        [] course = "other"    -> <<call, out("other")>>
        [] course = "running"  -> <<call, out("running")>>
        [] course = "waiting"  -> <<call, out("running"), Item("wait", c, Null)>>
        [] course = "yielded"  -> <<call, out("running"), Item("wait", c, Null), out("running")>>
        [] course = "finished" -> <<call, out("running"), Item("wait", c, Null), out("other")>>
        [] course = "orphan"   -> <<out("running")>>

\* Carriers Codex has executed.
Carriers(c) == {p \in shown[c] : p.input # Null}
Executed == {c \in Calls : Carriers(c) # {}}

(* reconcileVisibleInput: every call whose translation the store holds is  *)
(* checked against it; a changed or repeated carrier refuses the request.  *)
Reconciles(items) ==
  \A n \in 1..Len(items) : items[n].type = "call" /\ items[n].call \in DOMAIN store =>
     /\ items[n].body = Carrier(items[n].call, store[items[n].call])
     /\ \A m \in 1..(n - 1) : items[m].type = "call" => items[m].call # items[n].call

\* Mutant: only calls of the previous request's ancestry are restored.
RestoreKnown(item) ==
  IF item.call \in DOMAIN visible /\ ~visible[item.call].replay
  THEN Said(item.call, visible[item.call].input)
  ELSE item.body

\* The provider gets its own item back, or the carrier where replayCarrier says so.
Restore(item) ==
  IF item.call \in DOMAIN store /\ ~store[item.call].replay
  THEN Said(item.call, store[item.call].input)
  ELSE item.body

Replayed(items) == {items[n].call : n \in {k \in 1..Len(items) : items[k].type \in {"call", "output"}}}

\* Ancestry is ordered by the request's input, never by the store.
Ancestry(items) ==
  LET known == Replayed(items) \cap DOMAIN store
      first(c) == Min({n \in 1..Len(items) : items[n].call = c})
  IN  [c \in known |-> [store[c] EXCEPT !.seq = Cardinality({d \in known : first(d) <= first(c)})]]

\* Every accepted request has a transform of its own.
NewTransform ==
  /\ pending' = NoCalls /\ execs' = {} /\ local' = NoCalls /\ announced' = {}
  /\ answer' = NoAnswer /\ answers' = 0 /\ line' = <<>>

(* Codex sends the next request: some of the calls it executed, in some    *)
(* order, perhaps with one carrier altered or repeated.                    *)
NextRequest(order, course, fault) ==
  /\ phase \in {"ended", "failed"} /\ turn < MaxTurns
  /\ LET body(c) == CHOOSE p \in Carriers(c) : TRUE
         alter(c, p) == IF fault = c THEN [p EXCEPT !.result = "altered"] ELSE p
         items == FlattenSeq([n \in 1..Len(order) |->
                    Items(order[n], alter(order[n], body(order[n])), course[order[n]])])
     IN  /\ transcript' = items
         /\ IF Reconciles(items)
            THEN /\ phase' = "streaming" /\ turn' = turn + 1
                 /\ visible' = Ancestry(items)
                 /\ upstream' = [c \in {items[n].call : n \in {k \in 1..Len(items) : items[k].type = "call"}} |->
                      Restore(items[CHOOSE n \in 1..Len(items) : items[n].type = "call" /\ items[n].call = c])]
            ELSE /\ phase' = "refused" /\ UNCHANGED <<turn, visible, upstream>>
  /\ NewTransform
  /\ UNCHANGED <<catalog, offer, store, shown, evals, events>>

(* prepareRequest on a compaction or a request without execution, which    *)
(* passes as it is when it is well formed.                                 *)
PassThrough ==
  /\ phase = "asked"
  /\ phase' \in {"accepted", "refused"}
  /\ UNCHANGED <<catalog, offer, turn, visible, store, shown, evals, upstream, transcript, stream>>

(* prepareRequest on the first request: the catalog is rewritten.          *)
PrepareRequest ==
  /\ phase = "asked"
  /\ offer' = Replace(catalog[1], catalog[2])
  /\ phase' = IF offer'.verdict = "refused" THEN "refused"
              ELSE IF catalog \in Streamed THEN "streaming" ELSE "accepted"
  /\ UNCHANGED <<catalog, turn, visible, store, shown, evals, upstream, transcript, stream>>

\* The headers of an output say that the work runs on (codeModeExecutionHeader,
\* nativeExecutionSession, nativeJSONSession).
Runs(item) == item.type = "output" /\ item.body = "running"

\* executionHandleKey: a notice and a call are about the same work.
SameHandle(item, other) == item.call = other.call

\* Mutant: a call that continues the work leaves its notice.
AdvertisedAll == {n \in 1..Len(transcript) : Runs(transcript[n])}

(* projectExecutionContinuations: reading the input in order, an output    *)
(* that says the work runs on leaves a notice, a call that continues the   *)
(* work consumes it; what is left is advertised.                           *)
Consumed(left, n) == {m \in left : SameHandle(transcript[m], transcript[n])}
NoticesLeft(left, n) ==
  CASE transcript[n].type = "wait" -> left \ Consumed(left, n)
    [] Runs(transcript[n]) -> (left \ Consumed(left, n)) \cup {n}
    [] OTHER -> left
Advertised ==
  LET left[n \in 0..Len(transcript)] == IF n = 0 THEN {} ELSE NoticesLeft(left[n - 1], n)
  IN  left[Len(transcript)]

\* The calls that the next request replays, at most MaxReplay, in any order.
Orders == SeqOf(Executed, MaxReplay)
\* One of them takes an unusual course, or comes with an altered carrier.
Plainly == [c \in Executed |-> "report"]

TransformNext ==
  \/ PrepareRequest \/ PassThrough
  \/ \E c \in Calls : Added(c) \/ ArgumentsDone(c)
  \/ \E c \in Calls, i \in Inputs : InputDone(c, i) \/ ItemDone(c, i, TRUE) \/ ItemDone(c, i, FALSE)
  \/ Unsupported \/ AnswerEvent(TRUE) \/ AnswerEvent(FALSE) \/ ErrorEvent \/ EndOfStream
  \/ TerminalRefused
  \/ phase = "streaming" /\ \E k \in {"completed", "failed"}, usage \in BOOLEAN :
       \E f \in {Null} \cup Unseen : \E i \in IF f = Null THEN {Null} ELSE Inputs :
         Terminal(k, f, i, usage) \/ TransformJSON(k, f, i, usage)
  \/ \E o \in Orders : \E c \in Range(o), x \in Courses : NextRequest(o, [Plainly EXCEPT ![c] = x], Null)
  \/ \E o \in Orders : \E c \in Range(o) : NextRequest(o, Plainly, c)
  \/ NextRequest(<<>>, Plainly, Null)

TransformSpec == TransformInit /\ [][TransformNext]_transformVars

-----------------------------------------------------------------------------
(* Properties.                                                             *)

(* Durable before visible, and translated once: whenever Codex can execute *)
(* a carrier, the store holds the translation it came from, at whichever   *)
(* of the three completion events of a call it first appeared and whatever *)
(* failed in between; no call is evaluated twice and Codex never sees two  *)
(* different carriers for one call (commitLocalCall, commitHistory).       *)
CarriersAreRecorded ==
  \A c \in Calls :
    /\ evals[c] <= 1
    /\ \A p \in Carriers(c) : c \in DOMAIN store /\ p = Carrier(c, store[c])

(* What the provider is told about an earlier call is what it said itself, *)
(* or the very program it wrote, as it was executed: however Codex cuts,   *)
(* reorders or alters its history, no call that the router wrote and no    *)
(* program with the router's publisher in it reaches the provider as if    *)
(* the model had written it (reconcileVisibleInput, replayCarrier).        *)
ProviderHearsItself ==
  \A c \in DOMAIN upstream : \E p \in Carriers(c) :
    upstream[c] = Said(c, p.input) \/ (upstream[c] = p /\ p.payload = "program")

(* The answer stays last: the usage report precedes every event of the     *)
(* final answer, answer events keep their order, and none is lost when the *)
(* response ends, fails or breaks off (final_answer_stream.go).            *)
AnswerStaysLast ==
  LET seen == {n \in 1..Len(line) : line[n][1] = "answer"}
  IN  /\ \A m, n \in seen : m < n => line[m][2] < line[n][2]
      /\ \E k \in 0..answers :
           {line[n][2] : n \in seen} = 1..k /\ (phase \in {"ended", "failed"} => k = answers)
      /\ \A u \in 1..Len(line), n \in seen : line[u][1] = "usage" => u < n

\* The calls that a recovery may look at, and their order: this response's calls
\* follow the ancestry, each in its own order.
Chain == Evaluated(local) \cup Evaluated(visible)
Remembered(c) == IF c \in DOMAIN local THEN local[c] ELSE visible[c]
Precedes(c, d) ==
  IF c \in DOMAIN local THEN d \in DOMAIN local /\ local[c].seq < local[d].seq
                       ELSE d \in DOMAIN local \/ visible[c].seq < visible[d].seq

(* A recovery that is evaluated edits the edit call directly before it in  *)
(* the ancestry the provider sees, that call was rejected by the evaluator *)
(* and belongs to the same chain, and the attempts of a chain are numbered *)
(* without repetition (recoveryHistory, nextRecoveryAttempt).              *)
RecoveryFollowsRejection ==
  \A d \in Evaluated(local) : Called[d] = "hpatch_recover" =>
    \E c \in Chain :
      /\ Precedes(c, d) /\ ~\E e \in Chain : Precedes(c, e) /\ Precedes(e, d)
      /\ Remembered(c).result = "rejected" /\ Remembered(c).corr = Remembered(d).corr
      /\ Remembered(c).attempt < Remembered(d).attempt

(* Exactly the work that still runs unattended is advertised: the latest   *)
(* word on it is that it runs, and no call waits for it                    *)
(* (projectExecutionContinuations).                                        *)
RunningWorkIsAdvertised ==
  {transcript[n].call : n \in Advertised} =
    {c \in Calls : \E n \in 1..Len(transcript) :
       /\ transcript[n].type = "output" /\ transcript[n].body = "running" /\ transcript[n].call = c
       /\ \A m \in (n + 1)..Len(transcript) : transcript[m].call # c \/ transcript[m].type = "call"}

(* The provider hears the truth about earlier calls and running work.      *)
ProviderHearsTheTruth == ProviderHearsItself /\ RunningWorkIsAdvertised

(* An accepted catalog offers the provider every router tool exactly once  *)
(* and Codex's own editing tool at no place that Codex puts it: not in the *)
(* top-level array, not in an additional item and not in the functions     *)
(* namespace of one.  It keeps the carrier of the router's own translations*)
(* of the kind they need.  Other namespaces pass as they are, and a        *)
(* plugin's translator may ask for another carrier, which can be missing   *)
(* (prepareRequest, codeModeCarrierCatalog.require).                       *)
CatalogIsReplaced ==
  offer # Null /\ offer.verdict \in {"code", "native"} =>
    LET kept == [top |-> offer.top, extra |-> offer.extra]
        reach == Claimed(kept).flat \cup Claimed(kept).inner \cup Range(offer.top)
    IN  /\ Carries(catalog[1], offer.carrier, offer.kind)
        /\ Carries(kept, offer.carrier, offer.kind)
        /\ \A n \in Installed : Times(kept, n) = 1
        /\ \A t \in reach \ RouterTools : t.name # "apply_patch" /\ ~OwnsEditing(t)
=============================================================================
