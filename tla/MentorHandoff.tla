---------------------------- MODULE MentorHandoff ----------------------------
(***************************************************************************)
(* The mentor schedule (internal/router/mentor_handoff.go) as the request  *)
(* path drives it (server.go, executeRequest): an eligible request of a    *)
(* thread is sent to the mentor model until the thread's schedule is       *)
(* complete.  prepare and record are critical sections; between them the   *)
(* provider answers, and requests of one thread may overlap.               *)
(***************************************************************************)
EXTENDS Naturals, FiniteSets

CONSTANTS
  Requests, Threads,
  InputTokenLimit,      \* mentorInputTokenLimit
  MinToolCalls,         \* mentorMinToolCalls
  MinMessages,          \* mentorMinMessages
  MaxInputTokens,       \* bound: the largest input a request reports
  MaxItems,             \* bound: output items of one response
  None

ASSUME MentorAssumption ==
  /\ {InputTokenLimit, MinToolCalls, MinMessages, MaxInputTokens, MaxItems} \subseteq Nat
  /\ InputTokenLimit > 0 /\ MinToolCalls > 0 /\ MinMessages > 0
  /\ None \notin Threads /\ None \notin Nat
  /\ IsFiniteSet(Requests)

VARIABLES
  sessions,     \* mentorSession of each thread
  req,          \* the request and its mentorResponseObservation
  announced,    \* how often the broker was asked to announce each hand-off
  completions,  \* history: responses recorded as completed, per thread
  reachedAt,    \* history: completions when the schedule began to await a result
  reported      \* history: the largest input any response of the thread reported

vars == <<sessions, req, announced, completions, reachedAt, reported>>
history == <<completions, reachedAt, reported>>

Fresh == [latestInputTokens |-> 0, toolCalls |-> 0, messages |-> 0,
          awaitingToolResult |-> FALSE, complete |-> FALSE]

New == [pc |-> "new", thread |-> None, model |-> None, toolCalls |-> 0, messages |-> 0,
        sawDone |-> FALSE, usage |-> None]

Init ==
  /\ sessions = [th \in Threads |-> Fresh]
  /\ req = [r \in Requests |-> New]
  /\ announced = [th \in Threads |-> 0]
  /\ completions = [th \in Threads |-> 0]
  /\ reachedAt = [th \in Threads |-> 0]
  /\ reported = [th \in Threads |-> 0]

\* prepare: the mentor's model unless the thread's schedule is complete.  A
\* request that is not eligible keeps its own model and is never recorded.
Prepare(r, th) ==
  /\ req[r].pc = "new"
  /\ req' = [req EXCEPT ![r].pc = "sent", ![r].thread = th,
               ![r].model = IF sessions[th].complete THEN "configured" ELSE "mentor"]
  /\ UNCHANGED <<sessions, announced, history>>

PrepareIneligible(r, th) ==
  /\ req[r].pc = "new"
  /\ req' = [req EXCEPT ![r].pc = "sent", ![r].thread = th, ![r].model = "configured"]
  /\ UNCHANGED <<sessions, announced, history>>

Items(r) == req[r].toolCalls + req[r].messages

\* response.output_item.done of a tool call, an assistant message or another item.
Observe(r, kind) ==
  /\ req[r].pc = "sent" /\ req[r].model = "mentor" /\ Items(r) < MaxItems
  /\ req' = [req EXCEPT ![r].sawDone = TRUE,
               ![r].toolCalls = @ + (IF kind = "call" THEN 1 ELSE 0),
               ![r].messages = @ + (IF kind = "message" THEN 1 ELSE 0)]
  /\ UNCHANGED <<sessions, announced, history>>

\* The terminal event: its usage is kept; its output counts only when the
\* stream completed and showed no item before.
Terminal(r, completed, tokens, toolCalls, messages) ==
  /\ req[r].pc = "sent" /\ req[r].model = "mentor"
  /\ req' = [req EXCEPT ![r].pc = IF completed THEN "completed" ELSE "failed",
               ![r].usage = tokens,
               ![r].toolCalls = IF completed /\ ~req[r].sawDone THEN toolCalls ELSE @,
               ![r].messages = IF completed /\ ~req[r].sawDone THEN messages ELSE @]
  /\ UNCHANGED <<sessions, announced, history>>

\* Delivery fails: before any usage, or after the terminal of a completed stream.
Break(r) ==
  /\ req[r].pc \in {"sent", "completed"}
  /\ req' = [req EXCEPT ![r].pc = "failed"]
  /\ UNCHANGED <<sessions, announced, history>>

\* Mutant: a failed response also counts as the one that read the result.
RecordedFailing(state, tokens, included, toolCalls, messages) ==
  LET calls == state.toolCalls + (IF included THEN toolCalls ELSE 0)
      texts == state.messages + (IF included THEN messages ELSE 0)
      done == \/ tokens >= InputTokenLimit \/ texts >= MinMessages
              \/ state.awaitingToolResult
  IN [latestInputTokens |-> tokens, toolCalls |-> calls, messages |-> texts,
      complete |-> state.complete \/ done,
      awaitingToolResult |-> /\ ~state.complete /\ ~done
                             /\ state.awaitingToolResult \/ calls >= MinToolCalls]

\* record: the thread's next state.  The input budget and the messages are
\* tested first, then whether this response read the awaited result.
Recorded(state, tokens, included, toolCalls, messages) ==
  LET calls == state.toolCalls + (IF included THEN toolCalls ELSE 0)
      texts == state.messages + (IF included THEN messages ELSE 0)
      done == \/ tokens >= InputTokenLimit \/ texts >= MinMessages
              \/ included /\ state.awaitingToolResult
  IN [latestInputTokens |-> tokens, toolCalls |-> calls, messages |-> texts,
      complete |-> state.complete \/ done,
      awaitingToolResult |-> /\ ~state.complete /\ ~done
                             /\ state.awaitingToolResult \/ calls >= MinToolCalls]

\* Mutant: whoever finds the schedule complete announces it.
TransitionedAgain(before, after) == after.complete

Transitioned(before, after) == ~before.complete /\ after.complete

\* Without observed usage a failed response is not recorded; a completed one
\* records zero input tokens.
Tokens(r) == IF req[r].usage = None THEN 0 ELSE req[r].usage

\* What nothing reads once the response is recorded.
Forgotten(r) == [req[r] EXCEPT !.sawDone = FALSE, !.usage = None]

Record(r) ==
  /\ \/ req[r].pc = "completed"
     \/ req[r].pc = "failed" /\ req[r].usage # None
  /\ LET th == req[r].thread
         included == req[r].pc = "completed"
         after == Recorded(sessions[th], Tokens(r), included, req[r].toolCalls, req[r].messages)
     IN /\ sessions' = [sessions EXCEPT ![th] = after]
        /\ req' = [req EXCEPT ![r] = [Forgotten(r) EXCEPT
                     !.pc = IF Transitioned(sessions[th], after) THEN "announcing" ELSE "done"]]
        /\ completions' = [completions EXCEPT ![th] = @ + (IF included THEN 1 ELSE 0)]
        /\ reachedAt' = [reachedAt EXCEPT ![th] =
             IF after.awaitingToolResult /\ ~sessions[th].awaitingToolResult THEN completions'[th] ELSE @]
        /\ reported' = [reported EXCEPT ![th] = IF Tokens(r) > @ THEN Tokens(r) ELSE @]
  /\ UNCHANGED announced

\* A failed response without usage leaves no trace.
Drop(r) ==
  /\ req[r].pc = "failed" /\ req[r].usage = None
  /\ req' = [req EXCEPT ![r] = [Forgotten(r) EXCEPT !.pc = "done"]]
  /\ UNCHANGED <<sessions, announced, history>>

\* The transition is published after the lock is released.
Announce(r) ==
  /\ req[r].pc = "announcing"
  /\ announced' = [announced EXCEPT ![req[r].thread] = @ + 1]
  /\ req' = [req EXCEPT ![r].pc = "done"]
  /\ UNCHANGED <<sessions, history>>

\* A request without a mekugi transform (compaction, prewarm) publishes nothing.
Withhold(r) ==
  /\ req[r].pc = "announcing"
  /\ req' = [req EXCEPT ![r].pc = "done"]
  /\ UNCHANGED <<sessions, announced, history>>

Usages == (0..MaxInputTokens) \cup {None}

Step(r) ==
  \/ \E th \in Threads : Prepare(r, th) \/ PrepareIneligible(r, th)
  \/ \E kind \in {"call", "message", "other"} : Observe(r, kind)
  \/ \E completed \in BOOLEAN, tokens \in Usages, c, m \in 0..MaxItems :
       c + m <= MaxItems /\ Terminal(r, completed, tokens, c, m)
  \/ Break(r) \/ Record(r) \/ Drop(r) \/ Announce(r) \/ Withhold(r)

Next == \E r \in Requests : Step(r)

Spec == Init /\ [][Next]_vars

-----------------------------------------------------------------------------
SessionType == [latestInputTokens: Nat, toolCalls: Nat, messages: Nat,
                awaitingToolResult: BOOLEAN, complete: BOOLEAN]
PCs == {"new", "sent", "completed", "failed", "announcing", "done"}
RequestType == [pc: PCs, thread: Threads \cup {None},
                model: {None, "mentor", "configured"},
                toolCalls: Nat, messages: Nat, sawDone: BOOLEAN, usage: Nat \cup {None}]

\* The schedules, the requests and the history variables have their types.
TypeOK ==
  /\ sessions \in [Threads -> SessionType]
  /\ req \in [Requests -> RequestType]
  /\ announced \in [Threads -> Nat]
  /\ completions \in [Threads -> Nat] /\ reachedAt \in [Threads -> Nat] /\ reported \in [Threads -> Nat]

\* A schedule ends for a reason the code states: some response reported the
\* input budget, the messages are enough, or the tool calls are and one more
\* response completed since.  A failed response is never that one.
CompletionIsEarned ==
  \A th \in Threads : sessions[th].complete =>
    \/ reported[th] >= InputTokenLimit
    \/ sessions[th].messages >= MinMessages
    \/ sessions[th].toolCalls >= MinToolCalls /\ completions[th] > reachedAt[th]

Announcing(th) == {r \in Requests : req[r].pc = "announcing" /\ req[r].thread = th}

\* The hand-off of a thread is announced at most once, however many overlapping
\* responses find it complete.
AnnouncedOnce ==
  \A th \in Threads : announced[th] + Cardinality(Announcing(th)) <= 1

\* A schedule that waits has its tool calls and has not ended.
AwaitingIsJustified ==
  \A th \in Threads : sessions[th].awaitingToolResult =>
    /\ ~sessions[th].complete /\ sessions[th].toolCalls >= MinToolCalls
    /\ completions[th] >= reachedAt[th]

\* A completed schedule is never forgotten and restarted, and counts never fall.
NeverRestarts ==
  [][\A th \in Threads :
       /\ sessions[th].complete => sessions'[th].complete /\ ~sessions'[th].awaitingToolResult
       /\ sessions'[th].toolCalls >= sessions[th].toolCalls
       /\ sessions'[th].messages >= sessions[th].messages]_vars

=============================================================================
