------------------------- MODULE MentorHandoff_proofs -------------------------
(***************************************************************************)
(* Proofs about the mentor schedule, for any number of threads, requests   *)
(* and output items and for every value of the limits.                     *)
(***************************************************************************)
EXTENDS MentorHandoff, FiniteSetTheorems, TLAPS

\* One recorded response: the state stays typed, a completed schedule stays
\* complete and a waiting one has its calls.  Every invariant rests on this.
LEMMA RecordedFacts ==
  ASSUME NEW state \in SessionType, NEW tokens \in Nat, NEW included \in BOOLEAN,
         NEW c \in Nat, NEW m \in Nat
  PROVE  LET after == Recorded(state, tokens, included, c, m) IN
         /\ after \in SessionType
         /\ after.toolCalls >= state.toolCalls /\ after.messages >= state.messages
         /\ state.complete => after.complete
         /\ after.complete => ~after.awaitingToolResult
         /\ after.complete => \/ state.complete
                              \/ tokens >= InputTokenLimit
                              \/ after.messages >= MinMessages
                              \/ included /\ state.awaitingToolResult
         /\ after.awaitingToolResult => \/ state.awaitingToolResult
                                        \/ after.toolCalls >= MinToolCalls
  BY MentorAssumption DEF Recorded, SessionType

\* A request that was sent has a thread.
Sent == \A r \in Requests : req[r].pc # "new" => req[r].thread \in Threads

\* A recording step of a typed state, spelled out for its thread: the request
\* that is recorded was sent to a thread, so that exactly one schedule changes.
LEMMA RecordStep ==
  ASSUME TypeOK, Sent, NEW r \in Requests, Record(r)
  PROVE  LET th == req[r].thread
             included == req[r].pc = "completed"
             after == Recorded(sessions[th], Tokens(r), included, req[r].toolCalls, req[r].messages)
         IN /\ th \in Threads
            /\ TypeOK'
            /\ sessions' = [sessions EXCEPT ![th] = after]
<1> DEFINE th == req[r].thread
           included == req[r].pc = "completed"
           after == Recorded(sessions[th], Tokens(r), included, req[r].toolCalls, req[r].messages)
<1>1. /\ req[r] \in RequestType /\ th \in Threads /\ sessions[th] \in SessionType
      /\ Tokens(r) \in Nat /\ included \in BOOLEAN
  BY DEF TypeOK, Sent, Record, RequestType, Tokens
<1>2. after \in SessionType
  BY <1>1, RecordedFacts DEF RequestType
<1>3. sessions' \in [Threads -> SessionType]
  BY <1>2 DEF Record, TypeOK
<1>4. req' \in [Requests -> RequestType]
  <2> DEFINE new == [Forgotten(r) EXCEPT
                       !.pc = IF Transitioned(sessions[th], after) THEN "announcing" ELSE "done"]
  <2>1. new \in RequestType
    BY <1>1 DEF Forgotten, RequestType, PCs
  <2> QED
    BY <2>1 DEF Record, TypeOK
<1>5. completions' \in [Threads -> Nat]
  BY <1>1 DEF Record, TypeOK
<1>6. reachedAt' \in [Threads -> Nat] /\ reported' \in [Threads -> Nat]
  BY <1>1, <1>5 DEF Record, TypeOK
<1> QED
  BY <1>1, <1>3, <1>4, <1>5, <1>6 DEF Record, TypeOK

\* Every state of the specification is typed.
THEOREM TypeCorrect == Spec => [](TypeOK /\ Sent)
<1>1. Init => TypeOK /\ Sent
  BY MentorAssumption DEF Init, TypeOK, Sent, Fresh, New, SessionType, RequestType, PCs
<1>2. TypeOK /\ Sent /\ [Next]_vars => TypeOK' /\ Sent'
  <2> SUFFICES ASSUME TypeOK, Sent, [Next]_vars PROVE TypeOK' /\ Sent'
    OBVIOUS
  <2>1. ASSUME NEW r \in Requests, NEW new \in RequestType, req' = [req EXCEPT ![r] = new]
        PROVE  req' \in [Requests -> RequestType]
    BY <2>1 DEF TypeOK
  <2>2. \A r \in Requests : req[r] \in RequestType
    BY DEF TypeOK
  <2>3. ASSUME NEW r \in Requests, NEW th \in Threads, Prepare(r, th) PROVE TypeOK'
    <3> DEFINE new == [req[r] EXCEPT !.pc = "sent", !.thread = th,
                          !.model = IF sessions[th].complete THEN "configured" ELSE "mentor"]
    <3>1. new \in RequestType
      BY <2>2 DEF TypeOK, RequestType, PCs
    <3>2. req' = [req EXCEPT ![r] = new]
      BY <2>2, <2>3 DEF Prepare, RequestType
    <3> QED
      BY <2>1, <2>3, <3>1, <3>2 DEF Prepare, TypeOK, history
  <2>4. ASSUME NEW r \in Requests, NEW th \in Threads, PrepareIneligible(r, th) PROVE TypeOK'
    <3> DEFINE new == [req[r] EXCEPT !.pc = "sent", !.thread = th, !.model = "configured"]
    <3>1. new \in RequestType
      BY <2>2 DEF RequestType, PCs
    <3>2. req' = [req EXCEPT ![r] = new]
      BY <2>2, <2>4 DEF PrepareIneligible, RequestType
    <3> QED
      BY <2>1, <2>4, <3>1, <3>2 DEF PrepareIneligible, TypeOK, history
  <2>5. ASSUME NEW r \in Requests, NEW kind \in {"call", "message", "other"}, Observe(r, kind) PROVE TypeOK'
    <3> DEFINE new == [req[r] EXCEPT !.sawDone = TRUE,
                          !.toolCalls = @ + (IF kind = "call" THEN 1 ELSE 0),
                          !.messages = @ + (IF kind = "message" THEN 1 ELSE 0)]
    <3>3. /\ req[r].toolCalls + (IF kind = "call" THEN 1 ELSE 0) \in Nat
          /\ req[r].messages + (IF kind = "message" THEN 1 ELSE 0) \in Nat
      BY <2>2 DEF RequestType
    <3>1. new \in RequestType
      BY <2>2, <3>3 DEF RequestType, PCs
    <3>2. req' = [req EXCEPT ![r] = new]
      BY <2>2, <2>5 DEF Observe, RequestType
    <3> QED
      BY <2>1, <2>5, <3>1, <3>2 DEF Observe, TypeOK, history
  <2>6. ASSUME NEW r \in Requests, NEW completed \in BOOLEAN, NEW tokens \in Usages,
               NEW c \in 0..MaxItems, NEW m \in 0..MaxItems, Terminal(r, completed, tokens, c, m)
        PROVE  TypeOK'
    <3> DEFINE new == [req[r] EXCEPT !.pc = IF completed THEN "completed" ELSE "failed",
                          !.usage = tokens,
                          !.toolCalls = IF completed /\ ~req[r].sawDone THEN c ELSE @,
                          !.messages = IF completed /\ ~req[r].sawDone THEN m ELSE @]
    <3> DEFINE calls == IF completed /\ ~req[r].sawDone THEN c ELSE req[r].toolCalls
               texts == IF completed /\ ~req[r].sawDone THEN m ELSE req[r].messages
    <3>3. req[r].toolCalls \in Nat /\ req[r].messages \in Nat
      BY <2>2 DEF RequestType
    <3>4. calls \in Nat /\ texts \in Nat /\ tokens \in Nat \cup {None}
      BY <3>3, MentorAssumption DEF Usages
    <3> HIDE DEF calls, texts
    <3>5. [req[r] EXCEPT !.pc = IF completed THEN "completed" ELSE "failed",
                         !.usage = tokens, !.toolCalls = calls, !.messages = texts] \in RequestType
      BY <2>2, <3>4 DEF RequestType, PCs
    <3>1. new \in RequestType
      BY <3>5 DEF calls, texts
    <3>2. req' = [req EXCEPT ![r] = new]
      BY <2>2, <2>6 DEF Terminal, RequestType
    <3> QED
      BY <2>1, <2>6, <3>1, <3>2 DEF Terminal, TypeOK, history
  <2>7. ASSUME NEW r \in Requests, Break(r) PROVE TypeOK'
    <3> DEFINE new == [req[r] EXCEPT !.pc = "failed"]
    <3>1. new \in RequestType
      BY <2>2 DEF RequestType, PCs
    <3>2. req' = [req EXCEPT ![r] = new]
      BY <2>2, <2>7 DEF Break, RequestType
    <3> QED
      BY <2>1, <2>7, <3>1, <3>2 DEF Break, TypeOK, history
  <2>8. ASSUME NEW r \in Requests, Record(r) PROVE TypeOK'
    BY <2>8, RecordStep
  <2>9. ASSUME NEW r \in Requests, Drop(r) PROVE TypeOK'
    <3> DEFINE new == [Forgotten(r) EXCEPT !.pc = "done"]
    <3>1. new \in RequestType
      BY <2>2 DEF RequestType, PCs, Forgotten
    <3> QED
      BY <2>1, <2>9, <3>1 DEF Drop, TypeOK, history
  <2>10. ASSUME NEW r \in Requests, Announce(r) PROVE TypeOK'
    <3> DEFINE new == [req[r] EXCEPT !.pc = "done"]
    <3>1. new \in RequestType
      BY <2>2 DEF RequestType, PCs
    <3>2. req' = [req EXCEPT ![r] = new]
      BY <2>2, <2>10 DEF Announce, RequestType
    <3>3. announced' \in [Threads -> Nat]
      <4>1. req[r].thread \in Threads /\ announced[req[r].thread] + 1 \in Nat
        BY <2>10 DEF Announce, TypeOK, Sent
      <4> QED
        BY <2>10, <4>1 DEF Announce, TypeOK
    <3> QED
      BY <2>1, <2>10, <3>1, <3>2, <3>3 DEF Announce, TypeOK, history
  <2>14. ASSUME NEW r \in Requests, Withhold(r) PROVE TypeOK'
    <3> DEFINE new == [req[r] EXCEPT !.pc = "done"]
    <3>1. new \in RequestType
      BY <2>2 DEF RequestType, PCs
    <3>2. req' = [req EXCEPT ![r] = new]
      BY <2>2, <2>14 DEF Withhold, RequestType
    <3> QED
      BY <2>1, <2>14, <3>1, <3>2 DEF Withhold, TypeOK, history
  <2>11. ASSUME UNCHANGED vars PROVE TypeOK'
    <3>1. /\ sessions' = sessions /\ req' = req /\ announced' = announced
          /\ completions' = completions /\ reachedAt' = reachedAt /\ reported' = reported
      BY <2>11 DEF vars
    <3> QED
      BY <3>1 DEF TypeOK
  <2>12. TypeOK'
    BY <2>3, <2>4, <2>5, <2>6, <2>7, <2>8, <2>9, <2>10, <2>11, <2>14 DEF Next, Step
  <2>13. Sent'
    <3> SUFFICES ASSUME NEW q \in Requests, req'[q].pc # "new" PROVE req'[q].thread \in Threads
      BY DEF Sent
    <3>1. CASE UNCHANGED vars
      BY <3>1 DEF vars, Sent
    <3>2. ASSUME NEW r \in Requests, Step(r) PROVE req'[q].thread \in Threads
      <4>1. CASE q # r
        BY <3>2, <4>1 DEF Step, Prepare, PrepareIneligible, Observe, Terminal, Break, Record, Drop,
                          Announce, Withhold, Sent, TypeOK
      <4>2. ASSUME q = r, NEW th \in Threads, Prepare(r, th) \/ PrepareIneligible(r, th)
            PROVE  req'[q].thread \in Threads
        BY <2>2, <4>2 DEF Prepare, PrepareIneligible, TypeOK, RequestType
      <4>3. ASSUME q = r, NEW kind, Observe(r, kind) PROVE req'[q].thread \in Threads
        BY <2>2, <4>3 DEF Observe, Sent, TypeOK, RequestType
      <4>4. ASSUME q = r, NEW completed, NEW tokens, NEW c, NEW m, Terminal(r, completed, tokens, c, m)
            PROVE  req'[q].thread \in Threads
        BY <2>2, <4>4 DEF Terminal, Sent, TypeOK, RequestType
      <4>5. ASSUME q = r, Record(r) PROVE req'[q].thread \in Threads
        BY <2>2, <4>5 DEF Record, Forgotten, Sent, TypeOK, RequestType
      <4>6. ASSUME q = r, Break(r) \/ Announce(r) \/ Withhold(r) PROVE req'[q].thread \in Threads
        BY <2>2, <4>6 DEF Break, Announce, Withhold, Sent, TypeOK, RequestType
      <4>7. ASSUME q = r, Drop(r) PROVE req'[q].thread \in Threads
        BY <2>2, <4>7 DEF Drop, Forgotten, Sent, TypeOK, RequestType
      <4> QED
        BY <3>2, <4>1, <4>2, <4>3, <4>4, <4>5, <4>6, <4>7 DEF Step
    <3> QED
      BY <3>1, <3>2 DEF Next
  <2> QED
    BY <2>12, <2>13
<1> QED
  BY <1>1, <1>2, PTL DEF Spec

\* Only a recording step touches the schedules and the history variables.
LEMMA OnlyRecordCounts ==
  ASSUME [Next]_vars
  PROVE  \/ \E r \in Requests : Record(r)
         \/ UNCHANGED <<sessions, completions, reachedAt, reported>>
<1>1. CASE UNCHANGED vars
  BY <1>1 DEF vars
<1>2. ASSUME NEW r \in Requests, Step(r)
      PROVE  Record(r) \/ UNCHANGED <<sessions, completions, reachedAt, reported>>
  <2>1. ASSUME NEW th, Prepare(r, th) \/ PrepareIneligible(r, th)
        PROVE  UNCHANGED <<sessions, completions, reachedAt, reported>>
    BY <2>1 DEF Prepare, PrepareIneligible, history
  <2>2. ASSUME NEW kind, Observe(r, kind) PROVE UNCHANGED <<sessions, completions, reachedAt, reported>>
    BY <2>2 DEF Observe, history
  <2>3. ASSUME NEW completed, NEW tokens, NEW c, NEW m, Terminal(r, completed, tokens, c, m)
        PROVE  UNCHANGED <<sessions, completions, reachedAt, reported>>
    BY <2>3 DEF Terminal, history
  <2>4. ASSUME Break(r) \/ Drop(r) \/ Announce(r) \/ Withhold(r)
        PROVE  UNCHANGED <<sessions, completions, reachedAt, reported>>
    BY <2>4 DEF Break, Drop, Announce, Withhold, history
  <2> QED
    BY <1>2, <2>1, <2>2, <2>3, <2>4 DEF Step
<1> QED
  BY <1>1, <1>2 DEF Next

\* A schedule ends only for one of the reasons record tests, and waits only with
\* its tool calls made: neither a failed response nor a concurrent one ends it
\* early.  The two support each other: what the wait knows when it begins is
\* what the end by a read result rests on.
THEOREM ScheduleIsSound == Spec => [](CompletionIsEarned /\ AwaitingIsJustified)
<1> DEFINE Inv == CompletionIsEarned /\ AwaitingIsJustified
<1>1. Init => Inv
  BY DEF Init, CompletionIsEarned, AwaitingIsJustified, Fresh
<1>2. TypeOK /\ TypeOK' /\ Sent /\ Inv /\ [Next]_vars => Inv'
  <2> SUFFICES ASSUME TypeOK, TypeOK', Sent, Inv, [Next]_vars, NEW th \in Threads
               PROVE  /\ sessions'[th].complete =>
                           \/ reported'[th] >= InputTokenLimit
                           \/ sessions'[th].messages >= MinMessages
                           \/ sessions'[th].toolCalls >= MinToolCalls /\ completions'[th] > reachedAt'[th]
                      /\ sessions'[th].awaitingToolResult =>
                           /\ ~sessions'[th].complete /\ sessions'[th].toolCalls >= MinToolCalls
                           /\ completions'[th] >= reachedAt'[th]
    BY DEF CompletionIsEarned, AwaitingIsJustified
  <2>1. CASE UNCHANGED <<sessions, completions, reachedAt, reported>>
    BY <2>1 DEF CompletionIsEarned, AwaitingIsJustified
  <2>2. ASSUME NEW r \in Requests, Record(r), req[r].thread # th
        PROVE  UNCHANGED <<sessions[th], completions[th], reachedAt[th], reported[th]>>
    BY <2>2 DEF Record, TypeOK
  <2>3. ASSUME NEW r \in Requests, Record(r), req[r].thread = th
        PROVE  /\ sessions'[th].complete =>
                    \/ reported'[th] >= InputTokenLimit
                    \/ sessions'[th].messages >= MinMessages
                    \/ sessions'[th].toolCalls >= MinToolCalls /\ completions'[th] > reachedAt'[th]
               /\ sessions'[th].awaitingToolResult =>
                    /\ ~sessions'[th].complete /\ sessions'[th].toolCalls >= MinToolCalls
                    /\ completions'[th] >= reachedAt'[th]
    <3> DEFINE before == sessions[th]
               included == req[r].pc = "completed"
               after == Recorded(before, Tokens(r), included, req[r].toolCalls, req[r].messages)
    <3>1. /\ before \in SessionType /\ Tokens(r) \in Nat /\ included \in BOOLEAN
          /\ req[r].toolCalls \in Nat /\ req[r].messages \in Nat
          /\ completions[th] \in Nat /\ reachedAt[th] \in Nat /\ reported[th] \in Nat
      BY DEF TypeOK, RequestType, Tokens
    <3>2. sessions'[th] = after
      BY <2>3 DEF Record, TypeOK
    <3>3. completions'[th] = completions[th] + (IF included THEN 1 ELSE 0)
      BY <2>3 DEF Record, TypeOK
    <3>4. /\ reachedAt'[th] = IF after.awaitingToolResult /\ ~before.awaitingToolResult
                               THEN completions'[th] ELSE reachedAt[th]
          /\ reported'[th] >= reported[th] /\ reported'[th] >= Tokens(r)
      BY <2>3, <3>1 DEF Record, TypeOK
    <3>5. /\ after \in SessionType
          /\ after.toolCalls >= before.toolCalls /\ after.messages >= before.messages
          /\ after.complete => ~after.awaitingToolResult
          /\ after.complete => \/ before.complete
                               \/ Tokens(r) >= InputTokenLimit
                               \/ after.messages >= MinMessages
                               \/ included /\ before.awaitingToolResult
          /\ after.awaitingToolResult => \/ before.awaitingToolResult
                                         \/ after.toolCalls >= MinToolCalls
      BY <3>1, RecordedFacts
    <3>6. /\ before.complete => \/ reported[th] >= InputTokenLimit
                                \/ before.messages >= MinMessages
                                \/ before.toolCalls >= MinToolCalls /\ completions[th] > reachedAt[th]
          /\ before.awaitingToolResult => /\ before.toolCalls >= MinToolCalls
                                          /\ completions[th] >= reachedAt[th]
      BY DEF CompletionIsEarned, AwaitingIsJustified
    <3>7. before.toolCalls \in Nat /\ before.messages \in Nat /\ after.toolCalls \in Nat /\ after.messages \in Nat
      BY <3>1, <3>5 DEF SessionType
    <3>8. reported'[th] \in Nat
      BY DEF TypeOK
    <3> HIDE DEF before, included, after
    <3> QED
      BY <3>1, <3>2, <3>3, <3>4, <3>5, <3>6, <3>7, <3>8, MentorAssumption
  <2> QED
    BY <2>1, <2>2, <2>3, OnlyRecordCounts DEF CompletionIsEarned, AwaitingIsJustified
<1> QED
  BY <1>1, <1>2, TypeCorrect, PTL DEF Spec

\* A completed schedule stays complete and no count falls, whatever an older
\* response reports when it is recorded late.
THEOREM SchedulesNeverRestart == Spec => NeverRestarts
<1> DEFINE Kept == \A th \in Threads :
             /\ sessions[th].complete => sessions'[th].complete /\ ~sessions'[th].awaitingToolResult
             /\ sessions'[th].toolCalls >= sessions[th].toolCalls
             /\ sessions'[th].messages >= sessions[th].messages
<1>1. TypeOK /\ Sent /\ AwaitingIsJustified /\ [Next]_vars => Kept
  <2> SUFFICES ASSUME TypeOK, Sent, AwaitingIsJustified, [Next]_vars, NEW th \in Threads
               PROVE  /\ sessions[th].complete => sessions'[th].complete /\ ~sessions'[th].awaitingToolResult
                      /\ sessions'[th].toolCalls >= sessions[th].toolCalls
                      /\ sessions'[th].messages >= sessions[th].messages
    OBVIOUS
  <2>1. sessions[th] \in SessionType /\ (sessions[th].complete => ~sessions[th].awaitingToolResult)
    BY DEF TypeOK, AwaitingIsJustified
  <2>2. CASE sessions'[th] = sessions[th]
    BY <2>1, <2>2 DEF SessionType
  <2>3. ASSUME NEW r \in Requests, Record(r), req[r].thread # th PROVE sessions'[th] = sessions[th]
    BY <2>3 DEF Record, TypeOK
  <2>4. ASSUME NEW r \in Requests, Record(r), req[r].thread = th
        PROVE  /\ sessions[th].complete => sessions'[th].complete /\ ~sessions'[th].awaitingToolResult
               /\ sessions'[th].toolCalls >= sessions[th].toolCalls
               /\ sessions'[th].messages >= sessions[th].messages
    <3>1. /\ Tokens(r) \in Nat /\ (req[r].pc = "completed") \in BOOLEAN
          /\ req[r].toolCalls \in Nat /\ req[r].messages \in Nat
      BY DEF TypeOK, RequestType, Tokens
    <3>2. sessions'[th] = Recorded(sessions[th], Tokens(r), req[r].pc = "completed",
                                   req[r].toolCalls, req[r].messages)
      BY <2>4 DEF Record, TypeOK
    <3> DEFINE after == Recorded(sessions[th], Tokens(r), req[r].pc = "completed",
                                 req[r].toolCalls, req[r].messages)
    <3>3. /\ after.toolCalls >= sessions[th].toolCalls /\ after.messages >= sessions[th].messages
          /\ sessions[th].complete => after.complete
          /\ after.complete => ~after.awaitingToolResult
      BY <2>1, <3>1, RecordedFacts
    <3> QED
      BY <3>2, <3>3
  <2> QED
    BY <2>2, <2>3, <2>4, OnlyRecordCounts
<1> QED
  BY <1>1, TypeCorrect, ScheduleIsSound, PTL DEF Spec, NeverRestarts

\* The broker is asked to announce a thread's hand-off at most once.  Stronger
\* and inductive: nobody announces or has announced before the schedule is
\* complete, and then one request does.
THEOREM HandoffIsAnnouncedOnce == Spec => []AnnouncedOnce
<1> DEFINE Total(th) == announced[th] + Cardinality(Announcing(th))
           Inv == \A th \in Threads : Total(th) <= 1 /\ (~sessions[th].complete => Total(th) = 0)
<1>1. Init => Inv
  <2> SUFFICES ASSUME Init, NEW th \in Threads PROVE Total(th) = 0
    OBVIOUS
  <2>1. Announcing(th) = {}
    BY DEF Init, Announcing, New
  <2> QED
    BY <2>1, FS_EmptySet DEF Init
<1>2. TypeOK /\ Sent /\ TypeOK' /\ Inv /\ [Next]_vars => Inv'
  <2> SUFFICES ASSUME TypeOK, Sent, TypeOK', Inv, [Next]_vars, NEW th \in Threads
               PROVE  Total(th)' <= 1 /\ (~sessions'[th].complete => Total(th)' = 0)
    OBVIOUS
  <2>1. /\ IsFiniteSet(Announcing(th)) /\ Cardinality(Announcing(th)) \in Nat
        /\ announced[th] \in Nat
        /\ Total(th) <= 1 /\ (~sessions[th].complete => Total(th) = 0)
    <3>1. IsFiniteSet(Announcing(th))
      BY MentorAssumption, FS_Subset DEF Announcing
    <3> QED
      BY <3>1, FS_CardinalityType DEF TypeOK
  <2>2. ASSUME Announcing(th)' = Announcing(th), announced'[th] = announced[th],
               sessions[th].complete => sessions'[th].complete
        PROVE  Total(th)' <= 1 /\ (~sessions'[th].complete => Total(th)' = 0)
    BY <2>1, <2>2
  <2>3. CASE UNCHANGED vars
    BY <2>2, <2>3 DEF vars, Announcing
  <2>4. ASSUME NEW r \in Requests, Step(r)
        PROVE  Total(th)' <= 1 /\ (~sessions'[th].complete => Total(th)' = 0)
    <3>1. ASSUME NEW u, Prepare(r, u) \/ PrepareIneligible(r, u)
          PROVE  Announcing(th)' = Announcing(th) /\ UNCHANGED <<announced, sessions>>
      BY <3>1 DEF Prepare, PrepareIneligible, Announcing, TypeOK, RequestType
    <3>2. ASSUME NEW kind, Observe(r, kind)
          PROVE  Announcing(th)' = Announcing(th) /\ UNCHANGED <<announced, sessions>>
      BY <3>2 DEF Observe, Announcing, TypeOK, RequestType
    <3>3. ASSUME NEW completed, NEW tokens, NEW c, NEW m, Terminal(r, completed, tokens, c, m)
          PROVE  Announcing(th)' = Announcing(th) /\ UNCHANGED <<announced, sessions>>
      BY <3>3 DEF Terminal, Announcing, TypeOK, RequestType
    <3>4. ASSUME Break(r)
          PROVE  Announcing(th)' = Announcing(th) /\ UNCHANGED <<announced, sessions>>
      BY <3>4 DEF Break, Announcing, TypeOK, RequestType
    <3>5. ASSUME Drop(r)
          PROVE  Announcing(th)' = Announcing(th) /\ UNCHANGED <<announced, sessions>>
      BY <3>5 DEF Drop, Forgotten, Announcing, TypeOK, RequestType
    <3>6. ASSUME Announce(r) PROVE Total(th)' <= 1 /\ (~sessions'[th].complete => Total(th)' = 0)
      <4>1. CASE req[r].thread = th
        <5>1. r \in Announcing(th) /\ Announcing(th)' = Announcing(th) \ {r}
          BY <3>6, <4>1 DEF Announce, Announcing, TypeOK, RequestType
        <5>2. Cardinality(Announcing(th)') = Cardinality(Announcing(th)) - 1
          BY <2>1, <5>1, FS_RemoveElement
        <5>3. announced'[th] = announced[th] + 1 /\ sessions' = sessions
          BY <3>6, <4>1 DEF Announce, TypeOK
        <5> QED
          BY <2>1, <5>2, <5>3
      <4>2. CASE req[r].thread # th
        <5>1. Announcing(th)' = Announcing(th)
          BY <3>6, <4>2 DEF Announce, Announcing, TypeOK, RequestType
        <5>2. announced'[th] = announced[th] /\ sessions' = sessions
          BY <3>6, <4>2 DEF Announce, TypeOK
        <5> QED
          BY <2>2, <5>1, <5>2
      <4> QED
        BY <4>1, <4>2
    <3>8. ASSUME Withhold(r) PROVE Total(th)' <= 1 /\ (~sessions'[th].complete => Total(th)' = 0)
      <4>1. announced' = announced /\ sessions' = sessions
        BY <3>8 DEF Withhold
      <4>2. CASE req[r].thread = th
        <5>1. r \in Announcing(th) /\ Announcing(th)' = Announcing(th) \ {r}
          BY <3>8, <4>2 DEF Withhold, Announcing, TypeOK, RequestType
        <5>2. Cardinality(Announcing(th)') = Cardinality(Announcing(th)) - 1
          BY <2>1, <5>1, FS_RemoveElement
        <5>3. Cardinality(Announcing(th)) = 1
          BY <2>1, <5>1, FS_EmptySet
        <5> QED
          BY <2>1, <4>1, <5>2, <5>3
      <4>3. CASE req[r].thread # th
        <5>1. Announcing(th)' = Announcing(th)
          BY <3>8, <4>3 DEF Withhold, Announcing, TypeOK, RequestType
        <5> QED
          BY <2>2, <4>1, <5>1
      <4> QED
        BY <4>2, <4>3
    <3>7. ASSUME Record(r) PROVE Total(th)' <= 1 /\ (~sessions'[th].complete => Total(th)' = 0)
      <4> DEFINE after == Recorded(sessions[th], Tokens(r), req[r].pc = "completed",
                                   req[r].toolCalls, req[r].messages)
      <4>1. CASE req[r].thread # th
        <5>1. Announcing(th)' = Announcing(th)
          BY <3>7, <4>1 DEF Record, Forgotten, Announcing, TypeOK, RequestType
        <5>2. announced' = announced /\ sessions'[th] = sessions[th]
          BY <3>7, <4>1 DEF Record, TypeOK
        <5> QED
          BY <2>2, <5>1, <5>2
      <4>2. CASE req[r].thread = th /\ ~Transitioned(sessions[th], after)
        <5>1. req'[r].pc = "done" /\ \A q \in Requests \ {r} : req'[q] = req[q]
          BY <3>7, <4>2 DEF Record, Forgotten, TypeOK, RequestType
        <5>2. Announcing(th)' = Announcing(th)
          BY <3>7, <5>1 DEF Record, Announcing
        <5>3. announced' = announced /\ sessions'[th] = after
          BY <3>7, <4>2 DEF Record, TypeOK
        <5>4. sessions[th].complete => after.complete
          <6>1. /\ sessions[th] \in SessionType /\ Tokens(r) \in Nat /\ (req[r].pc = "completed") \in BOOLEAN
                /\ req[r].toolCalls \in Nat /\ req[r].messages \in Nat
            BY DEF TypeOK, RequestType, Tokens
          <6> QED
            BY <6>1, RecordedFacts
        <5> QED
          BY <2>2, <5>2, <5>3, <5>4
      <4>3. CASE req[r].thread = th /\ Transitioned(sessions[th], after)
        <5>1. /\ req'[r].pc = "announcing" /\ req'[r].thread = th
              /\ \A q \in Requests \ {r} : req'[q] = req[q]
          BY <3>7, <4>3 DEF Record, Forgotten, TypeOK, RequestType
        <5>2. ~sessions[th].complete /\ after.complete
          BY <4>3 DEF Transitioned
        <5>3. announced[th] = 0 /\ Cardinality(Announcing(th)) = 0
          BY <2>1, <5>2
        <5>4. Announcing(th) = {}
          BY <2>1, <5>3, FS_EmptySet
        <5>5. Announcing(th)' = {r}
          BY <5>1, <5>4 DEF Announcing
        <5>6. Cardinality(Announcing(th)') = 1
          BY <5>5, FS_Singleton
        <5>7. announced' = announced /\ sessions'[th] = after
          BY <3>7, <4>3 DEF Record, TypeOK
        <5> QED
          BY <5>2, <5>3, <5>6, <5>7
      <4> QED
        BY <4>1, <4>2, <4>3
    <3> QED
      BY <2>2, <2>4, <3>1, <3>2, <3>3, <3>4, <3>5, <3>6, <3>7, <3>8 DEF Step
  <2> QED
    BY <2>3, <2>4 DEF Next
<1>3. Inv => AnnouncedOnce
  BY DEF AnnouncedOnce
<1> QED
  BY <1>1, <1>2, <1>3, TypeCorrect, PTL DEF Spec
=============================================================================
