# Verification of mekugi

mekugi is a router between the Codex client and a model provider. It gives the
model an edit tool (the engine in the root package), lowers that and other tools
to what Codex can run, keeps what it needs to replay a conversation, and forwards
the provider's responses over HTTP and WebSockets. This directory holds TLA+
specifications of the parts whose correctness depends on interleavings, failures
or long sequences of calls, the TLC configurations that check them, and proofs
checked by TLAPS.

Every definition that models code is listed in `PROJECT.json` under `map` with
the lines it stands for. Definitions preceded by "Mutant:" are deliberately wrong
variants of the definition that follows them; no specification uses them. They
show that a property can fail.

## 1. The system

### Parts, their state and their operations

| Part | Source | State it keeps | Operations |
|---|---|---|---|
| request execution | `server.go`, `client.go`, `request_observation.go` | the request in progress, its contexts, what was sent, its outcome | claim, shape, forward, retry, copy, classify, report |
| critical errors | `critical_errors.go` | a bounded queue of failures by category | record, transform, retain, suppress, finish |
| usage | `thread_usage.go` | totals per thread | observe, snapshot |
| tool lowering | `mekugi_proxy.go`, `tool_carrier.go`, `responses_*.go`, `final_answer_stream.go` | withheld calls, translations, carriers, held answers | prepare, transform, translate, release |
| history, recovery | `mekugi_history.go`, `mekugi_recovery.go`, `execution_continuation.go` | visible ancestry, attempts of a recovery chain, continuations | reconcile, recover, advertise |
| mixed scripts | `hpatch_shell.go`, `hpatch_resume.go/.js`, `hpatch_control.go` | a retained script with its progress and revision | begin, checkpoint, resume, retry, repair, accept |
| shell storage | `shell_runtime.go` | a thread's directory, artifacts with timers, leases | retain, lease, release, expire, close |
| provider WebSocket pool | `client_websocket.go` | connections, leases, parked requests, idle timers | acquire, dial, readLoop, next, release, Read, Close, close |
| Codex WebSocket session | `server_websocket.go` | native history per response, steering in flight, a queued create, the exchange | run, control, observeControl, commitSteering, execute, Read, message |
| commentary broker and delivery | `commentary_publisher.go`, `commentary.go`, parts of `mekugi_proxy.go` | routes (bearer tokens) with queues, thread provenance, counters, per-response claims | subscribe, publish, complete, drain, handoff, cancel, release, expire, close |
| durable replay store, change index | `mekugi_store.go`, `mekugi_changes.go` | a file per call or note, one index file, a lock file | open, put, putCommentary, lookup, reserve, publish, confirm |
| mentor handoff | `mentor_handoff.go`, `server.go` | a schedule per thread | prepare, observe, record, announce |
| edit workspace and host operations | `workspace.go`, `validation.go`, `run.go`, `translate.go`, `hooks.go` | pending files, names, blocked and reserved names, report | select, new, move, remove, initialise, mutate, render, apply, translate, hooks |
| baseline editor | `editor.go`, `editor_projection.go`, `state.go`, `internal/verifiedrow` | an immutable baseline and the recorded edits | resolve, record, order, project, render, alias, blame |
| edit transaction | `transaction.go` | staged backups and outputs with their flags | stage, back up, install, roll back, clean up |
| tool plugin worker | `tool_plugin_worker.go`, `toolplugin/`, `plugins/` | a worker process and its pending calls | start, call, restart, stop |
| subagent activity | `subagent_*.go` | children, their activity and its display | admit, bridge, publish |
| capture | `capturer/` | observations of an exchange | observe, merge, snapshot |
| the rest | listed in `PROJECT.json` | | text, parsing, formatting, inspection, benchmarks |

Unless a directory is given the router's files are under `src/internal/router/`
and the edit engine's under `src/`.

### How they interact

```
Codex --HTTP--> server.executeRequest ----+--> mentor schedule (prepare/record)
      --WS----> webSocketSession ---------+--> commentary broker <-- publishers (shell, Code Mode)
                                          +--> tool lowering --> replay store, change index
                                          |        +--> mixed scripts --> shell storage
                                          +--> provider pool --WS--> provider
                                          +--> critical errors, thread usage
edit tool: program --> workspace --> baseline editor (per file)
                          |  changes
                          +--> transaction --> disk
```

A request is prepared (mentor, commentary, tools, history from the replay store),
sent through a pooled connection, and its response is transformed on the way
back. A native edit runs inside Codex through a lowered call: its translation is
published to the replay store before the call is released and confirmed when
Codex returns it in a later request. A mixed script is a lowered program that
checkpoints its progress through the router and can be resumed by a later call.
The store is shared by several router processes through a file lock; everything
else lives in one process, guarded by mutexes, with receivers, timers, publishers
and worker programs running concurrently.

### What is hard, and what makes each part correct

* **Request execution.** Start timeout, client cancellation, provider failure and
  write failure meet at any moment of a request, and requests of a thread share
  its totals and the error queue. Correct: the recorded outcome is what the client
  saw; no failure is lost between recording, carrying and delivering it; a total
  shown as complete is the sum; every request ends.
* **Tool lowering.** A call arrives in pieces, is repeated, changed or cut off.
  Correct: Codex sees a carrier only for a durable translation; the provider is
  told what it said itself; the final answer stays behind the usage report; a
  recovery edits the newest rejected script; the rewritten catalog offers exactly
  what the router can carry.
* **Mixed scripts.** A program is cancelled anywhere, its answers get lost, and an
  old carrier may run beside its successor. Correct: no host operation happens
  twice unless a retry was asked for; a patch is made from the newest state; a
  result is recorded only for work that was done.
* **Shell storage.** Timers fire while artifacts are read. Correct: nothing a
  lease covers goes away; nothing idle stays.
* **Pool.** A receiver goroutine per connection races with cancellation, a late
  timer, eviction, ageing, a reuse of the connection and shutdown. Correct: a
  response reaches its own request only, whole and in order; one holder per
  connection and no more connections than the limit; nobody else takes a leased
  connection away; a sealed capture records nothing more; every request ends.
* **Socket session.** Both peers speak while a response runs; acknowledgements
  arrive late, in between, or after the response they belong to. Correct: the
  retained history is the conversation the provider has; steering and requests
  are taken exactly once and in order.
* **Commentary.** Tokens outlive responses; two responses of a thread drain the
  same route while it expires, moves or is cancelled. Correct: each publication
  reaches one response, the counters never drift, every route has an owner.
* **Replay store.** Calls fail, processes die and power is cut between any two
  filesystem calls; a process acts on what it read under an earlier lock.
  Correct: what was promised by a nil error survives; the index never names a
  record that is not there; a change only grows.
* **Mentor.** Requests of a thread overlap. Correct: a schedule ends for a stated
  reason and is announced once.
* **Edit engine.** Scripts delete, move and recreate the same names; edits are
  recorded against a baseline and rendered at once; every filesystem call of the
  commit may fail. Correct: the changes mean what the script means, the caller is
  told the truth, the commit is one atomic step, no content is lost.

`PROJECT.json` lists under `hazards` where each of these bites in the code and
which properties would catch it.

## 2. Modules

| Module | Models | Run module |
|---|---|---|
| `EditChange` | the change record that `workspace.go` hands to `transaction.go`, what makes a list of changes well formed and what it means | (extended by the next three) |
| `AtomicEdit` | the promise of `commitChanges`: an edit in one step | (refined by the next) |
| `EditTransaction` | `commitChanges`, one step per filesystem call | `MCEditTransaction` |
| `EditWorkspace` | a script from its first command to the host's answer and its hooks | `MCEditWorkspace` |
| `BaselineEditor` | the editor of one file and what is derived from its edits | `MCBaselineEditor` |
| `RequestExecution` | `executeRequest` with the error queue and the thread totals | `MCRequestExecution` |
| `ToolCatalog` | the rewriting of a request's tools, as operators | (extended by the next) |
| `ResponseTransform` | the response transform, visible history and recovery | `MCResponseTransform` |
| `ShellStorage` | retained artifacts of a thread | (extended by the next) |
| `MixedContinuation` | mixed scripts and their resumption over that storage | `MCMixedContinuation` |
| `ProviderPool` | the provider pool | `MCProviderPool` |
| `ResponsesSocket` | one Codex WebSocket session with its provider socket | `MCResponsesSocket` |
| `Commentary` (theorems in `Commentary_proofs`) | broker, request preparation, delivery | `MCCommentary` |
| `ReplayStore` | store and change index, several processes, crashes | `MCReplayStore` |
| `MentorHandoff` | the schedule as `executeRequest` drives it | `MCMentorHandoff` |
| `EditEngine_proofs` | theorems about `EditTransaction` and `BaselineEditor` | |
| `RequestPath_proofs` | theorems about `RequestExecution` and `ResponseTransform` | |
| `EditWorkspace_proofs`, `MentorHandoff_proofs`, `ProviderPool_proofs`, `MixedContinuation_proofs`, `ReplayStore_proofs` | theorems about the module of that name | |

Where one proof module speaks about two components, the second one names its
specification differently: `EditorSpec` in `BaselineEditor`, `TransformSpec` in
`ResponseTransform`. The two specifications share no variable, and no theorem about
one uses the other.

**RequestExecution.** `ex[r].pc` is where `executeRequest` stands: `claim`
(decoding and admission), `shape` (preparation), `forward`, `http`, `backoff`
(the ways to a response and the retries, the whole stream of a Grok request
without streaming among them), `inspect` with the sniffing read of the response's
head, `stream` or `json`, then the deferred work: `unwind` settles the notices,
`report` settles the outcome and `told` names the cause, which the code reads from
the context at a later moment. A step of `stream` is a read. What was read is
written in the states of `Writing`, where the idle timer is not armed and only the
client can hold the request. `ctx[r]` combines the start context and its parent:
which of the two ended, and in which order. An error is the set of causes that
`errors.Is` finds in it, so that a dial timeout is a deadline although the start is
alive, and a silent WebSocket is a deadline and an idle timeout. The queue's `entries`
carry count, delivered count and the in-flight mark of `critical_errors.go`;
`held` are the notices a request took with it. `failures` and `carried` are
history. The provider may send any stream: no event, a created event, an invalid
one, every terminal, a broken connection, silence.

**ToolCatalog and ResponseTransform.** A tool is name, type, nested tools and the
documented sections; namespaces occur at the top level and among the additional
tools. The catalog operators follow the claim, replace and require
functions one by one. The commentary endpoint is always set (`server.go:243`). The transform's maps (`pending`, `nativeExecCalls`, `local`,
`visible`) are variables of the same names or close to them; `store` holds the
durable translations, `shown` what Codex has seen, `upstream` what the provider
was told, which is the reference for `ProviderHearsTheTruth`. An input has a form
(`FormOf`): a Code Mode program, one with commentary, a mixed script or plain text.
Tool and form decide what a call is translated to and whether the provider later
hears of the carrier or of its own call (`Replays`): a Code Mode program is replayed
as the program that ran, also when it came in a call of the registered shell, and
one that was lowered for its commentary is replayed as the provider wrote it
(`Recovered`, `Payload`). A translation is its call, input, result and place in its
recovery chain; an edit that the engine never saw has the result "unevaluated". After a response Codex replays
any part of what it was shown, cut, reordered or altered, and
`reconcileVisibleInput` decides about each item.

**MixedContinuation over ShellStorage.** A carrier is the JavaScript program: its
`pc` names where it waits (`claim`, `next` segment, `run`, `execute`, `returned`), and
it can be cancelled at each. A segment is an edit or a shell program, and a shell
program is the sequence of its steps: none for an empty program, which completes
without an operation; a command; or a literal `cat` heredoc, which runs a guard
command and then an `apply_patch` (`Method`). A retry may put another program in
its place (`Replacements`). A literal write that is resumed replays its recorded
guard, so that freshness is claimed for edits only. Revisions are random strings in
the code, so a revision never comes back: `latest` is the set of carriers that hold
the retained one. `effects` counts the host operations started for a step of a
segment and `granted` the retries and repairs that were claimed for the segment.

**ProviderPool.** The atomic steps are the critical sections of the pool mutex
and the blocking operations between them. A request goes through
`acquire -> (parked | dialing) -> write -> prefix -> body -> closing -> done`;
a receiver through `top -> reading -> got -> (reserve -> settle | wait) -> ...`.
`entries`, `busy`, `holder`, `timer` are the fields of the pool's entries,
`queue`, `pending`, `released`, `terminal` those of the lease. `after` is the
`context.AfterFunc` that interrupts a blocked lease: it may have started and not
yet run. `delivered`, `observed`, `finished` record what caller and capture saw.
The provider is external: it sends exactly one terminal event per response, as
the last one, and possibly unsolicited messages that are no terminals; after an
error event it may go on, because such a connection is never reused. A caller
stops reading after `Read` has failed.

**ResponsesSocket.** One goroutine reads both peers, so a message is one step.
`histories` is the router's per-response history, `context` and `produced` are
the provider's own view, against which it is compared. The transform holds answers
(messages without a phase or of the final one) until the response ends while later
calls pass (`observe`, `flush`, `answers`, `disabled`); the history has the items in
the order in which they were delivered, and a rebase sends them so. The two views
are the `SameConversation` when they have the same items and differ in order only
by answers that come after later calls of their own response. The provider answers the
messages of a socket in order, puts accepted steering into the next response
created from its parent, starts a successor of its own only when the response
ended without a tool call, and may leave the parent out of a created event only
for the newest response. A prewarm is a first request that completes without a
created event. The client does not send a create while a successor may be due
and does not go back to a response that it continued with a rebase. Whether the
instructions changed (and the conversation is sent again as a whole) is a
choice. `Abort` stands for timeouts, disconnects, budgets and error events.

**Commentary.** A broker method is one step; a response moves through
preparation, streaming, drain, release. A route may expire at any time, which
includes every order that the real time-to-live can produce. A token hash is
injective. The durable store is always configured (`server.go` opens it). A
publisher may announce its end or just stop.

**ReplayStore.** Writing and syncing a temporary file, renaming it and syncing
the directory are separate steps of the lock holder, each of which may fail.
`recordMay` and `indexMay` are the versions that a power cut may leave: those
renamed since the last successful directory sync, and the version at that sync.
`known` and `view` are what a process remembers after it released the lock.
`acked` collects what operations have promised. Only calls whose record is
durable are looked up.

**EditWorkspace.** The content of a file is its origin, the commands that changed
its text, and its layout: spacing and the way its lines end. A patch shows rows
only (`Rows`): contents that differ in carriage returns alone have no hunks and
cannot be translated (`NoHunks`), a result without a last terminator gets one, and
a pure move shows one line to verify. The host's `apply_patch` is external and
modelled by what the router relies on (`Accepts`, `PatchedBy`); whether it keeps
the line ends of a file is its own affair. `pending` executes the commands one by one as
a reference. Whether a target resolves is a choice here: `BaselineEditor`
decides it. Verdicts of gofmt and tree-sitter are choices too. The commit step
takes the outcomes that `EditTransaction` permits, and `ChangesMeanScript` is the
other half of that contract: what evaluation produces is `WellFormed`, which the
transaction's initial states assume, and means what the script means. A file is
spelled in one way (see the disagreements below).

**EditTransaction.** The loops of `commitChanges`, `stageChanges`,
`rollbackChanges` and `cleanupStaging` are phases with an index. Other writers
are kept away by the caller (`run.go:22-24`). A failing call has no effect;
directory syncing is not modelled, the code does none here.

**Refinement.** `EditTransaction` implements `AtomicEdit`
(`Promise == INSTANCE AtomicEdit WITH ...`). The abstract workspace is the
recoverable one: the original files until the last output is installed, the
result from then on. The abstract answer is "unsure" when a rollback or cleanup
call failed too, which is when the code's error says so.

**BaselineEditor.** Texts are sequences over three characters, one of them the
line terminator. A row reference carries a line and a short hash that collides,
so ambiguous and stale references occur. An alias maps the target as its author
wrote it to the new rows. The search for the cause of a syntax failure gives up
above `syntaxLocalizationGroupLimit` commands, as in the code. `Valid` is an arbitrary predicate on
texts, not a monotone one. The renderer's loop is `Rendering`, a function from the
number of edits written to the text and the cursor so far; `Write` is one round.
`Substituted` is the reference: position by position, what is inserted there, what
replaces it, and the character itself unless an edit covers it.

**MentorHandoff.** Eligibility, output and usage are choices; requests of one
thread overlap freely. Threads share nothing, so one is enough.

## 3. Runs

| Run | Question | Bounds |
|---|---|---|
| `request` | Does the outcome match what the client saw, is every failure accounted for, are totals whole, does every request end unless its client stops reading? | 2 requests of one thread, 1 failing models request, 1 retry, 1 place in the queue, 1 tracked thread, one token per response, totals that overflow at 1; `FairSpec` |
| `lowering` | Are carriers recorded first, is the provider told the truth, do answers, recoveries and catalogs come out right? | every catalog of up to 2 top-level tools and 1 additional one, namespaces included, with every tool choice and shell and hpatch installed; conversations of 2 responses, 3 calls with 2 inputs (a program and one with commentary), 1 pending call, 3 streamed events beside the terminal snapshots, 1 held answer event, in Code Mode and natively |
| `continuation` | Does a mixed script act once per permission, on fresh state, and does storage follow its use? | an edit and a shell program of one command, which a retry may empty or replace by a literal write and a command; 1 repair, 3 carriers of which 2 at once, no further action once a retry or repair is claimed, 2 operations per segment, 2 artifacts |
| `pool` | Do responses reach their own request in order, is a lease exclusive, does only its holder discard it, is a finished capture sealed? | 2 requests with one handshake, 2 connections over time, limit 1, 1 event before the terminal, 1 unsolicited message, cancellation, timers and ageing |
| `pool_live` | Does every request end? | 2 requests with different handshakes on one place, every kind of message, shutdown; `FairSpec` |
| `store` | Do promises, the index and the order of evidence survive failures, crashes and power cuts? | 2 processes, 2 threads, 2 attempts of one change, 1 note, 4 operations, 1 failing call, 1 crash or power cut |
| `transaction` | Is a commit one atomic step, without loss and without overwriting? | 3 paths, 2 contents, up to 2 changes of every kind, any call failing any number of times |
| `workspace` | Do the changes mean the script and is the caller told the truth? | 3 names (Go, other language, plain), up to 4 commands, every initial disk with files that end their lines in LF, in CRLF or leave the last one open, 2 hooks per event, cancellation anywhere |
| `editor` | Are spans disjoint, is rendering substitution, do positions, references, aliases and blame hold? | 4 baselines, up to 3 commands, size limit 7, search limit 3 |
| `commentary` | Does each publication reach one response, are counters exact, routes owned? | 2 responses, 2 directories, 1 thread, 1 Code Mode call, 3 tokens, 3 publications, 1 expiry, every limit reachable |
| `mentor` | Does the schedule end for a stated reason, announced once? | 3 overlapping requests, 2 items per response |
| `socket` | Is the history the provider's, is every input taken once and in order? | 2 creates, 2 pieces of steering, 2 output items, 3 messages in flight |

Why the bounds suffice for what is asked. Requests share only the queue and the
totals, so two of them show every conflict about one notice or one total, and the
third failure comes from the models request; with one place the queue overflows.
A withheld call needs one other call to compete for the buffer, and a recovery
needs a rejection and two attempts in two responses; three events are the whole
life of a streamed call, and a snapshot brings calls without any. Two carriers show a stale one
beside its successor, the third a resumption after both. The pool's hazards
involve one connection handed from one request to the next (2 requests, limit 1)
or one request competing for another's place (2 handshakes); a second connection
in the first pool run lets a receiver outlive its entry. The store's need two
processes because what one remembers is made stale by one other, and two attempts
because repair inserts a call among others. Two changes are enough for a move onto
the other's path, a swap, and a failure before, between and after them; the
theorems lift this bound. Four commands let a file be selected, edited and moved
while its old name is created again; the theorems lift this bound too. The cases
that need more than the runs allow are covered by the theorems alone: a mixed script
as the input of a call, and two commands of one script that were given targets
that read alike. The editor's baselines contain equal lines, an unterminated last
line, overlapping occurrences and the empty text. Two responses with two
directories are needed for a thread to move while the other response holds claims.
Deadlock checking is off because every modelled activity may end. Symmetry is used
only for sets whose members are compared and nothing else, never in a run with a
liveness property.

### Fairness

`pool_live` assumes weak fairness of: every step of a request that does not wait
for anybody; the receiver's steps; a dial, the wait for a first event and a
blocked `Read`, because each has a deadline in the code; the closing of a body
that has ended or failed, which the request path in `server.go` does on every
exit; the end of a receiver whose connection has been closed. Nothing is assumed
of the provider, of cancellation by the client, of timers or of the deadline of a
parked request.

`request` assumes weak fairness of `Progress`: the router's own steps, the start
timeout, the idle timeout, and the noticing of a start context that has ended. The
idle timer runs only inside a read of the provider's body (`client.go:353-366`) and
pauses while the client does not take what was written; the server sets no
`WriteTimeout` (`server.go:261-268`), so that such a client holds its request for as
long as it likes. `EveryRequestEnds` is therefore conditional: a request that does
not stay in a write ends. A configured idle timeout is positive. Nothing is assumed
of the provider or the client. A stream that keeps
sending events is not a behaviour of the model: each request reads at most one
created event before its terminal, silence or end.

### Where documentation and code differ

None of these breaks a property above; each was met while translating the code.

* `doc/spec/router.md:111` says that the start timeout's cause travels with the
  forwarding failure. When the timeout fires while a WebSocket is acquired or
  while `Do` runs (`client_websocket.go:392`, `client.go:219`), the context's plain
  error is returned and the debug record names an unknown cancellation cause; where
  the transport reports it as a cancellation the outcome is `failed`. Conversely a
  dial timeout of five seconds (`client.go:905-918`) after which the start expires
  gets the start timeout's cause, because the entry check reads the context then.
* An idle timeout of a provider WebSocket joins `context.DeadlineExceeded`
  (`client_websocket.go:571-584`), which `server.go:459` tests first: the outcome is
  `timed_out` and not `stream_idle_timed_out`, as over HTTP.
* `doc/spec/edit.md:30` says that resolving a later target never reads pending
  content; `editor.resolveRow` (`editor.go:145`) falls back to it, as
  `doc/spec/select.md:13` describes. `PositionsTruthful` states what the fallback
  guarantees.
* `doc/spec/commentary.md:53` says that the end of a Code Mode program retires its
  route; the lowered program (`code_mode_commentary.go:81`) never sends the
  completion message, so an empty route keeps its place until it expires.
* `doc/spec/mentor.md:39` says that the mentor stays for the response that reads
  the third call's result; with overlapping requests any completed response of the
  thread ends the schedule (`mentor_handoff.go:161`).
* The comment at `run.go:169-171` says that an alias maps a target to the region
  that replaced it. The rewriting loop (`run.go:255-259`) goes on through later
  aliases of the same script: when the new rows of one command read like the target
  that a later command was given, the old target is rewritten twice. `AliasesFollow`
  says of this case that it ends at rows which one of the commands produced.
* The comment at `validation.go:612-613` says that the remaining set of commands is
  one-minimal. The single pass leaves a command whose removal became harmless only
  after a later one was left out: with the lines empty, `b`, empty, twice `b` added
  at the first line and then the second line deleted, one command hides the failure
  of another. `BlameIsDecisive` states what holds for every check.
* In translation the spelling of a path is kept, so that a file spelled in two ways
  is two pending files. `EditWorkspace` assumes one spelling per file.

## 4. Proofs

All theorems hold for every value of the constants; nothing is assumed but the
named assumptions of the modules (`MaxChanges` and the like are natural numbers,
`None`, `Absent` and `Partial` are not values), which TLC evaluates on every run.

* **EditEngine_proofs**, transaction. `TypeCorrect`, `ContentIsNeverLost`,
  `CommitIsAllOrNothing`, `RenamesNeverClobber`, for any number of changes and
  paths and any pattern of failures. `NoContentLost` is not inductive: the
  invariant `IInv` adds what the flags of a staged change mean (`Marks`), how far
  each loop has come (`Progress`), that a name is reserved before it is used
  (`Reserved`), that outputs are complete before the first original moves
  (`OutputsReady`), what cleanup has removed (`Swept`), where the originals are
  (`Kept`), and that the workspace is exactly what the flags tell as long as no
  rollback call failed (`Precise`). One lemma per action shows that it is kept.
  `CommitIsAllOrNothing` follows at the end of a rollback, when no flag is set
  and `Precise` therefore says that the workspace is the original one.
  `CommitIsAtomic` is the refinement of `AtomicEdit`: a step before the last
  install maps to a stutter (`FreshPreserved`), the last install to `Apply`
  (`CommitPoint`, with `FreeBefore` for the paths and `WorldIs` for the mapping), a
  step into the rollback to `Refuse`, the last step to `Tell`.
* **EditEngine_proofs**, editor. For every text, hash, script, syntax check and
  number of matches: `EditsStayInBaseline`, `RecordedSpansAreDisjoint`,
  `RenderingRunsForward`, `RenderingSubstitutes`, `PositionsHold`, `AliasesAreTrue`,
  `BlameIsCausal`. The invariant `EditorInv` is type correctness, disjointness,
  and `EditsRegular`: the edits are finitely many, those of a command that insert at
  one place are one, and a replaced row or range is all that its command records and
  begins a line. The rest is about what the operators compute. Edits that do not
  overlap are linearly ordered (`EditsLinear`), so the sorted list is the list of
  ranks (`ListedIs`, `ListedOnce`: any list in that order is the same). A loop is a
  recursive function, of which the prover knows nothing but its equation: `RunExists`
  gives it a solution and `EveryRound` carries a statement through its rounds, both by
  a least counterexample. `RenderingIs` and `ProjectionIs` are the two loops.
  `RenderingSubstitutes` adds the edits one at a time, the last in order each time
  (`ContentLast`, `SubstitutedLast`): both texts change in the same way behind the
  same prefix. `PositionsHold` finds the edits before an untouched line to be the
  first ones in the order, so that the boundary is the length rendered by then.
  `AliasesAreTrue` rests on the rows of a span being those of the lines it touches
  (`SpanRows`). A target is the one its author wrote, so that two commands may have
  been given the same one: the old target then goes through the alias of the earlier,
  and through a later alias if that one was given the rows just produced.
  `BlameIsCausal`: a command that the search keeps was decisive in the round that
  tried to leave it out, for a set that contains all that are kept in the end.
* **EditWorkspace_proofs.** `LookupIsSequential`, `ChangesAreFaithful`,
  `CallerKnows`, for every set of names and any number of commands and hooks.
  `WorkspaceInv` ties the maps together: every live file is where `paths` says, a
  source that was given up is blocked, a destination is free on disk, no two files
  come from one name (`FilesInv`), and executing the commands one by one finds the
  pending files, with layout (spacing and line ends) as the only thing that rendering
  may change, and only of a file that is new, edited or renamed to a Go name
  (`PendingInv`). `ChangesAreFaithful`
  follows the loop that builds the changes (`Covers`) and the loop that applies them
  (`LeavesAt`): a name is first freed and then taken. Of the patch it says that every
  operation finds its file untouched by the operations before it, with the rows that
  the operation shows, and that the names hold the rows of the script's result in the
  end; equality of contents up to layout is claimed for the commit alone. `AnswerInv` says what error, stage and status say about the disk at
  each phase, which commands a rejection may name, and which hooks can still run.
* **MentorHandoff_proofs.** `TypeCorrect`, `ScheduleIsSound`,
  `SchedulesNeverRestart`, `HandoffIsAnnouncedOnce`, for any number of requests,
  threads and limits. A completed schedule is earned only together with
  `AwaitingIsJustified` (what the wait knew when it began); one announcement
  rests on a count of those done and those under way, which is zero until the
  schedule is complete.

* **ProviderPool_proofs.** `LeasesAreExclusive`, `DiscardsAreOwn`,
  `CapturesAreSealed`, `ResponsesAreInOrder`, for any number of requests and
  connections, any limit and any handshake keys. Three invariants, each inductive
  together with the ones before it. `LeaseInv`: a dial in progress already owns its
  connection, which is busy and held by nobody, and a connection that was never
  dialled belongs to nobody; without this a finished dial could meet a second
  holder. `SealInv`: where the receiver of a finished request can be (it has
  exited, or it can no longer name the released lease). `OrderInv`: what the caller
  will be handed is still in its queue, in the receiver's hand or on the wire.
  `CarryInv` says whose message each of these is and that a connection is empty of
  one response before the next begins; `Numbered(g)` says that with `g` messages
  of a response handed over the next one is the queued one, and the one after that
  the one in hand. The count is existentially quantified, because the code keeps
  none.
* **MixedContinuation_proofs.** `StorageIsSafe`, `EffectsAreSafe`,
  `PatchesAreFresh`, `ResultsAreTrue`, for every script, any number of carriers
  and readers and every bound. `StorageInv` adds to `StorageFollowsUse` that a
  directory keeps a timer while readers are left. `ProgressInv` says which
  progresses occur (`WellFormed`), what a carrier may rely on by itself
  (`CarrierOK`), that the latest carrier knows the retained progress (`Knows`), and
  the account that `EffectsAreAuthorised` needs: for every step of a segment, the
  operations started and those that some carrier, superseded or not, is about to
  start (`Outstanding`) never exceed the segment's grants and the step's booking in
  the retained progress (`Bookings`). `Worked` says that whatever a progress claims
  was done: a completed program ran all of its steps (`Ran`), which an empty one does
  without any.
* **RequestPath_proofs**, execution. `OutcomesAreTruthful`, `NoFailureIsLost`,
  `TotalsAreWhole`, for any number of requests, threads, retries and tokens, in
  both modes. `RequestInv` says of one request that it has an error or an outcome
  but never both, that nothing is sent before a document is accepted, and which
  causes an error may have where (`Fault`): the start timeout only before anything
  was sent, a later deadline only from a silent socket or a cancelled execution, a
  cancellation only from a cancelled execution or from a start that expired in
  forwarding. `Settled` relates outcome and error after the first of the two moments
  at which the context is read; it may have been cancelled by the second. Every step
  of a request is a move to such a state. `QueueInv` and `CarryInv` account for the notices: one
  carrier at most, in flight exactly while carried. `UsageInv` adds to
  `UsageIsWhole` why a thread that appears late starts at zero: one without an
  entry has used nothing, or found the table full, which it stays. Both sums are
  over sets that grow, so that the module first proves what `Total` computes: that
  it does not depend on the order of its terms, and what one more term adds. The
  recursion behind it is shown to have a solution on every finite set, by induction
  in the form of a least counterexample (`WFMin` of the library), since the
  induction rules with a predicate as a parameter cannot be used.
* **RequestPath_proofs**, transformation. `DurableBeforeVisible`,
  `RecoveriesFollowRejections`, `AnswersComeLast`, `ToldTheTruth`,
  `CatalogsAreReplaced`, for any calls, inputs, catalogs and bounds. The constants
  must satisfy what the code guarantees: the installed tools are finitely many and
  contain the shell, the courses of a replay are the ones that exist, `Null` is no
  call and no input. `DeliveryInv`: a call that this response has not translated was
  never evaluated or shown, and every carrier shown is the one of the translation on
  record; each event of the response delivers in this way (`Delivers`). `RecoveryInv`
  numbers the translations of a response in their order. `LineInv`: the answer events
  held back are exactly the ones that the line has not got, and nothing of the answer
  is on the line before the usage report. `TruthInv`: what the provider hears of a
  call is its own call, or the very program it wrote in it, and running work is waited for before anything else is reported
  about it (`Attended`); the advertised work is then computed from the transcript
  alone (`AdvertisedIs`). `CatalogInv` keeps the offer equal to the rewriting of the
  catalog, and `CodeRewrite` and `NativeRewrite` follow that rewriting through its
  loops over tools and namespaces. The editing tool is gone from the top level, from
  the namespace `functions` and from the documentation of `exec`; sibling namespaces
  stay as they are, which `doc/architecture/plugin.md:96-102` documents. Codex's editing tool is looked for among
  everything but the router's own tools, since the registry does not forbid a plugin
  of the name `apply_patch`.

* **ReplayStore_proofs.** `StoreIsSound`, `DiskStaysSound`, `PromisesAreKept`,
  `ChangesGrow`, for any number of processes, calls, changes and power cuts; only
  the set of calls must be finite. `StoreInv` speaks about every version of a file
  that a power cut may leave and not only about the current one. `FilesInv`: each
  of these versions is sound, and those of a record differ only by merges.
  `MemoryInv`: what a process remembers may be stale, and is durable. `WorkInv`: how
  far the operation in hand has come, and that the draft of an index is sound, grows
  from the index it was read from and delivers what the operation will acknowledge;
  without the last part the promise made on return would rest on nothing.
  `PromisesKept` is part of the invariant. A step that writes either leaves all
  versions as they are, or replaces them by one that carries what each promised. The
  loops over calls (`Each`) are shown to have the result of every prefix by a least
  counterexample, as above.

* **Commentary_proofs.** `CapacityIsAccounted`, `RoutesHaveOwners`,
  `PublicationsAreDelivered`, for any number of responses, sessions, threads, calls,
  tokens and publications and any limits; beyond the limits being numbers, only
  that `None` is no thread, no call and no number. The broker's counts are the
  sizes of the sets of places where events wait, so that an expiry, a drain or a
  cancellation takes a subset away and a publication adds one place. `BrokerInv`
  says what a route is (`Regular`: of a thread or of a call, its messages numbered
  upwards, complete only while events wait), and that an identity once issued is not
  issued again (`Issued`: its route is gone or has counted past it). `OwnerInv` ties
  each route to its thread's record or to the subscription of a response, in the
  same session. `FormInv` says which fields a response may have filled at each
  point. The delivery needs three more invariants. `CountInv`: until shutdown a
  session counts exactly the responses in it. `HoldInv`: no publisher has a call's
  token, and no event waits on its route, before the call's record is durable; a
  thread retains the identities of its waiting events; no two responses handle one
  call. `QueueInv`: every claim is fit to be shown (`Fit`). That a deferred drain
  takes no progress from a running response then follows by counting: with a count
  of one, the response that drains is the only one in the session, and the one that
  owns the route is either the same or closed.

Only model-checked: the two invariants of the socket session
(`InputIsTakenOnce`, `HistoryMatches`), which compare two conversations built by
recursion over ancestors, with filters that take a predicate as a parameter; and
liveness (`AllFinish`, `EveryRequestEnds`), because the prover has no fairness and
no ENABLED.

## 5. Not modelled

Per module: header and payload decoding, author prefixes, schema projection and
wording; CR against CRLF and indentation candidates in the editor; how the host
keeps line ends; a proxy without a commentary endpoint
(`mekugi_proxy.go:2052`), which `server.go` never builds; file modes in
the transaction; several workspaces in the store (they share only the quota) and
the spelling of change IDs; SSE framing and the relaying of headers; prices and the
text of the usage report; what a translation contains and how a carrier is
rendered; the text protocol of a recovery patch and the framing of the control
channel; the diagnose hooks; in the socket session the Grok path, admission during
shutdown, ancillary events and the metadata of merged items.

Whole parts without a module are listed in `PROJECT.json` with the reason. Text
formatting and parsing (CTP2, the edit language, instructions, titles, display
rows), inspection commands, stateless TypeScript readers, benchmarks and the
comparison tool have no state that a step of another actor could disturb. The tool
plugin worker, subagent activity and the capture recorder do have such state and
are the next candidates. One listed hazard has no property: a successor that the
provider starts while a create waits for its first event
(`server_websocket.go:704`). Nothing in the event tells the two apart, so that the
run has to assume a client that does not race it.

## 6. Plan

Done, in this order: transaction, pool, store, editor, workspace, commentary,
mentor, socket session, request execution with errors and usage, tool lowering with
history and recovery, mixed scripts with shell storage, the refinement of
`AtomicEdit`, the proofs about the pool, mixed scripts, requests, the store, the
broker, the workspace, the lowering and the editor. Left:

1. **Proofs**: the socket session.
2. **Tool plugin worker**: a worker's answer after its deadline never reaches
   another call.
3. **Subagent activity**: ordering, admission limits.
4. **Abstract specifications** of the index that `ReplayStore` keeps and of the
   one-shot call that `ProviderPool` provides.
5. **Capture, format offsets** as algorithms against reference definitions.
