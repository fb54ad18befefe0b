---------------------------- MODULE ProviderPool ----------------------------
(***************************************************************************)
(* The pool of provider WebSockets in internal/router/client_websocket.go. *)
(*                                                                         *)
(* A request leases one connection at a time (acquire), writes one         *)
(* response.create, receives that response through a queue of one message  *)
(* and closes the body, which either returns the connection to the pool or *)
(* discards it (release).  A receiver goroutine per connection (readLoop)  *)
(* moves messages from the wire to the lease it belongs to.  The critical  *)
(* sections of the pool mutex are the atomic steps; everything between two *)
(* of them interleaves: the receiver, every request, context               *)
(* cancellation, idle timers, connection ageing and the shutdown of the    *)
(* router.                                                                 *)
(*                                                                         *)
(* A request takes at most one lease, so the lease object is named by its  *)
(* request.  Connections are numbered in the order they are created, which *)
(* is the order of their "born" times.                                     *)
(***************************************************************************)
EXTENDS Integers, Sequences, FiniteSets

CONSTANTS
  Requests,     \* callers of forwardWebSocket
  KeyOf,        \* the handshake fingerprint of each request
  MaxConns,     \* connections ever dialled; a request dials at most once
  Limit,        \* providerWebSocketLimit
  MaxMsgs,      \* bound on the non-terminal messages of one response
  MaxPrefix,    \* the ancillary prefix budget, in messages
  MaxStrays,    \* bound on messages sent outside any response
  Kinds,        \* the kinds of message the provider may send
  Disturbances, \* the environment events that may happen
  None          \* nil

Conns == 1..MaxConns

AllKinds == {"ancillary", "event", "terminal", "error", "invalid", "binary"}

AllDisturbances == {"cancel", "idle", "age", "shutdown"}

ASSUME PoolAssumption ==
  /\ MaxConns \in Nat /\ Limit \in Nat \ {0}
  /\ MaxMsgs \in Nat /\ MaxPrefix \in Nat /\ MaxStrays \in Nat
  /\ Kinds \subseteq AllKinds
  /\ Disturbances \subseteq AllDisturbances
  /\ None \notin Requests
  /\ None \notin Conns

Holders == Requests \cup {None}

\* A message and the response it belongs to; owner None is a stray.
Msgs == [owner : Holders, n : Nat, kind : AllKinds]
\* What a receiver holds after conn.Read returned: a message or an error.
ReadFailure == [owner |-> None, n |-> 0, kind |-> "failure"]
Nothing == [owner |-> None, n |-> 0, kind |-> "nothing"]

VARIABLES
  \* the pool and its entries
  closed,       \* providerWebSockets.closed
  entries,      \* providerWebSockets.entries
  nextConn,     \* the next connection to be created
  expired,      \* connections up to this one exceed providerWebSocketLifetime
  key, busy, holder,      \* entry.key, entry.busy, entry.lease
  timer,        \* entry.idleTimer is running
  fired,        \* an idle-timer callback is waiting for the mutex
  \* the receivers
  reader, seen, hand,     \* control point, captured lease, message in hand
  \* the provider (external)
  serving, sent, strays,
  \* the leases
  queue, released, pending, terminal,
  \* the requests
  pc, conn, cancelled, after, closing, readErr, buffered,
  \* what the caller and the capture observe
  delivered, consumed, observed, finished

poolVars   == <<closed, entries, nextConn, expired, key, busy, holder, timer, fired>>
readerVars == <<reader, seen, hand>>
wireVars   == <<serving, sent, strays>>
leaseVars  == <<queue, released, pending, terminal>>
bodyVars   == <<closing, readErr, buffered, consumed>>
reqVars    == <<pc, conn, cancelled, after, delivered, observed, finished, bodyVars>>
vars == <<poolVars, readerVars, wireVars, leaseVars, reqVars>>

Init ==
  /\ closed = FALSE /\ entries = {} /\ nextConn = 1 /\ expired = 0
  /\ key = [c \in Conns |-> None]
  /\ busy = [c \in Conns |-> FALSE]
  /\ holder = [c \in Conns |-> None]
  /\ timer = [c \in Conns |-> FALSE] /\ fired = [c \in Conns |-> FALSE]
  /\ reader = [c \in Conns |-> "none"]
  /\ seen = [c \in Conns |-> None] /\ hand = [c \in Conns |-> Nothing]
  /\ serving = [c \in Conns |-> {}]
  /\ sent = [r \in Requests |-> 0] /\ strays = 0
  /\ queue = [r \in Requests |-> <<>>]
  /\ released = [r \in Requests |-> FALSE]
  /\ pending = [r \in Requests |-> FALSE]
  /\ terminal = [r \in Requests |-> FALSE]
  /\ pc = [r \in Requests |-> "acquire"]
  /\ conn = [r \in Requests |-> None]
  /\ cancelled = [r \in Requests |-> FALSE]
  /\ after = [r \in Requests |-> "none"]
  /\ closing = [r \in Requests |-> FALSE]
  /\ readErr = [r \in Requests |-> FALSE]
  /\ buffered = [r \in Requests |-> FALSE]
  /\ delivered = [r \in Requests |-> <<>>]
  /\ consumed = [r \in Requests |-> 0]
  /\ observed = [r \in Requests |-> 0]
  /\ finished = [r \in Requests |-> FALSE]

-----------------------------------------------------------------------------
(* Helpers of the mutex-protected sections.                                *)

Put(f, x, v) == [f EXCEPT ![x] = v]

\* Mutant: signalLocked replaces the channel without closing the old one.
WokenNobody(pcs) == pcs

\* signalLocked: close(p.changed) wakes every request parked on it.
Woken(pcs) == [r \in Requests |-> IF pcs[r] = "parked" THEN "acquire" ELSE pcs[r]]

\* discardLocked for the entries in S; a discarded connection is one that is
\* no longer in entries, which is also when its done channel is closed.
Discard(S) ==
  /\ entries' = entries \ S
  /\ timer' = [c \in Conns |-> IF c \in S \cap entries THEN FALSE ELSE timer[c]]

WokenBy(S, pcs) == IF S \cap entries # {} THEN Woken(pcs) ELSE pcs

\* The event types that end a response for the receiver and for the body.
Ends(k) == k \in {"terminal", "error"}

Alive(c) == c \in entries
Idle(c) == Alive(c) /\ ~busy[c]

\* The guard of release: the connection is still pooled and leased to r.
Holds(r) == Alive(conn[r]) /\ holder[conn[r]] = r

\* The conditions under which release puts the connection back.
Reusable(r) ==
  /\ terminal[r] /\ ~pending[r] /\ queue[r] = <<>>
  /\ conn[r] > expired

BodyTerminal(r) == consumed[r] > 0 /\ Ends(delivered[r][consumed[r]].kind)

\* Close's verdict on the body.
Complete(r) == BodyTerminal(r) /\ ~buffered[r] /\ ~readErr[r] /\ ~cancelled[r]

\* release(lease, complete) returns the connection to the pool.
Returns(r) == Complete(r) /\ Holds(r) /\ Reusable(r)

\* release(lease, FALSE), with r moving to control point next.
ReleaseDiscard(r, next) ==
  /\ Discard(IF Holds(r) THEN {conn[r]} ELSE {})
  /\ pc' = WokenBy(IF Holds(r) THEN {conn[r]} ELSE {}, Put(pc, r, next))
  /\ UNCHANGED <<closed, nextConn, expired, key, busy, holder, fired>>

-----------------------------------------------------------------------------
(* acquire *)

\* Mutant: acquire does not look at entry.busy.
MatchAny(r) == {c \in entries : holder[c] # None /\ c > expired /\ key[c] = KeyOf[r]}

Match(r) == {c \in entries : Idle(c) /\ c > expired /\ key[c] = KeyOf[r]}
Stale == {c \in entries : Idle(c) /\ c <= expired}

\* A pooled idle connection of the same handshake is leased.  The loop ranges
\* over a Go map, so any of the expired entries may have been met before it.
AcquireReuse(r) ==
  /\ pc[r] = "acquire" /\ ~closed
  /\ \E c \in Match(r), S \in SUBSET Stale :
       /\ entries' = entries \ S
       /\ timer' = [d \in Conns |-> IF d \in S \cup {c} THEN FALSE ELSE timer[d]]
       /\ busy' = Put(busy, c, TRUE)
       /\ holder' = Put(holder, c, r)
       /\ conn' = Put(conn, r, c)
       /\ pc' = WokenBy(S, Put(pc, r, "write"))
  /\ UNCHANGED <<closed, nextConn, expired, key, fired, readerVars, wireVars,
                 leaseVars, bodyVars, cancelled, after, delivered, observed, finished>>

\* Mutant: the limit is checked only after the new entry is counted in.
HasRoomLate(S) == Cardinality(entries \ S) <= Limit

HasRoom(S) == Cardinality(entries \ S) < Limit

\* At the limit the oldest idle connection gives way to a new one.
Evicted ==
  LET live == entries \ Stale
      idle == {c \in live : ~busy[c]}
  IN IF Cardinality(live) < Limit THEN {}
     ELSE {c \in idle : \A d \in idle : c <= d}

\* No connection matches and there is room, or room is made: the entry is
\* registered, busy and without a lease, before the mutex is given up to dial.
AcquireDial(r) ==
  /\ pc[r] = "acquire" /\ ~closed
  /\ Match(r) = {}
  /\ nextConn <= MaxConns
  /\ HasRoom(Stale \cup Evicted)
  /\ LET S == Stale \cup Evicted IN
       /\ entries' = (entries \ S) \cup {nextConn}
       /\ timer' = [d \in Conns |-> IF d \in S THEN FALSE ELSE timer[d]]
       /\ pc' = WokenBy(S, Put(pc, r, "dialing"))
  /\ busy' = Put(busy, nextConn, TRUE)
  /\ key' = Put(key, nextConn, KeyOf[r])
  /\ conn' = Put(conn, r, nextConn)
  /\ nextConn' = nextConn + 1
  /\ UNCHANGED <<closed, expired, holder, fired, readerVars, wireVars, leaseVars,
                 bodyVars, cancelled, after, delivered, observed, finished>>

\* Every connection is busy: wait for the next signal.
AcquirePark(r) ==
  /\ pc[r] = "acquire" /\ ~closed
  /\ Match(r) = {}
  /\ ~HasRoom(Stale \cup Evicted)
  /\ pc' = Put(pc, r, "parked")
  /\ UNCHANGED <<poolVars, readerVars, wireVars, leaseVars, conn, bodyVars,
                 cancelled, after, delivered, observed, finished>>

\* The pool is closed, or the request is cancelled while it is parked.
AcquireAbort(r) ==
  /\ \/ pc[r] = "acquire" /\ closed
     \/ pc[r] = "parked" /\ cancelled[r]
  /\ pc' = Put(pc, r, "done")
  /\ cancelled' = Put(cancelled, r, TRUE)
  /\ UNCHANGED <<poolVars, readerVars, wireVars, leaseVars, conn, bodyVars,
                 after, delivered, observed, finished>>

\* websocket.Dial failed or was rejected: no response.create was written, and
\* the caller returns the error, the rejected response, or falls back to HTTP.
\* The dial of an entry that close() removed was cancelled by it.
DialFail(r) ==
  /\ pc[r] = "dialing"
  /\ Discard({conn[r]})
  /\ pc' = WokenBy({conn[r]}, Put(pc, r, "done"))
  /\ cancelled' = Put(cancelled, r, TRUE)
  /\ UNCHANGED <<closed, nextConn, expired, key, busy, holder, fired, readerVars,
                 wireVars, leaseVars, conn, bodyVars, after,
                 delivered, observed, finished>>

\* Dial succeeded although the pool was closed meanwhile: the connection is
\* closed and was never an entry's.
DialAfterClose(r) ==
  /\ pc[r] = "dialing" /\ closed
  /\ pc' = Put(pc, r, "done")
  /\ cancelled' = Put(cancelled, r, TRUE)
  /\ UNCHANGED <<poolVars, readerVars, wireVars, leaseVars, conn, bodyVars,
                 after, delivered, observed, finished>>

\* Dial succeeded: the lease is created and the receiver starts.
DialDone(r) ==
  /\ pc[r] = "dialing" /\ ~closed
  /\ holder' = Put(holder, conn[r], r)
  /\ reader' = Put(reader, conn[r], "top")
  /\ pc' = Put(pc, r, "write")
  /\ UNCHANGED <<closed, entries, nextConn, expired, key, busy, timer, fired, seen,
                 hand, wireVars, leaseVars, conn, bodyVars, cancelled, after,
                 delivered, observed, finished>>

-----------------------------------------------------------------------------
(* readLoop *)

\* Top of the loop: the receiver captures the lease it reads for.
Capture(c) ==
  /\ reader[c] = "top"
  /\ reader' = Put(reader, c, "reading")
  /\ seen' = Put(seen, c, holder[c])
  /\ UNCHANGED <<poolVars, hand, wireVars, leaseVars, reqVars>>

\* conn.Read returns a message of a response the provider is sending.  The
\* provider (external) ends a response with its only terminal message, may go
\* on after an error, and would interleave responses if two were in progress.
ReadMessage(c) ==
  /\ reader[c] = "reading"
  /\ \E r \in serving[c], k \in Kinds :
       /\ k # "terminal" => sent[r] < MaxMsgs
       /\ sent' = Put(sent, r, sent[r] + 1)
       /\ hand' = Put(hand, c, [owner |-> r, n |-> sent[r] + 1, kind |-> k])
       /\ serving' = Put(serving, c, IF k = "terminal" THEN serving[c] \ {r} ELSE serving[c])
  /\ reader' = Put(reader, c, "got")
  /\ UNCHANGED <<poolVars, seen, strays, leaseVars, reqVars>>

\* conn.Read returns a message the provider sent outside any response; it is
\* never the completion of a response.
ReadStray(c) ==
  /\ reader[c] = "reading" /\ serving[c] = {} /\ strays < MaxStrays
  /\ strays' = strays + 1
  /\ \E k \in Kinds \ {"terminal"} :
       hand' = Put(hand, c, [owner |-> None, n |-> 0, kind |-> k])
  /\ reader' = Put(reader, c, "got")
  /\ UNCHANGED <<poolVars, seen, serving, sent, leaseVars, reqVars>>

\* conn.Read fails: the peer went away, or the connection was discarded.
ReadFail(c) ==
  /\ reader[c] = "reading"
  /\ hand' = Put(hand, c, ReadFailure)
  /\ reader' = Put(reader, c, "got")
  /\ UNCHANGED <<poolVars, seen, wireVars, leaseVars, reqVars>>

\* The lease a received message belongs to: the one captured before the read,
\* or the current one when the read began while the connection was idle.
LeaseFor(c) == IF seen[c] = None THEN holder[c] ELSE seen[c]

\* After delivery the receiver reads on, or waits for the lease to be closed.
AfterDelivery(isTerminal) == IF isTerminal THEN "wait" ELSE "top"

\* readLoop returns: its connection is closed, so the provider's side ends too.
ReceiverExits(c) ==
  /\ reader' = Put(reader, c, "exit")
  /\ seen' = Put(seen, c, None)
  /\ serving' = Put(serving, c, {})

\* Mutant: a full queue keeps the latest message only.
EnqueueLatest(c, l, m) ==
  /\ queue' = Put(queue, l, <<m>>)
  /\ reader' = Put(reader, c, AfterDelivery(terminal'[l]))
  /\ UNCHANGED pending

\* The bounded queue takes the message, or a reservation holds its place.
Enqueue(c, l, m) ==
  \/ /\ queue[l] = <<>>
     /\ queue' = Put(queue, l, <<m>>)
     /\ reader' = Put(reader, c, AfterDelivery(terminal'[l]))
     /\ UNCHANGED pending
  \/ /\ queue[l] # <<>>
     /\ pending' = Put(pending, l, TRUE)
     /\ reader' = Put(reader, c, "reserve")
     /\ UNCHANGED queue

\* The section after the read: observe, reject what is unsolicited, and admit
\* the message to the lease's queue or reserve a place for it.
Admit(c) ==
  /\ reader[c] = "got"
  /\ LET l == LeaseFor(c)
         m == hand[c]
         wasRead == m # ReadFailure
         failed == ~wasRead \/ m.kind = "binary"
         unsolicited == ~busy[c] \/ l = None \/ holder[c] # l
     IN
     /\ observed' = IF wasRead /\ l # None THEN Put(observed, l, observed[l] + 1) ELSE observed
     /\ \/ /\ failed \/ unsolicited
           /\ Discard({c})
           /\ pc' = WokenBy({c}, pc)
           /\ ReceiverExits(c)
           /\ UNCHANGED leaseVars
        \/ /\ ~failed /\ ~unsolicited /\ ~Alive(c)
           /\ ReceiverExits(c)
           /\ UNCHANGED <<entries, timer, pc, leaseVars>>
        \/ /\ ~failed /\ ~unsolicited /\ Alive(c)
           /\ terminal' = Put(terminal, l, terminal[l] \/ Ends(m.kind))
           /\ seen' = Put(seen, c, l)
           /\ Enqueue(c, l, m)
           /\ UNCHANGED <<entries, timer, pc, released, serving>>
     /\ hand' = IF reader'[c] = "reserve" THEN hand ELSE Put(hand, c, Nothing)
  /\ UNCHANGED <<closed, nextConn, expired, key, busy, holder, fired, sent, strays,
                 conn, bodyVars, cancelled, after, delivered, finished>>

\* The reserved delivery: the queue has room, or the connection is discarded.
DeliverReserved(c) ==
  /\ reader[c] = "reserve"
  /\ \/ /\ queue[seen[c]] = <<>>
        /\ queue' = Put(queue, seen[c], <<hand[c]>>)
        /\ reader' = Put(reader, c, "settle")
        /\ UNCHANGED <<seen, serving>>
     \/ /\ ~Alive(c)
        /\ ReceiverExits(c)
        /\ UNCHANGED queue
  /\ hand' = Put(hand, c, Nothing)
  /\ UNCHANGED <<poolVars, sent, strays, released, pending, terminal, reqVars>>

\* The reservation is withdrawn in a critical section of its own.
SettleReserved(c) ==
  /\ reader[c] = "settle"
  /\ pending' = Put(pending, seen[c], FALSE)
  /\ reader' = Put(reader, c, AfterDelivery(terminal[seen[c]]))
  /\ UNCHANGED <<poolVars, seen, hand, wireVars, queue, released, terminal, reqVars>>

\* After a terminal message: until the lease is released or discarded.
AwaitRelease(c) ==
  /\ reader[c] = "wait"
  /\ \/ /\ released[seen[c]]
        /\ reader' = Put(reader, c, "top")
        /\ UNCHANGED <<seen, serving>>
     \/ /\ ~Alive(c)
        /\ ReceiverExits(c)
  /\ UNCHANGED <<poolVars, hand, sent, strays, leaseVars, reqVars>>

-----------------------------------------------------------------------------
(* forwardWebSocket, from the write of response.create to its first event *)

\* fail(): cancel, give the connection up, then wait for the receiver.
Fail(r) ==
  /\ cancelled' = Put(cancelled, r, TRUE)
  /\ ReleaseDiscard(r, "failing")

\* conn.Write succeeded: the provider now answers this request.
WriteCreate(r) ==
  /\ pc[r] = "write" /\ Alive(conn[r])
  /\ serving' = Put(serving, conn[r], serving[conn[r]] \cup {r})
  /\ pc' = Put(pc, r, "prefix")
  /\ UNCHANGED <<poolVars, readerVars, sent, strays, leaseVars, conn, bodyVars,
                 cancelled, after, delivered, observed, finished>>

\* conn.Write failed, but the provider may have received all of it.
WriteFail(r) ==
  /\ pc[r] = "write"
  /\ serving' \in {serving, Put(serving, conn[r], serving[conn[r]] \cup {r})}
  /\ Fail(r)
  /\ UNCHANGED <<readerVars, sent, strays, leaseVars, conn, bodyVars,
                 after, delivered, observed, finished>>

\* The first, non-blocking select of next() found the queue empty.
PrefixBlock(r) ==
  /\ pc[r] = "prefix" /\ ~cancelled[r] /\ queue[r] = <<>>
  /\ pc' = Put(pc, r, "prefixBlocked")
  /\ UNCHANGED <<poolVars, readerVars, wireVars, leaseVars, conn, bodyVars,
                 cancelled, after, delivered, observed, finished>>

\* The deadline or the caller cancelled, or the connection is gone and
\* nothing that arrived before is left in the queue.
PrefixFail(r) ==
  /\ \/ pc[r] \in {"prefix", "prefixBlocked"} /\ cancelled[r]
     \/ pc[r] = "prefixBlocked" /\ ~Alive(conn[r]) /\ queue[r] = <<>>
  /\ Fail(r)
  /\ UNCHANGED <<readerVars, wireVars, leaseVars, conn, bodyVars,
                 after, delivered, observed, finished>>

AncillaryCount(s) == Cardinality({i \in DOMAIN s : s[i].kind = "ancillary"})

\* next() returned a message; ancillary ones accumulate until the first real
\* event, which starts the body.  An error drops the accumulated prefix.
PrefixTake(r) ==
  /\ \/ pc[r] = "prefix" /\ ~cancelled[r]
     \/ pc[r] = "prefixBlocked"
  /\ queue[r] # <<>>
  /\ queue' = Put(queue, r, <<>>)
  /\ delivered' = Put(delivered, r, Append(delivered[r], Head(queue[r])))
  /\ LET kind == Head(queue[r]).kind IN
     \/ /\ \/ kind = "invalid"
           \/ kind = "ancillary" /\ AncillaryCount(delivered'[r]) > MaxPrefix
           \/ kind # "ancillary" /\ cancelled[r]    \* stopStart() lost the race
        /\ Fail(r)
        /\ UNCHANGED <<after, consumed>>
     \/ /\ kind = "ancillary" /\ AncillaryCount(delivered'[r]) <= MaxPrefix
        /\ pc' = Put(pc, r, "prefix")
        /\ UNCHANGED <<poolVars, cancelled, after, consumed>>
     \/ /\ kind \notin {"invalid", "ancillary"}
        /\ pc' = Put(pc, r, "body")
        /\ after' = Put(after, r, IF cancelled[r] THEN "started" ELSE "armed")
        /\ consumed' = Put(consumed, r, IF kind = "error" THEN Len(delivered[r]) ELSE 0)
        /\ UNCHANGED <<poolVars, cancelled>>
  /\ UNCHANGED <<readerVars, wireVars, released, pending, terminal, conn, closing,
                 readErr, buffered, observed, finished>>

-----------------------------------------------------------------------------
(* webSocketResponseBody *)

Readable(r) == pc[r] = "body" /\ ~closing[r] /\ ~readErr[r]

\* What Read makes of one message: it fills the buffer, or fails.
Consume(r, kind) ==
  /\ consumed' = Put(consumed, r, consumed[r] + 1)
  /\ readErr' = Put(readErr, r, kind \in {"invalid", "error"})
  /\ buffered' = Put(buffered, r, kind # "invalid")

\* Read hands out a message that was prefetched with the prefix.
ReadPrefetched(r) ==
  /\ Readable(r) /\ ~buffered[r] /\ ~BodyTerminal(r)
  /\ consumed[r] < Len(delivered[r])
  /\ Consume(r, delivered[r][consumed[r] + 1].kind)
  /\ UNCHANGED <<poolVars, readerVars, wireVars, leaseVars, pc, conn, closing,
                 cancelled, after, delivered, observed, finished>>

\* Read takes the next message from the queue, at once or after blocking.
ReadQueued(r) ==
  /\ \/ Readable(r) /\ ~buffered[r] /\ ~BodyTerminal(r) /\ consumed[r] = Len(delivered[r])
     \/ pc[r] = "bodyBlocked"
  /\ queue[r] # <<>>
  /\ queue' = Put(queue, r, <<>>)
  /\ delivered' = Put(delivered, r, Append(delivered[r], Head(queue[r])))
  /\ Consume(r, Head(queue[r]).kind)
  /\ pc' = Put(pc, r, "body")
  /\ UNCHANGED <<poolVars, readerVars, wireVars, released, pending, terminal, conn,
                 closing, cancelled, after, observed, finished>>

ReadBlock(r) ==
  /\ Readable(r) /\ ~buffered[r] /\ ~BodyTerminal(r)
  /\ consumed[r] = Len(delivered[r]) /\ queue[r] = <<>>
  /\ pc' = Put(pc, r, "bodyBlocked")
  /\ UNCHANGED <<poolVars, readerVars, wireVars, leaseVars, conn, bodyVars,
                 cancelled, after, delivered, observed, finished>>

\* next() failed inside Read: cancellation, the stream idle timeout, or a
\* discarded connection with an empty queue.
ReadAbort(r, reason) ==
  /\ pc[r] = "bodyBlocked"
  /\ \/ reason = "timeout"
     \/ reason = "cancel" /\ cancelled[r]
     \/ reason = "gone" /\ ~Alive(conn[r]) /\ queue[r] = <<>>
  /\ readErr' = Put(readErr, r, TRUE)
  /\ ReleaseDiscard(r, "body")
  /\ UNCHANGED <<readerVars, wireVars, leaseVars, conn, closing, buffered, consumed,
                 cancelled, after, delivered, observed, finished>>

\* The caller's Read empties the buffer.
Drain(r) ==
  /\ pc[r] = "body" /\ buffered[r] /\ ~closing[r]
  /\ buffered' = Put(buffered, r, FALSE)
  /\ UNCHANGED <<poolVars, readerVars, wireVars, leaseVars, pc, conn, closing,
                 readErr, consumed, cancelled, after, delivered, observed, finished>>

\* The context of the request is cancelled; a registered AfterFunc starts.
Cancelled(r) ==
  /\ cancelled' = Put(cancelled, r, TRUE)
  /\ after' = Put(after, r, IF after[r] = "armed" THEN "started" ELSE after[r])

\* Close, up to the body lock: a Read in progress is unblocked by cancelling.
CloseBegin(r) ==
  /\ pc[r] \in {"body", "bodyBlocked"} /\ ~closing[r]
  /\ closing' = Put(closing, r, TRUE)
  /\ IF pc[r] = "bodyBlocked" THEN Cancelled(r) ELSE UNCHANGED <<cancelled, after>>
  /\ UNCHANGED <<poolVars, readerVars, wireVars, leaseVars, pc, conn, readErr, buffered,
                 consumed, delivered, observed, finished>>

\* Close under the body lock: stop the cancellation callback, then release.
\* release returns the connection to the pool only after a clean terminal.
CloseRelease(r) ==
  /\ pc[r] = "body" /\ closing[r]
  /\ after' = Put(after, r, IF after[r] = "armed" THEN "stopped" ELSE after[r])
  /\ IF Returns(r)
     THEN /\ busy' = Put(busy, conn[r], FALSE)
          /\ holder' = Put(holder, conn[r], None)
          /\ released' = Put(released, r, TRUE)
          /\ timer' = Put(timer, conn[r], TRUE)
          /\ pc' = Woken(Put(pc, r, "done"))
          /\ finished' = Put(finished, r, TRUE)
          /\ UNCHANGED <<closed, entries, nextConn, expired, key, fired>>
     ELSE /\ ReleaseDiscard(r, "closing")
          /\ UNCHANGED <<released, finished>>
  /\ readErr' = Put(readErr, r, ~Complete(r))
  /\ buffered' = Put(buffered, r, FALSE)
  /\ cancelled' = Put(cancelled, r, TRUE)
  /\ UNCHANGED <<readerVars, wireVars, queue, pending, terminal, conn, closing,
                 consumed, delivered, observed>>

\* Mutant: the capture is finished without waiting.
ReceiverDoneAnyway(r) == TRUE

\* receiverDone is closed.
ReceiverDone(r) == reader[conn[r]] = "exit"

\* Close and fail() wait for the receiver before they finish the capture.
FinishCapture(r) ==
  /\ pc[r] \in {"failing", "closing"}
  /\ ReceiverDone(r)
  /\ pc' = Put(pc, r, "done")
  /\ finished' = Put(finished, r, TRUE)
  /\ UNCHANGED <<poolVars, readerVars, wireVars, leaseVars, conn, bodyVars,
                 cancelled, after, delivered, observed>>

AwaitsFirstEvent(r) == pc[r] \in {"prefix", "prefixBlocked"}

\* The client disconnects or the start deadline passes.
Cancel(r) ==
  /\ pc[r] # "done" /\ ~cancelled[r]
  /\ "cancel" \in Disturbances \/ AwaitsFirstEvent(r)
  /\ Cancelled(r)
  /\ UNCHANGED <<poolVars, readerVars, wireVars, leaseVars, pc, conn, bodyVars,
                 delivered, observed, finished>>

\* The AfterFunc registered for the body: release(lease, false), possibly late.
CancelRelease(r) ==
  /\ after[r] = "started"
  /\ after' = Put(after, r, "stopped")
  /\ ReleaseDiscard(r, pc[r])
  /\ UNCHANGED <<readerVars, wireVars, leaseVars, conn, bodyVars, cancelled,
                 delivered, observed, finished>>

-----------------------------------------------------------------------------
(* Timers, ageing and shutdown *)

IdleTimerFires(c) ==
  /\ timer[c] /\ ~fired[c] /\ "idle" \in Disturbances
  /\ timer' = Put(timer, c, FALSE)
  /\ fired' = Put(fired, c, TRUE)
  /\ UNCHANGED <<closed, entries, nextConn, expired, key, busy, holder, readerVars,
                 wireVars, leaseVars, reqVars>>

\* Mutant: the callback does not look at entry.busy.
TimerVictimsAny(c) == {c}

TimerVictims(c) == IF busy[c] THEN {} ELSE {c}

\* The callback may run long after its timer fired, even after the connection
\* was leased again; Stop does not wait for it.
IdleTimerRuns(c) ==
  /\ fired[c]
  /\ fired' = Put(fired, c, FALSE)
  /\ Discard(TimerVictims(c))
  /\ pc' = WokenBy(TimerVictims(c), pc)
  /\ UNCHANGED <<closed, nextConn, expired, key, busy, holder, readerVars, wireVars,
                 leaseVars, conn, bodyVars, cancelled, after, delivered, observed, finished>>

\* The oldest pooled connection passes providerWebSocketLifetime.
Age ==
  /\ "age" \in Disturbances
  /\ \E c \in entries :
       /\ c > expired
       /\ \A d \in entries : d > expired => c <= d
       /\ expired' = c
  /\ UNCHANGED <<closed, entries, nextConn, key, busy, holder, timer, fired,
                 readerVars, wireVars, leaseVars, reqVars>>

\* The router shuts down.
ClosePool ==
  /\ ~closed /\ "shutdown" \in Disturbances
  /\ closed' = TRUE
  /\ Discard(entries)
  /\ pc' = Woken(pc)
  /\ UNCHANGED <<nextConn, expired, key, busy, holder, fired, readerVars, wireVars,
                 leaseVars, conn, bodyVars, cancelled, after, delivered, observed, finished>>

-----------------------------------------------------------------------------
RequestStep(r) ==
  \/ AcquireReuse(r) \/ AcquireDial(r) \/ AcquirePark(r) \/ AcquireAbort(r)
  \/ DialFail(r) \/ DialAfterClose(r) \/ DialDone(r)
  \/ WriteCreate(r) \/ WriteFail(r)
  \/ PrefixBlock(r) \/ PrefixFail(r) \/ PrefixTake(r)
  \/ ReadPrefetched(r) \/ ReadQueued(r) \/ ReadBlock(r) \/ Drain(r)
  \/ \E reason \in {"timeout", "cancel", "gone"} : ReadAbort(r, reason)
  \/ CloseBegin(r) \/ CloseRelease(r) \/ FinishCapture(r)
  \/ Cancel(r) \/ CancelRelease(r)

ReceiverStep(c) ==
  \/ Capture(c) \/ ReadMessage(c) \/ ReadStray(c) \/ ReadFail(c)
  \/ Admit(c) \/ DeliverReserved(c) \/ SettleReserved(c) \/ AwaitRelease(c)

Next ==
  \/ \E r \in Requests : RequestStep(r)
  \/ \E c \in Conns : ReceiverStep(c) \/ IdleTimerFires(c) \/ IdleTimerRuns(c)
  \/ Age
  \/ ClosePool

Spec == Init /\ [][Next]_vars

\* Go runs every runnable goroutine; a dial, a wait for the first event and a
\* blocked Read end because each has a deadline; the caller closes a body that
\* has ended or failed.  Nothing is assumed of the provider, of a parked
\* request's deadline, of cancellation by the client or of timers.
Fairness ==
  /\ \A r \in Requests :
       /\ WF_vars(AcquireReuse(r) \/ AcquireDial(r) \/ AcquirePark(r) \/ AcquireAbort(r))
       /\ WF_vars(DialFail(r) \/ DialAfterClose(r) \/ DialDone(r))
       /\ WF_vars(WriteCreate(r) \/ WriteFail(r))
       /\ WF_vars(PrefixBlock(r) \/ PrefixFail(r) \/ PrefixTake(r))
       /\ WF_vars(AwaitsFirstEvent(r) /\ Cancel(r))
       /\ WF_vars(ReadPrefetched(r) \/ ReadQueued(r) \/ ReadBlock(r) \/ Drain(r))
       /\ WF_vars(ReadAbort(r, "timeout"))
       /\ WF_vars((BodyTerminal(r) \/ readErr[r]) /\ CloseBegin(r))
       /\ WF_vars(CloseRelease(r) \/ FinishCapture(r))
  /\ \A c \in Conns :
       /\ WF_vars(Capture(c) \/ Admit(c) \/ DeliverReserved(c) \/ SettleReserved(c)
                  \/ AwaitRelease(c))
       /\ WF_vars(~Alive(c) /\ ReadFail(c))

FairSpec == Spec /\ Fairness

-----------------------------------------------------------------------------
(* Properties *)

\* A response reaches its own request only, in order and without a gap: whatever
\* is reused, cancelled, late or reserved, no caller of forwardWebSocket is
\* handed a message of another request's response, and what it has received of
\* its own is a prefix of what the provider sent, although the receiver juggles
\* a queue of one and a reservation (client_websocket.go:34-36, 59-60, 236-249).
OwnResponseInOrder ==
  \A r \in Requests :
    LET own(i) == i \in DOMAIN delivered[r] /\ delivered[r][i].owner = r
        n(i) == delivered[r][i].n
    IN /\ \A i \in DOMAIN delivered[r] : delivered[r][i].owner \in {r, None}
       /\ \A i, j \in DOMAIN delivered[r] : own(i) /\ own(j) /\ i < j => n(i) < n(j)
       /\ \A i \in DOMAIN delivered[r] : own(i) =>
            \A k \in 1..n(i) : \E j \in 1..i : own(j) /\ n(j) = k

Leasing(r) == pc[r] \in {"write", "prefix", "prefixBlocked", "body", "bodyBlocked"}

\* Busy connections never multiplex: two requests in progress never hold the
\* same pooled connection, the pool agrees on who holds it, and it never exceeds
\* providerWebSocketLimit, dials in progress included.
ExclusiveLease ==
  /\ \A r, s \in Requests : r # s /\ Leasing(r) /\ Leasing(s) => conn[r] # conn[s]
  /\ \A r \in Requests : Leasing(r) /\ Alive(conn[r]) => holder[conn[r]] = r /\ busy[conn[r]]
  /\ Cardinality(entries) <= Limit

\* After the capture of a request is finished its receiver records nothing more
\* for it: Close and fail() wait for the receiver, and a reused connection's
\* receiver has moved on (client_websocket.go:684-690).
CaptureSealed == [][\A r \in Requests : finished[r] => observed'[r] = observed[r]]_vars

\* A leased connection leaves the pool only at shutdown, by its own receiver or
\* by the request that holds it: a late idle timer, an eviction or another
\* request's late cancellation never takes it away.
OnlyHolderDiscards ==
  [][\A c \in entries \ entries' :
       busy[c] /\ holder[c] # None =>
         \/ closed'
         \/ reader'[c] # reader[c]
         \/ <<pc'[holder[c]], after'[holder[c]], readErr'[holder[c]]>>
              # <<pc[holder[c]], after[holder[c]], readErr[holder[c]]>>]_vars

\* Every request ends: no wakeup of a parked request is lost, no Close waits for
\* a receiver that never exits, no receiver blocks on a queue nobody empties.
AllFinish == \A r \in Requests : <>(pc[r] = "done")
=============================================================================
